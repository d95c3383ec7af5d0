--------------------------- MODULE HttpConnection ---------------------------
(***************************************************************************)
(* One slot of the connection array serving HTTP: pipelined requests come  *)
(* out of the receive buffer one by one, responses go out through a bounded *)
(* backlog that EPOLLOUT drains, and a file is read by portico_aio, whole  *)
(* or chunk by chunk, while the connection is parked.  The slot may be     *)
(* closed and reused while a read is still in flight.                      *)
(*                                                                         *)
(* Everything here runs on the event thread that owns the slot.  Beside it *)
(* are the client, the kernel's socket buffers and edge-triggered epoll,   *)
(* and portico_aio, which is used by its contract (ReadService): a read    *)
(* that is accepted completes once, in any order.  The steps of a handler  *)
(* are actions of their own, because the client does not wait for them.    *)
(*                                                                         *)
(* A request is a number of units of input; a response is a number of      *)
(* items of output.  TLS, which only replaces recv and send, and the bytes *)
(* are left out.                                                           *)
(***************************************************************************)
EXTENDS Integers, Sequences, FiniteSets

CONSTANTS
  Requests,     (* what a client may ask: records with kind ("plain",      *)
                (* "file", "stream", "bad", "huge", or "ws", a WebSocket   *)
                (* handshake, and "frame", what may follow one), keep      *)
                (* (keep-alive) and units (how much input it takes)        *)
  Chunks,       (* chunks of a streamed file                               *)
  RecvMax,      (* units the receive buffer may grow to (hard_max)         *)
  OutMax,       (* items the backlog may grow to (PORTICO_OUT_MAX)         *)
  SocketMax,    (* items the socket takes without the client reading       *)
  MaxRequests,  (* bound: requests sent, over all lives of the slot        *)
  MaxLives,     (* bound: connections served by the slot                   *)
  Refusals,     (* whether portico_aio_pread may refuse a read             *)
  ReadErrors,   (* whether a file read may fail or come up short           *)
  AllocFails,   (* whether malloc and realloc may fail                     *)
  NULL

(* The read contexts: one per request at most.                             *)
Contexts == 1..MaxRequests

ASSUME HttpAssumption ==
  /\ \A q \in Requests :
       q.kind \in {"plain", "file", "stream", "bad", "huge", "ws", "frame"}
  /\ \A q \in Requests : q.keep \in BOOLEAN /\ q.units \in Nat \ {0}
  /\ Chunks \in Nat \ {0}
  /\ RecvMax \in Nat \ {0}
  /\ OutMax \in Nat \ {0}
  /\ SocketMax \in Nat \ {0}
  /\ MaxRequests \in Nat
  /\ MaxLives \in Nat
  /\ Refusals \in BOOLEAN
  /\ ReadErrors \in BOOLEAN
  /\ AllocFails \in BOOLEAN
  /\ NULL \notin Contexts

VARIABLES
  conn,      (* state, generation, http_async_inflight, file_stream and    *)
             (* out_close_when_drained of the slot                         *)
  recv,      (* the receive buffer                                         *)
  stuck,     (* whether the last read left input that no event announces   *)
  out,       (* the backlog: out_buffer from out_sent to out_used          *)
  armed,     (* whether epoll watches for EPOLLOUT                         *)
  edge,      (* whether epoll has something to report                      *)
  ctx,       (* the http_file_ctx_t and http_stream_t on the heap          *)
  reads,     (* contexts with a read in flight                             *)
  pc,        (* where the event thread is                                  *)
  mode,      (* what a -1 makes the caller do: close "now", or let the     *)
             (* backlog "drain" first                                      *)
  writable,  (* the event it is handling also says EPOLLOUT                *)
  socket,    (* units sent by the client and not received                  *)
  rest,      (* what is left to send of the client's current request       *)
  asked,     (* the requests of this client, in order                      *)
  total,     (* requests of all clients                                    *)
  gone,      (* the client has closed its side                             *)
  room,      (* items the socket would take now                            *)
  wire       (* items handed to the socket in this life                    *)

clientVars == <<socket, rest, asked, total, gone>>
outVars == <<out, armed, edge, room, wire>>
vars == <<conn, recv, stuck, outVars, ctx, reads, pc, mode, writable, clientVars>>

NoContext == [st |-> "none", kind |-> "none", gen |-> 0, id |-> 0, off |-> 0, keep |-> FALSE,
              reading |-> FALSE]
Fresh(g, st) ==
  [st |-> st, gen |-> g, inflight |-> FALSE, stream |-> NULL, closing |-> FALSE]

Init ==
  /\ conn = Fresh(0, "closed")
  /\ recv = <<>>
  /\ stuck = FALSE
  /\ out = <<>>
  /\ armed = FALSE
  /\ edge = FALSE
  /\ ctx = [c \in Contexts |-> NoContext]
  /\ reads = {}
  /\ pc = "poll"
  /\ mode = "now"
  /\ writable = FALSE
  /\ socket = <<>>
  /\ rest = <<>>
  /\ asked = <<>>
  /\ total = 0
  /\ gone = FALSE
  /\ room = SocketMax
  /\ wire = <<>>

-----------------------------------------------------------------------------
(* The client and the socket.                                              *)

(* process_new_connection has given the slot to a client.                  *)
NewConnection ==
  /\ pc = "poll"
  /\ conn.st = "closed"
  /\ conn.gen < MaxLives
  /\ conn' = Fresh(conn.gen + 1, "connecting")
  /\ UNCHANGED <<recv, stuck, outVars, ctx, reads, pc, mode, writable, clientVars>>

Connected == conn.st # "closed" /\ ~gone

(* A handshake is the first thing a client sends, and frames follow it: it *)
(* may not even wait for the answer.  (A handshake later on is a request   *)
(* like any other.)                                                        *)
ClientAsks(q) ==
  /\ Connected
  /\ rest = <<>>
  /\ total < MaxRequests
  /\ q.kind = "ws" => asked = <<>>
  /\ q.kind = "frame" <=> asked # <<>> /\ asked[1].kind = "ws"
  /\ total' = total + 1
  /\ asked' = Append(asked, q)
  /\ rest' = [i \in 1..q.units |-> [id |-> Len(asked) + 1, last |-> i = q.units]]
  /\ UNCHANGED <<conn, recv, stuck, outVars, ctx, reads, pc, mode, writable, socket, gone>>

(* Each arrival of data is an edge.                                        *)
ClientSends ==
  /\ Connected
  /\ rest # <<>>
  /\ socket' = Append(socket, Head(rest))
  /\ rest' = Tail(rest)
  /\ edge' = TRUE
  /\ UNCHANGED <<conn, recv, stuck, out, armed, room, wire, ctx, reads, pc, mode, writable, asked,
                 total, gone>>

ClientReads ==
  /\ Connected
  /\ room < SocketMax
  /\ room' = room + 1
  /\ edge' = (edge \/ armed)
  /\ UNCHANGED <<conn, recv, stuck, out, armed, wire, ctx, reads, pc, mode, writable, clientVars>>

ClientCloses ==
  /\ Connected
  /\ gone' = TRUE
  /\ edge' = TRUE
  /\ UNCHANGED <<conn, recv, stuck, out, armed, room, wire, ctx, reads, pc, mode, writable, socket,
                 rest, asked, total>>

(* epoll_ctl(EPOLL_CTL_MOD) looks at the socket again.                     *)
SetEpollout(want) ==
  /\ armed' = want
  /\ edge' = (edge \/ socket # <<>> \/ gone \/ (want /\ room > 0))

-----------------------------------------------------------------------------
(* Output.                                                                 *)

(* portico_conn_send: behind a backlog, else into the socket, else (part   *)
(* of it) into the backlog.                                                *)
ConnSend(item) ==
  \/ /\ out # <<>>
     /\ Len(out) < OutMax
     /\ out' = Append(out, item)
     /\ UNCHANGED <<armed, edge, room, wire>>
  \/ /\ out = <<>>
     /\ room > 0
     /\ wire' = Append(wire, item)
     /\ room' = room - 1
     /\ UNCHANGED <<out, armed, edge>>
  \/ /\ out = <<>>
     /\ room = 0
     /\ out' = <<item>>
     /\ SetEpollout(TRUE)
     /\ UNCHANGED <<room, wire>>

(* It fails when the backlog is full or the client has gone, or there is   *)
(* no memory for the backlog, or for the response in the first place.      *)
ConnSendFails ==
  /\ \/ Len(out) >= OutMax
     \/ out = <<>> /\ gone
     \/ AllocFails
  /\ UNCHANGED outVars

(* The part of a response an item is: chunk 0 of a stream is its header.   *)
Whole == -1
ErrorReply == -2
Item(k, part) == [gen |-> conn.gen, id |-> k, part |-> part]

-----------------------------------------------------------------------------
(* Ways out of a handler.                                                  *)

(* The event thread goes on: with the EPOLLOUT of the same event, or back  *)
(* to epoll_wait.                                                          *)
Return0 ==
  /\ pc' = IF writable THEN "write" ELSE "poll"
  /\ writable' = FALSE
  /\ UNCHANGED mode

Goto(label) == pc' = label /\ UNCHANGED <<mode, writable>>

(* A -1, at the caller: "now" closes; "drain" is what the completions and  *)
(* stream_start do.                                                        *)
Fail ==
  /\ pc = "fail"
  /\ IF mode = "drain" /\ out # <<>>
     THEN conn' = [conn EXCEPT !.closing = TRUE] /\ Return0
     ELSE UNCHANGED conn /\ Goto("close")
  /\ UNCHANGED <<recv, stuck, outVars, ctx, reads, clientVars>>

(* http_finish_close: the backlog first.                                   *)
FinishClose ==
  /\ pc = "finish"
  /\ IF out # <<>>
     THEN conn' = [conn EXCEPT !.closing = TRUE] /\ Return0
     ELSE UNCHANGED conn /\ Goto("close")
  /\ UNCHANGED <<recv, stuck, outVars, ctx, reads, clientVars>>

FreeContext(c) == [ctx EXCEPT ![c].st = "freed"]

(* Mutant: the stream is freed although its read is in flight.             *)
StreamAbortAlways ==
  ctx' = IF conn.stream # NULL THEN FreeContext(conn.stream) ELSE ctx

(* portico_http_stream_abort: a read in flight keeps its context.          *)
StreamAbort ==
  ctx' = IF conn.stream # NULL /\ ~ctx[conn.stream].reading
         THEN FreeContext(conn.stream) ELSE ctx

(* close_connection, the last reference: the slot is wiped.                *)
Wipe ==
  /\ conn' = Fresh(conn.gen, "closed")
  /\ StreamAbort
  /\ recv' = <<>> /\ out' = <<>> /\ wire' = <<>>
  /\ stuck' = FALSE
  /\ armed' = FALSE /\ edge' = FALSE
  /\ room' = SocketMax
  /\ socket' = <<>> /\ rest' = <<>> /\ asked' = <<>> /\ gone' = FALSE
  /\ pc' = "poll"
  /\ mode' = "now"
  /\ writable' = FALSE
  /\ UNCHANGED <<reads, total>>

Close == pc = "close" /\ Wipe

(* The reaper found it idle for too long, or the client hung up.           *)
Reap == pc = "poll" /\ conn.st # "closed" /\ Wipe

-----------------------------------------------------------------------------
(* Input.                                                                  *)

(* epoll_wait reports what is ready by now; an event closes "now".         *)
Event ==
  /\ pc = "poll"
  /\ conn.st # "closed"
  /\ edge
  /\ edge' = FALSE
  /\ mode' = "now"
  /\ LET in == socket # <<>> \/ gone
         can == armed /\ room > 0
     IN  /\ pc' = IF in THEN "read" ELSE IF can THEN "write" ELSE "poll"
         /\ writable' = (in /\ can)
  /\ UNCHANGED <<conn, recv, stuck, out, armed, room, wire, ctx, reads, clientVars>>

(* portico_http_event: nothing is read any more behind a final response.   *)
IgnoreInput ==
  /\ pc = "read"
  /\ conn.st = "http" /\ conn.closing
  /\ Return0
  /\ UNCHANGED <<conn, recv, stuck, outVars, ctx, reads, clientVars>>

Taken == IF Len(socket) <= RecvMax - Len(recv) THEN Len(socket) ELSE RecvMax - Len(recv)

(* Mutant: requests are served although a file is on its way.              *)
ReadProcessesParked ==
  /\ pc = "read"
  /\ conn.st # "open" /\ ~(conn.st = "http" /\ conn.closing)
  /\ recv' = recv \o SubSeq(socket, 1, Taken)
  /\ socket' = SubSeq(socket, Taken + 1, Len(socket))
  /\ stuck' = (socket' # <<>>)
  /\ IF gone /\ Len(recv') < RecvMax
     THEN Goto("fail")
     ELSE Goto(IF conn.st = "connecting" THEN "dispatch" ELSE "process")
  /\ UNCHANGED <<conn, outVars, ctx, reads, rest, asked, total, gone>>

(* read_into_recv: up to EAGAIN, or until the buffer is full, and then the *)
(* rest stays in the socket with its edge consumed.  The end of the input  *)
(* closes the connection, read or not.  A parked connection only collects  *)
(* its input.                                                              *)
ReadIntoRecv ==
  /\ pc = "read"
  /\ conn.st # "open" /\ ~(conn.st = "http" /\ conn.closing)
  /\ recv' = recv \o SubSeq(socket, 1, Taken)
  /\ socket' = SubSeq(socket, Taken + 1, Len(socket))
  /\ stuck' = (socket' # <<>>)
  /\ IF gone /\ Len(recv') < RecvMax
     THEN Goto("fail")
     ELSE IF conn.inflight THEN Return0
     ELSE Goto(IF conn.st = "connecting" THEN "dispatch" ELSE "process")
  /\ UNCHANGED <<conn, outVars, ctx, reads, rest, asked, total, gone>>

(* The receive buffer cannot be grown.                                     *)
ReadFails ==
  /\ pc = "read"
  /\ ~(conn.st = "http" /\ conn.closing)
  /\ AllocFails
  /\ Goto("fail")
  /\ UNCHANGED <<conn, recv, stuck, outVars, ctx, reads, clientVars>>

IsHandshake == recv # <<>> /\ asked[Head(recv).id].kind = "ws"

Complete == \E i \in 1..Len(recv) : recv[i].last

(* portico_initial_dispatch waits for the whole header, which is the first *)
(* unit of a request and all there is of a handshake; a header that is too *)
(* long is answered before the connection becomes an HTTP one.             *)
InitialDispatch ==
  /\ pc = "dispatch"
  /\ ~(IsHandshake /\ Complete)
  /\ IF recv # <<>> /\ asked[Head(recv).id].kind = "huge"
     THEN UNCHANGED conn /\ Goto("error")
     ELSE IF recv = <<>> \/ IsHandshake
     THEN UNCHANGED conn /\ Return0
     ELSE conn' = [conn EXCEPT !.st = "http"] /\ Goto("process")
  /\ UNCHANGED <<recv, stuck, outVars, ctx, reads, clientVars>>

Request == asked[Head(recv).id]
Consumed == SubSeq(recv, Request.units + 1, Len(recv))

(* ws_process_handshake writes straight to the socket: the 101, or why the *)
(* handshake is refused, or not all of it.                                 *)
Handshake ==
  /\ pc = "dispatch"
  /\ IsHandshake /\ Complete
  /\ \/ /\ room > 0
        /\ wire' = Append(wire, Item(1, Whole))
        /\ room' = room - 1
        /\ conn' = [conn EXCEPT !.st = "open"]
        /\ recv' = Consumed
        /\ stuck' = (stuck \/ Consumed # <<>>)
        /\ Return0
     \/ /\ room > 0
        /\ wire' = Append(wire, Item(1, ErrorReply))
        /\ room' = room - 1
        /\ Goto("fail")
        /\ UNCHANGED <<conn, recv, stuck>>
     \/ /\ gone \/ AllocFails
        /\ Goto("fail")
        /\ UNCHANGED <<conn, recv, stuck, room, wire>>
  /\ UNCHANGED <<out, armed, edge, ctx, reads, clientVars>>

(* handle_connection_read of an open WebSocket, by its contract            *)
(* (WsConnection): it reads all there is and serves every whole frame.     *)
ReadFrames ==
  /\ pc = "read"
  /\ conn.st = "open"
  /\ LET all == recv \o socket
         partial == {n \in 0..Len(all) : \A i \in n + 1..Len(all) : ~all[i].last}
         served == CHOOSE n \in partial : \A m \in partial : n <= m
     IN  recv' = SubSeq(all, served + 1, Len(all))
  /\ socket' = <<>>
  /\ stuck' = FALSE
  /\ IF gone THEN Goto("fail") ELSE Return0
  /\ UNCHANGED <<conn, outVars, ctx, reads, rest, asked, total, gone>>

-----------------------------------------------------------------------------
(* process_http_buffer.                                                    *)

Unanswerable ==
  /\ recv # <<>>
  /\ Request.kind = "huge" \/ (Request.kind = "bad" /\ Complete)

ProcessIncomplete ==
  /\ pc = "process"
  /\ ~Unanswerable
  /\ ~Complete
  /\ Return0
  /\ UNCHANGED <<conn, recv, stuck, outVars, ctx, reads, clientVars>>

ProcessBad ==
  /\ pc = "process"
  /\ Unanswerable
  /\ Goto("error")
  /\ UNCHANGED <<conn, recv, stuck, outVars, ctx, reads, clientVars>>

(* http_error_close.                                                       *)
ErrorClose ==
  /\ pc = "error"
  /\ \/ ConnSend(Item(Head(recv).id, ErrorReply)) /\ Goto("finish")
     \/ ConnSendFails /\ Goto("fail")
  /\ UNCHANGED <<conn, recv, stuck, ctx, reads, clientVars>>

Processing(kind) ==
  /\ pc = "process"
  /\ Complete
  /\ Request.kind = kind

(* The handler of the application answers, or a 500 does.                  *)
ProcessPlain ==
  /\ Processing("plain")
  /\ \/ /\ ConnSend(Item(Head(recv).id, Whole))
        /\ recv' = Consumed
        /\ Goto(IF Request.keep THEN "process" ELSE "finish")
     \/ /\ ConnSendFails
        /\ Goto("fail")
        /\ UNCHANGED recv
  /\ UNCHANGED <<conn, stuck, ctx, reads, clientVars>>

(* A context for the request at the head of the buffer.                    *)
NewContext(c) == ctx[c].st = "none" /\ \A b \in 1..c - 1 : ctx[b].st # "none"
ContextOf(kind, reading) ==
  [st |-> "live", kind |-> kind, gen |-> conn.gen, id |-> Head(recv).id, off |-> 0,
   keep |-> Request.keep, reading |-> reading]

(* http_serve_file parks the connection ...                                *)
ServeFile ==
  /\ Processing("file")
  /\ \E c \in Contexts :
       /\ NewContext(c)
       /\ ctx' = [ctx EXCEPT ![c] = ContextOf("file", TRUE)]
       /\ reads' = reads \union {c}
  /\ conn' = [conn EXCEPT !.inflight = TRUE]
  /\ recv' = Consumed
  /\ Return0
  /\ UNCHANGED <<stuck, outVars, clientVars>>

(* ... or reads the file itself: file_emit on the spot.  A failed read is  *)
(* answered with a 500, sent or not.                                       *)
ServeFileInline ==
  /\ Processing("file")
  /\ Refusals
  /\ recv' = Consumed
  /\ \/ /\ ConnSend(Item(Head(recv).id, Whole))
        /\ Goto(IF Request.keep THEN "process" ELSE "finish")
     \/ /\ ReadErrors
        /\ ConnSend(Item(Head(recv).id, ErrorReply))
        /\ Goto("finish")
     \/ /\ ConnSendFails
        /\ Goto("finish")
  /\ UNCHANGED <<conn, stuck, ctx, reads, clientVars>>

(* http_serve_file or stream_start without memory for a context: a 500,    *)
(* and the request stays in the buffer.                                    *)
ServeFileFails ==
  /\ Processing("file") \/ Processing("stream")
  /\ AllocFails
  /\ Goto("error")
  /\ UNCHANGED <<conn, recv, stuck, outVars, ctx, reads, clientVars>>

(* stream_start: the header first, then the chunks; from here on a -1      *)
(* lets the backlog drain.                                                 *)
StreamStart ==
  /\ Processing("stream")
  /\ recv' = Consumed
  /\ \/ /\ ConnSend(Item(Head(recv).id, 0))
        /\ \E c \in Contexts :
             /\ NewContext(c)
             /\ ctx' = [ctx EXCEPT ![c] = ContextOf("stream", FALSE)]
             /\ conn' = [conn EXCEPT !.inflight = TRUE, !.stream = c]
        /\ pc' = "advance"
        /\ mode' = "drain"
        /\ UNCHANGED writable
     \/ /\ ConnSendFails
        /\ Goto("fail")
        /\ UNCHANGED <<ctx, conn>>
  /\ UNCHANGED <<stuck, reads, clientVars>>

-----------------------------------------------------------------------------
(* Streams.                                                                *)

Stream == ctx[conn.stream]

(* Mutant: the connection stays parked.                                    *)
DetachParked ==
  /\ ctx' = FreeContext(conn.stream)
  /\ conn' = [conn EXCEPT !.stream = NULL]

(* stream_free, detached from the connection.                              *)
Detach ==
  /\ ctx' = FreeContext(conn.stream)
  /\ conn' = [conn EXCEPT !.stream = NULL, !.inflight = FALSE]

(* stream_advance with nothing to do: a read is in flight, or the socket   *)
(* is backed up.                                                           *)
AdvanceWaits ==
  /\ pc = "advance"
  /\ Stream.reading \/ out # <<>>
  /\ Return0
  /\ UNCHANGED <<conn, recv, stuck, outVars, ctx, reads, clientVars>>

(* stream_finish.                                                          *)
StreamFinish ==
  /\ pc = "advance"
  /\ ~Stream.reading
  /\ Stream.off = Chunks
  /\ Detach
  /\ Goto(IF Stream.keep THEN "process" ELSE "finish")
  /\ UNCHANGED <<recv, stuck, outVars, reads, clientVars>>

CanAdvance == pc = "advance" /\ ~Stream.reading /\ out = <<>> /\ Stream.off < Chunks

AdvanceReads ==
  /\ CanAdvance
  /\ ctx' = [ctx EXCEPT ![conn.stream].reading = TRUE]
  /\ reads' = reads \union {conn.stream}
  /\ Return0
  /\ UNCHANGED <<conn, recv, stuck, outVars, clientVars>>

(* The read was refused: the chunk is read and sent on the spot.           *)
AdvanceInline ==
  /\ CanAdvance
  /\ Refusals
  /\ \/ /\ ConnSend(Item(Stream.id, Stream.off + 1))
        /\ ctx' = [ctx EXCEPT ![conn.stream].off = @ + 1]
        /\ UNCHANGED <<conn, pc, mode, writable>>
     \/ /\ ConnSendFails
        /\ Detach
        /\ Goto("fail")
     \/ /\ ReadErrors
        /\ Detach
        /\ Goto("fail")
        /\ UNCHANGED outVars
  /\ UNCHANGED <<recv, stuck, reads, clientVars>>

-----------------------------------------------------------------------------
(* The completions, fired by portico_aio_drain.                            *)

Completes(c, kind) ==
  /\ pc = "poll"
  /\ c \in reads
  /\ ctx[c].kind = kind
  /\ reads' = reads \ {c}

(* The slot-reuse guard.                                                   *)
Current(c) ==
  /\ ctx[c].gen = conn.gen
  /\ conn.st = "http"
  /\ ctx[c].kind = "stream" => conn.stream = c

(* A file or chunk whose connection is gone.                               *)
DropCompletion(c) ==
  /\ \E kind \in {"file", "stream"} : Completes(c, kind)
  /\ ~Current(c)
  /\ ctx' = FreeContext(c)
  /\ UNCHANGED <<conn, recv, stuck, outVars, pc, mode, writable, clientVars>>

(* Mutant: the requests that waited are forgotten.                         *)
FileCompleteOnly(c) ==
  /\ Completes(c, "file")
  /\ Current(c)
  /\ conn' = [conn EXCEPT !.inflight = FALSE]
  /\ ctx' = FreeContext(c)
  /\ mode' = "drain"
  /\ \/ ConnSend(Item(ctx[c].id, Whole)) /\ pc' = IF ctx[c].keep THEN "poll" ELSE "fail"
     \/ ConnSendFails /\ pc' = "fail"
  /\ UNCHANGED <<recv, stuck, writable, clientVars>>

(* file_read_complete: the response, then the requests that waited.        *)
FileComplete(c) ==
  /\ Completes(c, "file")
  /\ Current(c)
  /\ conn' = [conn EXCEPT !.inflight = FALSE]
  /\ ctx' = FreeContext(c)
  /\ mode' = "drain"
  /\ \/ /\ ConnSend(Item(ctx[c].id, Whole))
        /\ pc' = IF ctx[c].keep THEN "process" ELSE "fail"
     \/ /\ ReadErrors
        /\ ConnSend(Item(ctx[c].id, ErrorReply))
        /\ pc' = "fail"
     \/ /\ ConnSendFails
        /\ pc' = "fail"
  /\ UNCHANGED <<recv, stuck, writable, clientVars>>

(* stream_chunk_complete.                                                  *)
ChunkComplete(c) ==
  /\ Completes(c, "stream")
  /\ Current(c)
  /\ mode' = "drain"
  /\ \/ /\ ConnSend(Item(ctx[c].id, ctx[c].off + 1))
        /\ ctx' = [ctx EXCEPT ![c].off = @ + 1, ![c].reading = FALSE]
        /\ pc' = "advance"
        /\ UNCHANGED conn
     \/ /\ ConnSendFails
        /\ Detach
        /\ pc' = "fail"
     \/ /\ ReadErrors
        /\ Detach
        /\ pc' = "fail"
        /\ UNCHANGED outVars
  /\ UNCHANGED <<recv, stuck, writable, clientVars>>

(* portico_conn_on_writable: drain, and when the backlog is gone disarm,   *)
(* go on with the stream, or finish a deferred close.                      *)
OnWritable ==
  /\ pc = "write"
  /\ LET n == IF Len(out) <= room THEN Len(out) ELSE room
     IN  /\ wire' = wire \o SubSeq(out, 1, n)
         /\ room' = room - n
         /\ out' = SubSeq(out, n + 1, Len(out))
         /\ IF n < Len(out)
            THEN /\ UNCHANGED <<armed, edge, mode, writable>>
                 /\ pc' = "poll"
            ELSE /\ SetEpollout(FALSE)
                 /\ mode' = "now"
                 /\ UNCHANGED writable
                 /\ pc' = IF conn.stream # NULL THEN "advance"
                          ELSE IF conn.closing THEN "close" ELSE "poll"
  /\ UNCHANGED <<conn, recv, stuck, ctx, reads, clientVars>>

WriteFails ==
  /\ pc = "write"
  /\ gone
  /\ out # <<>>
  /\ Goto("close")
  /\ UNCHANGED <<conn, recv, stuck, outVars, ctx, reads, clientVars>>

-----------------------------------------------------------------------------
Client ==
  \/ \E q \in Requests : ClientAsks(q)
  \/ ClientSends \/ ClientReads \/ ClientCloses

Completion == \E c \in Contexts : DropCompletion(c) \/ FileComplete(c) \/ ChunkComplete(c)

Handler ==
  \/ Fail \/ FinishClose \/ Close
  \/ Event \/ IgnoreInput \/ ReadIntoRecv \/ ReadFails \/ InitialDispatch
  \/ Handshake \/ ReadFrames
  \/ ProcessIncomplete \/ ProcessBad \/ ErrorClose \/ ProcessPlain
  \/ ServeFile \/ ServeFileInline \/ ServeFileFails \/ StreamStart
  \/ AdvanceWaits \/ StreamFinish \/ AdvanceReads \/ AdvanceInline
  \/ OnWritable \/ WriteFails

Next == NewConnection \/ Client \/ Completion \/ Handler \/ Reap

Spec == Init /\ [][Next]_vars

(* The event thread goes on, reads complete, and a client that has begun a *)
(* request sends the rest of it and reads its socket.  Clients need not    *)
(* ask, nor close, and the reaper need not come.                           *)
FairSpec ==
  Spec /\ WF_vars(Handler) /\ WF_vars(Completion) /\ WF_vars(ClientSends)
       /\ WF_vars(ClientReads)

-----------------------------------------------------------------------------
(* Properties.                                                             *)

(* The items of the response to the k-th request: the whole of it or an    *)
(* error; or the header and the chunks, perhaps cut short.                 *)
First(item) == item.part \in {Whole, ErrorReply, 0}
Final(item) == item.part = ErrorReply \/ ~asked[item.id].keep
Last(item) == item.part \in {Whole, ErrorReply, Chunks}
Follows(a, b) ==
  IF Last(a) THEN ~Final(a) /\ b.id = a.id + 1 /\ First(b)
  ELSE b.id = a.id /\ b.part = a.part + 1

(* What goes to the client, sent or in the backlog, is the responses to    *)
(* its own requests, in the order of the requests, none twice, none mixed  *)
(* with another, and nothing behind a final one: whatever is pipelined,    *)
(* parked, streamed, backlogged or left over from another client.          *)
ResponsesInOrder ==
  LET all == wire \o out
  IN  /\ \A i \in 1..Len(all) : all[i].gen = conn.gen
      /\ all # <<>> => all[1].id = 1 /\ First(all[1])
      /\ \A i \in 1..Len(all) - 1 : Follows(all[i], all[i + 1])

(* Output never gets stuck: between events a backlog is watched for with   *)
(* EPOLLOUT, and a deferred close has a backlog whose end will trigger it. *)
BacklogWatched ==
  pc = "poll" /\ conn.st # "closed" =>
    /\ out # <<>> => armed
    /\ conn.closing => out # <<>>

(* A parked connection has somebody to wake it: its read is in flight, or  *)
(* its stream waits for a backlog to drain.                                *)
ParkedHasWaker ==
  pc = "poll" /\ conn.inflight =>
    \/ \E c \in reads : Current(c)
    \/ conn.stream # NULL /\ out # <<>>

(* "Either way the fd/buffer are released exactly once": a live context is *)
(* owned by the read in flight or by the connection, and nothing that was  *)
(* freed is still referred to.                                             *)
ContextOwned ==
  \A c \in Contexts :
    /\ ctx[c].st = "live" <=> c \in reads \/ c = conn.stream
    /\ c \in reads => ctx[c].st = "live" /\ ctx[c].reading

(* Every request that a client has sent in full is answered, and every     *)
(* frame behind a handshake is taken, unless the connection is closed, the *)
(* client has gone or the last read left input that no event announces:    *)
(* again and again none is left.  That is left in two ways only: the       *)
(* buffer was full (hard_max) before the socket was empty, or frames came  *)
(* in together with the handshake they follow.                             *)
Sent(k) == k <= Len(asked) /\ (k = Len(asked) => rest = <<>>)
Answered(k) == \E i \in 1..Len(wire) : wire[i].id = k /\ Last(wire[i])
Unread(k) == \E i \in 1..Len(recv \o socket) : (recv \o socket)[i].id = k
Served(k) == IF asked[k].kind = "frame" THEN ~Unread(k) ELSE Answered(k)
EveryRequestAnswered ==
  []<>(conn.st = "closed" \/ gone \/ stuck
       \/ \A k \in 1..MaxRequests : Sent(k) => Served(k))
=============================================================================
