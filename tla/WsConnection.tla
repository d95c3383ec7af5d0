---------------------------- MODULE WsConnection ----------------------------
(***************************************************************************)
(* One open WebSocket connection, from the end of its handshake to its     *)
(* close: frames are cut out of the receive buffer, messages put together  *)
(* from their fragments, control frames answered, and data frames sent     *)
(* through the backlog that EPOLLOUT drains.                               *)
(*                                                                         *)
(* Everything runs on the event thread that owns the connection; beside it *)
(* are the client and the kernel's socket buffers.  The client sends its   *)
(* first frame after it has seen the 101, so the receive buffer starts     *)
(* empty.                                                                  *)
(*                                                                         *)
(* A payload is a sequence of bytes, and a frame is one unit of header and *)
(* its payload.  Whatever the server sends is counted in frames of two     *)
(* units, so that a write can end in the middle of one.                    *)
(***************************************************************************)
EXTENDS Integers, Sequences, FiniteSets, Utf8

CONSTANTS
  Frames,       (* frames a client may send: op, fin, body and bad (a      *)
                (* reserved bit set, or not masked)                        *)
  Outgoing,     (* what the application may ask for: a subset of           *)
                (* {"data", "ping", "close"}                               *)
  MaxMessage,   (* max_message_size                                        *)
  ControlMax,   (* largest payload of a control frame (125 bytes)          *)
  Slack,        (* what hard_max adds to max_message_size (64 bytes)       *)
  FragInit,     (* least size of a fragment buffer (64 KB)                 *)
  RecvInit,     (* initial capacity of the receive buffer                  *)
  OutMax,       (* units the backlog may hold (PORTICO_OUT_MAX)            *)
  SocketMax,    (* units the socket takes without the client reading       *)
  MaxTraffic,   (* bound: frames of the client and requests of the         *)
                (* application                                             *)
  AllocFails,   (* whether malloc and realloc may fail                     *)
  NULL

HeaderLen == 1

ASSUME WsAssumption ==
  /\ \A f \in Frames : f.op \in {"text", "binary", "cont", "ping", "pong", "close",
                              "other", "otherControl"}
  /\ \A f \in Frames : f.fin \in BOOLEAN /\ f.bad \in BOOLEAN /\ f.body \in Seq(0..255)
  /\ MaxMessage \in Nat /\ ControlMax \in Nat /\ FragInit \in Nat
  /\ Slack \in Nat /\ Slack >= HeaderLen
  /\ RecvInit \in Nat \ {0}
  /\ OutMax \in Nat
  /\ SocketMax \in Nat \ {0}
  /\ MaxTraffic \in Nat
  /\ AllocFails \in BOOLEAN

VARIABLES
  st,         (* the connection's state: open, closing or closed           *)
  frag,       (* the message being put together (frame_parser), or NULL    *)
  cap,        (* recv_buffer_capacity                                      *)
  used,       (* recv_buffer_used                                          *)
  stream,     (* frames of the client that are not processed               *)
  avail,      (* units in the socket, to be received                       *)
  unsent,     (* units of the stream that are still on their way           *)
  sent,       (* all frames of the client                                  *)
  gone,       (* the client has closed its side                            *)
  edge,       (* whether epoll has something to report                     *)
  armed,      (* whether epoll watches for EPOLLOUT                        *)
  out,        (* the backlog                                               *)
  room,       (* units the socket would take now                           *)
  wire,       (* units handed to the socket                                *)
  queued,     (* data frames of the application that were encoded          *)
  asked,      (* requests of the application so far                        *)
  slow,       (* a data frame did not go into the backlog                  *)
  delivered,  (* messages given to the application                         *)
  oom,        (* an allocation has failed                                  *)
  pc,         (* where the event thread is                                 *)
  writable    (* the event it is handling also says EPOLLOUT               *)

inVars == <<frag, cap, used, stream>>
clientVars == <<avail, unsent, sent, gone>>
outVars == <<armed, out, room, wire>>
appVars == <<queued, asked, slow, delivered, oom>>
vars == <<st, inVars, clientVars, edge, outVars, appVars, pc, writable>>

Init ==
  /\ st = "open"
  /\ frag = NULL
  /\ cap = RecvInit /\ used = 0
  /\ stream = <<>> /\ avail = 0 /\ unsent = 0 /\ sent = <<>> /\ gone = FALSE
  /\ edge = FALSE /\ armed = FALSE
  /\ out = <<>> /\ room = SocketMax /\ wire = <<>>
  /\ queued = 0 /\ asked = 0 /\ slow = FALSE /\ delivered = <<>> /\ oom = FALSE
  /\ pc = "poll" /\ writable = FALSE

FrameLen(f) == HeaderLen + Len(f.body)

-----------------------------------------------------------------------------
(* The client, and the socket between.                                     *)

ClientSends(f) ==
  /\ st # "closed" /\ ~gone
  /\ unsent = 0
  /\ Len(sent) + asked < MaxTraffic
  /\ sent' = Append(sent, f)
  /\ stream' = Append(stream, f)
  /\ unsent' = FrameLen(f)
  /\ UNCHANGED <<st, frag, cap, used, avail, gone, edge, outVars, appVars, pc, writable>>

(* A unit arrives; a segment, any number of them, need not end where a     *)
(* frame does.                                                             *)
Arrive ==
  /\ st # "closed"
  /\ unsent > 0
  /\ unsent' = unsent - 1
  /\ avail' = avail + 1
  /\ edge' = TRUE
  /\ UNCHANGED <<st, inVars, sent, gone, outVars, appVars, pc, writable>>

ClientCloses ==
  /\ st # "closed" /\ ~gone
  /\ unsent = 0
  /\ gone' = TRUE
  /\ edge' = TRUE
  /\ UNCHANGED <<st, inVars, avail, unsent, sent, outVars, appVars, pc, writable>>

ClientReads ==
  /\ st # "closed"
  /\ room < SocketMax
  /\ room' = room + 1
  /\ edge' = (edge \/ armed)
  /\ UNCHANGED <<st, inVars, clientVars, armed, out, wire, appVars, pc, writable>>

-----------------------------------------------------------------------------
(* Output.                                                                 *)

Lesser(a, b) == IF a < b THEN a ELSE b
Greater(a, b) == IF a < b THEN b ELSE a

(* The two units of a frame.  Data frames are numbered.                    *)
Units(kind, id) == <<[kind |-> kind, id |-> id, part |-> 1],
                     [kind |-> kind, id |-> id, part |-> 2]>>

(* A write to the socket: what fits goes out.  Nothing does once the       *)
(* connection is shut down.                                                *)
Fits(units) == IF st = "closing" THEN 0 ELSE Lesser(Len(units), room)
Written(units) ==
  /\ wire' = wire \o SubSeq(units, 1, Fits(units))
  /\ room' = room - Fits(units)

(* ws_send_ping_frame, ws_send_pong_frame, ws_send_close_frame: one write, *)
(* past the backlog, unless there is no memory to encode the frame.        *)
SendControl(kind, code) ==
  /\ \/ Written(Units(kind, code))
     \/ AllocFails /\ UNCHANGED <<room, wire>>
  /\ UNCHANGED <<armed, out>>
ControlSent == Len(wire') = Len(wire) + 2

(* Mutant: a frame goes to the socket although a backlog exists.           *)
ConnSendPassing(units) ==
  /\ Len(out) + Len(units) - Fits(units) <= OutMax
  /\ Written(units)
  /\ out' = out \o SubSeq(units, Fits(units) + 1, Len(units))
  /\ armed' = (armed \/ out' # <<>>)
  /\ edge' = (edge \/ (out' # <<>> /\ (avail > 0 \/ gone)))

(* portico_conn_send of a data frame: behind the backlog, or what fits     *)
(* into the socket and the rest into the backlog.                          *)
ConnSend(units) ==
  \/ /\ out # <<>>
     /\ Len(out) + Len(units) <= OutMax
     /\ out' = out \o units
     /\ UNCHANGED <<armed, edge, room, wire>>
  \/ /\ out = <<>>
     /\ Len(units) - Fits(units) <= OutMax
     /\ Written(units)
     /\ out' = SubSeq(units, Fits(units) + 1, Len(units))
     /\ armed' = (armed \/ out' # <<>>)
     /\ edge' = (edge \/ (out' # <<>> /\ (avail > 0 \/ gone)))

(* It fails where the backlog would pass its cap or cannot grow; the part  *)
(* that fitted is already sent.                                            *)
ConnSendFails(units) ==
  /\ IF out # <<>>
     THEN /\ AllocFails \/ Len(out) + Len(units) > OutMax
          /\ UNCHANGED <<room, wire>>
     ELSE /\ Fits(units) < Len(units)
          /\ AllocFails \/ Len(units) - Fits(units) > OutMax
          /\ Written(units)
  /\ UNCHANGED <<armed, out>>

-----------------------------------------------------------------------------
(* Messages of the application, taken from the queue between two events.   *)

Asking(what) ==
  /\ pc = "poll" /\ st # "closed"
  /\ what \in Outgoing
  /\ Len(sent) + asked < MaxTraffic
  /\ asked' = asked + 1

(* ws_buffered_data_send, behind the check of the state in                 *)
(* ws_mpsc_process_messages.                                               *)
SendData ==
  /\ Asking("data")
  /\ st = "open"
  /\ ConnSend(Units("data", queued + 1))
  /\ queued' = queued + 1
  /\ UNCHANGED <<st, inVars, clientVars, slow, delivered, oom, pc, writable>>

(* A frame is dropped behind a slow consumer, or for lack of memory.       *)
DropData ==
  /\ Asking("data")
  /\ st = "closing" \/ AllocFails
  /\ UNCHANGED <<st, inVars, clientVars, edge, outVars, queued, slow, delivered, oom, pc,
                 writable>>

(* Mutant: the slow consumer is only marked.                               *)
SlowConsumerMarked ==
  /\ Asking("data")
  /\ st = "open"
  /\ ConnSendFails(Units("data", queued + 1))
  /\ queued' = queued + 1
  /\ slow' = TRUE
  /\ st' = "closing"
  /\ UNCHANGED <<inVars, clientVars, edge, delivered, oom, pc, writable>>

(* The cap is passed: the consumer is shut down, which epoll reports.      *)
SlowConsumer ==
  /\ Asking("data")
  /\ st = "open"
  /\ ConnSendFails(Units("data", queued + 1))
  /\ queued' = queued + 1
  /\ slow' = TRUE
  /\ st' = "closing"
  /\ edge' = TRUE
  /\ UNCHANGED <<inVars, clientVars, delivered, oom, pc, writable>>

(* process_ping_message, process_pong_message: a short write is only       *)
(* logged.                                                                 *)
SendPing ==
  /\ Asking("ping")
  /\ SendControl("ping", 0)
  /\ UNCHANGED <<st, inVars, clientVars, edge, queued, slow, delivered, oom, pc, writable>>

(* The slot is wiped (ws_connection_cleanup, cleanup_fragmentation_state). *)
Wiped ==
  /\ st' = "closed"
  /\ frag' = NULL
  /\ cap' = RecvInit /\ used' = 0
  /\ stream' = <<>> /\ avail' = 0 /\ unsent' = 0 /\ sent' = <<>> /\ gone' = FALSE
  /\ out' = <<>> /\ armed' = FALSE /\ edge' = FALSE
  /\ pc' = "poll" /\ writable' = FALSE

Normal == 1000

(* process_close_message: the frame, with the application's own code (1000 *)
(* stands for it), sent or not, and the connection is closed.              *)
SendClose ==
  /\ Asking("close")
  /\ \/ Written(Units("close", Normal))
     \/ AllocFails /\ UNCHANGED <<room, wire>>
  /\ Wiped
  /\ UNCHANGED <<queued, slow, delivered, oom>>

-----------------------------------------------------------------------------
(* One event of the event loop.                                            *)

(* handle_connection_read reads frames in state open only; EPOLLHUP closes *)
(* a connection that is shut down all the same.                            *)
Event ==
  /\ pc = "poll" /\ st # "closed"
  /\ edge
  /\ edge' = FALSE
  /\ LET in == avail > 0 \/ gone
         can == armed /\ room > 0
     IN  /\ pc' = CASE st = "closing" -> "close"
                    [] st = "open" /\ in -> "read"
                    [] st = "open" /\ ~in -> IF can THEN "write" ELSE "poll"
         /\ writable' = (st = "open" /\ in /\ can)
  /\ UNCHANGED <<st, inVars, clientVars, outVars, appVars>>

(* close_connection.                                                       *)
Close ==
  /\ pc = "close"
  /\ Wiped
  /\ UNCHANGED <<room, wire, appVars>>

(* The client resets, or an idle connection is reaped.                     *)
Reap ==
  /\ pc = "poll" /\ st # "closed"
  /\ Wiped
  /\ UNCHANGED <<room, wire, appVars>>

Return0 == pc' = (IF writable THEN "write" ELSE "poll") /\ writable' = FALSE
Goto(label) == pc' = label /\ UNCHANGED writable

(* portico_conn_on_writable.                                               *)
OnWritable ==
  /\ pc = "write"
  /\ Written(out)
  /\ out' = SubSeq(out, Fits(out) + 1, Len(out))
  /\ armed' = (out' # <<>>)
  /\ edge' = (edge \/ (out' = <<>> /\ (avail > 0 \/ gone)))
  /\ Goto("poll")
  /\ UNCHANGED <<st, inVars, clientVars, appVars>>

WriteFails ==
  /\ pc = "write"
  /\ gone
  /\ Goto("close")
  /\ UNCHANGED <<st, inVars, clientVars, edge, outVars, appVars>>

-----------------------------------------------------------------------------
(* handle_websocket_frames.                                                *)

(* The receive buffer grows to the largest frame and its header.           *)
HardMax == Greater(MaxMessage + Slack, cap)

OutOfMemory == AllocFails /\ oom' = TRUE

(* A full buffer doubles, up to the limit.                                 *)
GrowBuffer ==
  /\ pc = "read"
  /\ used = cap
  /\ IF cap >= HardMax
     THEN used' = 0 /\ Goto("close") /\ UNCHANGED <<cap, oom>>
     ELSE \/ cap' = Lesser(2 * cap, HardMax) /\ UNCHANGED <<used, pc, writable, oom>>
          \/ OutOfMemory /\ Goto("close") /\ UNCHANGED <<cap, used>>
  /\ UNCHANGED <<st, frag, stream, clientVars, edge, outVars, queued, asked, slow, delivered>>

(* recv returned what has arrived, as far as there is space: parse it.     *)
ReadSome ==
  /\ pc = "read"
  /\ avail > 0 /\ used < cap
  /\ used' = used + Lesser(avail, cap - used)
  /\ avail' = avail - Lesser(avail, cap - used)
  /\ Goto("parse")
  /\ UNCHANGED <<st, frag, cap, stream, unsent, sent, gone, edge, outVars, appVars>>

(* recv returned 0, or EAGAIN.                                             *)
ReadNothing ==
  /\ pc = "read"
  /\ used < cap
  /\ avail = 0
  /\ IF gone THEN Goto("close") ELSE Return0
  /\ UNCHANGED <<st, inVars, clientVars, edge, outVars, appVars>>

(* ws_parse_frame of the frame at the front: a header it refuses, a frame  *)
(* that is not complete, or the frame.                                     *)
BadHeader(f) == f.bad \/ Len(f.body) > MaxMessage

(* Mutant: one read for an event.                                          *)
ParseStopsReturns ==
  /\ pc = "parse"
  /\ \/ /\ used > 0 /\ BadHeader(Head(stream))
        /\ used' = 0
        /\ Goto("close")
     \/ /\ used > 0 => /\ stream # <<>>
                       /\ ~BadHeader(Head(stream))
                       /\ used < FrameLen(Head(stream))
        /\ Return0
        /\ UNCHANGED used
  /\ UNCHANGED <<st, frag, cap, stream, clientVars, edge, outVars, appVars>>

ParseStops ==
  /\ pc = "parse"
  /\ \/ /\ used > 0 /\ BadHeader(Head(stream))
        /\ used' = 0
        /\ Goto("close")
     \/ /\ used > 0 => /\ stream # <<>>
                       /\ ~BadHeader(Head(stream))
                       /\ used < FrameLen(Head(stream))
        /\ Goto("read")
        /\ UNCHANGED used
  /\ UNCHANGED <<st, frag, cap, stream, clientVars, edge, outVars, appVars>>

(* A complete frame is taken out of the buffer and processed.              *)
Parsed(f) ==
  /\ pc = "parse"
  /\ stream # <<>>
  /\ f = Head(stream)
  /\ ~BadHeader(f)
  /\ used >= FrameLen(f)
  /\ stream' = Tail(stream)
  /\ used' = used - FrameLen(f)
  /\ UNCHANGED <<cap, clientVars, edge, queued, asked, slow>>

-----------------------------------------------------------------------------
(* process_websocket_frame.                                                *)

IsControl(f) == f.op \in {"ping", "pong", "close", "otherControl"}
BadControl(f) == IsControl(f) /\ (~f.fin \/ Len(f.body) > ControlMax)

(* What a frame may leave alone, and how its handler returns: 0 goes on    *)
(* with the next frame, -1 closes, and so does the connection that failed, *)
(* after a Close frame.                                                    *)
Silent == UNCHANGED <<st, outVars>>
Undelivered == UNCHANGED <<delivered, oom>>
Ok == Silent /\ Goto("parse")
Error == Silent /\ Goto("close")
FailConnection(code) == st' = "closing" /\ SendControl("close", code) /\ Goto("close")

ProtocolError == 1002
InvalidUtf8 == 1007
MessageTooBig == 1009

Deliver(op, data) ==
  /\ delivered' = Append(delivered, [op |-> op, data |-> data])
  /\ UNCHANGED oom

(* A control frame that is cut in pieces or too long; an unknown opcode.   *)
Malformed(f) ==
  /\ Parsed(f)
  /\ BadControl(f) \/ f.op \in {"other", "otherControl"}
  /\ IF BadControl(f) THEN FailConnection(ProtocolError) ELSE Error
  /\ Undelivered
  /\ UNCHANGED frag

(* A ping that cannot be answered closes the connection.                   *)
Ping(f) ==
  /\ Parsed(f)
  /\ f.op = "ping" /\ ~BadControl(f)
  /\ SendControl("pong", 0)
  /\ Goto(IF ControlSent THEN "parse" ELSE "close")
  /\ Undelivered
  /\ UNCHANGED <<st, frag>>

Pong(f) ==
  /\ Parsed(f)
  /\ f.op = "pong" /\ ~BadControl(f)
  /\ Ok
  /\ Undelivered
  /\ UNCHANGED frag

(* ws_close_code_valid.                                                    *)
CloseCodeValid(code) == code \in 3000..4999 \cup 1000..1003 \cup 1007..1011

(* The code a Close frame is answered with: its own (none, if it has none) *)
(* or an error.                                                            *)
CloseReply(f) ==
  LET code == 256 * f.body[1] + f.body[2]
      reason == SubSeq(f.body, 3, Len(f.body))
  IN  CASE Len(f.body) = 0 -> 0
        [] Len(f.body) = 1 -> ProtocolError
        [] Len(f.body) > 1 -> IF ~CloseCodeValid(code) THEN ProtocolError
                              ELSE IF ~Utf8Valid(reason) THEN InvalidUtf8
                              ELSE code

(* Mutant: the handler of a Close frame returns 0.                         *)
CloseFrameGoesOn(f) ==
  /\ Parsed(f)
  /\ f.op = "close" /\ ~BadControl(f)
  /\ SendControl("close", CloseReply(f))
  /\ Goto("parse")
  /\ Undelivered
  /\ UNCHANGED <<st, frag>>

(* Answered one way or the other, the connection is closed.                *)
CloseFrame(f) ==
  /\ Parsed(f)
  /\ f.op = "close" /\ ~BadControl(f)
  /\ FailConnection(CloseReply(f))
  /\ Undelivered
  /\ UNCHANGED frag

-----------------------------------------------------------------------------
(* Messages and their fragments.                                           *)

IsText(op, data) == op = "text" => Utf8Valid(data)

(* A new message in the middle of another, or a continuation of none.      *)
OutOfPlace(f) ==
  /\ Parsed(f)
  /\ \/ f.op \in {"text", "binary"} /\ frag # NULL
     \/ f.op = "cont" /\ frag = NULL
  /\ Error
  /\ Undelivered
  /\ UNCHANGED frag

(* process_fragmented_frame, the first fragment.                           *)
FirstFragment(f) ==
  /\ Parsed(f)
  /\ f.op \in {"text", "binary"} /\ ~f.fin
  /\ frag = NULL
  /\ \/ /\ frag' = [op |-> f.op, data |-> f.body,
                    size |-> IF Len(f.body) > FragInit THEN 2 * Len(f.body) ELSE FragInit]
        /\ Ok
        /\ Undelivered
     \/ OutOfMemory /\ Error /\ UNCHANGED <<frag, delivered>>

(* process_fragmented_frame, a message in one frame.                       *)
WholeMessage(f) ==
  /\ Parsed(f)
  /\ f.op \in {"text", "binary"} /\ f.fin
  /\ frag = NULL
  /\ \/ IsText(f.op, f.body) /\ Deliver(f.op, f.body) /\ Ok
     \/ IsText(f.op, f.body) /\ f.op = "text" /\ OutOfMemory /\ Error /\ UNCHANGED delivered
     \/ ~IsText(f.op, f.body) /\ FailConnection(InvalidUtf8) /\ Undelivered
  /\ UNCHANGED frag

(* The message would outgrow max_message_size.                             *)
TooBig(f) == Len(f.body) > MaxMessage - Len(frag.data)

Continued(f) == Parsed(f) /\ f.op = "cont" /\ frag # NULL

ContinuationTooBig(f) ==
  /\ Continued(f)
  /\ TooBig(f)
  /\ frag' = NULL
  /\ FailConnection(MessageTooBig)
  /\ Undelivered

(* The buffer cannot be grown for it.                                      *)
ContinuationRefused(f) ==
  /\ Continued(f)
  /\ ~TooBig(f) /\ Len(frag.data) + Len(f.body) > frag.size
  /\ frag' = NULL
  /\ OutOfMemory
  /\ Error
  /\ UNCHANGED delivered

Joined(f) == frag.data \o f.body

MoreFragments(f) ==
  /\ Continued(f)
  /\ ~TooBig(f) /\ ~f.fin
  /\ frag' = [frag EXCEPT !.data = Joined(f),
                          !.size = IF Len(Joined(f)) > @ THEN 2 * Len(Joined(f)) ELSE @]
  /\ Ok
  /\ Undelivered

(* Mutant: only the last fragment is looked at.                            *)
LastFragmentAlone(f) ==
  /\ Continued(f)
  /\ ~TooBig(f) /\ f.fin
  /\ frag' = NULL
  /\ IF IsText(frag.op, f.body)
     THEN Deliver(frag.op, Joined(f)) /\ Ok
     ELSE FailConnection(InvalidUtf8) /\ Undelivered

(* The message is complete; a text that cannot be copied is dropped.       *)
LastFragment(f) ==
  /\ Continued(f)
  /\ ~TooBig(f) /\ f.fin
  /\ frag' = NULL
  /\ \/ IsText(frag.op, Joined(f)) /\ Deliver(frag.op, Joined(f)) /\ Ok
     \/ frag.op = "text" /\ IsText(frag.op, Joined(f)) /\ OutOfMemory /\ Ok
        /\ UNCHANGED delivered
     \/ ~IsText(frag.op, Joined(f)) /\ FailConnection(InvalidUtf8) /\ Undelivered

-----------------------------------------------------------------------------
Client ==
  \/ \E f \in Frames : ClientSends(f)
  \/ Arrive
  \/ ClientCloses
  \/ ClientReads

Application == SendData \/ DropData \/ SlowConsumer \/ SendPing \/ SendClose

Receive == GrowBuffer \/ ReadSome \/ ReadNothing \/ ParseStops

Process ==
  \E f \in Frames :
    \/ Malformed(f) \/ Ping(f) \/ Pong(f) \/ CloseFrame(f)
    \/ OutOfPlace(f) \/ FirstFragment(f) \/ WholeMessage(f)
    \/ ContinuationTooBig(f) \/ ContinuationRefused(f)
    \/ MoreFragments(f) \/ LastFragment(f)

Thread == Event \/ Close \/ OnWritable \/ WriteFails \/ Receive \/ Process

Next == Client \/ Application \/ Thread \/ Reap

Spec == Init /\ [][Next]_vars

(* The event thread keeps running.  Nothing is asked of the client.        *)
FairSpec == Spec /\ WF_vars(Thread)

-----------------------------------------------------------------------------
Unit == [kind : {"data", "ping", "pong", "close"}, id : Nat, part : 1..2]

(* process_continuation_frame calls it an invariant that                   *)
(* fragment_total_size never passes max_message_size, and relies on it for *)
(* a subtraction of unsigned numbers; and what is put together must fit    *)
(* the buffer it is copied to.                                             *)
FragmentWithinMax ==
  frag # NULL => Len(frag.data) <= MaxMessage /\ Len(frag.data) <= frag.size

(* handle_websocket_frames never gives up for lack of space: a frame that  *)
(* ws_parse_frame would accept fits into the buffer, header and all.       *)
RoomForAnyFrame == ~(pc = "read" /\ used = cap /\ cap >= HardMax)

(* What the messages among the first n frames are, from the frames alone:  *)
(* a message begins with a text or binary frame and ends with the first    *)
(* frame from there on that is not a control frame and has FIN set.        *)
Ends(i, j) ==
  /\ ~IsControl(sent[j]) /\ sent[j].fin
  /\ \A k \in i..(j - 1) : IsControl(sent[k]) \/ ~sent[k].fin
Begun(n) == {i \in 1..n : sent[i].op \in {"text", "binary"} /\ \E j \in i..n : Ends(i, j)}
Content(i) ==
  LET last == CHOOSE j \in i..Len(sent) : Ends(i, j)
      upto[k \in (i - 1)..last] ==
        IF k < i THEN <<>>
        ELSE upto[k - 1] \o (IF IsControl(sent[k]) THEN <<>> ELSE sent[k].body)
  IN  [op |-> sent[i].op, data |-> upto[last]]

(* However the bytes were cut into segments, reads and fragments, and      *)
(* whatever control frames came between, the application has been given    *)
(* exactly the messages of the frames that were taken, in their order, and *)
(* no text that is not UTF-8.                                              *)
MessagesExact ==
  /\ \A m \in 1..Len(delivered) : IsText(delivered[m].op, delivered[m].data)
  /\ st = "open" /\ pc # "close" /\ ~oom =>
       LET begun == Begun(Len(sent) - Len(stream))
       IN  /\ Len(delivered) = Cardinality(begun)
           /\ \A i \in begun :
                delivered[Cardinality({k \in begun : k <= i})] = Content(i)

(* The units of data on the wire, and the n-th unit of all there are.      *)
DataAt == {i \in 1..Len(wire) : wire[i].kind = "data"}
Rank(i) == Cardinality({j \in DataAt : j <= i})
NthData(n) == [kind |-> "data", id |-> (n + 1) \div 2, part |-> 2 - (n % 2)]

(* The data frames of the application reach the wire whole, in order and   *)
(* without a gap, whatever is still in the backlog; only a consumer that   *)
(* is disconnected for being slow misses some.                             *)
DataInOrder ==
  /\ \A i \in DataAt : wire[i] = NthData(Rank(i))
  /\ \A k \in 1..Len(out) : out[k] = NthData(Cardinality(DataAt) + k)
  /\ st = "open" => Cardinality(DataAt) + Len(out) = 2 * queued

(* A Close frame is the last thing that is sent, and it is sent once.      *)
NothingAfterClose ==
  \A i, j \in 1..Len(wire) :
    i < j /\ wire[i].kind = "close" => wire[i].part = 1 /\ wire[j] = [wire[i] EXCEPT !.part = 2]

(* A Close frame with which the server answers or fails the connection     *)
(* never carries a code that ws_close_code_valid would not accept from the *)
(* client ("code 1005 is never put on the wire").                          *)
CloseCodesValid ==
  \A i \in 1..Len(wire) :
    wire[i].kind = "close" => wire[i].id = 0 \/ CloseCodeValid(wire[i].id)

FrameReady == stream # <<>> /\ used + avail >= FrameLen(Head(stream))

(* No frame that has arrived waits for ever in the socket or the buffer:   *)
(* again and again all of them have been taken, or the connection is       *)
(* closed.  The edge-triggered loop reads up to EAGAIN.                    *)
InputServed == []<>(~FrameReady \/ st = "closed")

(* A consumer that missed a frame is disconnected.                         *)
SlowConsumerGoes == slow ~> (st = "closed")

(* What is sent is a sequence of whole frames (the last one may be cut).   *)
WireIsFrames ==
  \A i \in 1..Len(wire) :
    /\ wire[i].part = 2 => i > 1 /\ wire[i - 1] = [wire[i] EXCEPT !.part = 1]
    /\ wire[i].part = 1 /\ i < Len(wire) => wire[i + 1] = [wire[i] EXCEPT !.part = 2]

=============================================================================
