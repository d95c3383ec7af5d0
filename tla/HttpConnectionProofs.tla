------------------------ MODULE HttpConnectionProofs ------------------------
(***************************************************************************)
(* Proofs about HttpConnection, for any requests, buffer sizes and numbers *)
(* of lives of the slot: who owns the context of a file read, who wakes a  *)
(* parked connection, who drains a backlog, and that the responses keep    *)
(* the order of the requests.                                              *)
(***************************************************************************)
EXTENDS HttpConnection, SequenceTheorems, TLAPS

Connections ==
  [st : {"connecting", "http", "open", "closed"}, gen : Nat, inflight : BOOLEAN,
   stream : Contexts \union {NULL}, closing : BOOLEAN]

Shapes ==
  /\ conn \in Connections
  /\ ctx = [c \in Contexts |-> ctx[c]]
  /\ \A c \in Contexts :
       ctx[c] = [st |-> ctx[c].st, kind |-> ctx[c].kind, gen |-> ctx[c].gen, id |-> ctx[c].id,
                 off |-> ctx[c].off, keep |-> ctx[c].keep, reading |-> ctx[c].reading]
  /\ \A c \in Contexts : ctx[c].reading \in BOOLEAN
  /\ reads \subseteq Contexts
  /\ writable \in BOOLEAN

(* Where the event thread can be.  It serves a request only on a           *)
(* connection that is not parked.                                          *)
Places ==
  /\ pc # "poll" => conn.st # "closed"
  /\ pc = "dispatch" => conn.st = "connecting"
  /\ pc \in {"process", "advance"} => conn.st = "http"
  /\ pc = "process" => ~conn.inflight
  /\ pc = "advance" => conn.stream # NULL
  /\ conn.st # "http" => ~conn.inflight
  /\ conn.stream # NULL => conn.inflight

(* The contexts.  The stream of the connection is a live one of this life; *)
(* a read of this life is the chunk of that stream or the one file the     *)
(* connection is parked for; a read of an earlier life is out of date.     *)
Mine(c) == ctx[c].gen = conn.gen /\ conn.st # "closed"

Reading ==
  /\ ContextOwned
  /\ \A c \in reads : ctx[c].gen \in Nat /\ ctx[c].gen <= conn.gen
  /\ conn.stream # NULL =>
       /\ ctx[conn.stream].kind = "stream" /\ ctx[conn.stream].gen = conn.gen
       /\ ctx[conn.stream].reading <=> conn.stream \in reads
  /\ \A c \in reads : Mine(c) =>
       \/ ctx[c].kind = "stream" /\ conn.stream = c
       \/ ctx[c].kind = "file" /\ conn.inflight /\ conn.stream = NULL
  /\ \A b, c \in reads : Mine(b) /\ Mine(c) => b = c

(* A parked connection waits for a file, for a chunk, or for the backlog   *)
(* of its stream; a stream that waits for neither is about to go on.       *)
Waking ==
  /\ conn.inflight /\ conn.stream = NULL =>
       \E c \in reads : ctx[c].gen = conn.gen /\ ctx[c].kind = "file"
  /\ conn.stream # NULL /\ conn.stream \notin reads /\ out = <<>> => pc = "advance"

Inv == Shapes /\ Places /\ Reading /\ Waking

-----------------------------------------------------------------------------
(* The backlog is a sequence.                                              *)
IsSeq(s) == \E T : s \in Seq(T)

LEMMA AppendIsSeq ==
  ASSUME NEW s, NEW x, IsSeq(s)
  PROVE  IsSeq(Append(s, x)) /\ Append(s, x) # <<>>
<1>1. PICK T : s \in Seq(T)
  BY DEF IsSeq
<1>2. s \in Seq(T \union {x})
  BY <1>1
<1> QED BY <1>2 DEF IsSeq

LEMMA RestIsSeq ==
  ASSUME NEW s, IsSeq(s), NEW n \in Nat, n <= Len(s)
  PROVE  /\ IsSeq(SubSeq(s, n + 1, Len(s)))
         /\ n < Len(s) => SubSeq(s, n + 1, Len(s)) # <<>>
<1>1. PICK T : s \in Seq(T)
  BY DEF IsSeq
<1>2. SubSeq(s, n + 1, Len(s)) \in Seq(T)
  BY <1>1
<1>3. Len(SubSeq(s, n + 1, Len(s))) = Len(s) - n /\ Len(s) \in Nat
  BY <1>1
<1>4. ASSUME n < Len(s), SubSeq(s, n + 1, Len(s)) = <<>> PROVE FALSE
  <2>1. Len(SubSeq(s, n + 1, Len(s))) = 0
    BY <1>4
  <2> QED BY <1>3, <1>4, <2>1
<1> QED BY Zenon, <1>2, <1>4 DEF IsSeq

LEMMA NoneIsSeq == IsSeq(<<>>) /\ \A x : IsSeq(<<x>>)
<1>1. <<>> \in Seq({})
  OBVIOUS
<1>2. ASSUME NEW x PROVE IsSeq(<<x>>)
  <2>1. <<x>> \in Seq({x})
    OBVIOUS
  <2> QED BY Zenon, <2>1 DEF IsSeq
<1> QED BY <1>1, <1>2 DEF IsSeq

-----------------------------------------------------------------------------
LEMMA InitInv == Init => Inv
<1> SUFFICES ASSUME Init PROVE Inv
  OBVIOUS
<1>1. Shapes
  BY Zenon DEF Init, Fresh, NoContext, Shapes, Connections
<1>2. Places /\ Waking
  BY DEF Init, Fresh, Places, Waking
<1>3. Reading
  BY HttpAssumption DEF Init, Fresh, NoContext, Reading, Mine, ContextOwned
<1> QED BY <1>1, <1>2, <1>3 DEF Inv

(* Nothing but the buffers, the client and the place of the thread changes. *)
LEMMA Untouched ==
  ASSUME Inv, UNCHANGED <<conn, ctx, reads>>, Places', writable' \in BOOLEAN,
         out' = <<>> => out = <<>>,
         pc = "advance" => pc' = "advance" \/ out' # <<>> \/ conn.stream \in reads
  PROVE  Inv'
<1>1. Shapes'
  BY DEF Inv, Shapes
<1>2. Reading'
  BY DEF Inv, Reading, Mine, ContextOwned
<1>3. Waking'
  BY DEF Inv, Waking
<1> QED BY <1>1, <1>2, <1>3 DEF Inv

LEMMA SendKeeps ==
  ASSUME NEW item, ConnSend(item) \/ ConnSendFails
  PROVE  out' = <<>> => out = <<>>
  BY DEF ConnSend, ConnSendFails, outVars

LEMMA ClientInv ==
  ASSUME Inv, Client
  PROVE  Inv'
<1>1. /\ UNCHANGED <<conn, ctx, reads, pc, writable, out>>
  BY DEF Client, ClientAsks, ClientSends, ClientReads, ClientCloses, outVars
<1>2. Places'
  BY <1>1 DEF Inv, Places
<1> QED BY <1>1, <1>2, Untouched DEF Inv, Shapes

(* The connection changes its state, but stays one, or is to be closed.    *)
LEMMA Restated ==
  ASSUME Inv, UNCHANGED <<ctx, reads, out>>, Places', writable' \in BOOLEAN, conn.st # "closed",
         pc # "advance",
         conn' \in Connections, conn'.st # "closed", conn'.gen = conn.gen,
         conn'.inflight = conn.inflight, conn'.stream = conn.stream
  PROVE  Inv'
<1>1. Shapes'
  BY DEF Inv, Shapes
<1>2. Reading'
  BY DEF Inv, Reading, Mine, ContextOwned
<1>3. Waking'
  BY DEF Inv, Waking
<1> QED BY <1>1, <1>2, <1>3 DEF Inv

LEMMA InputInv ==
  ASSUME Inv,
         \/ Event \/ IgnoreInput \/ ReadIntoRecv \/ ReadFails \/ ReadFrames
         \/ ProcessIncomplete \/ ProcessBad \/ ServeFileFails \/ AdvanceWaits \/ WriteFails
  PROVE  Inv'
<1> USE DEF Return0, Goto, outVars, clientVars
<1>1. UNCHANGED <<conn, ctx, reads, out>>
  BY ZenonT(30) DEF Event, IgnoreInput, ReadIntoRecv, ReadFails, ReadFrames, ProcessIncomplete, ProcessBad,
     ServeFileFails, AdvanceWaits, WriteFails
<1>2. writable' \in BOOLEAN
  BY ZenonT(30)
  DEF Inv, Shapes, Event, IgnoreInput, ReadIntoRecv, ReadFails, ReadFrames, ProcessIncomplete,
     ProcessBad, ServeFileFails, AdvanceWaits, WriteFails
<1>3. Places'
  BY ZenonT(30), <1>1
  DEF Inv, Shapes, Connections, Places, Event, IgnoreInput, ReadIntoRecv, ReadFails, ReadFrames,
     ProcessIncomplete, ProcessBad, ServeFileFails, AdvanceWaits, WriteFails, Processing
<1>4. pc = "advance" => out # <<>> \/ conn.stream \in reads
  BY ZenonT(30) DEF Inv, Shapes, Places, Reading, Event, IgnoreInput, ReadIntoRecv, ReadFails, ReadFrames,
     ProcessIncomplete, ProcessBad, ServeFileFails, AdvanceWaits, WriteFails, Processing, Stream
<1> QED BY SMTT(30), <1>1, <1>2, <1>3, <1>4, Untouched

LEMMA AnswerInv ==
  ASSUME Inv, ErrorClose \/ ProcessPlain \/ ServeFileInline
  PROVE  Inv'
<1> USE DEF Goto
<1>1. UNCHANGED <<conn, ctx, reads, writable>> /\ pc # "advance"
  BY DEF ErrorClose, ProcessPlain, ServeFileInline, Processing
<1>2. Places'
  BY <1>1 DEF Inv, Places, ErrorClose, ProcessPlain, ServeFileInline, Processing
<1>3. out' = <<>> => out = <<>>
  BY SendKeeps DEF ErrorClose, ProcessPlain, ServeFileInline
<1> QED BY <1>1, <1>2, <1>3, Untouched DEF Inv, Shapes

LEMMA StateInv ==
  ASSUME Inv, Fail \/ FinishClose \/ InitialDispatch \/ Handshake
  PROVE  Inv'
<1> USE DEF Return0, Goto, outVars, clientVars
<1>1. UNCHANGED <<ctx, reads, out>> /\ pc # "advance" /\ conn.st # "closed" /\ writable' \in BOOLEAN
  BY Zenon DEF Inv, Shapes, Places, Fail, FinishClose, InitialDispatch, Handshake
<1>2. /\ conn' \in Connections /\ conn'.st # "closed" /\ conn'.gen = conn.gen
      /\ conn'.inflight = conn.inflight /\ conn'.stream = conn.stream
  <2>1. \/ conn' = conn
        \/ conn' = [conn EXCEPT !.closing = TRUE]
        \/ conn' = [conn EXCEPT !.st = "http"]
        \/ conn' = [conn EXCEPT !.st = "open"]
    BY DEF Fail, FinishClose, InitialDispatch, Handshake
  <2> QED BY ZenonT(30), <1>1, <2>1 DEF Inv, Shapes, Connections
<1>3. Places'
  BY DEF Inv, Shapes, Connections, Places, Fail, FinishClose, InitialDispatch, Handshake
<1> QED BY <1>1, <1>2, <1>3, Restated

(* The slot is wiped: a read that is in flight keeps its context.          *)
LEMMA WipeInv ==
  ASSUME Inv, Wipe
  PROVE  Inv'
<1>1. Shapes'
  <2>1. conn' \in Connections /\ reads' = reads /\ writable' \in BOOLEAN
    BY Zenon DEF Inv, Shapes, Connections, Wipe, Fresh
  <2>2. ctx' = ctx \/ \E c \in Contexts : ctx' = [ctx EXCEPT ![c].st = "freed"]
    BY Zenon DEF Inv, Shapes, Connections, Wipe, StreamAbort, FreeContext
  <2> QED BY <2>1, <2>2 DEF Inv, Shapes
<1>2. Places' /\ Waking'
  BY HttpAssumption DEF Wipe, Fresh, Places, Waking
<1>3. conn'.stream = NULL /\ conn'.st = "closed" /\ conn'.gen = conn.gen /\ reads' = reads
  BY DEF Wipe, Fresh
<1>4. \A c \in Contexts :
        /\ ctx'[c].gen = ctx[c].gen /\ ctx'[c].reading = ctx[c].reading
        /\ ctx'[c].st = IF c = conn.stream /\ c \notin reads THEN "freed" ELSE ctx[c].st
  <2>1. conn.stream # NULL => conn.stream \in Contexts
    BY DEF Inv, Shapes, Connections
  <2>2. conn.stream # NULL => (ctx[conn.stream].reading <=> conn.stream \in reads)
    BY DEF Inv, Reading
  <2> QED BY <2>1, <2>2, HttpAssumption DEF Inv, Shapes, Wipe, StreamAbort, FreeContext
<1>5. ContextOwned'
  BY <1>3, <1>4, HttpAssumption DEF Inv, Reading, ContextOwned
<1>6. Reading'
  BY SMTT(30), <1>3, <1>4, <1>5 DEF Inv, Shapes, Reading, Mine
<1> QED BY <1>1, <1>2, <1>6 DEF Inv

LEMMA NewConnectionInv ==
  ASSUME Inv, NewConnection
  PROVE  Inv'
<1> USE DEF NewConnection, outVars, clientVars
<1>1. Shapes'
  BY DEF Inv, Shapes, Connections, Fresh
<1>2. Places' /\ Waking'
  BY DEF Fresh, Places, Waking
<1>3. /\ conn.stream = NULL /\ conn'.stream = NULL /\ conn'.gen = conn.gen + 1 /\ conn.gen \in Nat
      /\ UNCHANGED <<ctx, reads>>
  BY DEF Inv, Shapes, Connections, Places, Fresh
<1>4. ContextOwned'
  BY <1>3 DEF Inv, Reading, ContextOwned
<1>5. \A c \in reads' : ctx'[c].gen \in Nat /\ ctx'[c].gen < conn'.gen
  BY <1>3 DEF Inv, Reading
<1>6. Reading'
  BY <1>3, <1>4, <1>5 DEF Reading, Mine
<1> QED BY <1>1, <1>2, <1>6 DEF Inv

LEMMA ServeFileInv ==
  ASSUME Inv, ServeFile
  PROVE  Inv'
<1>1. PICK c \in Contexts :
        /\ ctx[c].st = "none"
        /\ ctx' = [ctx EXCEPT ![c] = ContextOf("file", TRUE)]
        /\ reads' = reads \union {c}
  BY Zenon DEF ServeFile, NewContext
<1>2. conn.st = "http" /\ ~conn.inflight /\ conn.stream = NULL
  BY DEF ServeFile, Processing, Inv, Places
<1>3. \A b \in reads : ctx[b].gen # conn.gen /\ b # c
  BY SMTT(30), <1>1, <1>2, HttpAssumption DEF Inv, Reading, Mine, ContextOwned, Shapes
<1>4. /\ conn' \in Connections /\ conn'.st = "http" /\ conn'.inflight /\ conn'.stream = NULL
      /\ conn'.gen = conn.gen
  BY Zenon, <1>2 DEF ServeFile, Inv, Shapes, Connections
<1>5. /\ ctx'[c].st = "live" /\ ctx'[c].kind = "file" /\ ctx'[c].gen = conn.gen
      /\ ctx'[c].reading = TRUE
      /\ \A b \in Contexts \ {c} : ctx'[b] = ctx[b]
  BY <1>1 DEF Inv, Shapes, ContextOf
<1>6. Shapes'
  BY Zenon, <1>1, <1>4 DEF ServeFile, Return0, Inv, Shapes, ContextOf
<1>7. Places' /\ Waking'
  BY ZenonT(30), <1>1, <1>4, <1>5 DEF ServeFile, Return0, Places, Waking
<1>8. ASSUME NEW b \in Contexts
      PROVE  /\ ctx'[b].st = "live" <=> b \in reads' \/ b = conn'.stream
             /\ b \in reads' => ctx'[b].st = "live" /\ ctx'[b].reading
  <2>1. CASE b = c
    BY Zenon, <1>1, <1>5, <2>1
  <2>2. CASE b # c
    <3>1. ctx'[b] = ctx[b] /\ (b \in reads' <=> b \in reads) /\ b # NULL
      BY <1>1, <1>5, <2>2, HttpAssumption
    <3> QED BY <1>2, <1>4, <3>1 DEF Inv, Reading, ContextOwned
  <2> QED BY <2>1, <2>2
<1>9. ContextOwned'
  BY <1>8 DEF ContextOwned
<1>10. \A b \in reads' : b = c \/ (b \in reads /\ ctx'[b] = ctx[b])
  BY Zenon, <1>1, <1>5 DEF Inv, Shapes
<1>11. ASSUME NEW b \in reads' PROVE ctx'[b].gen \in Nat /\ ctx'[b].gen <= conn'.gen
  <2>1. conn.gen \in Nat
    BY DEF Inv, Shapes, Connections
  <2>2. b \in reads => ctx[b].gen \in Nat /\ ctx[b].gen <= conn.gen
    BY DEF Inv, Reading
  <2>3. CASE b = c
    BY <1>4, <1>5, <2>1, <2>3
  <2>4. CASE b \in reads /\ ctx'[b] = ctx[b]
    BY <1>4, <2>2, <2>4
  <2> QED BY <1>10, <2>3, <2>4
<1>12. \A b \in reads' : ctx'[b].gen = conn'.gen => b = c
  BY <1>3, <1>4, <1>10
<1>13. Reading'
  BY <1>4, <1>5, <1>9, <1>11, <1>12 DEF Reading, Mine
<1> QED BY <1>6, <1>7, <1>13 DEF Inv

(* A stream, or the chunk of one, without a change of owner: what changes  *)
(* in its context is how far it is.                                        *)
LEMMA StreamGoesOn ==
  ASSUME Inv, UNCHANGED conn, conn.stream # NULL, Places', writable' \in BOOLEAN,
         reads' \subseteq Contexts,
         ctx' = [c \in Contexts |-> ctx'[c]],
         \A c \in Contexts \ {conn.stream} : ctx'[c] = ctx[c] /\ (c \in reads' <=> c \in reads),
         /\ ctx'[conn.stream].st = ctx[conn.stream].st
         /\ ctx'[conn.stream].kind = ctx[conn.stream].kind
         /\ ctx'[conn.stream].gen = ctx[conn.stream].gen
         /\ ctx'[conn.stream].reading \in BOOLEAN
         /\ ctx'[conn.stream].reading <=> conn.stream \in reads'
         /\ ctx'[conn.stream] =
              [st |-> ctx'[conn.stream].st, kind |-> ctx'[conn.stream].kind,
               gen |-> ctx'[conn.stream].gen, id |-> ctx'[conn.stream].id,
               off |-> ctx'[conn.stream].off, keep |-> ctx'[conn.stream].keep,
               reading |-> ctx'[conn.stream].reading],
         conn.stream \notin reads' /\ out' = <<>> => pc' = "advance"
  PROVE  Inv'
<1>1. conn.stream \in Contexts /\ ctx[conn.stream].st = "live"
  BY ZenonT(30) DEF Inv, Shapes, Connections, Reading, ContextOwned
<1>2. Shapes'
  <2>1. ASSUME NEW c \in Contexts
        PROVE  /\ ctx'[c] = [st |-> ctx'[c].st, kind |-> ctx'[c].kind, gen |-> ctx'[c].gen,
                             id |-> ctx'[c].id, off |-> ctx'[c].off, keep |-> ctx'[c].keep,
                             reading |-> ctx'[c].reading]
               /\ ctx'[c].reading \in BOOLEAN
    <3>1. CASE c = conn.stream
      BY <3>1
    <3>2. CASE c # conn.stream
      BY ZenonT(30), <3>2 DEF Inv, Shapes
    <3> QED BY <3>1, <3>2
  <2> QED BY ZenonT(30), <2>1 DEF Inv, Shapes
<1>3. ContextOwned'
  BY ZenonT(30), <1>1 DEF Inv, Reading, ContextOwned
<1>4. \A c \in reads' : c \in reads \/ c = conn.stream
  OBVIOUS
<1>5. \A c \in reads' : ctx'[c].gen = ctx[c].gen /\ ctx'[c].kind = ctx[c].kind
  OBVIOUS
<1>6. conn.gen \in Nat
  BY DEF Inv, Shapes, Connections
<1>7. /\ ctx[conn.stream].gen = conn.gen /\ ctx[conn.stream].kind = "stream"
  BY DEF Inv, Reading
<1>8. \A c \in reads' : ctx'[c].gen \in Nat /\ ctx'[c].gen <= conn.gen
  BY SMTT(30), <1>4, <1>5, <1>6, <1>7 DEF Inv, Reading
<1>9. \A c \in reads : ctx[c].gen = conn.gen /\ conn.st # "closed" => c = conn.stream
  BY ZenonT(30) DEF Inv, Reading, Mine
<1>10. \A c \in reads' : ctx'[c].gen = conn.gen /\ conn.st # "closed" => c = conn.stream
  BY <1>4, <1>5, <1>9
<1>11. Reading'
  BY ZenonT(30), <1>3, <1>5, <1>7, <1>8, <1>10 DEF Reading, Mine
<1>12. Waking'
  BY DEF Waking
<1> QED BY SMTT(30), <1>2, <1>11, <1>12 DEF Inv

(* Something that had a read or a stream is freed.                         *)
LEMMA Freed ==
  ASSUME Inv, NEW c \in Contexts, c \in reads \/ c = conn.stream,
         ctx' = FreeContext(c), reads' = reads \ {c},
         conn' \in Connections, conn'.st = conn.st, conn'.gen = conn.gen,
         (conn'.stream = conn.stream /\ c # conn.stream) \/ conn'.stream = NULL,
         conn.stream # NULL /\ conn'.stream = NULL => c = conn.stream,
         \/ conn'.inflight = conn.inflight
         \/ \A b \in reads : ctx[b].gen = conn.gen /\ conn.st # "closed" => b = c,
         Places', Waking', writable' \in BOOLEAN
  PROVE  Inv'
<1>1. \A b \in Contexts \ {c} : ctx'[b] = ctx[b]
  BY DEF Inv, Shapes, FreeContext
<1>2. /\ ctx'[c].st = "freed" /\ ctx'[c].gen = ctx[c].gen /\ ctx'[c].reading = ctx[c].reading
  BY DEF Inv, Shapes, FreeContext
<1>3. Shapes'
  BY DEF Inv, Shapes, FreeContext
<1>4. conn'.stream # NULL => conn'.stream = conn.stream /\ conn'.stream # c /\ conn'.stream \in Contexts
  BY DEF Inv, Shapes, Connections
<1>5. ASSUME NEW b \in Contexts
      PROVE  /\ ctx'[b].st = "live" <=> b \in reads' \/ b = conn'.stream
             /\ b \in reads' => ctx'[b].st = "live" /\ ctx'[b].reading
  <2>1. CASE b = c
    BY <1>2, <1>4, <2>1, HttpAssumption
  <2>2. CASE b # c
    <3>1. ctx'[b] = ctx[b] /\ (b \in reads' <=> b \in reads)
      BY <1>1, <2>2
    <3>2. b = conn'.stream <=> b = conn.stream
      BY <1>4, <2>2, HttpAssumption
    <3> QED BY ZenonT(30), <3>1, <3>2 DEF Inv, Reading, ContextOwned
  <2> QED BY <2>1, <2>2
<1>6. ContextOwned'
  BY <1>5 DEF ContextOwned
<1>7. \A b \in reads' : b \in reads /\ b # c /\ ctx'[b] = ctx[b]
  BY <1>1 DEF Inv, Shapes
<1>8. /\ \A b \in reads' : ctx'[b].gen \in Nat /\ ctx'[b].gen <= conn'.gen
      /\ \A a, b \in reads' : Mine(a)' /\ Mine(b)' => a = b
  BY <1>7 DEF Inv, Reading, Mine
<1>9. conn'.stream # NULL =>
        /\ ctx'[conn'.stream].kind = "stream" /\ ctx'[conn'.stream].gen = conn'.gen
        /\ ctx'[conn'.stream].reading <=> conn'.stream \in reads'
  BY <1>1, <1>4 DEF Inv, Reading
<1>10. ASSUME NEW b \in reads', Mine(b)'
       PROVE  \/ ctx'[b].kind = "stream" /\ conn'.stream = b
              \/ ctx'[b].kind = "file" /\ conn'.inflight /\ conn'.stream = NULL
  <2>1. b \in reads /\ b # c /\ ctx'[b] = ctx[b] /\ ctx[b].gen = conn.gen /\ conn.st # "closed"
    BY <1>7, <1>10 DEF Mine
  <2>2. conn'.inflight = conn.inflight
    BY <2>1
  <2>3. \/ ctx[b].kind = "stream" /\ conn.stream = b
        \/ ctx[b].kind = "file" /\ conn.inflight /\ conn.stream = NULL
    BY <2>1 DEF Inv, Reading, Mine
  <2>4. b # NULL
    BY HttpAssumption DEF Inv, Shapes
  <2> QED BY <1>4, <2>1, <2>2, <2>3, <2>4
<1>11. Reading'
  BY ZenonT(30), <1>6, <1>8, <1>9, <1>10 DEF Reading
<1> QED BY <1>3, <1>11 DEF Inv

LEMMA StreamStartInv ==
  ASSUME Inv, StreamStart
  PROVE  Inv'
<1>1. conn.st = "http" /\ ~conn.inflight /\ conn.stream = NULL /\ pc = "process"
  BY Zenon DEF StreamStart, Processing, Inv, Places
<1>2. CASE pc' = "fail"
  <2>1. UNCHANGED <<conn, ctx, reads, writable>> /\ (out' = <<>> => out = <<>>)
    BY <1>2, SendKeeps DEF StreamStart, Goto
  <2>2. Places'
    BY SMTT(30), <1>1, <1>2, <2>1 DEF Inv, Places
  <2> QED BY ZenonT(30), <1>1, <2>1, <2>2, Untouched DEF Inv, Shapes
<1>3. CASE pc' = "advance"
  <2>1. PICK c \in Contexts :
          /\ ctx[c].st = "none"
          /\ ctx' = [ctx EXCEPT ![c] = ContextOf("stream", FALSE)]
          /\ conn' = [conn EXCEPT !.inflight = TRUE, !.stream = c]
    BY ZenonT(30), <1>3 DEF StreamStart, NewContext, Goto
  <2>2. reads' = reads /\ writable' = writable
    BY Zenon, <1>3 DEF StreamStart, Goto
  <2>3. \A b \in reads : ctx[b].gen # conn.gen /\ b # c
    BY SMTT(30), <1>1, <2>1, HttpAssumption DEF Inv, Reading, Mine, ContextOwned, Shapes
  <2>4. /\ conn' \in Connections /\ conn'.st = "http" /\ conn'.inflight = TRUE /\ conn'.stream = c
        /\ conn'.gen = conn.gen /\ conn.gen \in Nat
    BY Zenon, <1>1, <2>1 DEF Inv, Shapes, Connections
  <2>5. /\ ctx'[c].st = "live" /\ ctx'[c].kind = "stream" /\ ctx'[c].gen = conn.gen
        /\ ctx'[c].reading = FALSE
        /\ \A b \in Contexts \ {c} : ctx'[b] = ctx[b]
    BY <2>1 DEF Inv, Shapes, ContextOf
  <2>6. Shapes'
    BY Zenon, <2>1, <2>2, <2>4 DEF Inv, Shapes, ContextOf
  <2>7. Places' /\ Waking'
    BY <1>3, <2>4, HttpAssumption DEF Places, Waking
  <2>8. ASSUME NEW b \in Contexts
        PROVE  /\ ctx'[b].st = "live" <=> b \in reads' \/ b = conn'.stream
               /\ b \in reads' => ctx'[b].st = "live" /\ ctx'[b].reading
    <3>1. CASE b = c
      BY <2>2, <2>3, <2>4, <2>5, <3>1
    <3>2. CASE b # c
      <4>1. ctx'[b] = ctx[b] /\ reads' = reads /\ b # NULL
        BY SMTT(30), <2>2, <2>5, <3>2, HttpAssumption
      <4> QED BY <1>1, <2>4, <3>2, <4>1 DEF Inv, Reading, ContextOwned
    <3> QED BY <3>1, <3>2
  <2>9. ContextOwned'
    BY <2>8 DEF ContextOwned
  <2>10. \A b \in reads' : b \in reads /\ b # c /\ ctx'[b] = ctx[b]
    BY <2>2, <2>3, <2>5 DEF Inv, Shapes
  <2>11. \A b \in reads' : ctx'[b].gen \in Nat /\ ctx'[b].gen <= conn'.gen /\ ctx'[b].gen # conn'.gen
    BY <2>3, <2>4, <2>10 DEF Inv, Reading
  <2>12. c \notin reads'
    BY <2>10
  <2>13. ctx'[conn'.stream].reading <=> conn'.stream \in reads'
    BY <2>4, <2>5, <2>12
  <2>14. Reading'
    BY <2>4, <2>5, <2>9, <2>11, <2>13 DEF Reading, Mine
  <2> QED BY <2>6, <2>7, <2>14 DEF Inv
<1> QED BY ZenonT(30), <1>2, <1>3 DEF StreamStart, Goto

LEMMA StreamFinishInv ==
  ASSUME Inv, StreamFinish
  PROVE  Inv'
<1>1. /\ conn.stream # NULL /\ conn.stream \in Contexts /\ conn.stream \notin reads
      /\ conn.st = "http"
  BY ZenonT(30) DEF StreamFinish, Stream, Inv, Shapes, Connections, Places, Reading
<1>2. /\ ctx' = FreeContext(conn.stream) /\ reads' = reads \ {conn.stream}
      /\ conn' \in Connections /\ conn'.st = conn.st /\ conn'.gen = conn.gen
      /\ conn'.stream = NULL /\ conn'.inflight = FALSE /\ writable' \in BOOLEAN
  BY ZenonT(30), <1>1 DEF StreamFinish, Detach, Goto, Inv, Shapes, Connections
<1>3. \A b \in reads : ctx[b].gen = conn.gen /\ conn.st # "closed" => b = conn.stream
  BY <1>1 DEF Inv, Reading, Mine
<1>4. Places' /\ Waking'
  BY <1>1, <1>2 DEF Places, Waking, StreamFinish, Goto
<1> QED BY <1>1, <1>2, <1>3, <1>4, Freed

(* What holds of the stream while the thread goes on with it.              *)
LEMMA Advancing ==
  ASSUME Inv, CanAdvance
  PROVE  /\ conn.stream # NULL /\ conn.stream \in Contexts /\ conn.stream \notin reads
         /\ conn.st = "http" /\ conn.inflight /\ writable \in BOOLEAN
         /\ \A b \in reads : ctx[b].gen = conn.gen /\ conn.st # "closed" => b = conn.stream
  BY ZenonT(30) DEF CanAdvance, Stream, Inv, Shapes, Connections, Places, Reading, Mine

LEMMA AdvanceReadsInv ==
  ASSUME Inv, AdvanceReads
  PROVE  Inv'
<1>1. /\ conn.stream # NULL /\ conn.stream \in Contexts /\ conn.stream \notin reads
      /\ conn.st = "http" /\ conn.inflight
  BY Advancing DEF AdvanceReads
<1>2. /\ reads' = reads \union {conn.stream}
      /\ ctx' = [ctx EXCEPT ![conn.stream].reading = TRUE]
      /\ conn' = conn /\ writable' = FALSE /\ pc' \in {"write", "poll"}
  BY DEF AdvanceReads, Return0
<1>3. ctx = [c \in Contexts |-> ctx[c]]
  BY DEF Inv, Shapes
<1>4. /\ ctx' = [c \in Contexts |-> ctx'[c]]
      /\ \A c \in Contexts \ {conn.stream} : ctx'[c] = ctx[c]
      /\ ctx'[conn.stream] = [ctx[conn.stream] EXCEPT !.reading = TRUE]
  BY Zenon, <1>1, <1>2, <1>3
<1>5. ctx[conn.stream] =
        [st |-> ctx[conn.stream].st, kind |-> ctx[conn.stream].kind,
         gen |-> ctx[conn.stream].gen, id |-> ctx[conn.stream].id,
         off |-> ctx[conn.stream].off, keep |-> ctx[conn.stream].keep,
         reading |-> ctx[conn.stream].reading]
  BY <1>1 DEF Inv, Shapes
<1>6. ctx'[conn.stream] =
        [st |-> ctx[conn.stream].st, kind |-> ctx[conn.stream].kind,
         gen |-> ctx[conn.stream].gen, id |-> ctx[conn.stream].id,
         off |-> ctx[conn.stream].off, keep |-> ctx[conn.stream].keep,
         reading |-> TRUE]
  BY Zenon, <1>4, <1>5
<1>7. Places'
  BY <1>1, <1>2 DEF Places
<1>8. reads' \subseteq Contexts
  BY <1>1, <1>2 DEF Inv, Shapes
<1> QED BY Zenon, <1>1, <1>2, <1>4, <1>6, <1>7, <1>8, StreamGoesOn

LEMMA AdvanceInlineInv ==
  ASSUME Inv, AdvanceInline
  PROVE  Inv'
<1>1. /\ conn.stream # NULL /\ conn.stream \in Contexts /\ conn.stream \notin reads
      /\ conn.st = "http" /\ conn.inflight /\ writable \in BOOLEAN
      /\ \A b \in reads : ctx[b].gen = conn.gen /\ conn.st # "closed" => b = conn.stream
  BY Advancing DEF AdvanceInline
<1>2. reads' = reads /\ reads \subseteq Contexts /\ ctx = [c \in Contexts |-> ctx[c]]
  BY DEF AdvanceInline, Inv, Shapes
<1>3. CASE /\ ctx' = [ctx EXCEPT ![conn.stream].off = @ + 1]
           /\ UNCHANGED <<conn, pc, mode, writable>>
  <2>1. /\ ctx' = [c \in Contexts |-> ctx'[c]]
        /\ \A c \in Contexts \ {conn.stream} : ctx'[c] = ctx[c]
        /\ ctx'[conn.stream] = [ctx[conn.stream] EXCEPT !.off = @ + 1]
    BY <1>1, <1>2, <1>3
  <2>2. ctx[conn.stream] =
          [st |-> ctx[conn.stream].st, kind |-> ctx[conn.stream].kind,
           gen |-> ctx[conn.stream].gen, id |-> ctx[conn.stream].id,
           off |-> ctx[conn.stream].off, keep |-> ctx[conn.stream].keep,
           reading |-> ctx[conn.stream].reading]
    BY <1>1 DEF Inv, Shapes
  <2>3. ctx'[conn.stream] =
          [st |-> ctx[conn.stream].st, kind |-> ctx[conn.stream].kind,
           gen |-> ctx[conn.stream].gen, id |-> ctx[conn.stream].id,
           off |-> ctx[conn.stream].off + 1, keep |-> ctx[conn.stream].keep,
           reading |-> ctx[conn.stream].reading]
    BY <2>1, <2>2
  <2>4. /\ ctx[conn.stream].reading \in BOOLEAN
        /\ ctx[conn.stream].reading <=> conn.stream \in reads
    BY ZenonT(30), <1>1 DEF Inv, Shapes, Reading
  <2>5. Places' /\ pc' = "advance"
    BY <1>3 DEF Inv, Places, AdvanceInline, CanAdvance
  <2> QED BY ZenonT(30), <1>1, <1>2, <1>3, <2>1, <2>3, <2>4, <2>5, StreamGoesOn
<1>4. CASE Detach /\ Goto("fail")
  <2>1. /\ ctx' = FreeContext(conn.stream) /\ reads' = reads \ {conn.stream}
        /\ conn' \in Connections /\ conn'.st = conn.st /\ conn'.gen = conn.gen
        /\ conn'.stream = NULL /\ conn'.inflight = FALSE /\ writable' \in BOOLEAN
    BY ZenonT(30), <1>1, <1>2, <1>4 DEF Detach, Goto, Inv, Shapes, Connections
  <2>2. Places' /\ Waking'
    BY ZenonT(30), <1>1, <1>4, <2>1 DEF Places, Waking, Goto
  <2> QED BY Zenon, <1>1, <2>1, <2>2, Freed
<1> QED BY <1>3, <1>4 DEF AdvanceInline

LEMMA DropCompletionInv ==
  ASSUME Inv, NEW c \in Contexts, DropCompletion(c)
  PROVE  Inv'
<1>1. /\ c \in reads /\ reads' = reads \ {c} /\ ctx' = FreeContext(c) /\ conn' = conn
      /\ writable' = writable /\ pc' = pc /\ out' = out /\ ~Current(c)
  BY ZenonT(30) DEF DropCompletion, Completes, outVars
<1>2. conn \in Connections /\ writable \in BOOLEAN
  BY DEF Inv, Shapes
<1>3. c # conn.stream
  BY ZenonT(30), <1>1, HttpAssumption DEF Inv, Places, Reading, Current
<1>4. Places'
  BY <1>1 DEF Inv, Places
<1>5. Waking'
  <2>1. ASSUME conn.inflight, conn.stream = NULL
        PROVE  \E b \in reads' : ctx'[b].gen = conn.gen /\ ctx'[b].kind = "file"
    <3>1. PICK b \in reads : ctx[b].gen = conn.gen /\ ctx[b].kind = "file"
      BY <2>1 DEF Inv, Waking
    <3>2. b # c
      BY <1>1, <2>1, <3>1 DEF Inv, Places, Current
    <3>3. b \in Contexts /\ ctx'[b] = ctx[b]
      BY <1>1, <3>2 DEF Inv, Shapes, FreeContext
    <3> QED BY <1>1, <3>1, <3>2, <3>3
  <2>2. ASSUME conn.stream # NULL, conn.stream \notin reads', out = <<>> PROVE pc = "advance"
    BY <1>1, <1>3, <2>2 DEF Inv, Waking
  <2> QED BY <1>1, <2>1, <2>2 DEF Waking
<1> QED BY ZenonT(30), <1>1, <1>2, <1>3, <1>4, <1>5, Freed

LEMMA FileCompleteInv ==
  ASSUME Inv, NEW c \in Contexts, FileComplete(c)
  PROVE  Inv'
<1>1. /\ c \in reads /\ reads' = reads \ {c} /\ ctx' = FreeContext(c) /\ ctx[c].kind = "file"
      /\ conn' = [conn EXCEPT !.inflight = FALSE]
      /\ writable' = writable /\ pc' \in {"process", "fail"}
  BY DEF FileComplete, Completes
<1>2. ctx[c].gen = conn.gen /\ conn.st = "http"
  BY DEF FileComplete, Current
<1>3. conn.stream = NULL /\ \A b \in reads : ctx[b].gen = conn.gen => b = c
  BY <1>1, <1>2 DEF Inv, Reading, Mine
<1>4. /\ conn' \in Connections /\ conn'.st = conn.st /\ conn'.gen = conn.gen
      /\ conn'.stream = NULL /\ conn'.inflight = FALSE /\ writable' \in BOOLEAN
  BY ZenonT(30), <1>1, <1>3 DEF Inv, Shapes, Connections
<1>5. Places' /\ Waking'
  BY <1>1, <1>2, <1>4 DEF Places, Waking
<1> QED BY Zenon, <1>1, <1>3, <1>4, <1>5, Freed

LEMMA ChunkCompleteInv ==
  ASSUME Inv, NEW c \in Contexts, ChunkComplete(c)
  PROVE  Inv'
<1>1. /\ c = conn.stream /\ conn.stream # NULL /\ c \in reads /\ reads' = reads \ {c}
      /\ conn.st = "http" /\ writable' = writable
  BY SMTT(30), HttpAssumption DEF ChunkComplete, Completes, Current
<1>2. /\ conn.inflight /\ reads \subseteq Contexts /\ ctx = [b \in Contexts |-> ctx[b]]
      /\ writable \in BOOLEAN
      /\ \A b \in reads : ctx[b].gen = conn.gen /\ conn.st # "closed" => b = c
  BY ZenonT(30), <1>1 DEF Inv, Shapes, Places, Reading, Mine
<1>3. CASE /\ ctx' = [ctx EXCEPT ![c].off = @ + 1, ![c].reading = FALSE]
           /\ pc' = "advance"
           /\ UNCHANGED conn
  <2>1. /\ ctx' = [b \in Contexts |-> ctx'[b]]
        /\ \A b \in Contexts \ {c} : ctx'[b] = ctx[b]
    BY Zenon, <1>2, <1>3
  <2>2. ctx[c] = [st |-> ctx[c].st, kind |-> ctx[c].kind, gen |-> ctx[c].gen, id |-> ctx[c].id,
                  off |-> ctx[c].off, keep |-> ctx[c].keep, reading |-> ctx[c].reading]
    BY DEF Inv, Shapes
  <2>3. ctx'[c] = [[ctx[c] EXCEPT !.off = @ + 1] EXCEPT !.reading = FALSE]
    BY <1>2, <1>3
  <2>4. ctx'[c] = [st |-> ctx[c].st, kind |-> ctx[c].kind, gen |-> ctx[c].gen, id |-> ctx[c].id,
                   off |-> ctx[c].off + 1, keep |-> ctx[c].keep, reading |-> FALSE]
    BY Zenon, <2>2, <2>3
  <2>5. Places'
    BY <1>1, <1>2, <1>3 DEF Inv, Places
  <2>6. /\ ctx'[c].st = ctx[c].st /\ ctx'[c].kind = ctx[c].kind /\ ctx'[c].gen = ctx[c].gen
        /\ ctx'[c].reading = FALSE
        /\ ctx'[c] = [st |-> ctx'[c].st, kind |-> ctx'[c].kind, gen |-> ctx'[c].gen,
                      id |-> ctx'[c].id, off |-> ctx'[c].off, keep |-> ctx'[c].keep,
                      reading |-> ctx'[c].reading]
    BY <2>4
  <2>7. /\ \A b \in Contexts \ {c} : b \in reads' <=> b \in reads
        /\ reads' \subseteq Contexts /\ c \notin reads' /\ writable' \in BOOLEAN
    BY <1>1, <1>2
  <2> QED BY Zenon, <1>1, <1>3, <2>1, <2>5, <2>6, <2>7, StreamGoesOn
<1>4. CASE Detach /\ pc' = "fail"
  <2>1. /\ ctx' = FreeContext(c)
        /\ conn' \in Connections /\ conn'.st = conn.st /\ conn'.gen = conn.gen
        /\ conn'.stream = NULL /\ conn'.inflight = FALSE
    BY ZenonT(30), <1>1, <1>4 DEF Detach, Inv, Shapes, Connections
  <2>2. Places' /\ Waking'
    BY <1>1, <1>4, <2>1 DEF Places, Waking
  <2> QED BY Zenon, <1>1, <1>2, <2>1, <2>2, Freed
<1> QED BY <1>3, <1>4 DEF ChunkComplete

-----------------------------------------------------------------------------
(* The backlog is a sequence, and the socket has room for so many items.   *)
Buffered == IsSeq(out) /\ room \in Nat

LEMMA SendBuffered ==
  ASSUME Buffered, NEW item, ConnSend(item) \/ ConnSendFails
  PROVE  Buffered'
<1>1. CASE UNCHANGED <<out, room>>
  BY <1>1 DEF Buffered
<1>2. CASE out' = Append(out, item) /\ UNCHANGED room
  BY <1>2, AppendIsSeq DEF Buffered
<1>3. CASE UNCHANGED out /\ room > 0 /\ room' = room - 1
  BY <1>3 DEF Buffered
<1>4. CASE out' = <<item>> /\ UNCHANGED room
  BY <1>4, NoneIsSeq DEF Buffered
<1> QED BY Zenon, <1>1, <1>2, <1>3, <1>4 DEF ConnSend, ConnSendFails, outVars

(* How much of the backlog goes out, and what is left.                     *)
LEMMA Drains ==
  ASSUME Buffered, OnWritable
  PROVE  /\ Buffered'
         /\ \/ out' # <<>> /\ pc' = "poll"
            \/ pc' = IF conn.stream # NULL THEN "advance"
                     ELSE IF conn.closing THEN "close" ELSE "poll"
<1>1. PICK T : out \in Seq(T)
  BY DEF Buffered, IsSeq
<1> DEFINE n == IF Len(out) <= room THEN Len(out) ELSE room
<1>2. n \in Nat /\ n <= Len(out) /\ n <= room /\ Len(out) \in Nat /\ room \in Nat
  BY <1>1 DEF Buffered
<1>3. /\ out' = SubSeq(out, n + 1, Len(out)) /\ room' = room - n
      /\ IF n < Len(out) THEN pc' = "poll"
         ELSE pc' = IF conn.stream # NULL THEN "advance"
                    ELSE IF conn.closing THEN "close" ELSE "poll"
  BY Zenon DEF OnWritable
<1>4. room' \in Nat
  BY <1>2, <1>3
<1> HIDE DEF n
<1>5. IsSeq(out') /\ (n < Len(out) => out' # <<>>)
  BY <1>2, <1>3, RestIsSeq DEF Buffered
<1> QED BY <1>3, <1>4, <1>5 DEF Buffered

LEMMA BufferedNext ==
  ASSUME Buffered, [Next]_vars
  PROVE  Buffered'
<1>1. CASE UNCHANGED <<out, room>>
  BY <1>1 DEF Buffered
<1>2. CASE ClientReads
  BY <1>2 DEF Buffered, ClientReads
<1>3. CASE Handshake
  BY <1>3 DEF Buffered, Handshake
<1>4. CASE Wipe
  BY <1>4, NoneIsSeq, HttpAssumption DEF Buffered, Wipe
<1>5. CASE OnWritable
  BY <1>5, Drains
<1>6. CASE ErrorClose \/ ProcessPlain \/ ServeFileInline \/ StreamStart
  BY Zenon, <1>6, SendBuffered DEF ErrorClose, ProcessPlain, ServeFileInline, StreamStart
<1>7. CASE AdvanceInline
  BY <1>1, <1>7, SendBuffered DEF AdvanceInline, outVars
<1>8. ASSUME NEW c \in Contexts, FileComplete(c) \/ ChunkComplete(c) PROVE Buffered'
  BY <1>1, <1>8, SendBuffered DEF FileComplete, ChunkComplete, outVars
<1>9. CASE NewConnection
  BY <1>1, <1>9 DEF NewConnection, outVars
<1>10. ASSUME NEW q \in Requests, ClientAsks(q) PROVE Buffered'
  BY <1>1, <1>10 DEF ClientAsks, outVars
<1>11. CASE ClientSends \/ ClientCloses
  BY <1>1, <1>11 DEF ClientSends, ClientCloses
<1>12. ASSUME NEW c \in Contexts, DropCompletion(c) PROVE Buffered'
  BY SMTT(30), <1>1, <1>12 DEF DropCompletion, outVars
<1>13. CASE Fail \/ FinishClose \/ Event \/ IgnoreInput \/ ReadIntoRecv \/ ReadFails
            \/ InitialDispatch \/ ReadFrames \/ ProcessIncomplete \/ ProcessBad
  BY ZenonT(30), <1>1, <1>13 DEF Fail, FinishClose, Event, IgnoreInput, ReadIntoRecv, ReadFails,
     InitialDispatch, ReadFrames, ProcessIncomplete, ProcessBad, outVars
<1>14. CASE ServeFile \/ ServeFileFails \/ AdvanceWaits \/ StreamFinish \/ AdvanceReads
            \/ WriteFails
  BY Zenon, <1>1, <1>14 DEF ServeFile, ServeFileFails, AdvanceWaits, StreamFinish, AdvanceReads,
     WriteFails, outVars
<1>15. CASE UNCHANGED vars
  BY <1>1, <1>15 DEF vars, outVars
<1> QED BY <1>2, <1>3, <1>4, <1>5, <1>6, <1>7, <1>8, <1>9, <1>10, <1>11, <1>12, <1>13, <1>14,
     <1>15 DEF Next, Client, Completion, Handler, Close, Reap

LEMMA OnWritableInv ==
  ASSUME Inv, Buffered, OnWritable
  PROVE  Inv'
<1>1. UNCHANGED <<conn, ctx, reads, writable>> /\ pc = "write"
  BY ZenonT(30) DEF OnWritable
<1>2. Shapes' /\ Reading'
  BY ZenonT(30), <1>1 DEF Inv, Shapes, Reading, Mine, ContextOwned
<1>3. Places'
  BY <1>1, Drains DEF Inv, Places
<1>4. Waking'
  BY <1>1, Drains DEF Inv, Waking
<1> QED BY <1>2, <1>3, <1>4 DEF Inv

LEMMA NextInv ==
  ASSUME Inv, Buffered, [Next]_vars
  PROVE  Inv'
<1>1. CASE Client
  BY <1>1, ClientInv
<1>2. CASE NewConnection
  BY <1>2, NewConnectionInv
<1>3. CASE Completion
  BY <1>3, DropCompletionInv, FileCompleteInv, ChunkCompleteInv DEF Completion
<1>4. CASE Reap \/ Close
  BY <1>4, WipeInv DEF Reap, Close
<1>5. CASE Handler /\ ~Close
  BY SMTT(30), <1>5, InputInv, AnswerInv, StateInv, ServeFileInv, StreamStartInv, StreamFinishInv,
     AdvanceReadsInv, AdvanceInlineInv, OnWritableInv DEF Handler
<1>6. CASE UNCHANGED vars
  <2>1. UNCHANGED <<conn, ctx, reads, pc, writable, out>>
    BY <1>6 DEF vars, outVars
  <2>2. Places'
    BY <2>1 DEF Inv, Places
  <2> QED BY ZenonT(30), <2>1, <2>2, Untouched DEF Inv, Shapes
<1> QED BY <1>1, <1>2, <1>3, <1>4, <1>5, <1>6 DEF Next

(* The slot, its contexts, its reads and its backlog fit each other after  *)
(* any number of clients.                                                  *)
THEOREM Invariance == Spec => [](Inv /\ Buffered)
<1>1. Init => Inv /\ Buffered
  BY InitInv, NoneIsSeq, HttpAssumption DEF Init, Buffered
<1>2. Inv /\ Buffered /\ [Next]_vars => (Inv /\ Buffered)'
  BY NextInv, BufferedNext
<1> QED BY <1>1, <1>2, PTL DEF Spec

(* portico_http_stream_abort and the completions release every context     *)
(* once: whichever of the close and the read comes first, a live context   *)
(* has an owner and a freed one is referred to by nobody.                  *)
THEOREM ReleasedOnce == Spec => []ContextOwned
<1>1. Inv => ContextOwned
  BY DEF Inv, Reading
<1> QED BY <1>1, Invariance, PTL

(* A connection that http_serve_file or stream_start has parked is never   *)
(* forgotten: back in epoll_wait it has a read of its own in flight, one   *)
(* that its completion will take for current, or a stream whose backlog is *)
(* still to be drained.                                                    *)
THEOREM ParkedIsWoken == Spec => []ParkedHasWaker
<1>1. ASSUME Inv, pc = "poll", conn.inflight
      PROVE  (\E c \in reads : Current(c)) \/ (conn.stream # NULL /\ out # <<>>)
  <2>1. conn.st = "http"
    BY <1>1 DEF Inv, Places
  <2>2. CASE conn.stream = NULL
    <3>1. PICK c \in reads : ctx[c].gen = conn.gen /\ ctx[c].kind = "file"
      BY <1>1, <2>2 DEF Inv, Waking
    <3> QED BY <2>1, <3>1 DEF Current
  <2>3. CASE conn.stream # NULL /\ conn.stream \in reads
    BY ZenonT(30), <1>1, <2>1, <2>3 DEF Inv, Reading, Current
  <2>4. CASE conn.stream # NULL /\ conn.stream \notin reads
    BY <1>1, <2>4 DEF Inv, Waking
  <2> QED BY <2>2, <2>3, <2>4
<1>2. Inv => ParkedHasWaker
  BY <1>1 DEF ParkedHasWaker
<1> QED BY <1>2, Invariance, PTL

-----------------------------------------------------------------------------
(* The backlog and the deferred close.  Only an HTTP connection has a      *)
(* backlog, EPOLLOUT is armed for it, and a connection that is closing has *)
(* one, takes no input and is not parked.                                  *)
Sending ==
  /\ conn.st # "http" => out = <<>>
  /\ conn.st \in {"closed", "connecting"} /\ pc \notin {"finish", "fail", "close"} =>
       room = SocketMax
  /\ out # <<>> => armed

Turning ==
  /\ pc = "read" => mode = "now"
  /\ pc = "error" => conn.st \in {"connecting", "http"}
  /\ pc \in {"error", "finish"} \/ (pc = "fail" /\ mode = "drain") => ~conn.inflight

Closing ==
  conn.closing =>
    /\ conn.st = "http" /\ ~conn.inflight
    /\ pc \in {"poll", "read", "write", "close"}
    /\ out # <<>> \/ pc = "close"

Output == Sending /\ Turning /\ Closing

(* A handler that sends nothing.                                           *)
LEMMA QuietOutput ==
  ASSUME Inv, Output,
         \/ Event \/ IgnoreInput \/ ReadIntoRecv \/ ReadFails \/ ReadFrames
         \/ ProcessIncomplete \/ ProcessBad \/ ServeFileFails \/ AdvanceWaits \/ WriteFails
         \/ Fail \/ FinishClose \/ InitialDispatch
  PROVE  Output'
<1> USE DEF Return0, Goto, outVars, Processing
<1>1. UNCHANGED <<out, armed, room>>
  BY ZenonT(30), SMTT(30)
  DEF Event, IgnoreInput, ReadIntoRecv, ReadFails, ReadFrames, ProcessIncomplete, ProcessBad,
     ServeFileFails, AdvanceWaits, WriteFails, Fail, FinishClose, InitialDispatch
<1>2. \/ conn' = conn
      \/ pc \in {"fail", "finish"} /\ conn' = [conn EXCEPT !.closing = TRUE]
      \/ conn.st = "connecting" /\ conn' = [conn EXCEPT !.st = "http"]
  BY ZenonT(30) DEF Inv, Places, Event, IgnoreInput, ReadIntoRecv, ReadFails, ReadFrames, ProcessIncomplete,
     ProcessBad, ServeFileFails, AdvanceWaits, WriteFails, Fail, FinishClose, InitialDispatch
<1>3. conn \in Connections
  BY SMTT(30) DEF Inv, Shapes
<1>4. Sending'
  BY ZenonT(30), <1>1, <1>2, <1>3 DEF Inv, Places, Connections, Output, Sending, Event, IgnoreInput,
     ReadIntoRecv, ReadFails, ReadFrames, ProcessIncomplete, ProcessBad, ServeFileFails,
     AdvanceWaits, WriteFails, Fail, FinishClose, InitialDispatch
<1>5. Turning'
  BY ZenonT(30), <1>2, <1>3 DEF Inv, Places, Connections, Output, Turning, Event, IgnoreInput,
     ReadIntoRecv, ReadFails, ReadFrames, ProcessIncomplete, ProcessBad, ServeFileFails,
     AdvanceWaits, WriteFails, Fail, FinishClose, InitialDispatch
<1>6. Closing'
  BY ZenonT(30), <1>1, <1>2, <1>3 DEF Inv, Places, Connections, Output, Sending, Turning, Closing, Event,
     IgnoreInput, ReadIntoRecv, ReadFails, ReadFrames, ProcessIncomplete, ProcessBad,
     ServeFileFails, AdvanceWaits, WriteFails, Fail, FinishClose, InitialDispatch
<1> QED BY SMTT(30), <1>4, <1>5, <1>6 DEF Output

LEMMA ClientOutput ==
  ASSUME Inv, Output, Client \/ NewConnection
  PROVE  Output'
<1>1. UNCHANGED <<out, armed, pc, mode>>
  BY ZenonT(30) DEF Client, ClientAsks, ClientSends, ClientReads, ClientCloses, NewConnection, outVars
<1>2. CASE Client
  <2>1. conn' = conn /\ (room' = room \/ (conn.st # "closed" /\ room < SocketMax))
    BY ZenonT(30), <1>2 DEF Client, ClientAsks, ClientSends, ClientReads, ClientCloses, Connected, outVars
  <2>2. room = SocketMax => room' = room
    BY <2>1, HttpAssumption
  <2> QED BY ZenonT(30), <1>1, <2>1, <2>2 DEF Output, Sending, Turning, Closing
<1>3. CASE NewConnection
  <2>1. /\ pc = "poll" /\ conn.st = "closed" /\ conn'.st = "connecting" /\ conn'.closing = FALSE
        /\ room' = room
    BY SMTT(30), <1>3 DEF NewConnection, Fresh, outVars
  <2> QED BY <1>1, <2>1 DEF Output, Sending, Turning, Closing
<1> QED BY SMTT(30), <1>2, <1>3

LEMMA WipeOutput ==
  ASSUME Inv, Output, Wipe
  PROVE  Output'
  BY ZenonT(30) DEF Wipe, Fresh, Output, Sending, Turning, Closing

(* What a send does to the backlog.                                        *)
LEMMA SendArms ==
  ASSUME Output, NEW item, ConnSend(item) \/ ConnSendFails
  PROVE  /\ out' # <<>> => armed'
         /\ conn.st # "http" /\ room = SocketMax => out' = <<>>
<1>1. CASE out # <<>>
  BY Zenon, <1>1 DEF Output, Sending, ConnSend, ConnSendFails, outVars
<1>2. CASE out = <<>>
  BY <1>2, HttpAssumption DEF ConnSend, ConnSendFails, outVars, SetEpollout
<1> QED BY <1>1, <1>2

LEMMA AnswerOutput ==
  ASSUME Inv, Output, ErrorClose \/ ProcessPlain \/ ServeFileInline \/ StreamStart
  PROVE  Output'
<1> USE DEF Goto
<1>1. pc \in {"error", "process"} /\ conn.st \in {"connecting", "http"} /\ ~conn.inflight
      /\ (pc = "process" => conn.st = "http") /\ conn.closing \in BOOLEAN
  BY ZenonT(30) DEF ErrorClose, ProcessPlain, ServeFileInline, StreamStart, Processing, Inv, Shapes,
     Connections, Places, Output, Turning
<1>2. conn'.st = conn.st /\ conn'.closing = conn.closing /\ (pc' # "advance" => conn' = conn)
  BY ZenonT(30) DEF ErrorClose, ProcessPlain, ServeFileInline, StreamStart, Inv, Shapes, Connections
<1>3. pc' \in {"finish", "fail", "process", "advance"} /\ (pc = "error" => pc' \in {"finish", "fail"})
  BY Zenon DEF ErrorClose, ProcessPlain, ServeFileInline, StreamStart, Processing
<1>4. ~conn.closing
  BY SMTT(30), <1>1 DEF Output, Closing
<1>5. /\ out' # <<>> => armed'
      /\ conn.st # "http" /\ room = SocketMax => out' = <<>>
  BY Zenon, SendArms DEF ErrorClose, ProcessPlain, ServeFileInline, StreamStart
<1>6. Sending'
  BY <1>1, <1>2, <1>3, <1>5 DEF Output, Sending
<1>7. Turning' /\ Closing'
  BY <1>1, <1>2, <1>3, <1>4 DEF Turning, Closing
<1> QED BY <1>6, <1>7 DEF Output

LEMMA HandshakeOutput ==
  ASSUME Inv, Output, Handshake
  PROVE  Output'
<1>1. conn.st = "connecting" /\ pc = "dispatch" /\ ~conn.inflight /\ ~conn.closing
  BY DEF Handshake, Inv, Places, Output, Closing
<1>2. UNCHANGED <<out, armed>> /\ out = <<>>
  BY <1>1 DEF Handshake, Output, Sending
<1>3. \/ conn' = conn /\ pc' = "fail"
      \/ conn' = [conn EXCEPT !.st = "open"] /\ pc' \in {"write", "poll"}
  BY DEF Handshake, Goto, Return0
<1>4. conn \in Connections
  BY DEF Inv, Shapes
<1> QED BY <1>1, <1>2, <1>3, <1>4 DEF Connections, Output, Sending, Turning, Closing

(* The reads of a parked connection: they go on, or they end and it is     *)
(* parked no more.                                                         *)
LEMMA ParkedOutput ==
  ASSUME Inv, Output, conn.st = "http", ~conn.closing,
         conn'.st = conn.st, conn'.closing = conn.closing,
         out' # <<>> => armed',
         pc' \in {"poll", "write", "process", "advance", "finish", "fail"},
         pc' \in {"finish", "fail"} => ~conn'.inflight
  PROVE  Output'
  BY ZenonT(30) DEF Output, Sending, Turning, Closing

LEMMA ReadingOutput ==
  ASSUME Inv, Output, ServeFile \/ StreamFinish \/ AdvanceReads \/ AdvanceInline
  PROVE  Output'
<1> USE DEF Return0, Goto, outVars
<1>1. conn.st = "http" /\ pc \in {"process", "advance"} /\ conn \in Connections
  BY Zenon
  DEF ServeFile, StreamFinish, AdvanceReads, AdvanceInline, CanAdvance, Processing, Inv, Shapes,
     Places
<1>2. ~conn.closing
  BY <1>1 DEF Output, Closing
<1>3. \/ conn' = conn
      \/ conn' = [conn EXCEPT !.inflight = TRUE]
      \/ conn' = [conn EXCEPT !.stream = NULL, !.inflight = FALSE]
  BY Zenon DEF ServeFile, StreamFinish, AdvanceReads, AdvanceInline, Detach
<1>4. conn'.st = conn.st /\ conn'.closing = conn.closing
  BY Zenon, <1>1, <1>3 DEF Connections
<1>5. out' # <<>> => armed'
  <2>1. ASSUME UNCHANGED outVars PROVE out' # <<>> => armed'
    BY <2>1 DEF Output, Sending
  <2> QED BY Zenon, <2>1, SendArms DEF ServeFile, StreamFinish, AdvanceReads, AdvanceInline
<1>6. pc' \in {"poll", "write", "process", "advance", "finish", "fail"}
  BY Zenon, <1>1 DEF ServeFile, StreamFinish, AdvanceReads, AdvanceInline, CanAdvance
<1>7. pc' \in {"finish", "fail"} => ~conn'.inflight
  <2>1. Detach => conn'.inflight = FALSE
    BY <1>1 DEF Detach, Connections
  <2> QED BY Zenon, <1>1, <2>1 DEF ServeFile, StreamFinish, AdvanceReads, AdvanceInline, CanAdvance
<1> QED BY <1>1, <1>2, <1>4, <1>5, <1>6, <1>7, ParkedOutput

LEMMA CompletionOutput ==
  ASSUME Inv, Output, Completion
  PROVE  Output'
<1> USE DEF outVars
<1>1. PICK c \in Contexts : DropCompletion(c) \/ FileComplete(c) \/ ChunkComplete(c)
  BY DEF Completion
<1>2. CASE DropCompletion(c)
  BY ZenonT(30), <1>2 DEF DropCompletion, Output, Sending, Turning, Closing
<1>3. CASE FileComplete(c) \/ ChunkComplete(c)
  <2>1. conn.st = "http" /\ conn \in Connections /\ c \in reads /\ ctx[c].gen = conn.gen
    BY SMTT(30), <1>3 DEF FileComplete, ChunkComplete, Completes, Current, Inv, Shapes
  <2>2. conn.inflight
    BY ZenonT(30), <2>1, HttpAssumption DEF Inv, Places, Reading, Mine
  <2>3. ~conn.closing
    BY <2>2 DEF Output, Closing
  <2>4. /\ conn'.st = conn.st /\ conn'.closing = conn.closing
        /\ pc' # "advance" => conn'.inflight = FALSE
    BY Zenon, <1>3, <2>1 DEF FileComplete, ChunkComplete, Detach, Connections
  <2>5. out' # <<>> => armed'
    <3>1. ASSUME UNCHANGED outVars PROVE out' # <<>> => armed'
      BY <3>1 DEF Output, Sending
    <3> QED BY <1>3, <3>1, SendArms DEF FileComplete, ChunkComplete
  <2>6. pc' \in {"process", "advance", "fail"}
    BY <1>3 DEF FileComplete, ChunkComplete
  <2> QED BY ZenonT(30), <2>1, <2>3, <2>4, <2>5, <2>6, ParkedOutput
<1> QED BY <1>1, <1>2, <1>3

LEMMA WritableOutput ==
  ASSUME Inv, Buffered, Output, OnWritable
  PROVE  Output'
<1>1. PICK T : out \in Seq(T)
  BY DEF Buffered, IsSeq
<1> DEFINE n == IF Len(out) <= room THEN Len(out) ELSE room
<1>2. n \in Nat /\ n <= Len(out) /\ Len(out) \in Nat /\ room \in Nat
  BY <1>1 DEF Buffered
<1>3. /\ out' = SubSeq(out, n + 1, Len(out)) /\ room' = room - n /\ conn' = conn /\ pc = "write"
      /\ IF n < Len(out) THEN pc' = "poll" /\ armed' = armed
         ELSE pc' = IF conn.stream # NULL THEN "advance"
                    ELSE IF conn.closing THEN "close" ELSE "poll"
  BY Zenon DEF OnWritable
<1>4. out = <<>> => n = 0 /\ room' = room
  BY <1>2, <1>3
<1> HIDE DEF n
<1>5. CASE n < Len(out)
  <2>1. out # <<>> /\ out' # <<>>
    BY <1>2, <1>3, <1>5, RestIsSeq DEF Buffered
  <2> QED BY ZenonT(30), <1>3, <1>5, <2>1 DEF Output, Sending, Turning, Closing
<1>6. CASE ~(n < Len(out))
  <2>1. n = Len(out)
    BY <1>2, <1>6
  <2>2. out' = <<>>
    <3>1. out' \in Seq(T) /\ Len(out') = 0
      BY <1>1, <1>2, <1>3, <2>1
    <3> QED BY <3>1
  <2>3. conn.closing => conn.stream = NULL
    BY DEF Inv, Places, Output, Closing
  <2>4. Closing' /\ Turning'
    BY <1>3, <1>6, <2>3 DEF Output, Closing, Turning
  <2>5. Sending'
    BY <1>3, <1>4, <1>6, <2>2 DEF Output, Sending
  <2> QED BY <2>4, <2>5 DEF Output
<1> QED BY <1>5, <1>6

LEMMA NextOutput ==
  ASSUME Inv, Buffered, Output, [Next]_vars
  PROVE  Output'
<1>1. CASE Reap \/ Close
  BY <1>1, WipeOutput DEF Reap, Close
<1>2. CASE Handler /\ ~Close
  BY <1>2, QuietOutput, AnswerOutput, HandshakeOutput, ReadingOutput, WritableOutput DEF Handler
<1>3. CASE UNCHANGED vars
  BY ZenonT(30), <1>3 DEF vars, outVars, Output, Sending, Turning, Closing
<1> QED BY <1>1, <1>2, <1>3, ClientOutput, CompletionOutput DEF Next

(* portico_conn_send and portico_conn_on_writable never leave output       *)
(* behind: back in epoll_wait a backlog is watched for with EPOLLOUT, and  *)
(* a close that was deferred has a backlog whose end will trigger it.      *)
THEOREM OutputIsWatched == Spec => []BacklogWatched
<1>1. Init => Output
  BY DEF Init, Fresh, Output, Sending, Turning, Closing
<1>2. Inv /\ Buffered /\ Output /\ [Next]_vars => Output'
  BY NextOutput
<1>3. Output => BacklogWatched
  BY DEF Output, Sending, Closing, BacklogWatched
<1> QED BY <1>1, <1>2, <1>3, Invariance, PTL DEF Spec

-----------------------------------------------------------------------------
(* The order of the responses.  What is left of a client's input is whole  *)
(* requests, one after the other, to the last one asked: a unit that comes *)
(* first, or behind the last unit of a request, begins another.            *)
Units == [id : Nat, last : BOOLEAN]
Items == [gen : Nat, id : Nat, part : Int]

Cut(s, n, a, m) ==
  /\ \A i \in 1..n : s[i].id \in 1..m
  /\ \A i \in 1..n : (i = 1 \/ s[i - 1].last) =>
       /\ i + a[s[i].id].units - 1 <= n
       /\ \A j \in i..i + a[s[i].id].units - 1 :
            s[j].id = s[i].id /\ (s[j].last <=> j = i + a[s[i].id].units - 1)
       /\ i + a[s[i].id].units <= n => s[i + a[s[i].id].units].id = s[i].id + 1
       /\ i + a[s[i].id].units > n => s[i].id = m

Aligned(s, a) == Cut(s, Len(s), a, Len(a))

Sized(a, m) == \A k \in 1..m : a[k].units \in Nat \ {0}

(* The request to be served next.                                          *)
NextIn(s, a) == IF Len(s) = 0 THEN Len(a) + 1 ELSE s[1].id

(* The first u units are the first request, and the next is another.       *)
Begins(s, n, u, m) ==
  /\ s[1].id \in 1..m /\ u \in 1..n
  /\ \A j \in 1..u : s[j].id = s[1].id /\ (s[j].last <=> j = u)
  /\ u + 1 <= n => s[u + 1].id = s[1].id + 1
  /\ u + 1 > n => s[1].id = m

LEMMA FirstRun ==
  ASSUME NEW s, NEW a, NEW n \in Nat, NEW m \in Nat, Cut(s, n, a, m), Sized(a, m), n > 0
  PROVE  Begins(s, n, a[s[1].id].units, m)
<1> DEFINE u == a[s[1].id].units
<1>1. 1 \in 1..n
  BY SMTT(30)
<1>2. s[1].id \in 1..m
  BY ZenonT(30), <1>1 DEF Cut
<1>3. u \in Nat \ {0}
  BY <1>2 DEF Sized
<1>4. /\ 1 + u - 1 <= n
      /\ \A j \in 1..1 + u - 1 : s[j].id = s[1].id /\ (s[j].last <=> j = 1 + u - 1)
      /\ 1 + u <= n => s[1 + u].id = s[1].id + 1
      /\ 1 + u > n => s[1].id = m
  BY ZenonT(30), <1>1 DEF Cut
<1>5. 1 + u - 1 = u /\ 1 + u = u + 1
  BY SMTT(30), <1>3
<1> HIDE DEF u
<1>6. Begins(s, n, u, m)
  BY <1>2, <1>3, <1>4, <1>5 DEF Begins
<1> QED BY ZenonT(30), <1>6 DEF u

LEMMA FirstOff ==
  ASSUME NEW s, NEW t, NEW a, NEW n \in Nat, NEW m \in Nat, Cut(s, n, a, m), Sized(a, m),
         NEW u \in 1..n, s[u].last,
         \A i \in 1..n - u : t[i] = s[i + u]
  PROVE  Cut(t, n - u, a, m)
<1>1. n - u \in Nat /\ u \in Nat \ {0} /\ n > 0
  BY SMTT(30)
<1> DEFINE l == n - u
<1>3. ASSUME NEW i \in 1..l PROVE i + u \in 1..n /\ t[i] = s[i + u] /\ t[i].id \in 1..m
  <2>1. i + u \in 1..n
    OBVIOUS
  <2> QED BY ZenonT(30), <2>1 DEF Cut
<1>4. ASSUME NEW i \in 1..l, i = 1 \/ t[i - 1].last
      PROVE  /\ i + a[t[i].id].units - 1 <= l
             /\ \A j \in i..i + a[t[i].id].units - 1 :
                  t[j].id = t[i].id /\ (t[j].last <=> j = i + a[t[i].id].units - 1)
             /\ i + a[t[i].id].units <= l => t[i + a[t[i].id].units].id = t[i].id + 1
             /\ i + a[t[i].id].units > l => t[i].id = m
  <2> DEFINE v == a[t[i].id].units
  <2>1. v \in Nat \ {0} /\ t[i] = s[i + u] /\ i + u \in 1..n
    BY ZenonT(30), <1>3 DEF Sized
  <2>2. s[i + u - 1].last
    <3>1. CASE i = 1
      <4>1. i + u - 1 = u
        BY <3>1
      <4> QED BY <4>1
    <3>2. CASE i # 1
      <4>1. i - 1 \in 1..l /\ (i - 1) + u = i + u - 1
        BY <3>2
      <4> QED BY ZenonT(30), <1>3, <1>4, <3>2, <4>1
    <3> QED BY ZenonT(30), <3>1, <3>2
  <2>3. /\ i + u + v - 1 <= n
        /\ \A j \in i + u..i + u + v - 1 :
             s[j].id = s[i + u].id /\ (s[j].last <=> j = i + u + v - 1)
        /\ i + u + v <= n => s[i + u + v].id = s[i + u].id + 1
        /\ i + u + v > n => s[i + u].id = m
    <3>1. a[s[i + u].id].units = v
      BY ZenonT(30), <2>1
    <3> HIDE DEF v
    <3>2. PICK k \in 1..n : k = i + u
      BY ZenonT(30), <2>1
    <3>3. s[k - 1].last /\ a[s[k].id].units = v
      BY <2>2, <3>1, <3>2
    <3>4. /\ k + v - 1 <= n
          /\ \A j \in k..k + v - 1 : s[j].id = s[k].id /\ (s[j].last <=> j = k + v - 1)
          /\ k + v <= n => s[k + v].id = s[k].id + 1
          /\ k + v > n => s[k].id = m
      <4>1. /\ k + a[s[k].id].units - 1 <= n
            /\ \A j \in k..k + a[s[k].id].units - 1 :
                 s[j].id = s[k].id /\ (s[j].last <=> j = k + a[s[k].id].units - 1)
            /\ k + a[s[k].id].units <= n => s[k + a[s[k].id].units].id = s[k].id + 1
            /\ k + a[s[k].id].units > n => s[k].id = m
        BY Zenon, <3>3 DEF Cut
      <4> QED BY Zenon, <3>3, <4>1
    <3> QED BY ZenonT(30), <3>2, <3>4
  <2> HIDE DEF v
  <2>4. i + v - 1 <= l
    BY <2>1, <2>3
  <2>5. ASSUME NEW j \in i..i + v - 1 PROVE t[j].id = t[i].id /\ (t[j].last <=> j = i + v - 1)
    <3>1. j \in 1..l /\ j + u \in i + u..i + u + v - 1 /\ (j + u = i + u + v - 1 <=> j = i + v - 1)
      BY <1>1, <2>1, <2>4
    <3> QED BY ZenonT(30), <1>3, <2>1, <2>3, <3>1
  <2>6. ASSUME i + v <= l PROVE t[i + v].id = t[i].id + 1
    <3>1. i + v \in 1..l /\ (i + v) + u = i + u + v /\ i + u + v <= n
      BY SMTT(30), <2>1, <2>6
    <3> QED BY Zenon, <1>3, <2>1, <2>3, <3>1
  <2>7. ASSUME i + v > l PROVE t[i].id = m
    <3>1. i + u + v > n
      BY <2>1, <2>7
    <3> QED BY ZenonT(30), <2>1, <2>3, <3>1
  <2> QED BY ZenonT(30), <2>4, <2>5, <2>6, <2>7 DEF v
<1> QED BY Zenon, <1>3, <1>4 DEF Cut

(* A client asks for something more: v units of request k.                 *)
Extends(t, s, n, v, k) ==
  /\ \A i \in 1..n : t[i] = s[i]
  /\ \A i \in 1..v : t[n + i].id = k /\ (t[n + i].last <=> i = v)

Agree(b, a, m) == \A k \in 1..m : b[k] = a[k]

LEMMA OneMore ==
  ASSUME NEW s, NEW t, NEW a, NEW b, NEW n \in Nat, NEW m \in Nat, Cut(s, n, a, m), Sized(a, m),
         NEW v \in Nat \ {0}, b[m + 1].units = v,
         Agree(b, a, m), Extends(t, s, n, v, m + 1)
  PROVE  Cut(t, n + v, b, m + 1)
<1>0. /\ \A k \in 1..m : b[k] = a[k]
      /\ \A i \in 1..n : t[i] = s[i]
      /\ \A i \in 1..v : t[n + i].id = m + 1 /\ (t[n + i].last <=> i = v)
  BY ZenonT(30) DEF Agree, Extends
<1> USE <1>0
<1>N. n \in Nat /\ m \in Nat /\ v \in Nat \ {0}
  BY Zenon
<1>1. \A i \in 1..n : s[i].id \in 1..m
  BY ZenonT(30) DEF Cut
<1>2. ASSUME NEW i \in 1..n + v, i \notin 1..n
      PROVE  t[i].id = m + 1 /\ (t[i].last <=> i = n + v)
  <2>1. i - n \in 1..v /\ n + (i - n) = i /\ (i - n = v <=> i = n + v)
    <3>1. i \in 1..n + v /\ i \notin 1..n
      BY Zenon, <1>2
    <3> QED BY ONLY SMTT(30), <1>N, <3>1
  <2> QED BY ZenonT(30), <2>1
<1>3. ASSUME NEW i \in 1..n + v PROVE t[i].id \in 1..m + 1
  <2>1. CASE i \in 1..n
    <3>1. t[i].id \in 1..m
      BY ZenonT(30), <1>1, <2>1
    <3> QED BY ONLY SMTT(30), <1>N, <3>1
  <2>2. CASE i \notin 1..n
    <3>1. t[i].id = m + 1
      BY ZenonT(30), <1>2, <2>2
    <3> QED BY ONLY SMTT(30), <1>N, <3>1
  <2> QED BY Zenon, <2>1, <2>2
<1>4. ASSUME NEW i \in 1..n + v, i = 1 \/ t[i - 1].last
      PROVE  /\ i + b[t[i].id].units - 1 <= n + v
             /\ \A j \in i..i + b[t[i].id].units - 1 :
                  t[j].id = t[i].id /\ (t[j].last <=> j = i + b[t[i].id].units - 1)
             /\ i + b[t[i].id].units <= n + v => t[i + b[t[i].id].units].id = t[i].id + 1
             /\ i + b[t[i].id].units > n + v => t[i].id = m + 1
  <2>0. i \in 1..n + v
    BY Zenon
  <2>1. CASE i \in 1..n
    <3> DEFINE w == a[s[i].id].units
    <3>1. w \in Nat \ {0} /\ t[i] = s[i] /\ b[t[i].id].units = w
      BY ZenonT(30), <1>1, <2>1 DEF Sized
    <3>2. i = 1 \/ s[i - 1].last
      <4>1. i # 1 => i - 1 \in 1..n
        BY ONLY SMTT(30), <1>N, <2>1
      <4> QED BY ZenonT(30), <1>4, <4>1
    <3>3. /\ i + w - 1 <= n
          /\ \A j \in i..i + w - 1 : s[j].id = s[i].id /\ (s[j].last <=> j = i + w - 1)
          /\ i + w <= n => s[i + w].id = s[i].id + 1
          /\ i + w > n => s[i].id = m
      BY ZenonT(30), <2>1, <3>2 DEF Cut
    <3> HIDE DEF w
    <3>4. w \in Nat \ {0} /\ i + w - 1 <= n
      BY Zenon, <3>1, <3>3
    <3>5. \A j \in i..i + w - 1 : t[j].id = t[i].id /\ (t[j].last <=> j = i + w - 1)
      <4>1. \A j \in i..i + w - 1 : j \in 1..n
        BY ONLY SMTT(30), <1>N, <2>1, <3>4
      <4>2. \A j \in i..i + w - 1 : t[j] = s[j]
        BY ZenonT(30), <4>1
      <4> QED BY ZenonT(30), <3>1, <3>3, <4>2
    <3>6. i + w - 1 <= n + v /\ i + w <= n + v /\ ~(i + w > n + v)
      BY ONLY SMTT(30), <1>N, <2>1, <3>4
    <3>7. t[i + w].id = t[i].id + 1
      <4>1. CASE i + w <= n
        <5>1. i + w \in 1..n
          BY ONLY SMTT(30), <1>N, <2>1, <3>4, <4>1
        <5> QED BY ZenonT(30), <3>1, <3>3, <4>1, <5>1
      <4>2. CASE i + w > n
        <5>1. i + w \in 1..n + v /\ i + w \notin 1..n
          BY ONLY SMTT(30), <1>N, <2>1, <3>4, <4>2
        <5>2. t[i + w].id = m + 1
          BY ZenonT(30), <1>2, <5>1
        <5> QED BY ZenonT(30), <3>1, <3>3, <4>2, <5>2
      <4>3. i + w <= n \/ i + w > n
        BY ONLY SMTT(30), <1>N, <2>1, <3>4
      <4> QED BY Zenon, <4>1, <4>2, <4>3
    <3> QED BY ZenonT(30), <3>1, <3>5, <3>6, <3>7
  <2>2. CASE i \notin 1..n
    <3>1. i = n + 1
      <4>1. CASE i > n + 1
        <5>1. i - 1 \in 1..n + v /\ i - 1 \notin 1..n /\ i - 1 # n + v /\ i # 1
          BY ONLY SMTT(30), <1>N, <2>0, <4>1
        <5> QED BY ZenonT(30), <1>2, <1>4, <5>1
      <4>2. i = n + 1 \/ i > n + 1
        BY ONLY SMTT(30), <1>N, <2>0, <2>2
      <4> QED BY Zenon, <4>1, <4>2
    <3>2. t[i].id = m + 1 /\ b[t[i].id].units = v
      BY ZenonT(30), <1>2, <2>2
    <3>3. i + v - 1 <= n + v /\ ~(i + v <= n + v)
      BY ONLY SMTT(30), <1>N, <3>1
    <3>4. \A j \in i..i + v - 1 : t[j].id = m + 1 /\ (t[j].last <=> j = i + v - 1)
      <4>1. \A j \in i..i + v - 1 : j \in 1..n + v /\ j \notin 1..n /\ (j = n + v <=> j = i + v - 1)
        BY ONLY SMTT(30), <1>N, <3>1
      <4> QED BY ZenonT(30), <1>2, <4>1
    <3> QED BY ZenonT(30), <3>2, <3>3, <3>4
  <2> QED BY ZenonT(30), <2>1, <2>2
<1> QED BY Zenon, <1>3, <1>4 DEF Cut

-----------------------------------------------------------------------------
(* Sequences.                                                              *)
LEMMA Joined ==
  ASSUME NEW S, NEW r \in Seq(S), NEW s \in Seq(S)
  PROVE  /\ r \o s \in Seq(S) /\ Len(r \o s) = Len(r) + Len(s)
         /\ \A i \in 1..Len(r) : (r \o s)[i] = r[i]
         /\ \A i \in 1..Len(s) : (r \o s)[Len(r) + i] = s[i]
  BY SMTT(30)

LEMMA Parted ==
  ASSUME NEW S, NEW s \in Seq(S), NEW n \in 0..Len(s)
  PROVE  /\ SubSeq(s, 1, n) \in Seq(S) /\ SubSeq(s, n + 1, Len(s)) \in Seq(S)
         /\ Len(SubSeq(s, 1, n)) = n
         /\ SubSeq(s, 1, n) \o SubSeq(s, n + 1, Len(s)) = s
<1>1. Len(s) \in Nat /\ 1 \in 1..Len(s) + 1 /\ n \in 1 - 1..Len(s) /\ Len(s) \in n..Len(s)
  OBVIOUS
<1>2. SubSeq(s, 1, n) \o SubSeq(s, n + 1, Len(s)) = SubSeq(s, 1, Len(s))
  BY ZenonT(30), <1>1, ConcatAdjacentSubSeq
<1>3. SubSeq(s, 1, Len(s)) = s
  BY SubSeqFull
<1>4. /\ SubSeq(s, 1, n) \in Seq(S) /\ SubSeq(s, n + 1, Len(s)) \in Seq(S)
      /\ Len(SubSeq(s, 1, n)) = n
  OBVIOUS
<1> QED BY ZenonT(30), <1>2, <1>3, <1>4

(* One unit goes from one sequence to the other.                           *)
LEMMA Passed ==
  ASSUME NEW S, NEW s \in Seq(S), NEW t \in Seq(S), t # <<>>
  PROVE  /\ Append(s, Head(t)) \in Seq(S) /\ Tail(t) \in Seq(S)
         /\ Append(s, Head(t)) \o Tail(t) = s \o t
<1>1. Len(t) \in Nat \ {0} /\ 1 \in 1..Len(t) /\ Len(t) \in 1..Len(t)
  OBVIOUS
<1>2. Head(t) = t[1] /\ t[1] \in S /\ Tail(t) \in Seq(S) /\ <<t[1]>> \in Seq(S)
  BY <1>1
<1>3. Tail(t) = SubSeq(t, 2, Len(t)) /\ SubSeq(t, 1, Len(t)) = t
  BY TailIsSubSeq, SubSeqFull
<1>4. SubSeq(t, 1, Len(t)) = <<t[1]>> \o SubSeq(t, 1 + 1, Len(t))
  BY ONLY t \in Seq(S), <1>1, SubSeqRecursiveFirst
<1>5. <<t[1]>> \o Tail(t) = t
  BY <1>3, <1>4
<1>6. Append(s, t[1]) = s \o <<t[1]>> /\ Append(s, t[1]) \in Seq(S)
  BY <1>2, AppendIsConcat, AppendProperties
<1>7. (s \o <<t[1]>>) \o Tail(t) = s \o (<<t[1]>> \o Tail(t))
  BY ONLY s \in Seq(S), <1>2, ConcatAssociative
<1> QED BY <1>2, <1>5, <1>6, <1>7

(* The end of a sequence in front of another.                              *)
ShortBy(t, s, u) == Len(t) = Len(s) - u /\ \A i \in 1..Len(s) - u : t[i] = s[i + u]

LEMMA Shortened ==
  ASSUME NEW S, NEW r \in Seq(S), NEW s \in Seq(S), NEW u \in 0..Len(r)
  PROVE  /\ SubSeq(r, u + 1, Len(r)) \in Seq(S)
         /\ ShortBy(SubSeq(r, u + 1, Len(r)) \o s, r \o s, u)
<1> DEFINE a == SubSeq(r, 1, u)
           b == SubSeq(r, u + 1, Len(r))
           t == b \o s
<1>0. u \in Nat
  OBVIOUS
<1>1. a \in Seq(S) /\ b \in Seq(S) /\ a \o b = r /\ Len(a) = u /\ u \in Nat
  BY Zenon, <1>0, Parted
<1> HIDE DEF a, b
<1>a. a \in Seq(S) /\ b \in Seq(S)
  BY <1>1
<1>2. t \in Seq(S) /\ Len(t) \in Nat
  BY ONLY <1>1, s \in Seq(S), ConcatProperties
<1>3. (a \o b) \o s = a \o (b \o s)
  BY ONLY SMTT(30), <1>a, s \in Seq(S), ConcatAssociative
<1>4. r \o s = a \o t
  BY Zenon, <1>1, <1>3
<1> HIDE DEF t
<1>5. /\ Len(a \o t) = Len(a) + Len(t)
      /\ \A i \in 1..Len(t) : (a \o t)[Len(a) + i] = t[i]
  BY ONLY <1>a, <1>2, Joined
<1>6. Len(t) = Len(r \o s) - u
  BY ONLY <1>1, <1>2, <1>4, <1>5
<1>7. \A i \in 1..Len(t) : u + i = i + u
  BY ONLY <1>1, <1>2
<1>8. \A i \in 1..Len(t) : t[i] = (r \o s)[i + u]
  BY Zenon, <1>1, <1>4, <1>5, <1>7
<1> QED BY Zenon, <1>1, <1>6, <1>8 DEF b, t, ShortBy

-----------------------------------------------------------------------------
(* The answers to the requests a, sent or in the backlog: as               *)
(* ResponsesInOrder has it, to requests that were asked.                   *)
FinalIn(a, x) == x.part = ErrorReply \/ ~a[x.id].keep

Behind(a, x, y) ==
  IF Last(x) THEN ~FinalIn(a, x) /\ y.id = x.id + 1 /\ First(y)
  ELSE y.id = x.id /\ y.part = x.part + 1

InOrder(s, n, a, g) ==
  /\ \A i \in 1..n : s[i].gen = g /\ s[i].id \in 1..Len(a)
  /\ n > 0 => s[1].id = 1 /\ First(s[1])
  /\ \A i \in 1..n - 1 : Behind(a, s[i], s[i + 1])

(* The response to request k is the next to begin, or as far as part p.    *)
Ready(s, a, k) ==
  IF Len(s) = 0 THEN k = 1
  ELSE Last(s[Len(s)]) /\ ~FinalIn(a, s[Len(s)]) /\ s[Len(s)].id + 1 = k

Midway(s, k, p) == Len(s) # 0 /\ s[Len(s)].id = k /\ s[Len(s)].part = p

(* x may come behind s.                                                    *)
Fits(s, a, x) ==
  IF Len(s) = 0 THEN x.id = 1 /\ First(x) ELSE Behind(a, s[Len(s)], x)

LEMMA Grows ==
  ASSUME NEW s \in Seq(Items), NEW a \in Seq(Requests), NEW g, InOrder(s, Len(s), a, g),
         NEW x \in Items, x.gen = g, x.id \in 1..Len(a), Fits(s, a, x)
  PROVE  /\ InOrder(Append(s, x), Len(Append(s, x)), a, g)
         /\ Append(s, x) \in Seq(Items)
         /\ Len(Append(s, x)) # 0 /\ Append(s, x)[Len(Append(s, x))] = x
<1> DEFINE t == Append(s, x)
<1>1. PICK n \in Nat : n = Len(s)
  OBVIOUS
<1>2. /\ t \in Seq(Items) /\ Len(t) = n + 1 /\ t[n + 1] = x
      /\ \A i \in 1..n : t[i] = s[i]
  BY SMTT(30), <1>1, AppendProperties
<1>3. InOrder(s, n, a, g) /\ (n = 0 => x.id = 1 /\ First(x)) /\ (n # 0 => Behind(a, s[n], x))
  BY SMTT(30), <1>1 DEF Fits
<1> HIDE DEF t
<1>4. ASSUME NEW i \in 1..n + 1 PROVE t[i].gen = g /\ t[i].id \in 1..Len(a)
  <2>1. CASE i \in 1..n
    BY Zenon, <1>2, <1>3, <2>1 DEF InOrder
  <2>2. CASE i \notin 1..n
    <3>1. i = n + 1
      BY ONLY SMTT(30), <2>2, n \in Nat
    <3> QED BY Zenon, <1>2, <3>1
  <2> QED BY ZenonT(30), <2>1, <2>2
<1>5. t[1].id = 1 /\ First(t[1])
  <2>1. CASE n = 0
    <3>1. n + 1 = 1
      BY ONLY <2>1
    <3> QED BY Zenon, <1>2, <1>3, <2>1, <3>1
  <2>2. CASE n # 0
    <3>1. n > 0 /\ 1 \in 1..n
      BY ONLY <2>2, n \in Nat
    <3> QED BY Zenon, <1>2, <1>3, <3>1 DEF InOrder
  <2> QED BY ZenonT(30), <2>1, <2>2
<1>6. ASSUME NEW i \in 1..n + 1 - 1 PROVE Behind(a, t[i], t[i + 1])
  <2>1. i \in 1..n
    BY ONLY n \in Nat
  <2>2. CASE i = n
    <3>1. n # 0
      BY ONLY <2>1, <2>2, n \in Nat
    <3> QED BY Zenon, <1>2, <1>3, <2>1, <2>2, <3>1
  <2>3. CASE i # n
    <3>1. i \in 1..n - 1 /\ i + 1 \in 1..n
      BY ONLY SMTT(30), <2>1, <2>3, n \in Nat
    <3> QED BY Zenon, <1>2, <1>3, <2>1, <3>1 DEF InOrder
  <2> QED BY <2>2, <2>3
<1>7. InOrder(t, n + 1, a, g)
  BY <1>4, <1>5, <1>6 DEF InOrder
<1>8. n + 1 # 0
  BY ONLY n \in Nat
<1> QED BY Zenon, <1>2, <1>7, <1>8 DEF t

(* More requests change nothing about the answers there are.               *)
LEMMA MoreAsked ==
  ASSUME NEW s \in Seq(Items), NEW a \in Seq(Requests), NEW g, InOrder(s, Len(s), a, g),
         NEW q \in Requests
  PROVE  /\ InOrder(s, Len(s), Append(a, q), g)
         /\ \A k : Ready(s, a, k) => Ready(s, Append(a, q), k)
<1> DEFINE b == Append(a, q)
<1>1. PICK n \in Nat : n = Len(s)
  OBVIOUS
<1>2. PICK m \in Nat : m = Len(a)
  OBVIOUS
<1>3. Len(b) = m + 1 /\ \A k \in 1..m : b[k] = a[k]
  BY <1>2
<1> HIDE DEF b
<1>4. InOrder(s, n, a, g)
  BY <1>1
<1>5. \A i \in 1..n : s[i].gen = g /\ s[i].id \in 1..m
  BY Zenon, <1>2, <1>4 DEF InOrder
<1>6. \A k \in 1..m : k \in 1..m + 1
  BY ONLY m \in Nat
<1>7. \A i \in 1..n : FinalIn(b, s[i]) <=> FinalIn(a, s[i])
  BY Zenon, <1>3, <1>5 DEF FinalIn
<1>8. ASSUME NEW i \in 1..n - 1 PROVE Behind(b, s[i], s[i + 1])
  <2>1. i \in 1..n
    BY ONLY n \in Nat
  <2>2. Behind(a, s[i], s[i + 1])
    BY Zenon, <1>4 DEF InOrder
  <2> QED BY Zenon, <1>7, <2>1, <2>2 DEF Behind
<1>9. n > 0 => s[1].id = 1 /\ First(s[1])
  BY Zenon, <1>4 DEF InOrder
<1>10. InOrder(s, n, b, g)
  BY ZenonT(30), <1>3, <1>5, <1>6, <1>8, <1>9 DEF InOrder
<1>11. n # 0 => n \in 1..n
  BY ONLY n \in Nat
<1>12. ASSUME NEW k, Ready(s, a, k) PROVE Ready(s, b, k)
  BY Zenon, <1>1, <1>7, <1>11, <1>12 DEF Ready
<1> QED BY Zenon, <1>1, <1>10, <1>12 DEF b

-----------------------------------------------------------------------------
(* What the buffers hold.                                                  *)
Carried ==
  /\ conn.st # "open" => recv \in Seq(Units) /\ Len(recv) <= RecvMax
  /\ socket \in Seq(Units) /\ rest \in Seq(Units)
  /\ wire \in Seq(Items) /\ out \in Seq(Items)
  /\ asked \in Seq(Requests)
  /\ \A k \in 1..Len(asked) : asked[k].kind = "ws" => k = 1

Input == recv \o (socket \o rest)
Answers == wire \o out
Due == NextIn(Input, asked)

(* Nothing more will be sent in this life: the connection is about to be   *)
(* closed, drains its last response, speaks WebSocket, or is closed.       *)
Ended ==
  \/ pc \in {"fail", "finish", "close"}
  \/ conn.closing
  \/ conn.st \in {"open", "closed"}

(* The context c is for the request before the one that is due.            *)
Of(c) ==
  /\ ctx[c].id \in 1..Len(asked) /\ ctx[c].id + 1 = Due
  /\ ctx[c].keep = asked[ctx[c].id].keep

(* How far the answers are: a stream is as far as its offset, a file is    *)
(* still to be sent, or the request that is due is to be answered.         *)
Answering ==
  /\ conn.stream # NULL =>
       /\ Of(conn.stream) /\ Stream.off \in 0..Chunks
       /\ Midway(Answers, Stream.id, Stream.off)
       /\ conn.stream \in reads => Stream.off # Chunks
  /\ conn.stream = NULL /\ conn.inflight =>
       \A c \in reads : Mine(c) => Of(c) /\ Ready(Answers, asked, ctx[c].id)
  /\ ~conn.inflight => Ready(Answers, asked, Due)

Data ==
  /\ conn.st # "open" => Aligned(Input, asked)
  /\ InOrder(Answers, Len(Answers), asked, conn.gen)
  /\ conn.st = "closed" =>
       recv = <<>> /\ socket = <<>> /\ rest = <<>> /\ wire = <<>> /\ out = <<>> /\ asked = <<>>
  /\ pc = "error" => recv # <<>>
  /\ ~Ended => Answering

LEMMA InputTyped ==
  ASSUME Carried, conn.st # "open"
  PROVE  Input \in Seq(Units) /\ Answers \in Seq(Items) /\ socket \o rest \in Seq(Units)
<1>1. socket \o rest \in Seq(Units) /\ wire \o out \in Seq(Items)
  BY SMTT(30), Joined DEF Carried
<1>2. recv \o (socket \o rest) \in Seq(Units)
  BY SMTT(30), <1>1, Joined DEF Carried
<1> QED BY SMTT(30), <1>1, <1>2 DEF Input, Answers

LEMMA AskedSized == Carried => Sized(asked, Len(asked))
  BY SMTT(30), HttpAssumption DEF Carried, Sized

(* The request at the head of the receive buffer is the one that is due.   *)
LEMMA HeadDue ==
  ASSUME Carried, conn.st # "open", Aligned(Input, asked), recv # <<>>
  PROVE  /\ Len(Input) \in Nat \ {0} /\ Input[1] = recv[1] /\ Head(recv) = recv[1]
         /\ Head(recv).id = Due /\ Due \in 1..Len(asked)
<1>1. Len(recv) \in Nat \ {0} /\ Head(recv) = recv[1] /\ 1 \in 1..Len(recv)
  BY SMTT(30) DEF Carried
<1>2. /\ Len(Input) = Len(recv) + Len(socket \o rest)
      /\ \A i \in 1..Len(recv) : Input[i] = recv[i]
  BY InputTyped, Joined DEF Carried, Input
<1>3. Len(socket \o rest) \in Nat
  BY InputTyped
<1>4. Len(Input) \in Nat \ {0} /\ 1 \in 1..Len(Input)
  BY ONLY <1>1, <1>2, <1>3
<1>5. Input[1] = recv[1]
  BY <1>1, <1>2
<1>6. Input[1].id \in 1..Len(asked)
  BY ZenonT(30), <1>4 DEF Aligned, Cut
<1> QED BY ZenonT(30), <1>1, <1>4, <1>5, <1>6 DEF Due, NextIn

(* process_http_buffer takes a whole request off the buffer: the next one  *)
(* is due.                                                                 *)
LEMMA Consumes ==
  ASSUME Carried, conn.st # "open", Aligned(Input, asked), recv # <<>>, Complete,
         recv' = Consumed, UNCHANGED <<socket, rest, asked>>
  PROVE  /\ recv' \in Seq(Units) /\ Len(recv') <= Len(recv)
         /\ Aligned(Input, asked)' /\ Due' = Due + 1
<1> DEFINE t == socket \o rest
           u == Request.units
           n == Len(Input)
           m == Len(asked)
<1>1. recv \in Seq(Units) /\ t \in Seq(Units) /\ Input \in Seq(Units) /\ asked \in Seq(Requests)
  BY ZenonT(30), InputTyped DEF Carried
<1>2. n \in Nat /\ m \in Nat /\ Len(recv) \in Nat /\ n > 0
  BY <1>1, HeadDue
<1>3. Cut(Input, n, asked, m) /\ Sized(asked, m)
  BY SMTT(30), AskedSized DEF Aligned
<1>4. u = asked[Input[1].id].units
  BY ZenonT(30), HeadDue DEF Request
<1>5. /\ \A i \in 1..Len(recv) : Input[i] = recv[i]
      /\ n = Len(recv) + Len(t) /\ Len(t) \in Nat
  BY SMTT(30), <1>1, Joined DEF Input
<1> HIDE DEF u, n, m, t
<1>6. /\ Input[1].id \in 1..m /\ u \in 1..n
      /\ \A j \in 1..u : Input[j].id = Input[1].id /\ (Input[j].last <=> j = u)
      /\ u + 1 <= n => Input[u + 1].id = Input[1].id + 1
      /\ u + 1 > n => Input[1].id = m
  <2>1. Begins(Input, n, asked[Input[1].id].units, m)
    BY ONLY ZenonT(30), <1>2, <1>3, FirstRun
  <2> QED BY ZenonT(30), <1>4, <2>1 DEF Begins
<1>7. u \in 0..Len(recv)
  <2>1. PICK i \in 1..Len(recv) : recv[i].last
    BY DEF Complete
  <2>2. Input[i].last
    BY SMTT(30), <1>5, <2>1
  <2>3. ~(i < u)
    <3>1. ASSUME i < u PROVE i \in 1..u /\ i # u
      BY ONLY <1>2, <1>6, <3>1
    <3> QED BY ZenonT(30), <1>6, <2>2, <3>1
  <2> QED BY ONLY <1>2, <1>6, <2>3
<1>8. recv' = SubSeq(recv, u + 1, Len(recv)) /\ (socket \o rest)' = t /\ asked' = asked
  BY DEF Consumed, u, t
<1>9. /\ recv' \in Seq(Units)
      /\ ShortBy(recv' \o t, recv \o t, u)
  <2>1. recv \in Seq(Units) /\ t \in Seq(Units)
    BY <1>1
  <2> DEFINE r == SubSeq(recv, u + 1, Len(recv))
  <2>2. /\ r \in Seq(Units)
        /\ ShortBy(r \o t, recv \o t, u)
    BY ONLY Zenon, <2>1, <1>7, Shortened
  <2> HIDE DEF r
  <2>3. recv' = r
    BY <1>8 DEF r
  <2> QED BY Zenon, <2>2, <2>3
<1>10. Input' = recv' \o t /\ Input = recv \o t
  BY <1>8 DEF Input, t
<1>11. Len(Input') = n - u /\ \A i \in 1..n - u : Input'[i] = Input[i + u]
  BY ZenonT(30), <1>9, <1>10 DEF n, ShortBy
<1>12. Input[u].last
  BY <1>6
<1>13. Cut(Input', n - u, asked, m)
  BY ONLY Zenon, <1>2, <1>3, <1>6, <1>11, <1>12, FirstOff
<1>14. Aligned(Input, asked)'
  BY ZenonT(30), <1>8, <1>11, <1>13 DEF Aligned, m
<1>15. Due = Input[1].id /\ Due \in Nat
  <2>1. Due = Input[1].id
    BY <1>2 DEF Due, NextIn, n
  <2> QED BY ONLY SMTT(30), <1>2, <1>6, <2>1
<1>16. Due' = Input[1].id + 1
  <2>1. Due' = IF n - u = 0 THEN m + 1 ELSE Input'[1].id
    BY ZenonT(30), <1>8, <1>11 DEF Due, NextIn, m
  <2>2. CASE n - u = 0
    <3>1. u + 1 > n
      BY ONLY <1>2, <1>6, <2>2
    <3> QED BY ZenonT(30), <1>6, <2>1, <2>2, <3>1
  <2>3. CASE n - u # 0
    <3>1. u + 1 <= n /\ 1 \in 1..n - u /\ 1 + u = u + 1
      BY ONLY <1>2, <1>6, <2>3
    <3> QED BY ZenonT(30), <1>6, <1>11, <2>1, <2>3, <3>1
  <2> QED BY ZenonT(30), <2>2, <2>3
<1>17. Len(recv') <= Len(recv)
  <2>1. Len(recv') + Len(t) = n - u /\ Len(recv') \in Nat
    BY <1>1, <1>9, <1>10, <1>11, Joined
  <2> QED BY ONLY SMTT(30), <1>2, <1>5, <1>6, <2>1
<1> QED BY ZenonT(30), <1>9, <1>14, <1>15, <1>16, <1>17

(* portico_conn_send: the item comes last, sent or in the backlog.         *)
LEMMA Sends ==
  ASSUME Carried, NEW x \in Items, ConnSend(x)
  PROVE  wire' \in Seq(Items) /\ out' \in Seq(Items) /\ Answers' = Append(Answers, x)
<1>1. wire \in Seq(Items) /\ out \in Seq(Items) /\ <<x>> \in Seq(Items) /\ <<>> \in Seq(Items)
  BY DEF Carried
<1>2. Append(wire \o out, x) = (wire \o out) \o <<x>>
  BY ONLY x \in Items, <1>1, AppendIsConcat, ConcatProperties
<1>3. (wire \o out) \o <<x>> = wire \o (out \o <<x>>)
  BY ONLY SMTT(30), <1>1, ConcatAssociative
<1>4. /\ Append(out, x) = out \o <<x>> /\ Append(out, x) \in Seq(Items)
      /\ Append(wire, x) = wire \o <<x>> /\ Append(wire, x) \in Seq(Items)
  BY ONLY SMTT(30), x \in Items, <1>1, AppendIsConcat, AppendProperties
<1>5. CASE out' = Append(out, x) /\ wire' = wire
  BY <1>1, <1>2, <1>3, <1>4, <1>5 DEF Answers
<1>6. ASSUME out = <<>> PROVE wire \o (out \o <<x>>) = wire \o <<x>>
  <2>1. out \o <<x>> = <<x>>
    BY ONLY <1>1, <1>6, ConcatEmptySeq
  <2> QED BY SMTT(30), <2>1
<1>7. CASE out = <<>> /\ wire' = Append(wire, x) /\ out' = out
  <2>1. Append(wire, x) \o out = Append(wire, x)
    BY ONLY <1>4, <1>7, ConcatEmptySeq
  <2> QED BY <1>1, <1>2, <1>3, <1>4, <1>6, <1>7, <2>1 DEF Answers
<1>8. CASE out = <<>> /\ out' = <<x>> /\ wire' = wire
  BY <1>1, <1>2, <1>3, <1>6, <1>8 DEF Answers
<1> QED BY Zenon, <1>5, <1>7, <1>8 DEF ConnSend

LEMMA SendsNot == ConnSendFails => UNCHANGED <<wire, out, Answers>>
  BY DEF ConnSendFails, outVars, Answers

(* A step that neither takes a request nor sends.                          *)
LEMMA Kept ==
  ASSUME Data, Input' = Input, Answers' = Answers, asked' = asked,
         conn'.gen = conn.gen, conn'.stream = conn.stream, conn'.inflight = conn.inflight,
         conn'.st # "open" => conn.st # "open",
         conn'.st = "closed" => conn.st = "closed" /\ UNCHANGED <<recv, socket, rest, wire, out>>,
         reads' \subseteq reads, reads \subseteq Contexts,
         conn.stream \in Contexts \union {NULL},
         \A c \in Contexts : /\ ctx'[c].id = ctx[c].id /\ ctx'[c].off = ctx[c].off
                             /\ ctx'[c].keep = ctx[c].keep /\ ctx'[c].gen = ctx[c].gen,
         pc' = "error" => recv' # <<>>,
         Ended => Ended'
  PROVE  Data'
<1>1. /\ (conn.st # "open" => Aligned(Input, asked))'
      /\ InOrder(Answers, Len(Answers), asked, conn.gen)'
  BY Zenon DEF Data
<1>2. (conn.st = "closed" =>
         recv = <<>> /\ socket = <<>> /\ rest = <<>> /\ wire = <<>> /\ out = <<>> /\ asked = <<>>)'
  BY Zenon DEF Data
<1>3. Due' = Due
  BY Zenon DEF Due
<1>4. \A c \in Contexts : Of(c)' <=> Of(c)
  BY Zenon, <1>3 DEF Of
<1>5. ASSUME ~Ended' PROVE Answering'
  <2>1. Answering
    BY ZenonT(30), <1>5 DEF Data
  <2>2. ASSUME conn.stream # NULL
        PROVE  (/\ Of(conn.stream) /\ Stream.off \in 0..Chunks
                /\ Midway(Answers, Stream.id, Stream.off)
                /\ conn.stream \in reads => Stream.off # Chunks)'
    <3>1. conn.stream \in Contexts
      BY ZenonT(30), <2>2
    <3>2. PICK c \in Contexts : c = conn.stream /\ c = conn'.stream
      BY ZenonT(30), <3>1
    <3>3. /\ Of(c) /\ ctx[c].off \in 0..Chunks /\ Midway(Answers, ctx[c].id, ctx[c].off)
          /\ c \in reads => ctx[c].off # Chunks
      BY Zenon, <2>1, <2>2, <3>2 DEF Answering, Stream
    <3>4. /\ Of(c)' /\ ctx'[c].off \in 0..Chunks /\ Midway(Answers, ctx[c].id, ctx[c].off)'
          /\ c \in reads' => ctx'[c].off # Chunks
      BY Zenon, <1>4, <3>3
    <3> QED BY ZenonT(30), <3>2, <3>4 DEF Of, Stream
  <2>3. ASSUME conn.stream = NULL, conn.inflight, NEW c \in reads', Mine(c)'
        PROVE  Of(c)' /\ Ready(Answers, asked, ctx[c].id)'
    <3>1. c \in reads /\ c \in Contexts
      BY ZenonT(30), <2>3
    <3>2. conn'.st # "closed" /\ conn.st # "closed"
      BY ZenonT(30), <1>5 DEF Ended
    <3>3. Mine(c)
      BY ZenonT(30), <2>3, <3>1, <3>2 DEF Mine
    <3>4. Of(c) /\ Ready(Answers, asked, ctx[c].id)
      BY Zenon, <2>1, <2>3, <3>1, <3>3 DEF Answering
    <3> QED BY ZenonT(30), <1>4, <3>1, <3>4
  <2>4. ASSUME ~conn.inflight PROVE Ready(Answers, asked, Due)'
    BY Zenon, <1>3, <2>1, <2>4 DEF Answering
  <2> QED BY ZenonT(30), <2>2, <2>3, <2>4 DEF Answering
<1> QED BY Zenon, <1>1, <1>2, <1>5 DEF Data

(* A handler that leaves the buffers alone.                                *)
LEMMA QuietData ==
  ASSUME Inv, Output, Carried, Data,
         \/ Event \/ IgnoreInput \/ ReadFails \/ ProcessIncomplete \/ ProcessBad
         \/ ServeFileFails \/ AdvanceWaits \/ WriteFails \/ Fail \/ FinishClose \/ InitialDispatch
  PROVE  Carried' /\ Data'
<1> USE DEF Return0, Goto, outVars, clientVars, Processing
<1>1. UNCHANGED <<recv, socket, rest, wire, out, asked, ctx, reads>>
  BY ZenonT(30) DEF Event, IgnoreInput, ReadFails, ProcessIncomplete, ProcessBad,
     ServeFileFails, AdvanceWaits, WriteFails, Fail, FinishClose, InitialDispatch
<1>2. \/ conn' = conn
      \/ pc \in {"fail", "finish"} /\ conn' = [conn EXCEPT !.closing = TRUE]
      \/ conn.st = "connecting" /\ conn' = [conn EXCEPT !.st = "http"]
  BY ZenonT(30) DEF Inv, Places, Event, IgnoreInput, ReadFails, ProcessIncomplete,
     ProcessBad, ServeFileFails, AdvanceWaits, WriteFails, Fail, FinishClose, InitialDispatch
<1>3. conn \in Connections /\ reads \subseteq Contexts
  BY ZenonT(30) DEF Inv, Shapes
<1>4. /\ conn'.gen = conn.gen /\ conn'.stream = conn.stream /\ conn'.inflight = conn.inflight
      /\ conn'.st # "open" => conn.st # "open"
      /\ conn'.st = "closed" => conn.st = "closed"
      /\ conn.closing => conn'.closing
      /\ conn.st \in {"open", "closed"} => conn'.st = conn.st
      /\ conn.stream \in Contexts \union {NULL}
  BY SMTT(30), <1>2, <1>3 DEF Connections
<1>5. pc' = "error" => recv' # <<>>
  <2>1. Complete => recv # <<>>
    BY SMTT(30) DEF Complete
  <2> QED BY ZenonT(30), <1>1, <2>1 DEF Event, IgnoreInput, ReadFails, ProcessIncomplete, ProcessBad,
     ServeFileFails, AdvanceWaits, WriteFails, Fail, FinishClose, InitialDispatch, Unanswerable
<1>6. Ended => Ended'
  <2>1. ASSUME pc \in {"fail", "finish", "close"} PROVE pc' = "close" \/ conn'.closing
    BY ZenonT(30), <1>3, <2>1 DEF Event, IgnoreInput, ReadFails, ProcessIncomplete, ProcessBad,
     ServeFileFails, AdvanceWaits, WriteFails, Fail, FinishClose, InitialDispatch, Connections
  <2> QED BY ZenonT(30), <1>4, <2>1 DEF Ended
<1>7. Input' = Input /\ Answers' = Answers
  BY <1>1 DEF Input, Answers
<1>8. Carried'
  BY ZenonT(30), <1>1, <1>4 DEF Carried
<1> QED BY ZenonT(30), <1>1, <1>3, <1>4, <1>5, <1>6, <1>7, <1>8, Kept

(* The client takes or drops the connection, or a read has come too late.  *)
LEMMA AsideData ==
  ASSUME Inv, Carried, Data,
         ClientReads \/ ClientCloses \/ (\E c \in Contexts : DropCompletion(c)) \/ UNCHANGED vars
  PROVE  Carried' /\ Data'
<1>1. UNCHANGED <<recv, socket, rest, wire, out, asked, conn, pc>>
  BY ZenonT(30) DEF ClientReads, ClientCloses, DropCompletion, outVars, clientVars, vars
<1>2. conn \in Connections /\ reads \subseteq Contexts /\ conn.stream \in Contexts \union {NULL}
  BY ZenonT(30) DEF Inv, Shapes, Connections
<1>3. reads' \subseteq reads
  BY ZenonT(30) DEF ClientReads, ClientCloses, DropCompletion, Completes, vars
<1>4. \A c \in Contexts : /\ ctx'[c].id = ctx[c].id /\ ctx'[c].off = ctx[c].off
                          /\ ctx'[c].keep = ctx[c].keep /\ ctx'[c].gen = ctx[c].gen
  <2>1. ASSUME NEW b \in Contexts, NEW c \in Contexts, ctx' = FreeContext(b)
        PROVE  /\ ctx'[c].id = ctx[c].id /\ ctx'[c].off = ctx[c].off
               /\ ctx'[c].keep = ctx[c].keep /\ ctx'[c].gen = ctx[c].gen
    <3>1. /\ ctx = [d \in Contexts |-> ctx[d]]
          /\ ctx[c] = [st |-> ctx[c].st, kind |-> ctx[c].kind, gen |-> ctx[c].gen,
                       id |-> ctx[c].id, off |-> ctx[c].off, keep |-> ctx[c].keep,
                       reading |-> ctx[c].reading]
      BY Zenon DEF Inv, Shapes
    <3>2. CASE b # c
      BY ZenonT(30), <2>1, <3>1, <3>2 DEF FreeContext
    <3>3. CASE b = c
      <4>1. ctx'[c] = [ctx[c] EXCEPT !.st = "freed"]
        BY ZenonT(30), <2>1, <3>1, <3>3 DEF FreeContext
      <4> QED BY Zenon, <3>1, <4>1
    <3> QED BY ZenonT(30), <3>2, <3>3
  <2>2. ctx' = ctx \/ \E b \in Contexts : ctx' = FreeContext(b)
    BY ZenonT(30) DEF ClientReads, ClientCloses, DropCompletion, vars
  <2> QED BY ZenonT(30), <2>1, <2>2
<1>5. Input' = Input /\ Answers' = Answers /\ (Ended => Ended') /\ (pc' = "error" => recv' # <<>>)
  BY ZenonT(30), <1>1 DEF Input, Answers, Ended, Data
<1>6. Carried'
  BY ZenonT(30), <1>1 DEF Carried
<1> QED BY ZenonT(30), <1>1, <1>2, <1>3, <1>4, <1>5, <1>6, Kept

(* Units go from the client to the socket and on to the receive buffer.    *)
LEMMA ClientSendsData ==
  ASSUME Inv, Carried, Data, ClientSends
  PROVE  Carried' /\ Data'
<1>1. /\ UNCHANGED <<recv, wire, out, asked, conn, pc, ctx, reads>>
      /\ rest # <<>> /\ socket' = Append(socket, Head(rest)) /\ rest' = Tail(rest)
      /\ conn.st # "closed"
  BY SMTT(30) DEF ClientSends, Connected
<1>2. conn \in Connections /\ reads \subseteq Contexts /\ conn.stream \in Contexts \union {NULL}
  BY ZenonT(30) DEF Inv, Shapes, Connections
<1>3. socket' \in Seq(Units) /\ rest' \in Seq(Units) /\ (socket \o rest)' = socket \o rest
  BY ZenonT(30), <1>1, Passed DEF Carried
<1>4. Input' = Input /\ Answers' = Answers /\ (Ended => Ended') /\ (pc' = "error" => recv' # <<>>)
  BY Zenon, <1>1, <1>3 DEF Input, Answers, Ended, Data
<1>5. Carried'
  BY ZenonT(30), <1>1, <1>3 DEF Carried
<1> QED BY ZenonT(30), <1>1, <1>2, <1>4, <1>5, Kept

LEMMA ReadData ==
  ASSUME Inv, Output, Carried, Data, ReadIntoRecv
  PROVE  Carried' /\ Data'
<1> USE DEF Return0, Goto, outVars
<1>1. /\ UNCHANGED <<rest, wire, out, asked, conn, ctx, reads>>
      /\ recv' = recv \o SubSeq(socket, 1, Taken)
      /\ socket' = SubSeq(socket, Taken + 1, Len(socket))
      /\ pc = "read" /\ pc' # "error" /\ conn.st \notin {"closed", "open"}
  BY ZenonT(30) DEF ReadIntoRecv, Inv, Places
<1>2. conn \in Connections /\ reads \subseteq Contexts /\ conn.stream \in Contexts \union {NULL}
  BY ZenonT(30) DEF Inv, Shapes, Connections
<1>3. Carried' /\ Input' = Input
  <2> DEFINE p == SubSeq(socket, 1, Taken)
             q == SubSeq(socket, Taken + 1, Len(socket))
  <2>1. /\ recv \in Seq(Units) /\ socket \in Seq(Units) /\ rest \in Seq(Units)
        /\ Len(recv) \in Nat /\ Len(socket) \in Nat
    BY SMTT(30), <1>1 DEF Carried
  <2>2. Len(recv) <= RecvMax
    BY ZenonT(30) DEF Carried, ReadIntoRecv
  <2>3. Taken \in 0..Len(socket) /\ Len(recv) + Taken <= RecvMax
    BY <2>1, <2>2, HttpAssumption DEF Taken
  <2>4. p \in Seq(Units) /\ q \in Seq(Units) /\ Len(p) = Taken /\ p \o q = socket
    BY ZenonT(30), <2>1, <2>3, Parted
  <2> HIDE DEF p, q
  <2>5. recv' = recv \o p /\ socket' = q /\ rest' = rest
    BY <1>1 DEF p, q
  <2>6. q \o rest \in Seq(Units) /\ recv \o p \in Seq(Units) /\ Len(recv \o p) = Len(recv) + Taken
    BY ZenonT(30), <2>1, <2>4, Joined
  <2>7. (recv \o p) \o (q \o rest) = recv \o (p \o (q \o rest))
    <3> DEFINE w == q \o rest
    <3>1. recv \in Seq(Units) /\ p \in Seq(Units) /\ w \in Seq(Units)
      BY SMTT(30), <2>1, <2>4, <2>6
    <3> HIDE DEF w
    <3>2. (recv \o p) \o w = recv \o (p \o w)
      BY ONLY SMTT(30), <3>1, ConcatAssociative
    <3> QED BY SMTT(30), <3>2 DEF w
  <2>8. (p \o q) \o rest = p \o (q \o rest)
    <3>1. p \in Seq(Units) /\ q \in Seq(Units) /\ rest \in Seq(Units)
      BY <2>1, <2>4
    <3> QED BY ONLY SMTT(30), <3>1, ConcatAssociative
  <2>9. Input' = Input
    BY Zenon, <2>4, <2>5, <2>7, <2>8 DEF Input
  <2>10. Carried'
    BY ZenonT(30), <1>1, <2>3, <2>4, <2>5, <2>6 DEF Carried
  <2> QED BY SMTT(30), <2>9, <2>10
<1>4. Answers' = Answers /\ (Ended => Ended') /\ (pc' = "error" => recv' # <<>>)
  BY ZenonT(30), <1>1 DEF Answers, Ended
<1> QED BY ZenonT(30), <1>1, <1>2, <1>3, <1>4, Kept

(* A client asks for something more.                                       *)
LEMMA ClientAsksData ==
  ASSUME Inv, Carried, Data, NEW q \in Requests, ClientAsks(q)
  PROVE  Carried' /\ Data'
<1> DEFINE m == Len(asked)
           v == q.units
<1>1. /\ UNCHANGED <<recv, socket, wire, out, conn, pc, ctx, reads>>
      /\ rest = <<>> /\ conn.st # "closed"
      /\ q.kind = "ws" => asked = <<>>
      /\ asked' = Append(asked, q)
      /\ rest' = [i \in 1..v |-> [id |-> m + 1, last |-> i = v]]
  BY ZenonT(30) DEF ClientAsks, Connected, outVars
<1>2. m \in Nat /\ v \in Nat \ {0} /\ asked \in Seq(Requests) /\ socket \in Seq(Units)
  BY SMTT(30), HttpAssumption DEF Carried
<1>3. /\ asked' \in Seq(Requests) /\ Len(asked') = m + 1 /\ asked'[m + 1] = q
      /\ \A k \in 1..m : asked'[k] = asked[k]
  BY <1>1, <1>2
<1> HIDE DEF m, v
<1>4. /\ rest' \in Seq(Units) /\ Len(rest') = v
      /\ \A i \in 1..v : rest'[i].id = m + 1 /\ (rest'[i].last <=> i = v)
  <2>1. \A i \in 1..v : [id |-> m + 1, last |-> i = v] \in Units
    BY SMTT(30), <1>2 DEF Units
  <2>2. rest' \in [1..v -> Units]
    BY ZenonT(30), <1>1, <2>1
  <2>3. rest' \in Seq(Units) /\ Len(rest') = v
    BY <1>2, <2>2
  <2>4. ASSUME NEW i \in 1..v PROVE rest'[i].id = m + 1 /\ (rest'[i].last <=> i = v)
    <3>1. rest'[i] = [id |-> m + 1, last |-> i = v]
      BY ZenonT(30), <1>1
    <3>2. rest'[i].id = m + 1
      BY ONLY <3>1
    <3>3. rest'[i].last <=> i = v
      <4>1. PICK b \in BOOLEAN : b = (i = v)
        BY ZenonT(30)
      <4>2. rest'[i] = [id |-> m + 1, last |-> b]
        BY ZenonT(30), <3>1, <4>1
      <4>3. rest'[i].last = b
        BY ONLY <4>2
      <4> QED BY Zenon, <4>1, <4>3
    <3> QED BY ZenonT(30), <3>2, <3>3
  <2> QED BY ZenonT(30), <2>3, <2>4
<1>5. Carried'
  <2>1. ASSUME NEW k \in 1..m + 1, asked'[k].kind = "ws" PROVE k = 1
    <3>1. CASE k \in 1..m
      BY ZenonT(30), <1>3, <2>1, <3>1 DEF Carried, m
    <3>2. CASE k \notin 1..m
      <4>1. k = m + 1
        BY ONLY SMTT(30), <1>2, <3>2
      <4>2. m = 0
        BY SMTT(30), <1>1, <1>3, <2>1, <4>1 DEF m
      <4> QED BY <4>1, <4>2
    <3> QED BY <3>1, <3>2
  <2> QED BY ZenonT(30), <1>1, <1>3, <1>4, <2>1 DEF Carried
<1>6. Answers' = Answers /\ (Ended' <=> Ended)
  BY ZenonT(30), <1>1 DEF Answers, Ended
<1>7. Answers \in Seq(Items)
  BY ZenonT(30), Joined DEF Carried, Answers
<1>8. /\ InOrder(Answers, Len(Answers), asked', conn.gen)
      /\ \A k : Ready(Answers, asked, k) => Ready(Answers, asked', k)
  BY Zenon, <1>1, <1>2, <1>7, MoreAsked DEF Data
<1>9. ASSUME conn.st # "open" PROVE Aligned(Input, asked)' /\ Due' = Due
  <2> DEFINE n == Len(Input)
  <2>1. Input \in Seq(Units) /\ n \in Nat /\ recv \in Seq(Units)
    BY <1>9, InputTyped DEF Carried
  <2>2. Input' = Input \o rest'
    <3>1. Input = recv \o socket
      <4>1. socket \o rest = socket
        BY ONLY <1>1, <1>2, ConcatEmptySeq
      <4> QED BY <4>1 DEF Input
    <3>2. (recv \o socket) \o rest' = recv \o (socket \o rest')
      <4>1. recv \in Seq(Units) /\ socket \in Seq(Units) /\ rest' \in Seq(Units)
        BY ZenonT(30), <1>2, <1>4, <2>1
      <4> QED BY ONLY SMTT(30), <4>1, ConcatAssociative
    <3>3. Input' = recv \o (socket \o rest')
      BY ZenonT(30), <1>1 DEF Input
    <3> QED BY ZenonT(30), <3>1, <3>2, <3>3
  <2>3. /\ Len(Input') = n + v
        /\ \A i \in 1..n : Input'[i] = Input[i]
        /\ \A i \in 1..v : Input'[n + i] = rest'[i]
    <3>1. /\ Len(Input \o rest') = n + Len(rest')
          /\ \A i \in 1..n : (Input \o rest')[i] = Input[i]
          /\ \A i \in 1..Len(rest') : (Input \o rest')[n + i] = rest'[i]
      <4>1. Input \in Seq(Units) /\ rest' \in Seq(Units)
        BY ZenonT(30), <1>4, <2>1
      <4> QED BY ONLY SMTT(30), <4>1, Joined
    <3> QED BY ZenonT(30), <1>4, <2>2, <3>1
  <2>4. Cut(Input, n, asked, m) /\ Sized(asked, m)
    BY SMTT(30), <1>9, AskedSized DEF Data, Aligned, m
  <2> HIDE DEF n
  <2>5. asked'[m + 1].units = v
    BY ZenonT(30), <1>3 DEF v
  <2>6. \A i \in 1..v : Input'[n + i].id = m + 1 /\ (Input'[n + i].last <=> i = v)
    BY ZenonT(30), <1>4, <2>3
  <2>7. Cut(Input', n + v, asked', m + 1)
    <3>1. Agree(asked', asked, m) /\ Extends(Input', Input, n, v, m + 1)
      BY ZenonT(30), <1>3, <2>3, <2>6 DEF Agree, Extends
    <3> QED BY ONLY Zenon, <1>2, <2>1, <2>4, <2>5, <3>1, OneMore
  <2>8. Aligned(Input, asked)'
    BY ZenonT(30), <1>3, <2>3, <2>7 DEF Aligned
  <2>9. Due' = Due
    <3>1. Due = IF n = 0 THEN m + 1 ELSE Input[1].id
      BY DEF Due, NextIn, n, m
    <3>2. n + v # 0
      BY ONLY <1>2, <2>1
    <3>3. Due' = Input'[1].id
      BY ZenonT(30), <2>3, <3>2 DEF Due, NextIn
    <3>4. CASE n = 0
      <4>1. n + 1 = 1 /\ 1 \in 1..v
        BY ONLY <1>2, <3>4
      <4>2. Input'[1].id = m + 1
        BY ZenonT(30), <2>6, <4>1
      <4> QED BY ZenonT(30), <3>1, <3>3, <3>4, <4>2
    <3>5. CASE n # 0
      <4>1. 1 \in 1..n
        BY ONLY <2>1, <3>5
      <4> QED BY ZenonT(30), <2>3, <3>1, <3>3, <3>5, <4>1
    <3> QED BY SMTT(30), <3>4, <3>5
  <2> QED BY SMTT(30), <2>8, <2>9
<1>10. ASSUME ~Ended PROVE Answering'
  <2>1. Due' = Due /\ Answering
    BY ZenonT(30), <1>9, <1>10 DEF Data, Ended
  <2>2. ASSUME NEW c, Of(c) PROVE Of(c)'
    <3>1. ctx[c].id \in 1..m /\ 1..m \subseteq 1..m + 1
      BY SMTT(30), <1>2, <2>2 DEF Of, m
    <3> QED BY ZenonT(30), <1>1, <1>3, <2>1, <2>2, <3>1 DEF Of
  <2>3. ASSUME NEW c PROVE Mine(c)' <=> Mine(c)
    BY ZenonT(30), <1>1 DEF Mine
  <2> QED BY ZenonT(30), <1>1, <1>6, <1>8, <2>1, <2>2, <2>3 DEF Answering, Stream, Of
<1>11. pc' = "error" => recv' # <<>>
  BY ZenonT(30), <1>1 DEF Data
<1> QED BY ZenonT(30), <1>1, <1>5, <1>6, <1>8, <1>9, <1>10, <1>11 DEF Data

(* A slot without a client.                                                *)
Blank ==
  recv = <<>> /\ socket = <<>> /\ rest = <<>> /\ wire = <<>> /\ out = <<>> /\ asked = <<>>

LEMMA BlankData ==
  ASSUME Blank
  PROVE  /\ Carried /\ Aligned(Input, asked) /\ InOrder(Answers, Len(Answers), asked, conn.gen)
         /\ Ready(Answers, asked, Due)
<1>1. <<>> \in Seq(Units) /\ <<>> \in Seq(Items) /\ <<>> \in Seq(Requests) /\ Len(<<>>) = 0
  OBVIOUS
<1>2. <<>> \o <<>> = <<>>
  BY ONLY <1>1, ConcatEmptySeq
<1>3. Input = <<>> /\ Answers = <<>> /\ asked = <<>>
  BY ZenonT(30), <1>2 DEF Blank, Input, Answers
<1>4. Carried
  BY SMTT(30), <1>1, HttpAssumption DEF Blank, Carried
<1>5. Aligned(Input, asked) /\ InOrder(Answers, Len(Answers), asked, conn.gen)
  BY SMTT(30), <1>1, <1>3 DEF Aligned, Cut, InOrder
<1>6. Ready(Answers, asked, Due)
  BY SMTT(30), <1>1, <1>3 DEF Ready, Due, NextIn
<1> QED BY <1>4, <1>5, <1>6

LEMMA InitData == Init => Carried /\ Data
<1> SUFFICES ASSUME Init PROVE Carried /\ Data
  BY SMTT(30)
<1>1. Blank /\ conn.st = "closed" /\ pc = "poll"
  BY ZenonT(30) DEF Init, Fresh, Blank
<1> QED BY ZenonT(30), <1>1, BlankData DEF Data, Ended, Blank

LEMMA WipeData ==
  ASSUME Wipe
  PROVE  Carried' /\ Data'
<1>1. Blank' /\ conn'.st = "closed" /\ pc' = "poll"
  BY ZenonT(30) DEF Wipe, Fresh, Blank
<1>2. (Blank => /\ Carried /\ Aligned(Input, asked)
                /\ InOrder(Answers, Len(Answers), asked, conn.gen))'
  BY BlankData, PTL
<1> QED BY ZenonT(30), <1>1, <1>2 DEF Data, Ended, Blank

LEMMA NewConnectionData ==
  ASSUME Data, NewConnection
  PROVE  Carried' /\ Data'
<1>1. /\ Blank' /\ pc' = "poll"
      /\ conn'.st = "connecting" /\ conn'.stream = NULL /\ conn'.inflight = FALSE
  BY ZenonT(30) DEF NewConnection, Fresh, Data, Blank, outVars, clientVars
<1>2. (Blank => /\ Carried /\ Aligned(Input, asked)
                /\ InOrder(Answers, Len(Answers), asked, conn.gen) /\ Ready(Answers, asked, Due))'
  BY BlankData, PTL
<1>3. Answering'
  BY ZenonT(30), <1>1, <1>2 DEF Answering
<1> QED BY ZenonT(30), <1>1, <1>2, <1>3 DEF Data

(* An open WebSocket is answered elsewhere.                                *)
LEMMA ReadFramesData ==
  ASSUME Carried, Data, ReadFrames
  PROVE  Carried' /\ Data'
<1>1. /\ UNCHANGED <<conn, wire, out, asked, rest>> /\ conn.st = "open" /\ socket' = <<>>
      /\ pc' # "error"
  BY ZenonT(30) DEF ReadFrames, outVars, Goto, Return0
<1>2. Carried'
  BY <1>1 DEF Carried
<1>3. InOrder(Answers, Len(Answers), asked, conn.gen)'
  BY ZenonT(30), <1>1 DEF Data, Answers
<1> QED BY ZenonT(30), <1>1, <1>2, <1>3 DEF Data, Ended

(* portico_conn_on_writable sends from the front of the backlog.           *)
LEMMA OnWritableData ==
  ASSUME Inv, Buffered, Carried, Data, OnWritable
  PROVE  Carried' /\ Data'
<1> DEFINE n == IF Len(out) <= room THEN Len(out) ELSE room
           p == SubSeq(out, 1, n)
           q == SubSeq(out, n + 1, Len(out))
<1>1. /\ UNCHANGED <<conn, recv, socket, rest, asked, ctx, reads>> /\ pc = "write"
      /\ wire' = wire \o p /\ out' = q
      /\ pc' \in {"poll", "advance", "close"}
  BY Zenon DEF OnWritable, clientVars
<1>2. wire \in Seq(Items) /\ out \in Seq(Items) /\ n \in 0..Len(out)
  BY DEF Carried, Buffered
<1> HIDE DEF n
<1>3. p \in Seq(Items) /\ q \in Seq(Items) /\ p \o q = out
  BY ZenonT(30), <1>2, Parted
<1> HIDE DEF p, q
<1>4. wire \o p \in Seq(Items)
  BY SMTT(30), <1>2, <1>3, Joined
<1>5. (wire \o p) \o q = wire \o (p \o q)
  <2>1. wire \in Seq(Items) /\ p \in Seq(Items) /\ q \in Seq(Items)
    BY <1>2, <1>3
  <2> QED BY ONLY <2>1, ConcatAssociative
<1>6. Answers' = Answers /\ Input' = Input
  BY ZenonT(30), <1>1, <1>3, <1>5 DEF Answers, Input
<1>7. conn \in Connections /\ reads \subseteq Contexts /\ conn.stream \in Contexts \union {NULL}
      /\ conn.st # "closed"
  BY ZenonT(30), <1>1 DEF Inv, Shapes, Connections, Places
<1>8. (Ended => Ended') /\ pc' # "error"
  BY <1>1 DEF Ended
<1>9. Carried'
  BY ZenonT(30), <1>1, <1>3, <1>4 DEF Carried
<1> QED BY ZenonT(30), <1>1, <1>6, <1>7, <1>8, <1>9, Kept

(* Part p of the response to request k is sent, or joins the backlog.      *)
LEMMA SendsInOrder ==
  ASSUME Inv, Carried, Data, NEW k \in 1..Len(asked), NEW p \in Int,
         Fits(Answers, asked, Item(k, p)), ConnSend(Item(k, p)),
         asked' = asked, conn'.gen = conn.gen
  PROVE  /\ wire' \in Seq(Items) /\ out' \in Seq(Items)
         /\ InOrder(Answers, Len(Answers), asked, conn.gen)'
         /\ Midway(Answers', k, p)
<1>1. PICK x : x = Item(k, p)
  BY ZenonT(30), SMTT(30)
<1>2. x = [gen |-> conn.gen, id |-> k, part |-> p]
  BY ZenonT(30), <1>1 DEF Item
<1>3. k \in Nat /\ conn.gen \in Nat
  BY SMTT(30) DEF Carried, Inv, Shapes, Connections
<1>4. x \in Items /\ x.gen = conn.gen /\ x.id = k /\ x.part = p
  BY ZenonT(30), <1>2, <1>3 DEF Items
<1>5. wire' \in Seq(Items) /\ out' \in Seq(Items) /\ Answers' = Append(Answers, x)
  BY ZenonT(30), <1>1, <1>4, Sends
<1>6. Answers \in Seq(Items) /\ asked \in Seq(Requests)
  BY ZenonT(30), Joined DEF Carried, Answers
<1>7. InOrder(Answers, Len(Answers), asked, conn.gen) /\ x.id \in 1..Len(asked)
      /\ Fits(Answers, asked, x)
  BY ZenonT(30), <1>1, <1>4 DEF Data
<1>8. /\ InOrder(Append(Answers, x), Len(Append(Answers, x)), asked, conn.gen)
      /\ Append(Answers, x) \in Seq(Items)
      /\ Len(Append(Answers, x)) # 0 /\ Append(Answers, x)[Len(Append(Answers, x))] = x
  BY ONLY ZenonT(30), <1>4, <1>6, <1>7, Grows
<1>9. InOrder(Answers, Len(Answers), asked, conn.gen)'
  BY Zenon, <1>5, <1>8
<1>10. Midway(Answers', k, p)
  BY ZenonT(30), <1>4, <1>5, <1>8 DEF Midway
<1> QED BY ZenonT(30), <1>5, <1>9, <1>10

LEMMA BeginFits ==
  ASSUME NEW k, Ready(Answers, asked, k), NEW p \in {Whole, ErrorReply, 0}
  PROVE  Fits(Answers, asked, Item(k, p))
<1>1. Item(k, p).id = k /\ First(Item(k, p))
  BY ZenonT(30) DEF Item, First
<1>2. CASE Len(Answers) = 0
  BY ZenonT(30), <1>1, <1>2 DEF Ready, Fits
<1>3. CASE Len(Answers) # 0
  BY ZenonT(30), <1>1, <1>3 DEF Ready, Fits, Behind
<1> QED BY SMTT(30), <1>2, <1>3

LEMMA GoesOnFits ==
  ASSUME NEW k, NEW n \in 0..Chunks, n # Chunks, Midway(Answers, k, n)
  PROVE  Fits(Answers, asked, Item(k, n + 1)) /\ n + 1 \in 0..Chunks /\ n + 1 \in Int
<1>1. Item(k, n + 1).id = k /\ Item(k, n + 1).part = n + 1
  BY ZenonT(30) DEF Item
<1>2. ~Last(Answers[Len(Answers)])
  BY SMTT(30), HttpAssumption DEF Midway, Last, Whole, ErrorReply
<1>3. n + 1 \in 0..Chunks /\ n + 1 \in Int
  BY SMTT(30), HttpAssumption
<1> QED BY ZenonT(30), <1>1, <1>2, <1>3 DEF Midway, Fits, Behind

LEMMA EndsReady ==
  ASSUME NEW s, NEW a, NEW k, NEW p, Midway(s, k, p), p \in {Whole, Chunks}, a[k].keep
  PROVE  Ready(s, a, k + 1)
<1>1. p # ErrorReply
  BY SMTT(30), HttpAssumption DEF Whole, ErrorReply
<1> QED BY ZenonT(30), <1>1 DEF Midway, Ready, Last, FinalIn

(* A request is at the head of the buffer and is the next to be answered.  *)
LEMMA Serving ==
  ASSUME Inv, Output, Carried, Data, pc \in {"process", "error"}, recv # <<>>
  PROVE  /\ Head(recv).id = Due /\ Due \in 1..Len(asked) /\ Request = asked[Due]
         /\ Aligned(Input, asked) /\ Ready(Answers, asked, Due)
         /\ conn.st \in {"connecting", "http"} /\ ~conn.inflight /\ conn.stream = NULL
         /\ ~conn.closing /\ conn \in Connections
<1>1. /\ conn.st \in {"connecting", "http"} /\ ~conn.inflight /\ conn.stream = NULL
      /\ ~conn.closing /\ conn \in Connections
  BY ZenonT(30) DEF Inv, Places, Shapes, Output, Turning, Closing
<1>2. ~Ended /\ Aligned(Input, asked)
  BY ZenonT(30), <1>1 DEF Ended, Data
<1>3. Ready(Answers, asked, Due)
  BY ZenonT(30), <1>1, <1>2 DEF Data, Answering
<1>4. Head(recv).id = Due /\ Due \in 1..Len(asked)
  BY ZenonT(30), <1>1, <1>2, HeadDue
<1> QED BY ZenonT(30), <1>1, <1>2, <1>3, <1>4 DEF Request

(* http_error_close.                                                       *)
LEMMA ErrorCloseData ==
  ASSUME Inv, Output, Carried, Data, ErrorClose
  PROVE  Carried' /\ Data'
<1>1. /\ UNCHANGED <<conn, recv, socket, rest, asked>> /\ pc = "error"
      /\ pc' \in {"finish", "fail"} /\ recv # <<>>
      /\ ConnSend(Item(Head(recv).id, ErrorReply)) \/ ConnSendFails
  BY ZenonT(30) DEF ErrorClose, Goto, clientVars, Data
<1>2. /\ Head(recv).id = Due /\ Due \in 1..Len(asked) /\ Aligned(Input, asked)
      /\ Ready(Answers, asked, Due) /\ conn.st \in {"connecting", "http"}
  BY ZenonT(30), <1>1, Serving
<1>3. /\ wire' \in Seq(Items) /\ out' \in Seq(Items)
      /\ InOrder(Answers, Len(Answers), asked, conn.gen)'
  <2>1. CASE ConnSend(Item(Head(recv).id, ErrorReply))
    <3>1. ErrorReply \in Int /\ ErrorReply \in {Whole, ErrorReply, 0}
      BY DEF ErrorReply
    <3>2. Fits(Answers, asked, Item(Due, ErrorReply))
      BY ZenonT(30), <1>2, <3>1, BeginFits
    <3> QED BY ZenonT(30), <1>1, <1>2, <2>1, <3>1, <3>2, SendsInOrder
  <2>2. CASE ConnSendFails
    BY ZenonT(30), <1>1, <2>2, SendsNot DEF Data, Carried
  <2> QED BY ZenonT(30), <1>1, <2>1, <2>2
<1>4. Carried'
  BY ZenonT(30), <1>1, <1>3 DEF Carried
<1>5. Aligned(Input, asked)'
  BY <1>1, <1>2 DEF Input
<1> QED BY ZenonT(30), <1>1, <1>2, <1>3, <1>4, <1>5 DEF Data, Ended

(* A request that is taken off the buffer.                                 *)
LEMMA Takes ==
  ASSUME Carried, conn.st \in {"connecting", "http"}, Aligned(Input, asked), recv # <<>>, Complete,
         recv' = Consumed, UNCHANGED <<socket, rest, asked>>
  PROVE  /\ recv' \in Seq(Units) /\ Len(recv') <= RecvMax
         /\ Aligned(Input, asked)' /\ Due' = Due + 1
<1>1. recv \in Seq(Units) /\ Len(recv) <= RecvMax /\ Len(recv) \in Nat
  BY DEF Carried
<1>2. recv' \in Seq(Units) /\ Len(recv') <= Len(recv) /\ Aligned(Input, asked)' /\ Due' = Due + 1
  BY ZenonT(30), Consumes
<1>3. Len(recv') \in Nat
  BY <1>2
<1>4. Len(recv') <= RecvMax
  BY ONLY SMTT(30), <1>1, <1>2, <1>3, HttpAssumption
<1> QED BY SMTT(30), <1>2, <1>4

(* A request that is answered at once, and taken off the buffer.           *)
LEMMA AtOnceData ==
  ASSUME Inv, Output, Carried, Data, ProcessPlain \/ ServeFileInline
  PROVE  Carried' /\ Data'
<1>1. /\ UNCHANGED <<conn, socket, rest, asked, ctx, reads>> /\ pc = "process" /\ Complete
  BY ZenonT(30) DEF ProcessPlain, ServeFileInline, Processing, clientVars
<1>2. recv # <<>>
  BY <1>1 DEF Complete
<1>3. /\ Head(recv).id = Due /\ Due \in 1..Len(asked) /\ Request = asked[Due]
      /\ Aligned(Input, asked) /\ Ready(Answers, asked, Due)
      /\ conn.st \in {"connecting", "http"} /\ ~conn.inflight /\ conn.stream = NULL
  BY Zenon, <1>1, <1>2, Serving
<1>4. PICK p \in {Whole, ErrorReply} :
        /\ ConnSend(Item(Head(recv).id, p)) \/ ConnSendFails
        /\ \/ recv' = Consumed /\ ConnSend(Item(Head(recv).id, p)) /\ p = Whole
              /\ pc' = "process" /\ Request.keep
           \/ (recv' = Consumed \/ recv' = recv) /\ pc' \in {"finish", "fail"}
  BY Zenon DEF ProcessPlain, ServeFileInline, Goto
<1>5. p \in Int /\ p \in {Whole, ErrorReply, 0}
  BY SMTT(30) DEF Whole, ErrorReply
<1>6. /\ wire' \in Seq(Items) /\ out' \in Seq(Items)
      /\ InOrder(Answers, Len(Answers), asked, conn.gen)'
      /\ ConnSend(Item(Head(recv).id, p)) => Midway(Answers', Due, p)
  <2>1. CASE ConnSend(Item(Head(recv).id, p))
    <3>1. Fits(Answers, asked, Item(Due, p))
      BY ZenonT(30), <1>3, <1>5, BeginFits
    <3> QED BY ZenonT(30), <1>1, <1>3, <1>5, <2>1, <3>1, SendsInOrder
  <2>2. CASE ConnSendFails /\ ~ConnSend(Item(Head(recv).id, p))
    BY ZenonT(30), <1>1, <2>2, SendsNot DEF Data, Carried
  <2> QED BY ZenonT(30), <1>4, <2>1, <2>2
<1>7. /\ recv' \in Seq(Units) /\ Len(recv') <= RecvMax
      /\ Aligned(Input, asked)'
      /\ recv' = Consumed => Due' = Due + 1
  <2>1. recv \in Seq(Units) /\ Len(recv) <= RecvMax /\ Len(recv) \in Nat
    BY SMTT(30), <1>3 DEF Carried
  <2>2. CASE recv' = Consumed
    BY ZenonT(30), <1>1, <1>2, <1>3, <2>2, Takes
  <2>3. CASE recv' = recv /\ recv' # Consumed
    <3>1. Input' = Input
      BY <1>1, <2>3 DEF Input
    <3> QED BY ZenonT(30), <1>1, <1>3, <2>1, <2>3, <3>1
  <2> QED BY ZenonT(30), <1>4, <2>2, <2>3
<1>8. Carried'
  BY ZenonT(30), <1>1, <1>6, <1>7 DEF Carried
<1>9. CASE pc' \in {"finish", "fail"}
  BY ZenonT(30), <1>1, <1>3, <1>6, <1>7, <1>8, <1>9 DEF Data, Ended
<1>10. CASE recv' = Consumed /\ ConnSend(Item(Head(recv).id, p)) /\ p = Whole
            /\ pc' = "process" /\ Request.keep
  <2>1. Midway(Answers', Due, Whole) /\ asked[Due].keep
    BY ZenonT(30), <1>3, <1>6, <1>10
  <2>2. Ready(Answers', asked, Due + 1)
    BY Zenon, <2>1, EndsReady
  <2>3. Answering'
    BY ZenonT(30), <1>1, <1>3, <1>7, <1>10, <2>2 DEF Answering
  <2> QED BY ZenonT(30), <1>1, <1>3, <1>6, <1>7, <1>8, <1>10, <2>3 DEF Data
<1> QED BY ZenonT(30), <1>4, <1>9, <1>10

(* The context of the request at the head of the buffer.                   *)
LEMMA ContextFor ==
  ASSUME Carried, NEW c \in Contexts, NEW kind, NEW reading,
         Head(recv).id = Due, Due \in 1..Len(asked), Request = asked[Due], Due' = Due + 1,
         asked' = asked, ctx = [d \in Contexts |-> ctx[d]],
         ctx' = [ctx EXCEPT ![c] = ContextOf(kind, reading)]
  PROVE  Of(c)' /\ ctx'[c].id = Due /\ ctx'[c].off = 0
<1>1. ctx'[c] = [st |-> "live", kind |-> kind, gen |-> conn.gen, id |-> Due, off |-> 0,
                 keep |-> asked[Due].keep, reading |-> reading]
  BY ZenonT(30) DEF ContextOf
<1>2. ctx'[c].id = Due /\ ctx'[c].off = 0 /\ ctx'[c].keep = asked[Due].keep
  BY <1>1
<1> QED BY ZenonT(30), <1>2 DEF Of

(* http_serve_file parks the connection.                                   *)
LEMMA ServeFileData ==
  ASSUME Inv, Output, Carried, Data, ServeFile
  PROVE  Carried' /\ Data'
<1>1. PICK c \in Contexts : /\ ctx' = [ctx EXCEPT ![c] = ContextOf("file", TRUE)]
                            /\ reads' = reads \union {c}
  BY ZenonT(30) DEF ServeFile
<1>2. /\ UNCHANGED <<socket, rest, asked, wire, out>> /\ pc = "process" /\ Complete
      /\ recv' = Consumed /\ conn' = [conn EXCEPT !.inflight = TRUE] /\ pc' \in {"write", "poll"}
  BY DEF ServeFile, Processing, clientVars, outVars, Return0
<1>3. recv # <<>>
  BY <1>2 DEF Complete
<1>4. /\ Head(recv).id = Due /\ Due \in 1..Len(asked) /\ Request = asked[Due]
      /\ Aligned(Input, asked) /\ Ready(Answers, asked, Due)
      /\ conn.st \in {"connecting", "http"} /\ ~conn.inflight /\ conn.stream = NULL
      /\ conn \in Connections
  BY Zenon, <1>2, <1>3, Serving
<1>5. /\ conn'.st = conn.st /\ conn'.gen = conn.gen /\ conn'.stream = NULL /\ conn'.inflight = TRUE
      /\ conn'.closing = conn.closing
  BY <1>2, <1>4 DEF Connections
<1>6. /\ recv' \in Seq(Units) /\ Len(recv') <= RecvMax
      /\ Aligned(Input, asked)' /\ Due' = Due + 1
  BY <1>2, <1>3, <1>4, Takes
<1>7. Carried'
  BY Zenon, <1>2, <1>5, <1>6 DEF Carried
<1>8. Answers' = Answers
  BY <1>2 DEF Answers
<1>9. ASSUME NEW b \in reads', Mine(b)' PROVE b = c
  <2>1. CASE b \in reads /\ b # c
    <3>1. ctx'[b] = ctx[b]
      BY ZenonT(30), <1>1, <2>1 DEF Inv, Shapes
    <3>2. Mine(b)
      BY ZenonT(30), <1>4, <1>5, <1>9, <3>1 DEF Mine
    <3> QED BY ZenonT(30), <1>4, <2>1, <3>2, HttpAssumption DEF Inv, Shapes, Reading
  <2> QED BY SMTT(30), <1>1, <2>1
<1>10. Of(c)' /\ ctx'[c].id = Due
  BY ZenonT(30), <1>1, <1>2, <1>4, <1>6, ContextFor DEF Inv, Shapes
<1>11. Ready(Answers, asked, ctx[c].id)'
  BY ZenonT(30), <1>2, <1>4, <1>8, <1>10
<1>12. Answering'
  <2>1. conn'.stream = NULL /\ conn'.inflight
    BY ZenonT(30), <1>5
  <2>2. \A b \in reads' : Mine(b)' => Of(b)' /\ Ready(Answers, asked, ctx[b].id)'
    BY ZenonT(30), <1>9, <1>10, <1>11
  <2> QED BY ZenonT(30), <2>1, <2>2 DEF Answering
<1>13. InOrder(Answers, Len(Answers), asked, conn.gen)'
  BY ZenonT(30), <1>2, <1>5, <1>8 DEF Data
<1> QED BY SMTT(30), <1>2, <1>4, <1>5, <1>6, <1>7, <1>12, <1>13 DEF Data

(* stream_start: the header is out, and the stream is as far as that.      *)
LEMMA StreamStartData ==
  ASSUME Inv, Output, Carried, Data, StreamStart
  PROVE  Carried' /\ Data'
<1>1. /\ UNCHANGED <<socket, rest, asked>> /\ pc = "process" /\ Complete /\ recv' = Consumed
  BY ZenonT(30) DEF StreamStart, Processing, clientVars
<1>2. recv # <<>>
  BY <1>1 DEF Complete
<1>3. /\ Head(recv).id = Due /\ Due \in 1..Len(asked) /\ Request = asked[Due]
      /\ Aligned(Input, asked) /\ Ready(Answers, asked, Due)
      /\ conn.st \in {"connecting", "http"} /\ ~conn.inflight /\ conn.stream = NULL
      /\ conn \in Connections
  BY ZenonT(30), <1>1, <1>2, Serving
<1>4. /\ recv' \in Seq(Units) /\ Len(recv') <= RecvMax
      /\ Aligned(Input, asked)' /\ Due' = Due + 1
  BY ZenonT(30), <1>1, <1>2, <1>3, Takes
<1>5. CASE ConnSendFails /\ pc' = "fail" /\ UNCHANGED <<ctx, conn>>
  <2>1. Carried'
    BY ZenonT(30), <1>1, <1>4, <1>5, SendsNot DEF Carried
  <2>2. InOrder(Answers, Len(Answers), asked, conn.gen)'
    BY ZenonT(30), <1>1, <1>5, SendsNot DEF Data
  <2> QED BY ZenonT(30), <1>3, <1>4, <1>5, <2>1, <2>2 DEF Data, Ended
<1>6. ASSUME NEW c \in Contexts, ConnSend(Item(Head(recv).id, 0)), pc' = "advance",
             ctx' = [ctx EXCEPT ![c] = ContextOf("stream", FALSE)],
             conn' = [conn EXCEPT !.inflight = TRUE, !.stream = c]
      PROVE  Carried' /\ Data'
  <2>1. /\ conn'.st = conn.st /\ conn'.gen = conn.gen /\ conn'.stream = c /\ conn'.inflight = TRUE
        /\ c # NULL
    BY SMTT(30), <1>3, <1>6, HttpAssumption DEF Connections
  <2>2. Fits(Answers, asked, Item(Due, 0))
    BY ZenonT(30), <1>3, BeginFits
  <2>3. /\ wire' \in Seq(Items) /\ out' \in Seq(Items)
        /\ InOrder(Answers, Len(Answers), asked, conn.gen)' /\ Midway(Answers', Due, 0)
    BY <1>1, <1>3, <1>6, <2>1, <2>2, SendsInOrder
  <2>4. Carried'
    BY Zenon, <1>1, <1>4, <2>1, <2>3 DEF Carried
  <2>5. Of(c)' /\ ctx'[c].id = Due /\ ctx'[c].off = 0
    BY ZenonT(30), <1>1, <1>3, <1>4, <1>6, ContextFor DEF Inv, Shapes
  <2>6. 0 \in 0..Chunks /\ 0 # Chunks
    BY HttpAssumption
  <2>7. Midway(Answers', ctx'[c].id, ctx'[c].off) /\ ctx'[c].off \in 0..Chunks
    BY Zenon, <2>3, <2>5, <2>6
  <2>8. (/\ Of(conn.stream) /\ Stream.off \in 0..Chunks
         /\ Midway(Answers, Stream.id, Stream.off) /\ Stream.off # Chunks)'
    BY ZenonT(30), <2>1, <2>5, <2>6, <2>7 DEF Of, Stream
  <2>9. Answering'
    BY ZenonT(30), <2>1, <2>8 DEF Answering
  <2> QED BY ZenonT(30), <1>3, <1>4, <1>6, <2>1, <2>3, <2>4, <2>9 DEF Data
<1> QED BY ZenonT(30), <1>5, <1>6 DEF StreamStart, Goto

(* ws_process_handshake answers the first request.                         *)
LEMMA HandshakeData ==
  ASSUME Inv, Output, Carried, Data, Handshake
  PROVE  Carried' /\ Data'
<1>1. /\ UNCHANGED <<socket, rest, asked, out>> /\ pc = "dispatch" /\ conn.st = "connecting"
      /\ ~conn.inflight /\ ~conn.closing /\ conn \in Connections /\ recv # <<>> /\ Complete
      /\ asked[Head(recv).id].kind = "ws" /\ out = <<>>
  BY SMTT(30) DEF Handshake, IsHandshake, clientVars, Inv, Places, Shapes, Output, Closing, Sending
<1>2. ~Ended /\ Aligned(Input, asked)
  BY ZenonT(30), <1>1 DEF Ended, Data
<1>3. Head(recv).id = Due /\ Due \in 1..Len(asked)
  BY ZenonT(30), <1>1, <1>2, HeadDue
<1>4. Due = 1
  BY ZenonT(30), <1>1, <1>3 DEF Carried
<1>5. Ready(Answers, asked, 1)
  BY ZenonT(30), <1>1, <1>2, <1>4 DEF Data, Answering
<1>6. \/ /\ UNCHANGED wire /\ UNCHANGED <<conn, recv>> /\ pc' = "fail"
      \/ /\ \E p \in {Whole, ErrorReply} : room > 0 /\ wire' = Append(wire, Item(1, p))
                                           /\ room' = room - 1
         /\ \/ UNCHANGED <<conn, recv>> /\ pc' = "fail"
            \/ /\ conn' = [conn EXCEPT !.st = "open"] /\ recv' = Consumed
               /\ pc' \in {"write", "poll"}
  BY DEF Handshake, Goto, Return0
<1>7. \/ UNCHANGED <<conn, recv>> /\ pc' = "fail"
      \/ conn'.st = "open" /\ conn'.gen = conn.gen /\ pc' \in {"write", "poll"}
  BY Zenon, <1>1, <1>6 DEF Connections
<1>8. /\ wire' \in Seq(Items) /\ out' \in Seq(Items)
      /\ InOrder(Answers, Len(Answers), asked, conn.gen)'
  <2>1. CASE UNCHANGED wire
    BY ZenonT(30), <1>1, <1>7, <2>1 DEF Carried, Data, Answers
  <2>2. ASSUME NEW p \in {Whole, ErrorReply}, room > 0, wire' = Append(wire, Item(1, p)),
               room' = room - 1
        PROVE  /\ wire' \in Seq(Items) /\ out' \in Seq(Items)
               /\ InOrder(Answers, Len(Answers), asked, conn.gen)'
    <3>1. ConnSend(Item(1, p))
      BY ZenonT(30), <1>1, <2>2 DEF ConnSend, Handshake
    <3>2. p \in Int /\ p \in {Whole, ErrorReply, 0} /\ 1 \in 1..Len(asked)
      BY SMTT(30), <1>3, <1>4 DEF Whole, ErrorReply
    <3>3. Fits(Answers, asked, Item(1, p))
      BY ZenonT(30), <1>5, <3>2, BeginFits
    <3>4. conn'.gen = conn.gen
      BY <1>7
    <3> QED BY ZenonT(30), <1>1, <3>1, <3>2, <3>3, <3>4, SendsInOrder
  <2> QED BY ZenonT(30), <1>6, <2>1, <2>2
<1>9. Carried'
  BY ZenonT(30), <1>1, <1>7, <1>8 DEF Carried
<1>10. conn'.st # "open" => Aligned(Input, asked)'
  BY ZenonT(30), <1>1, <1>2, <1>7 DEF Input
<1> QED BY ZenonT(30), <1>1, <1>7, <1>8, <1>9, <1>10 DEF Data, Ended

(* A stream that goes on: its request, and how far it is.                  *)
Streams(c) ==
  /\ c = conn.stream /\ Of(c) /\ ctx[c].off \in 0..Chunks
  /\ Midway(Answers, ctx[c].id, ctx[c].off) /\ (c \in reads => ctx[c].off # Chunks)
  /\ conn \in Connections /\ conn.st = "http" /\ conn.inflight
  /\ ~Ended /\ Aligned(Input, asked) /\ InOrder(Answers, Len(Answers), asked, conn.gen)

LEMMA Streaming ==
  ASSUME Inv, Output, Carried, Data, conn.stream # NULL, pc \in {"advance", "poll"}
  PROVE  \E c \in Contexts : Streams(c)
<1>1. conn \in Connections /\ conn.st = "http" /\ conn.inflight /\ ~conn.closing
  BY ZenonT(30) DEF Inv, Shapes, Places, Output, Turning, Closing
<1>2. ~Ended
  BY <1>1 DEF Ended
<1>3. PICK c \in Contexts : c = conn.stream
  BY ZenonT(30), <1>1 DEF Connections
<1>4. /\ Of(conn.stream) /\ Stream.off \in 0..Chunks
      /\ Midway(Answers, Stream.id, Stream.off) /\ (conn.stream \in reads => Stream.off # Chunks)
  BY Zenon, <1>2 DEF Data, Answering
<1>5. /\ Of(c) /\ ctx[c].off \in 0..Chunks
      /\ Midway(Answers, ctx[c].id, ctx[c].off) /\ (c \in reads => ctx[c].off # Chunks)
  BY ZenonT(30), <1>3, <1>4 DEF Stream
<1>6. Aligned(Input, asked) /\ InOrder(Answers, Len(Answers), asked, conn.gen)
  BY ZenonT(30), <1>1 DEF Data
<1> QED BY ZenonT(30), <1>1, <1>2, <1>3, <1>5, <1>6 DEF Streams

(* stream_finish: the last chunk is out, and the next request is due.      *)
LEMMA StreamFinishData ==
  ASSUME Inv, Output, Carried, Data, StreamFinish
  PROVE  Carried' /\ Data'
<1>1. /\ UNCHANGED <<recv, socket, rest, asked, wire, out, reads>> /\ pc = "advance"
      /\ conn' = [conn EXCEPT !.stream = NULL, !.inflight = FALSE]
      /\ Stream.off = Chunks
      /\ \/ pc' = "process" /\ Stream.keep
         \/ pc' = "finish"
  BY DEF StreamFinish, Detach, Goto, clientVars, outVars
<1>2. conn.stream # NULL
  BY <1>1 DEF Inv, Places
<1>3. PICK c \in Contexts : Streams(c)
  BY ZenonT(30), <1>1, <1>2, Streaming
<1>4. /\ conn'.st = "http" /\ conn'.gen = conn.gen /\ conn'.stream = NULL /\ conn'.inflight = FALSE
  BY <1>1, <1>3 DEF Connections, Streams
<1>5. Input' = Input /\ Answers' = Answers /\ Due' = Due
  BY <1>1 DEF Input, Answers, Due
<1>6. Carried'
  BY ZenonT(30), <1>1, <1>3, <1>4 DEF Carried, Streams
<1>7. Aligned(Input, asked)' /\ InOrder(Answers, Len(Answers), asked, conn.gen)'
  BY ZenonT(30), <1>1, <1>3, <1>4, <1>5 DEF Streams
<1>8. CASE pc' = "finish"
  BY SMTT(30), <1>1, <1>4, <1>6, <1>7, <1>8 DEF Data, Ended
<1>9. CASE pc' = "process" /\ Stream.keep
  <2>1. Midway(Answers, ctx[c].id, Chunks) /\ ctx[c].id + 1 = Due /\ asked[ctx[c].id].keep
    BY Zenon, <1>1, <1>3, <1>9 DEF Of, Stream, Streams
  <2>2. Chunks \in {Whole, Chunks}
    OBVIOUS
  <2>3. Ready(Answers, asked, ctx[c].id + 1)
    BY ZenonT(30), <2>1, <2>2, EndsReady
  <2>4. Ready(Answers, asked, Due)'
    BY ZenonT(30), <1>1, <1>5, <2>1, <2>3
  <2>5. Answering'
    BY ZenonT(30), <1>4, <2>4 DEF Answering
  <2> QED BY SMTT(30), <1>1, <1>4, <1>6, <1>7, <1>9, <2>5 DEF Data
<1> QED BY <1>1, <1>8, <1>9

(* stream_advance starts to read the next chunk.                           *)
LEMMA AdvanceReadsData ==
  ASSUME Inv, Output, Carried, Data, AdvanceReads
  PROVE  Carried' /\ Data'
<1>1. /\ UNCHANGED <<conn, recv, socket, rest, asked, wire, out>> /\ pc = "advance"
      /\ ctx' = [ctx EXCEPT ![conn.stream].reading = TRUE]
      /\ pc' \in {"write", "poll"} /\ Stream.off < Chunks
  BY DEF AdvanceReads, CanAdvance, Return0, clientVars, outVars
<1>2. conn.stream # NULL
  BY <1>1 DEF Inv, Places
<1>3. PICK c \in Contexts : Streams(c)
  BY Zenon, <1>1, <1>2, Streaming
<1>4. Input' = Input /\ Answers' = Answers /\ Due' = Due
  BY SMTT(30), <1>1 DEF Input, Answers, Due
<1>5. /\ ctx'[c].id = ctx[c].id /\ ctx'[c].off = ctx[c].off /\ ctx'[c].keep = ctx[c].keep
      /\ ctx[c].off # Chunks
  <2>1. ctx'[c] = [ctx[c] EXCEPT !.reading = TRUE]
    BY <1>1, <1>3 DEF Inv, Shapes, Streams
  <2>2. /\ ctx'[c].id = ctx[c].id /\ ctx'[c].off = ctx[c].off /\ ctx'[c].keep = ctx[c].keep
    BY <2>1 DEF Inv, Shapes
  <2>3. ctx[c].off < Chunks /\ ctx[c].off \in 0..Chunks
    BY ZenonT(30), <1>1, <1>3 DEF Stream, Streams
  <2>4. ctx[c].off # Chunks
    BY ONLY <2>3, HttpAssumption
  <2> QED BY ZenonT(30), <2>2, <2>4
<1>6. (/\ Of(conn.stream) /\ Stream.off \in 0..Chunks
       /\ Midway(Answers, Stream.id, Stream.off) /\ Stream.off # Chunks)'
  BY ZenonT(30), <1>1, <1>3, <1>4, <1>5 DEF Of, Stream, Streams
<1>7. Answering'
  BY ZenonT(30), <1>1, <1>2, <1>3, <1>6 DEF Answering, Streams
<1>8. Carried'
  BY Zenon, <1>1 DEF Carried
<1>9. Aligned(Input, asked)' /\ InOrder(Answers, Len(Answers), asked, conn.gen)'
  BY ZenonT(30), <1>1, <1>3, <1>4 DEF Streams
<1> QED BY SMTT(30), <1>1, <1>3, <1>7, <1>8, <1>9 DEF Data, Streams

(* The next chunk is sent, here or in stream_chunk_complete.               *)
LEMMA ChunkData ==
  ASSUME Inv, Output, Carried, Data, NEW c \in Contexts, Streams(c), ctx[c].off # Chunks,
         ConnSend(Item(ctx[c].id, ctx[c].off + 1)),
         ctx'[c].off = ctx[c].off + 1, ctx'[c].id = ctx[c].id, ctx'[c].keep = ctx[c].keep,
         UNCHANGED <<conn, recv, socket, rest, asked>>, reads' = reads \ {c}, pc' = "advance"
  PROVE  Carried' /\ Data'
<1>1. PICK k \in 1..Len(asked) : k = ctx[c].id
  BY ZenonT(30) DEF Streams, Of
<1>2. PICK n \in 0..Chunks : n = ctx[c].off
  BY ZenonT(30) DEF Streams
<1>3. /\ Midway(Answers, k, n) /\ n # Chunks /\ Aligned(Input, asked) /\ conn.st = "http"
      /\ conn.inflight /\ conn.stream = c /\ c # NULL /\ Of(c)
  BY ZenonT(30), <1>1, <1>2, HttpAssumption DEF Streams
<1>4. Fits(Answers, asked, Item(k, n + 1)) /\ n + 1 \in 0..Chunks /\ n + 1 \in Int
  BY Zenon, <1>3, GoesOnFits
<1>5. ConnSend(Item(k, n + 1))
  BY Zenon, <1>1, <1>2
<1>6. /\ wire' \in Seq(Items) /\ out' \in Seq(Items)
      /\ InOrder(Answers, Len(Answers), asked, conn.gen)'
      /\ Midway(Answers', k, n + 1)
  BY Zenon, <1>4, <1>5, SendsInOrder
<1>7. Carried'
  BY ZenonT(30), <1>6 DEF Carried
<1>8. Input' = Input /\ Due' = Due
  BY ZenonT(30) DEF Input, Due
<1>9. Aligned(Input, asked)'
  BY Zenon, <1>3, <1>8
<1>10. Of(c)' /\ ctx'[c].off \in 0..Chunks /\ Midway(Answers', ctx'[c].id, ctx'[c].off)
  BY ZenonT(30), <1>1, <1>2, <1>3, <1>4, <1>6, <1>8 DEF Of
<1>11. (Of(conn.stream) /\ Stream.off \in 0..Chunks /\ Midway(Answers, Stream.id, Stream.off))'
  BY ZenonT(30), <1>3, <1>10 DEF Of, Stream
<1>12. conn'.stream \notin reads'
  BY ZenonT(30), <1>3
<1>13. Answering'
  BY ZenonT(30), <1>3, <1>11, <1>12 DEF Answering
<1> QED BY ZenonT(30), <1>3, <1>6, <1>7, <1>9, <1>13 DEF Data

(* A stream that fails is let go of, and the connection ends.              *)
LEMMA DetachData ==
  ASSUME Inv, Output, Carried, Data, NEW c \in Contexts, Streams(c), Detach,
         UNCHANGED <<recv, socket, rest, asked, wire, out>>, pc' = "fail"
  PROVE  Carried' /\ Data'
<1>1. conn'.st = "http" /\ conn'.gen = conn.gen
  BY DEF Detach, Streams, Connections
<1>2. Input' = Input /\ Answers' = Answers
  BY DEF Input, Answers
<1>3. Carried'
  BY Zenon, <1>1 DEF Carried, Streams
<1>4. Aligned(Input, asked)' /\ InOrder(Answers, Len(Answers), asked, conn.gen)'
  BY Zenon, <1>1, <1>2 DEF Streams
<1> QED BY ZenonT(30), <1>1, <1>3, <1>4 DEF Data, Ended

LEMMA AdvanceInlineData ==
  ASSUME Inv, Output, Carried, Data, AdvanceInline
  PROVE  Carried' /\ Data'
<1>1. /\ UNCHANGED <<recv, socket, rest, asked, reads>> /\ pc = "advance" /\ ~Stream.reading
      /\ Stream.off < Chunks
  BY DEF AdvanceInline, CanAdvance, clientVars
<1>2. conn.stream # NULL
  BY ZenonT(30), <1>1 DEF Inv, Places
<1>3. PICK c \in Contexts : Streams(c)
  BY ZenonT(30), <1>1, <1>2, Streaming
<1>4. c = conn.stream /\ c \notin reads
  BY ZenonT(30), <1>1, <1>2, <1>3 DEF Streams, Stream, Inv, Reading
<1>5. ctx[c].off # Chunks
  <2>1. ctx[c].off < Chunks /\ ctx[c].off \in 0..Chunks
    BY Zenon, <1>1, <1>3, <1>4 DEF Stream, Streams
  <2> QED BY ONLY <2>1, HttpAssumption
<1>6. CASE /\ ConnSend(Item(Stream.id, Stream.off + 1))
           /\ ctx' = [ctx EXCEPT ![conn.stream].off = @ + 1]
           /\ UNCHANGED <<conn, pc>>
  <2>1. ctx'[c] = [ctx[c] EXCEPT !.off = @ + 1]
    BY <1>4, <1>6 DEF Inv, Shapes
  <2>2. /\ ctx'[c].off = ctx[c].off + 1 /\ ctx'[c].id = ctx[c].id /\ ctx'[c].keep = ctx[c].keep
    BY <2>1 DEF Inv, Shapes
  <2>3. reads' = reads \ {c}
    BY <1>1, <1>4
  <2>4. ConnSend(Item(ctx[c].id, ctx[c].off + 1))
    BY Zenon, <1>4, <1>6 DEF Stream
  <2>5. pc' = "advance" /\ UNCHANGED <<conn, recv, socket, rest, asked>>
    BY <1>1, <1>6
  <2> QED BY ZenonT(30), <1>3, <1>5, <2>2, <2>3, <2>4, <2>5, ChunkData
<1>7. CASE Detach /\ pc' = "fail" /\ UNCHANGED <<wire, out>>
  BY ZenonT(30), <1>1, <1>3, <1>7, DetachData
<1> QED BY Zenon, <1>6, <1>7, SendsNot DEF AdvanceInline, Goto, outVars

(* file_read_complete: the response goes out and the connection is parked  *)
(* no more.                                                                *)
LEMMA FileCompleteData ==
  ASSUME Inv, Output, Carried, Data, NEW c \in Contexts, FileComplete(c)
  PROVE  Carried' /\ Data'
<1>1. /\ UNCHANGED <<recv, socket, rest, asked>> /\ pc = "poll" /\ c \in reads
      /\ conn.st = "http" /\ conn \in Connections /\ Mine(c) /\ ctx[c].kind = "file"
      /\ conn' = [conn EXCEPT !.inflight = FALSE]
  BY DEF FileComplete, Completes, Current, clientVars, Inv, Shapes, Mine
<1>2. conn.inflight /\ conn.stream = NULL
  BY <1>1 DEF Inv, Reading
<1>3. ~Ended
  BY SMTT(30), <1>1, <1>2 DEF Ended, Output, Closing
<1>4. /\ Of(c) /\ Ready(Answers, asked, ctx[c].id)
      /\ Aligned(Input, asked) /\ InOrder(Answers, Len(Answers), asked, conn.gen)
  BY ZenonT(30), <1>1, <1>2, <1>3 DEF Data, Answering
<1>5. PICK k \in 1..Len(asked) : k = ctx[c].id /\ k + 1 = Due /\ ctx[c].keep = asked[k].keep
  BY ZenonT(30), <1>4 DEF Of
<1>6. /\ conn'.st = "http" /\ conn'.gen = conn.gen /\ conn'.stream = NULL /\ conn'.inflight = FALSE
  BY <1>1, <1>2 DEF Connections
<1>7. Input' = Input /\ Due' = Due
  BY <1>1 DEF Input, Due
<1>8. Aligned(Input, asked)'
  BY Zenon, <1>1, <1>4, <1>7
<1>9. PICK p \in {Whole, ErrorReply} :
        \/ ConnSend(Item(k, p)) /\ p = Whole /\ pc' = "process" /\ asked[k].keep
        \/ (ConnSend(Item(k, p)) \/ ConnSendFails) /\ pc' = "fail"
  BY ZenonT(30), <1>5 DEF FileComplete
<1>10. /\ wire' \in Seq(Items) /\ out' \in Seq(Items)
       /\ InOrder(Answers, Len(Answers), asked, conn.gen)'
       /\ ConnSend(Item(k, p)) => Midway(Answers', k, p)
  <2>1. CASE ConnSend(Item(k, p))
    <3>1. p \in Int /\ p \in {Whole, ErrorReply, 0}
      BY SMTT(30) DEF Whole, ErrorReply
    <3>2. Fits(Answers, asked, Item(k, p))
      BY ZenonT(30), <1>4, <1>5, <3>1, BeginFits
    <3> QED BY ZenonT(30), <1>1, <1>6, <2>1, <3>1, <3>2, SendsInOrder
  <2>2. CASE ConnSendFails /\ ~ConnSend(Item(k, p))
    BY <1>1, <1>4, <1>6, <2>2, SendsNot DEF Carried
  <2> QED BY ZenonT(30), <1>9, <2>1, <2>2
<1>11. Carried'
  BY ZenonT(30), <1>1, <1>6, <1>10 DEF Carried
<1>12. CASE pc' = "fail"
  BY ZenonT(30), <1>6, <1>8, <1>10, <1>11, <1>12 DEF Data, Ended
<1>13. CASE ConnSend(Item(k, p)) /\ p = Whole /\ pc' = "process" /\ asked[k].keep
  <2>1. Midway(Answers', k, Whole) /\ Whole \in {Whole, Chunks}
    BY ZenonT(30), <1>10, <1>13
  <2>2. Ready(Answers', asked, k + 1)
    BY Zenon, <1>13, <2>1, EndsReady
  <2>3. Ready(Answers, asked, Due)'
    BY ZenonT(30), <1>1, <1>5, <1>7, <2>2
  <2>4. Answering'
    BY Zenon, <1>6, <2>3 DEF Answering
  <2> QED BY ZenonT(30), <1>6, <1>8, <1>10, <1>11, <1>13, <2>4 DEF Data
<1> QED BY ZenonT(30), <1>9, <1>12, <1>13

(* stream_chunk_complete.                                                  *)
LEMMA ChunkCompleteData ==
  ASSUME Inv, Output, Carried, Data, NEW c \in Contexts, ChunkComplete(c)
  PROVE  Carried' /\ Data'
<1>1. /\ UNCHANGED <<recv, socket, rest, asked>> /\ pc = "poll" /\ c \in reads
      /\ conn.stream = c /\ c # NULL /\ reads' = reads \ {c}
  BY HttpAssumption DEF ChunkComplete, Completes, Current, clientVars
<1>2. PICK d \in Contexts : Streams(d)
  BY Zenon, <1>1, Streaming
<1>3. Streams(c) /\ ctx[c].off # Chunks
  BY Zenon, <1>1, <1>2 DEF Streams
<1>4. CASE /\ ConnSend(Item(ctx[c].id, ctx[c].off + 1))
           /\ ctx' = [ctx EXCEPT ![c].off = @ + 1, ![c].reading = FALSE]
           /\ pc' = "advance" /\ UNCHANGED conn
  <2>1. ctx'[c] = [ctx[c] EXCEPT !.off = @ + 1, !.reading = FALSE]
    BY <1>4 DEF Inv, Shapes
  <2>2. /\ ctx'[c].off = ctx[c].off + 1 /\ ctx'[c].id = ctx[c].id /\ ctx'[c].keep = ctx[c].keep
    BY <2>1 DEF Inv, Shapes
  <2>3. UNCHANGED <<conn, recv, socket, rest, asked>>
    BY <1>1, <1>4
  <2> QED BY ZenonT(30), <1>1, <1>3, <1>4, <2>2, <2>3, ChunkData
<1>5. CASE Detach /\ pc' = "fail" /\ UNCHANGED <<wire, out>>
  BY ZenonT(30), <1>1, <1>3, <1>5, DetachData
<1> QED BY Zenon, <1>4, <1>5, SendsNot DEF ChunkComplete, outVars

LEMMA NextData ==
  ASSUME Inv, Buffered, Output, Carried, Data, [Next]_vars
  PROVE  Carried' /\ Data'
<1>1. CASE Reap \/ Close
  BY Zenon, <1>1, WipeData DEF Reap, Close
<1>2. CASE Client
  BY Zenon, <1>2, ClientAsksData, ClientSendsData, AsideData DEF Client
<1>3. CASE Completion
  BY Zenon, <1>3, AsideData, FileCompleteData, ChunkCompleteData DEF Completion
<1>4. CASE Handler /\ ~Close
  BY ZenonT(30), <1>4, QuietData, ReadData, HandshakeData, ReadFramesData, ErrorCloseData, AtOnceData,
     ServeFileData, StreamStartData, StreamFinishData, AdvanceReadsData, AdvanceInlineData,
     OnWritableData
  DEF Handler
<1>5. CASE NewConnection \/ UNCHANGED vars
  BY Zenon, <1>5, NewConnectionData, AsideData
<1> QED BY ZenonT(30), <1>1, <1>2, <1>3, <1>4, <1>5 DEF Next

(* process_http_buffer, the file completions and the output backlog keep   *)
(* the responses in the order of the requests, however they are pipelined, *)
(* parked, streamed, backlogged or left over from another client: none is  *)
(* repeated, mixed with another or sent behind a final one.                *)
THEOREM ResponsesKeepOrder == Spec => []ResponsesInOrder
<1>1. Init => Output
  BY DEF Init, Fresh, Output, Sending, Turning, Closing
<1>2. Inv /\ Buffered /\ Output /\ [Next]_vars => Output'
  BY NextOutput
<1>3. Inv /\ Buffered /\ Output /\ Carried /\ Data /\ [Next]_vars => Carried' /\ Data'
  BY NextData
<1>4. Carried /\ Data => ResponsesInOrder
  <2> SUFFICES ASSUME Carried, Data PROVE ResponsesInOrder
    OBVIOUS
  <2>1. PICK s : s = wire \o out
    BY ZenonT(30)
  <2>2. s \in Seq(Items) /\ InOrder(s, Len(s), asked, conn.gen)
    BY ZenonT(30), <2>1, Joined DEF Carried, Data, Answers
  <2>3. s # <<>> => Len(s) > 0
    BY <2>2
  <2>4. \A x, y : Behind(asked, x, y) => Follows(x, y)
    BY ZenonT(30) DEF Behind, Follows, FinalIn, Final
  <2>5. /\ \A i \in 1..Len(s) : s[i].gen = conn.gen
        /\ s # <<>> => s[1].id = 1 /\ First(s[1])
        /\ \A i \in 1..Len(s) - 1 : Follows(s[i], s[i + 1])
    BY Zenon, <2>2, <2>3, <2>4 DEF InOrder
  <2> QED BY ZenonT(30), <2>1, <2>5 DEF ResponsesInOrder
<1> QED BY <1>1, <1>2, <1>3, <1>4, InitData, Invariance, PTL DEF Spec
=============================================================================
