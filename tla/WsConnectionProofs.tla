------------------------- MODULE WsConnectionProofs -------------------------
(***************************************************************************)
(* What holds of WsConnection for every max_message_size, buffer size and  *)
(* set of frames, with proofs.                                             *)
(***************************************************************************)
EXTENDS WsConnection, FiniteSetTheorems, TLAPS

FragType == [op : {"text", "binary"}, data : Seq(0..255), size : Nat]

(* Between two reads the buffer holds part of one frame, and of a frame    *)
(* that ws_parse_frame accepts.                                            *)
OnePart ==
  used > 0 => /\ stream # <<>>
              /\ ~BadHeader(Head(stream))
              /\ used < FrameLen(Head(stream))

(* The inductive invariant of the receiving side.                          *)
InputInv ==
  /\ pc \in {"poll", "read", "parse", "write", "close"}
  /\ st \in {"open", "closing", "closed"}
  /\ st = "closed" => pc = "poll"
  /\ cap \in Nat
  /\ used \in Nat
  /\ avail \in Nat
  /\ queued \in Nat
  /\ stream \in Seq(Frames)
  /\ frag \in FragType \cup {NULL}
  /\ FragmentWithinMax
  /\ pc \in {"poll", "read", "write"} => OnePart

(* The assumptions about a frame, as the proofs use them.                  *)
LEMMA FrameFacts ==
  ASSUME NEW f \in Frames
  PROVE  f.body \in Seq(0..255) /\ Len(f.body) \in Nat
BY WsAssumption

(* Joining two payloads.                                                   *)
LEMMA JoinFacts ==
  ASSUME NEW s \in Seq(0..255), NEW t \in Seq(0..255)
  PROVE  /\ s \o t \in Seq(0..255)
         /\ Len(s \o t) \in Nat
         /\ Len(s \o t) = Len(s) + Len(t)
OBVIOUS

(* The assumptions about the other constants.                              *)
LEMMA ConstantFacts ==
  /\ MaxMessage \in Nat /\ FragInit \in Nat /\ RecvInit \in Nat
  /\ Slack \in Nat /\ Slack >= 1
BY WsAssumption DEF HeaderLen

(* A new connection satisfies the invariant of the receiving side.         *)
LEMMA InputInit == Init => InputInv
BY ConstantFacts DEF Init, InputInv, FragmentWithinMax, OnePart

(* A wiped connection satisfies the invariant.                             *)
LEMMA InputWiped == Wiped /\ queued' \in Nat => InputInv'
BY ConstantFacts DEF Wiped, InputInv, FragmentWithinMax, OnePart

(* A step of the client or the application leaves the receiving side as it *)
(* is, but for a frame that is appended to the stream.                     *)
LEMMA InputOthers ==
  InputInv /\ (Client \/ Application \/ Reap) => InputInv'
<1> SUFFICES ASSUME InputInv, Client \/ Application \/ Reap PROVE InputInv'
  OBVIOUS
<1>1. ASSUME NEW f \in Frames, ClientSends(f) PROVE InputInv'
  <2>1. stream' \in Seq(Frames) /\ stream' # <<>>
    BY <1>1 DEF ClientSends, InputInv
  <2>2. stream # <<>> => Head(stream') = Head(stream)
    BY <1>1 DEF ClientSends, InputInv
  <2>. QED BY <1>1, <2>1, <2>2 DEF ClientSends, appVars, InputInv, FragmentWithinMax, OnePart
<1>2. ASSUME UNCHANGED <<inVars, pc>>, avail' \in Nat, queued' \in Nat,
             st' \in {st, "closing"}
      PROVE  InputInv'
  BY <1>2 DEF inVars, InputInv, FragmentWithinMax, OnePart
<1>3. CASE Arrive
  BY <1>2, <1>3 DEF Arrive, appVars, InputInv
<1>4. CASE ClientCloses
  BY <1>2, <1>4 DEF ClientCloses, clientVars, appVars, InputInv
<1>5. CASE ClientReads
  BY <1>2, <1>5 DEF ClientReads, clientVars, appVars, InputInv
<1>6. CASE SendData
  BY <1>2, <1>6 DEF SendData, clientVars, appVars, InputInv
<1>7. CASE DropData
  BY <1>2, <1>7 DEF DropData, clientVars, appVars, InputInv
<1>8. CASE SlowConsumer
  BY <1>2, <1>8 DEF SlowConsumer, clientVars, appVars, InputInv
<1>9. CASE SendPing
  BY <1>2, <1>9 DEF SendPing, clientVars, appVars, InputInv
<1>10. CASE SendClose
  BY <1>10, InputWiped DEF SendClose, InputInv
<1>11. CASE Reap
  BY <1>11, InputWiped DEF Reap, appVars, InputInv
<1>. QED BY <1>1, <1>3, <1>4, <1>5, <1>6, <1>7, <1>8, <1>9, <1>10, <1>11
         DEF Client, Application

(* Events, writes and reads.                                               *)
LEMMA InputLoop ==
  InputInv /\ (Event \/ Close \/ OnWritable \/ WriteFails \/ Receive) => InputInv'
<1> SUFFICES ASSUME InputInv, Event \/ Close \/ OnWritable \/ WriteFails \/ Receive
             PROVE  InputInv'
  OBVIOUS
<1>1. CASE Event
  BY <1>1 DEF Event, inVars, clientVars, appVars, InputInv, FragmentWithinMax, OnePart
<1>2. CASE Close
  BY <1>2, InputWiped DEF Close, appVars, InputInv
<1>3. CASE OnWritable
  BY <1>3 DEF OnWritable, Goto, inVars, clientVars, appVars, InputInv, FragmentWithinMax, OnePart
<1>4. CASE WriteFails
  BY <1>4 DEF WriteFails, Goto, inVars, clientVars, appVars, InputInv, FragmentWithinMax, OnePart
<1>5. CASE GrowBuffer
  <2>1. cap' \in Nat /\ used' \in Nat
    BY <1>5, ConstantFacts DEF GrowBuffer, InputInv, HardMax, Greater, Lesser
  <2>. QED BY <1>5, <2>1 DEF GrowBuffer, Goto, clientVars, appVars, InputInv, FragmentWithinMax, OnePart
<1>6. CASE ReadSome
  <2>1. used' \in Nat /\ avail' \in Nat
    BY <1>6 DEF ReadSome, InputInv, Lesser
  <2>. QED BY <1>6, <2>1 DEF ReadSome, Goto, appVars, InputInv, FragmentWithinMax, OnePart
<1>7. CASE ReadNothing
  BY <1>7 DEF ReadNothing, Goto, Return0, inVars, clientVars, appVars, InputInv, FragmentWithinMax, OnePart
<1>8. CASE ParseStops
  BY <1>8 DEF ParseStops, Goto, clientVars, appVars, InputInv, FragmentWithinMax, OnePart
<1>. QED BY <1>1, <1>2, <1>3, <1>4, <1>5, <1>6, <1>7, <1>8 DEF Receive

(* Taking a frame out of the buffer keeps the types.                       *)
LEMMA InputParsed ==
  ASSUME NEW f, InputInv, Parsed(f)
  PROVE  /\ stream' \in Seq(Frames) /\ used' \in Nat /\ cap' \in Nat /\ avail' \in Nat
         /\ queued' \in Nat
         /\ f \in Frames /\ Len(f.body) <= MaxMessage
<1>1. f \in Frames
  BY DEF InputInv, Parsed
<1>2. Len(f.body) \in Nat
  BY <1>1, FrameFacts
<1>. QED BY <1>1, <1>2, ConstantFacts
         DEF InputInv, Parsed, clientVars, BadHeader, FrameLen, HeaderLen

(* A handler that has left frag alone, or in order, and returned.          *)
LEMMA InputReturned ==
  ASSUME NEW f, InputInv, Parsed(f),
         pc' \in {"parse", "close"},
         st' \in {st, "closing"},
         frag' \in FragType \cup {NULL}, FragmentWithinMax'
  PROVE  InputInv'
<1>1. pc = "parse"
  BY DEF Parsed
<1>. QED BY <1>1, InputParsed DEF InputInv

(* process_websocket_frame and the two functions below it.                 *)
LEMMA InputProcess == InputInv /\ Process => InputInv'
<1> SUFFICES ASSUME InputInv, Process PROVE InputInv'
  OBVIOUS
<1>. USE DEF Ok, Error, Silent, FailConnection, Goto
<1>1. ASSUME NEW f, Parsed(f), UNCHANGED frag, pc' \in {"parse", "close"}, st' \in {st, "closing"}
      PROVE  InputInv'
  BY <1>1, InputReturned DEF InputInv, FragmentWithinMax
<1>2. ASSUME NEW f, Parsed(f), frag' = NULL, pc' \in {"parse", "close"}, st' \in {st, "closing"}
      PROVE  InputInv'
  BY <1>2, InputReturned DEF InputInv, FragmentWithinMax
<1>. PICK f \in Frames :
        \/ Malformed(f) \/ Ping(f) \/ Pong(f) \/ CloseFrame(f)
        \/ OutOfPlace(f) \/ FirstFragment(f) \/ WholeMessage(f)
        \/ ContinuationTooBig(f) \/ ContinuationRefused(f)
        \/ MoreFragments(f) \/ LastFragment(f)
  BY DEF Process
<1>3. CASE Malformed(f)
  BY <1>1, <1>3 DEF Malformed
<1>4. CASE Ping(f)
  BY <1>1, <1>4 DEF Ping
<1>5. CASE Pong(f)
  BY <1>1, <1>5 DEF Pong
<1>6. CASE CloseFrame(f)
  BY <1>1, <1>6 DEF CloseFrame
<1>7. CASE OutOfPlace(f)
  BY <1>1, <1>7 DEF OutOfPlace
<1>8. CASE FirstFragment(f)
  <2>1. Parsed(f)
    BY <1>8 DEF FirstFragment
  <2>2. Len(f.body) \in Nat /\ f.body \in Seq(0..255) /\ Len(f.body) <= MaxMessage
    BY <2>1, InputParsed, FrameFacts
  <2>3. CASE UNCHANGED frag
    BY <1>1, <1>8, <2>3 DEF FirstFragment
  <2>4. CASE frag' = [op |-> f.op, data |-> f.body,
                      size |-> IF Len(f.body) > FragInit THEN 2 * Len(f.body) ELSE FragInit]
    <3>1. frag' \in FragType
      BY <1>8, <2>2, <2>4, ConstantFacts DEF FirstFragment, FragType
    <3>2. FragmentWithinMax'
      BY <2>2, <2>4, ConstantFacts DEF FragmentWithinMax
    <3>. QED BY SMTT(30), <1>8, <2>1, <3>1, <3>2, InputReturned DEF FirstFragment, InputInv
  <2>. QED BY <1>8, <2>3, <2>4 DEF FirstFragment
<1>9. CASE WholeMessage(f)
  BY <1>1, <1>9 DEF WholeMessage
<1>10. CASE ContinuationTooBig(f)
  BY <1>2, <1>10 DEF ContinuationTooBig, Continued
<1>11. CASE ContinuationRefused(f)
  BY <1>2, <1>11 DEF ContinuationRefused, Continued
<1>12. CASE MoreFragments(f)
  <2>1. Parsed(f) /\ frag # NULL /\ frag \in FragType
    BY <1>12 DEF MoreFragments, Continued, InputInv
  <2>2. f.body \in Seq(0..255) /\ Len(f.body) \in Nat
    BY <2>1, InputParsed, FrameFacts
  <2>3. frag.data \in Seq(0..255) /\ Len(frag.data) \in Nat /\ frag.size \in Nat
    BY <2>1 DEF FragType
  <2>4. /\ Joined(f) \in Seq(0..255)
        /\ Len(Joined(f)) \in Nat
        /\ Len(Joined(f)) = Len(frag.data) + Len(f.body)
    BY ONLY ZenonT(30), <2>2, <2>3, JoinFacts DEF Joined
  <2>5. Len(Joined(f)) <= MaxMessage
    <3>1. ~(Len(f.body) > MaxMessage - Len(frag.data))
      BY <1>12 DEF MoreFragments, TooBig
    <3>2. ASSUME NEW a \in Nat, NEW b \in Nat, NEW m \in Nat, ~(a > m - b) PROVE b + a <= m
      BY <3>2
    <3>. QED BY Zenon, <2>2, <2>3, <2>4, <3>1, <3>2, ConstantFacts
  <2>. DEFINE size == IF Len(Joined(f)) > frag.size THEN 2 * Len(Joined(f)) ELSE frag.size
  <2>6. frag' = [frag EXCEPT !.data = Joined(f), !.size = size]
    BY <1>12 DEF MoreFragments
  <2>7. size \in Nat /\ Len(Joined(f)) <= size
    <3>1. ASSUME NEW a \in Nat, NEW b \in Nat
          PROVE  LET m == IF a > b THEN 2 * a ELSE b IN m \in Nat /\ a <= m
      OBVIOUS
    <3>. QED BY ONLY Zenon, <2>3, <2>4, <3>1
  <2>. HIDE DEF size
  <2>8. frag' \in FragType /\ frag'.data = Joined(f) /\ frag'.size = size
    BY Zenon, <2>1, <2>4, <2>6, <2>7 DEF FragType
  <2>9. FragmentWithinMax'
    BY <2>5, <2>7, <2>8 DEF FragmentWithinMax
  <2>. QED BY <1>12, <2>1, <2>8, <2>9, InputReturned DEF MoreFragments, InputInv
<1>13. CASE LastFragment(f)
  BY <1>2, <1>13 DEF LastFragment, Continued
<1>. QED BY <1>3, <1>4, <1>5, <1>6, <1>7, <1>8, <1>9, <1>10, <1>11, <1>12, <1>13

(* The invariant of the receiving side holds in every reachable state.     *)
THEOREM InputInvariance == Spec => []InputInv
<1>1. InputInv /\ UNCHANGED vars => InputInv'
  BY DEF vars, inVars, clientVars, appVars, InputInv, FragmentWithinMax, OnePart
<1>2. InputInv /\ [Next]_vars => InputInv'
  BY <1>1, InputOthers, InputLoop, InputProcess DEF Next, Thread
<1>. QED BY <1>2, InputInit, PTL DEF Spec

(* What process_continuation_frame calls an invariant is one, for every    *)
(* max_message_size: the message being put together never passes it, nor   *)
(* the buffer it is in.                                                    *)
THEOREM FragmentBounded == Spec => []FragmentWithinMax
<1>1. InputInv => FragmentWithinMax
  BY DEF InputInv
<1>. QED BY <1>1, InputInvariance, PTL

(* For every max_message_size and every initial capacity,                  *)
(* handle_websocket_frames never finds the buffer full at its limit.       *)
THEOREM BufferSuffices == Spec => []RoomForAnyFrame
<1>1. InputInv => RoomForAnyFrame
  <2> SUFFICES ASSUME InputInv, pc = "read", used = cap, cap >= HardMax PROVE FALSE
    BY DEF RoomForAnyFrame
  <2>1. used >= MaxMessage + Slack
    BY ConstantFacts DEF HardMax, Greater, InputInv
  <2>2. used > 0 /\ OnePart
    BY <2>1, ConstantFacts DEF InputInv
  <2>3. Head(stream) \in Frames
    BY <2>2 DEF OnePart, InputInv
  <2>4. Len(Head(stream).body) \in Nat
    BY <2>3, FrameFacts
  <2>5. used < 1 + MaxMessage
    BY <2>2, <2>4, ConstantFacts DEF OnePart, BadHeader, FrameLen, HeaderLen, InputInv
  <2>. QED BY <2>1, <2>5, ConstantFacts DEF InputInv
<1>. QED BY <1>1, InputInvariance, PTL

-----------------------------------------------------------------------------
(* The sending side.                                                       *)

IsData(s) == s \in Seq(Unit) /\ \A i \in 1..Len(s) : s[i].kind = "data"
CloseSent == \E i \in 1..Len(wire) : wire[i].kind = "close"

(* The inductive invariant: the backlog is data, and once a Close frame is *)
(* on the wire the connection is closed or the thread is about to close    *)
(* it, and does nothing else.                                              *)
OutputInv ==
  /\ wire \in Seq(Unit)
  /\ IsData(out)
  /\ room \in Nat
  /\ CloseSent => pc = "close" \/ st = "closed"
  /\ NothingAfterClose
  /\ CloseCodesValid

(* What a write leaves on the wire.                                        *)
LEMMA WrittenFacts ==
  ASSUME NEW units \in Seq(Unit), wire \in Seq(Unit), room \in Nat, Written(units)
  PROVE  /\ wire' \in Seq(Unit) /\ room' \in Nat
         /\ Fits(units) \in 0..Len(units)
         /\ Len(wire') = Len(wire) + Fits(units)
         /\ \A i \in 1..Len(wire) : wire'[i] = wire[i]
         /\ \A i \in (Len(wire) + 1)..Len(wire') : wire'[i] = units[i - Len(wire)]
<1>1. Fits(units) \in 0..Len(units) /\ Fits(units) <= room
  BY DEF Fits, Lesser
<1>. DEFINE k == Fits(units)
            part == SubSeq(units, 1, k)
<1>2. part \in Seq(Unit) /\ Len(part) = k /\ \A i \in 1..k : part[i] = units[i]
  BY <1>1
<1>3. wire' = wire \o part /\ room' = room - k
  BY DEF Written
<1>. HIDE DEF k, part
<1>4. k \in 0..Len(units) /\ k <= room
  BY <1>1 DEF k
<1>5. /\ wire' \in Seq(Unit) /\ Len(wire') = Len(wire) + k
      /\ \A i \in 1..Len(wire) : wire'[i] = wire[i]
      /\ \A i \in (Len(wire) + 1)..Len(wire') : wire'[i] = part[i - Len(wire)]
  BY <1>2, <1>3, <1>4
<1>6. ASSUME NEW i \in (Len(wire) + 1)..Len(wire') PROVE wire'[i] = units[i - Len(wire)]
  <2>1. Len(wire) \in Nat
    OBVIOUS
  <2>2. i - Len(wire) \in 1..k
    BY ONLY <1>4, <1>5, <2>1, i \in (Len(wire) + 1)..Len(wire'), Len(units) \in Nat
  <2>. QED BY <1>2, <1>5, <2>2
<1>7. room' \in Nat
  BY <1>3, <1>4
<1>. QED BY <1>4, <1>5, <1>6, <1>7 DEF k

(* Writing anything but a Close frame, while none has been sent.           *)
LEMMA WroteOther ==
  ASSUME NEW units \in Seq(Unit), wire \in Seq(Unit), room \in Nat, Written(units), ~CloseSent,
         \A i \in 1..Len(units) : units[i].kind # "close"
  PROVE  wire' \in Seq(Unit) /\ room' \in Nat /\ ~CloseSent' /\ NothingAfterClose' /\ CloseCodesValid'
<1>1. ASSUME NEW i \in 1..Len(wire') PROVE wire'[i].kind # "close"
  <2>1. Len(wire) \in Nat /\ Len(units) \in Nat
    OBVIOUS
  <2>2. CASE i <= Len(wire)
    BY <2>1, <2>2, WrittenFacts DEF CloseSent
  <2>3. CASE i > Len(wire)
    <3>1. i - Len(wire) \in 1..Len(units) /\ wire'[i] = units[i - Len(wire)]
      BY <2>1, <2>3, WrittenFacts
    <3>. QED BY <3>1
  <2>. QED BY <2>1, <2>2, <2>3
<1>. QED BY ONLY <1>1, WrittenFacts, wire \in Seq(Unit), room \in Nat, Written(units)
         DEF CloseSent, NothingAfterClose, CloseCodesValid

(* The units of a frame.                                                   *)
LEMMA UnitsFacts ==
  ASSUME NEW kind \in {"data", "ping", "pong", "close"}, NEW id \in Nat
  PROVE  /\ Units(kind, id) \in Seq(Unit) /\ Len(Units(kind, id)) = 2
         /\ Units(kind, id)[1] = [kind |-> kind, id |-> id, part |-> 1]
         /\ Units(kind, id)[2] = [kind |-> kind, id |-> id, part |-> 2]
         /\ \A i \in 1..2 : Units(kind, id)[i].kind = kind
BY DEF Units, Unit

(* Writing a Close frame, while none has been sent.                        *)
LEMMA WroteClose ==
  ASSUME NEW code \in Nat, code = 0 \/ CloseCodeValid(code),
         wire \in Seq(Unit), room \in Nat, Written(Units("close", code)), ~CloseSent
  PROVE  wire' \in Seq(Unit) /\ room' \in Nat /\ NothingAfterClose' /\ CloseCodesValid'
<1>. DEFINE units == Units("close", code)
            L == Len(wire)
<1>1. /\ units \in Seq(Unit) /\ Len(units) = 2
      /\ units[1] = [kind |-> "close", id |-> code, part |-> 1]
      /\ units[2] = [kind |-> "close", id |-> code, part |-> 2]
  BY UnitsFacts
<1>2. L \in Nat /\ \A i \in 1..L : wire[i].kind # "close"
  BY DEF CloseSent
<1>3. /\ wire' \in Seq(Unit) /\ room' \in Nat
      /\ Len(wire') \in L..(L + 2)
      /\ \A i \in 1..L : wire'[i] = wire[i]
      /\ \A i \in (L + 1)..Len(wire') : wire'[i] = units[i - L]
  <2>1. /\ wire' \in Seq(Unit) /\ room' \in Nat
        /\ Fits(units) \in 0..2
        /\ Len(wire') = L + Fits(units)
        /\ \A i \in 1..L : wire'[i] = wire[i]
        /\ \A i \in (L + 1)..Len(wire') : wire'[i] = units[i - L]
    BY Zenon, <1>1, WrittenFacts
  <2>. HIDE DEF units, L
  <2>. QED BY <1>2, <2>1
<1>. HIDE DEF units, L
<1>4. ASSUME NEW i \in 1..Len(wire'), wire'[i].kind = "close" PROVE i > L /\ (i = L + 1 \/ i = L + 2)
  BY <1>2, <1>3, <1>4
<1>5. Len(wire') >= L + 1 => wire'[L + 1] = [kind |-> "close", id |-> code, part |-> 1]
  <2>1. Len(wire') >= L + 1 => L + 1 \in (L + 1)..Len(wire') /\ (L + 1) - L = 1
    BY ONLY <1>2, <1>3
  <2>. QED BY ZenonT(30), <1>1, <1>3, <2>1
<1>6. Len(wire') >= L + 2 => wire'[L + 2] = [kind |-> "close", id |-> code, part |-> 2]
  BY <1>1, <1>2, <1>3
<1>7. NothingAfterClose'
  <2>1. SUFFICES ASSUME NEW i \in 1..Len(wire'), NEW j \in 1..Len(wire'),
                        i < j, wire'[i].kind = "close"
                 PROVE  wire'[i].part = 1 /\ wire'[j] = [wire'[i] EXCEPT !.part = 2]
    BY DEF NothingAfterClose
  <2>2. i = L + 1 /\ j = L + 2
    BY <1>2, <1>3, <1>4, <2>1
  <2>. QED BY SMTT(30), <1>5, <1>6, <2>2, <1>2, <1>3
<1>8. CloseCodesValid'
  BY SMTT(30), <1>2, <1>3, <1>4, <1>5, <1>6 DEF CloseCodesValid
<1>. QED BY <1>3, <1>7, <1>8

(* The code in the first two bytes of a Close frame.                       *)
LEMMA CodeFacts ==
  ASSUME NEW b \in Seq(0..255), Len(b) > 1
  PROVE  256 * b[1] + b[2] \in Nat
<1>1. b[1] \in 0..255 /\ b[2] \in 0..255
  <2>1. ASSUME NEW S, NEW s \in Seq(S), NEW i \in 1..Len(s) PROVE s[i] \in S
    OBVIOUS
  <2>2. 1 \in 1..Len(b) /\ 2 \in 1..Len(b)
    OBVIOUS
  <2>. QED BY ZenonT(30), <2>1, <2>2
<1>2. ASSUME NEW x \in 0..255, NEW y \in 0..255 PROVE 256 * x + y \in Nat
  OBVIOUS
<1>. QED BY ZenonT(30), <1>1, <1>2

(* Every code a Close frame is answered with is valid.                     *)
LEMMA CloseReplyFacts ==
  ASSUME NEW f \in Frames
  PROVE  CloseReply(f) \in Nat /\ (CloseReply(f) = 0 \/ CloseCodeValid(CloseReply(f)))
<1>1. f.body \in Seq(0..255) /\ Len(f.body) \in Nat
  BY FrameFacts
<1>2. CASE Len(f.body) = 0
  BY <1>1, <1>2 DEF CloseReply
<1>3. CASE Len(f.body) = 1
  BY <1>1, <1>3 DEF CloseReply, CloseCodeValid, ProtocolError
<1>4. CASE Len(f.body) > 1
  <2>. DEFINE code == 256 * f.body[1] + f.body[2]
              reason == SubSeq(f.body, 3, Len(f.body))
  <2>2. code \in Nat
    BY <1>1, <1>4, CodeFacts
  <2>3. CloseReply(f) = IF ~CloseCodeValid(code) THEN ProtocolError
                        ELSE IF ~Utf8Valid(reason) THEN InvalidUtf8 ELSE code
    BY <1>1, <1>4 DEF CloseReply
  <2>4. /\ ProtocolError \in Nat /\ CloseCodeValid(ProtocolError)
        /\ InvalidUtf8 \in Nat /\ CloseCodeValid(InvalidUtf8)
    BY DEF CloseCodeValid, ProtocolError, InvalidUtf8
  <2>. HIDE DEF code, reason
  <2>. QED BY <2>2, <2>3, <2>4
<1>5. ASSUME NEW n \in Nat PROVE n = 0 \/ n = 1 \/ n > 1
  OBVIOUS
<1>. QED BY Zenon, <1>1, <1>2, <1>3, <1>4, <1>5

(* The empty backlog holds nothing but data.                               *)
LEMMA NothingIsData == IsData(<<>>)
BY DEF IsData

(* Nothing written and the backlog untouched or gone.                      *)
LEMMA OutputQuiet ==
  ASSUME OutputInv, UNCHANGED <<room, wire>>, out' \in {out, <<>>},
         CloseSent => pc' = "close" \/ st' = "closed"
  PROVE  OutputInv'
<1>1. CloseSent' = CloseSent /\ NothingAfterClose' /\ CloseCodesValid'
  BY DEF OutputInv, CloseSent, NothingAfterClose, CloseCodesValid
<1>2. IsData(out')
  BY NothingIsData DEF OutputInv
<1>. QED BY <1>1, <1>2 DEF OutputInv

(* A control frame that is not a Close, while the connection is open.      *)
LEMMA OutputControl ==
  ASSUME OutputInv, pc # "close", st # "closed",
         NEW kind \in {"ping", "pong"}, SendControl(kind, 0)
  PROVE  OutputInv'
<1>1. /\ Units(kind, 0) \in Seq(Unit) /\ Len(Units(kind, 0)) = 2
      /\ \A i \in 1..2 : Units(kind, 0)[i].kind = kind
  BY DEF Units, Unit
<1>2. ~CloseSent
  BY DEF OutputInv
<1>3. CASE Written(Units(kind, 0))
  <2>1. wire' \in Seq(Unit) /\ room' \in Nat /\ ~CloseSent' /\ NothingAfterClose'
          /\ CloseCodesValid'
    BY <1>1, <1>2, <1>3, WroteOther DEF OutputInv
  <2>. QED BY <2>1 DEF SendControl, OutputInv
<1>4. CASE UNCHANGED <<room, wire>>
  BY <1>2, <1>4, OutputQuiet DEF SendControl
<1>. QED BY <1>3, <1>4 DEF SendControl

(* A Close frame, sent or not, and the way to the end of the connection.   *)
LEMMA OutputClose ==
  ASSUME OutputInv, pc # "close", st # "closed",
         NEW code \in Nat, code = 0 \/ CloseCodeValid(code),
         Written(Units("close", code)) \/ UNCHANGED <<room, wire>>, out' \in {out, <<>>},
         pc' = "close" \/ st' = "closed"
  PROVE  OutputInv'
<1>1. ~CloseSent
  BY DEF OutputInv
<1>2. CASE Written(Units("close", code))
  <2>1. wire' \in Seq(Unit) /\ room' \in Nat /\ NothingAfterClose' /\ CloseCodesValid'
    BY <1>1, <1>2, WroteClose DEF OutputInv
  <2>2. IsData(out')
    BY NothingIsData DEF OutputInv
  <2>. QED BY <2>1, <2>2 DEF OutputInv
<1>3. CASE UNCHANGED <<room, wire>>
  BY <1>3, OutputQuiet
<1>. QED BY <1>2, <1>3

(* A part of the backlog, or of a data frame, is data.                     *)
LEMMA DataPart ==
  ASSUME NEW units, IsData(units),
         NEW n \in 0..Len(units)
  PROVE  IsData(SubSeq(units, n + 1, Len(units)))
BY DEF IsData

(* Data is written to the socket or put into the backlog.                  *)
LEMMA OutputData ==
  ASSUME OutputInv, pc # "close", st # "closed",
         NEW units, IsData(units),
         Written(units),
         out' \in {out, SubSeq(units, Fits(units) + 1, Len(units))}
  PROVE  OutputInv'
<1>1. ~CloseSent
  BY DEF OutputInv
<1>2. wire' \in Seq(Unit) /\ room' \in Nat /\ ~CloseSent' /\ NothingAfterClose' /\ CloseCodesValid'
  BY <1>1, WroteOther DEF OutputInv, IsData
<1>3. Fits(units) \in 0..Len(units)
  BY ZenonT(30), WrittenFacts DEF OutputInv, IsData
<1>4. IsData(out')
  BY Zenon, <1>3, DataPart DEF OutputInv
<1>. QED BY <1>2, <1>4 DEF OutputInv

(* A new connection satisfies the invariant of the sending side.           *)
LEMMA OutputInit == Init => OutputInv
<1> SUFFICES ASSUME Init PROVE OutputInv
  OBVIOUS
<1>1. wire = <<>> /\ out = <<>> /\ room \in Nat
  BY WsAssumption DEF Init
<1>. QED BY <1>1, NothingIsData
         DEF OutputInv, IsData, CloseSent, NothingAfterClose, CloseCodesValid

(* The client, the application and the reaper.                             *)
LEMMA OutputOthers ==
  InputInv /\ OutputInv /\ (Client \/ Application \/ Reap) => OutputInv'
<1> SUFFICES ASSUME InputInv, OutputInv, Client \/ Application \/ Reap PROVE OutputInv'
  OBVIOUS
<1>. USE DEF outVars, Asking
<1>1. ASSUME NEW f \in Frames, ClientSends(f) PROVE OutputInv'
  BY <1>1, OutputQuiet DEF ClientSends, OutputInv
<1>2. CASE Arrive
  BY <1>2, OutputQuiet DEF Arrive, OutputInv
<1>3. CASE ClientCloses
  BY <1>3, OutputQuiet DEF ClientCloses, OutputInv
<1>4. CASE ClientReads
  <2>1. room' \in Nat
    BY <1>4, WsAssumption DEF ClientReads, OutputInv
  <2>2. CloseSent' = CloseSent /\ NothingAfterClose' /\ CloseCodesValid'
    BY <1>4 DEF ClientReads, OutputInv, CloseSent, NothingAfterClose, CloseCodesValid
  <2>. QED BY <1>4, <2>1, <2>2 DEF ClientReads, OutputInv
<1>5. CASE SendData
  <2>. DEFINE units == Units("data", queued + 1)
  <2>1. IsData(units)
    BY DEF Units, Unit, IsData, InputInv
  <2>2. pc # "close" /\ st # "closed" /\ ConnSend(units) /\ UNCHANGED pc
    BY <1>5 DEF SendData
  <2>. HIDE DEF units
  <2>3. CASE out # <<>>
    <3>1. out' = out \o units /\ UNCHANGED <<room, wire>>
      BY <2>2, <2>3 DEF ConnSend
    <3>2. IsData(out')
      BY <2>1, <3>1 DEF IsData, OutputInv
    <3>3. CloseSent' = CloseSent /\ NothingAfterClose' /\ CloseCodesValid'
      BY <3>1 DEF OutputInv, CloseSent, NothingAfterClose, CloseCodesValid
    <3>. QED BY <2>2, <3>1, <3>2, <3>3 DEF OutputInv
  <2>4. CASE out = <<>>
    <3>1. Written(units) /\ out' = SubSeq(units, Fits(units) + 1, Len(units))
      BY <2>2, <2>4 DEF ConnSend
    <3>. QED BY Zenon, <2>1, <2>2, <3>1, OutputData
  <2>. QED BY <2>3, <2>4
<1>6. CASE DropData
  BY <1>6, OutputQuiet DEF DropData, OutputInv
<1>7. CASE SlowConsumer
  <2>. DEFINE units == Units("data", queued + 1)
  <2>1. IsData(units)
    BY DEF Units, Unit, IsData, InputInv
  <2>2. /\ pc # "close" /\ st # "closed" /\ UNCHANGED out
        /\ UNCHANGED <<room, wire>> \/ Written(units)
    BY <1>7 DEF SlowConsumer, ConnSendFails
  <2>. HIDE DEF units
  <2>3. CASE UNCHANGED <<room, wire>>
    BY <2>2, <2>3, OutputQuiet DEF OutputInv
  <2>4. CASE Written(units)
    BY <2>1, <2>2, <2>4, OutputData
  <2>. QED BY <2>2, <2>3, <2>4
<1>8. CASE SendPing
  BY <1>8, OutputControl DEF SendPing
<1>9. CASE SendClose
  <2>1. Normal \in Nat /\ CloseCodeValid(Normal)
    BY DEF Normal, CloseCodeValid
  <2>. QED BY <1>9, <2>1, OutputClose DEF SendClose, Wiped
<1>10. CASE Reap
  BY <1>10, OutputQuiet DEF Reap, Wiped
<1>. QED BY SMTT(30), <1>1, <1>2, <1>3, <1>4, <1>5, <1>6, <1>7, <1>8, <1>9, <1>10
     DEF Client, Application

(* The event thread.                                                       *)
LEMMA OutputThread == InputInv /\ OutputInv /\ Thread => OutputInv'
<1> SUFFICES ASSUME InputInv, OutputInv, Thread PROVE OutputInv'
  OBVIOUS
<1>. USE DEF outVars, Goto, Return0
<1>1. ASSUME UNCHANGED <<st, outVars>>, pc # "close" PROVE OutputInv'
  BY <1>1, OutputQuiet DEF OutputInv
<1>2. CASE Event
  BY <1>1, <1>2 DEF Event
<1>3. CASE Close
  BY <1>3, OutputQuiet DEF Close, Wiped
<1>4. CASE OnWritable
  <2>1. pc = "write" /\ st' = st /\ Written(out) /\ out' = SubSeq(out, Fits(out) + 1, Len(out))
    BY <1>4 DEF OnWritable
  <2>2. st # "closed"
    BY <2>1 DEF InputInv
  <2>. QED BY Zenon, <2>1, <2>2, OutputData DEF OutputInv
<1>5. CASE WriteFails
  BY SMTT(30), <1>1, <1>5 DEF WriteFails
<1>6. CASE Receive
  BY ZenonT(30), <1>1, <1>6 DEF Receive, GrowBuffer, ReadSome, ReadNothing, ParseStops
<1>7. CASE Process
  <2>. USE DEF Ok, Error, Silent
  <2>1. PICK f \in Frames :
          \/ Malformed(f) \/ Ping(f) \/ Pong(f) \/ CloseFrame(f)
          \/ OutOfPlace(f) \/ FirstFragment(f) \/ WholeMessage(f)
          \/ ContinuationTooBig(f) \/ ContinuationRefused(f)
          \/ MoreFragments(f) \/ LastFragment(f)
    BY <1>7 DEF Process
  <2>2. pc = "parse" /\ st # "closed"
    BY Zenon, <2>1
    DEF InputInv, Parsed, Malformed, Ping, Pong, CloseFrame, OutOfPlace, FirstFragment,
                WholeMessage, Continued, ContinuationTooBig, ContinuationRefused, MoreFragments,
                LastFragment
  <2>3. ASSUME NEW code \in Nat, code = 0 \/ CloseCodeValid(code), FailConnection(code)
        PROVE  OutputInv'
    BY <2>2, <2>3, OutputClose DEF FailConnection, SendControl
  <2>4. /\ ProtocolError \in Nat /\ CloseCodeValid(ProtocolError)
        /\ InvalidUtf8 \in Nat /\ CloseCodeValid(InvalidUtf8)
        /\ MessageTooBig \in Nat /\ CloseCodeValid(MessageTooBig)
    BY DEF CloseCodeValid, ProtocolError, InvalidUtf8, MessageTooBig
  <2>5. CASE Malformed(f)
    BY <1>1, <2>2, <2>3, <2>4, <2>5 DEF Malformed
  <2>6. CASE Ping(f)
    BY <2>2, <2>6, OutputControl DEF Ping
  <2>7. CASE CloseFrame(f)
    BY <2>3, <2>7, CloseReplyFacts DEF CloseFrame
  <2>8. CASE Pong(f) \/ OutOfPlace(f) \/ FirstFragment(f) \/ MoreFragments(f)
             \/ ContinuationRefused(f)
    BY ZenonT(30), <1>1, <2>2, <2>8
    DEF Pong, OutOfPlace, FirstFragment, MoreFragments, ContinuationRefused
  <2>9. CASE WholeMessage(f)
    BY <1>1, <2>2, <2>3, <2>4, <2>9 DEF WholeMessage
  <2>10. CASE ContinuationTooBig(f)
    BY SMTT(30), <2>3, <2>4, <2>10 DEF ContinuationTooBig
  <2>11. CASE LastFragment(f)
    BY <1>1, <2>2, <2>3, <2>4, <2>11 DEF LastFragment
  <2>. QED BY <2>1, <2>5, <2>6, <2>7, <2>8, <2>9, <2>10, <2>11
<1>. QED BY <1>2, <1>3, <1>4, <1>5, <1>6, <1>7 DEF Thread

(* The invariant of the sending side holds in every reachable state.       *)
THEOREM OutputInvariance == Spec => []OutputInv
<1>1. OutputInv /\ UNCHANGED vars => OutputInv'
  BY DEF vars, outVars, OutputInv, CloseSent, NothingAfterClose, CloseCodesValid
<1>2. InputInv /\ OutputInv /\ [Next]_vars => OutputInv'
  BY <1>1, OutputOthers, OutputThread DEF Next
<1>. QED BY <1>2, OutputInit, InputInvariance, PTL DEF Spec

(* Whatever the traffic, a Close frame is the last thing on the wire.      *)
THEOREM CloseIsLast == Spec => []NothingAfterClose
<1>1. OutputInv => NothingAfterClose
  BY DEF OutputInv
<1>. QED BY <1>1, OutputInvariance, PTL

(* Whatever the client put into its Close frame, the one that goes back    *)
(* carries a valid code or none.                                           *)
THEOREM CloseCodes == Spec => []CloseCodesValid
<1>1. OutputInv => CloseCodesValid
  BY DEF OutputInv
<1>. QED BY <1>1, OutputInvariance, PTL

-----------------------------------------------------------------------------
(* The order of data.                                                      *)

(* The numbers of the two units of a data frame.                           *)
LEMMA UnitsAre ==
  ASSUME NEW q \in Nat
  PROVE  /\ Units("data", q + 1)[1] = NthData(2 * q + 1)
         /\ Units("data", q + 1)[2] = NthData(2 * q + 2)
<1>1. (2 * q + 1 + 1) \div 2 = q + 1 /\ (2 * q + 1) % 2 = 1
  OBVIOUS
<1>2. (2 * q + 2 + 1) \div 2 = q + 1 /\ (2 * q + 2) % 2 = 0
  OBVIOUS
<1>. QED BY <1>1, <1>2 DEF Units, NthData

(* A run of numbers behind a set of smaller ones.                          *)
LEMMA AddRun ==
  ASSUME NEW L \in Nat, NEW D \in SUBSET (1..L), NEW m \in Nat
  PROVE  /\ IsFiniteSet(D) /\ Cardinality(D) \in Nat
         /\ Cardinality(D \cup ((L + 1)..(L + m))) = Cardinality(D) + m
<1>1. IsFiniteSet(D) /\ Cardinality(D) \in Nat
  <2>1. IsFiniteSet(1..L)
    BY FS_Interval
  <2>2. IsFiniteSet(D)
    BY Zenon, <2>1, FS_Subset
  <2>. QED BY <2>2, FS_CardinalityType
<1>. DEFINE R == (L + 1)..(L + m)
<1>2. IsFiniteSet(R) /\ Cardinality(R) = m
  BY FS_Interval
<1>3. D \cap R = {}
  OBVIOUS
<1>4. Cardinality(D \cap R) = 0
  BY <1>3, FS_EmptySet
<1>5. Cardinality(D \cup R) = Cardinality(D) + Cardinality(R) - Cardinality(D \cap R)
  BY <1>1, <1>2, FS_Union
<1>. QED BY <1>1, <1>2, <1>4, <1>5

(* Data written in its order stays in order.                               *)
LEMMA DataWritten ==
  ASSUME wire \in Seq(Unit), room \in Nat, NEW units \in Seq(Unit), Written(units),
         \A i \in DataAt : wire[i] = NthData(Rank(i)),
         \A k \in 1..Len(units) : units[k] = NthData(Cardinality(DataAt) + k)
  PROVE  /\ \A i \in DataAt' : wire'[i] = NthData(Rank(i)')
         /\ Cardinality(DataAt') = Cardinality(DataAt) + Fits(units)
         /\ Cardinality(DataAt) \in Nat
<1>. DEFINE L == Len(wire)
            k == Fits(units)
            D == DataAt
            C == Cardinality(DataAt)
            A == DataAt'
<1>1. /\ L \in Nat /\ k \in 0..Len(units) /\ Len(units) \in Nat /\ Len(wire') = L + k
      /\ \A i \in 1..L : wire'[i] = wire[i]
      /\ \A i \in (L + 1)..(L + k) : wire'[i] = units[i - L]
  BY WrittenFacts
<1>2. /\ \A i : i \in D <=> i \in 1..L /\ wire[i].kind = "data"
      /\ \A i : i \in A <=> i \in 1..(L + k) /\ wire'[i].kind = "data"
  BY ZenonT(30), <1>1 DEF DataAt
<1>3. \A i \in 1..Len(units) : units[i].kind = "data" /\ units[i] = NthData(C + i)
  BY DEF NthData
<1>4. \A i \in D : wire[i] = NthData(Cardinality({j \in D : j <= i}))
  BY Zenon DEF Rank
<1>5. SUFFICES /\ \A i \in A : wire'[i] = NthData(Cardinality({j \in A : j <= i}))
               /\ Cardinality(A) = C + k
               /\ C \in Nat
  BY Zenon DEF Rank
<1>0. C = Cardinality(D)
  OBVIOUS
<1>. HIDE DEF L, k, D, C, A
<1>6. D \in SUBSET (1..L)
  BY <1>2
<1>7. ASSUME NEW i \in (L + 1)..(L + k) PROVE i - L \in 1..Len(units) /\ i \in A
  <2>1. i - L \in 1..Len(units) /\ i \in 1..(L + k)
    BY <1>1
  <2>. QED BY ZenonT(30), <1>1, <1>2, <1>3, <2>1
<1>8. A = D \cup ((L + 1)..(L + k))
  <2>1. ASSUME NEW i \in A PROVE i \in D \cup ((L + 1)..(L + k))
    <3>1. i \in 1..(L + k) /\ wire'[i].kind = "data"
      BY ZenonT(30), <1>2
    <3>2. i \in 1..L \/ i \in (L + 1)..(L + k)
      BY <1>1, <3>1
    <3>. QED BY ZenonT(30), <1>1, <1>2, <3>1, <3>2
  <2>2. ASSUME NEW i \in D PROVE i \in A
    <3>1. i \in 1..L /\ wire'[i].kind = "data" /\ i \in 1..(L + k)
      BY <1>1, <1>2
    <3>. QED BY ZenonT(30), <1>2, <3>1
  <2>. QED BY SMTT(30), <1>7, <2>1, <2>2
<1>9. k \in Nat
  BY <1>1
<1>10. C \in Nat /\ Cardinality(A) = C + k
  BY ZenonT(30), <1>0, <1>1, <1>6, <1>8, <1>9, AddRun
<1>11. ASSUME NEW i \in D PROVE wire'[i] = NthData(Cardinality({j \in A : j <= i}))
  <2>1. i \in 1..L
    BY ZenonT(30), <1>2
  <2>2. {j \in A : j <= i} = {j \in D : j <= i}
    BY <1>1, <1>6, <1>8, <2>1
  <2>. QED BY ZenonT(30), <1>1, <1>4, <2>1, <2>2
<1>12. ASSUME NEW i \in (L + 1)..(L + k)
       PROVE  wire'[i] = NthData(Cardinality({j \in A : j <= i}))
  <2>. DEFINE m == i - L
  <2>1. m \in Nat /\ m \in 1..Len(units) /\ i = L + m /\ m <= k
    BY <1>1, <1>7
  <2>. HIDE DEF m
  <2>2. {j \in A : j <= i} = D \cup ((L + 1)..(L + m))
    <3>1. \A j \in D : j <= i
      BY <1>1, <1>6, <2>1
    <3>2. \A j \in (L + 1)..(L + m) : j \in (L + 1)..(L + k) /\ j <= i
      BY <1>1, <2>1
    <3>3. \A j \in (L + 1)..(L + k) : j <= i => j \in (L + 1)..(L + m)
      BY <1>1, <2>1
    <3>. QED BY Zenon, <1>8, <3>1, <3>2, <3>3
  <2>3. Cardinality({j \in A : j <= i}) = C + m
    <3>1. Cardinality(D \cup ((L + 1)..(L + m))) = Cardinality(D) + m
      BY ZenonT(30), <1>1, <1>6, <2>1, AddRun
    <3>. QED BY Zenon, <1>0, <2>2, <3>1
  <2>4. wire'[i] = units[m]
    BY ZenonT(30), <1>1 DEF m
  <2>. QED BY ZenonT(30), <1>3, <2>1, <2>3, <2>4
<1>. QED BY Zenon, <1>8, <1>10, <1>11, <1>12

(* Anything else that is written, or nothing, leaves data in its order.    *)
LEMMA DataKept ==
  ASSUME wire \in Seq(Unit), Len(wire') \in Nat, Len(wire) <= Len(wire'),
         \A i \in 1..Len(wire) : wire'[i] = wire[i],
         \A i \in (Len(wire) + 1)..Len(wire') : wire'[i].kind # "data",
         DataInOrder, out' = out \/ (out' = <<>> /\ st' # "open"),
         st' = "open" => st = "open" /\ queued' = queued
  PROVE  DataInOrder'
<1>1. DataAt' = DataAt
  <2>1. ASSUME NEW i \in DataAt PROVE i \in DataAt'
    BY DEF DataAt
  <2>2. ASSUME NEW i \in DataAt' PROVE i \in DataAt
    <3>1. i \in 1..Len(wire') /\ wire'[i].kind = "data"
      BY DEF DataAt
    <3>2. i \in 1..Len(wire) \/ i \in (Len(wire) + 1)..Len(wire')
      BY <3>1
    <3>. QED BY Zenon, <3>1, <3>2 DEF DataAt
  <2>. QED BY Zenon, <2>1, <2>2
<1>2. \A i \in DataAt' : wire'[i] = wire[i] /\ Rank(i)' = Rank(i)
  BY Zenon, <1>1 DEF Rank, DataAt
<1>. QED BY <1>1, <1>2 DEF DataInOrder

LEMMA DataQuiet ==
  ASSUME OutputInv, DataInOrder, UNCHANGED wire, out' = out \/ (out' = <<>> /\ st' # "open"),
         st' = "open" => st = "open" /\ queued' = queued
  PROVE  DataInOrder'
  BY DataKept DEF OutputInv

(* A control frame, whole or in part or not at all.                        *)
LEMMA DataControl ==
  ASSUME OutputInv, DataInOrder, NEW kind \in {"ping", "pong", "close"}, NEW code \in Nat,
         Written(Units(kind, code)) \/ UNCHANGED wire,
         out' = out \/ (out' = <<>> /\ st' # "open"),
         st' = "open" => st = "open" /\ queued' = queued
  PROVE  DataInOrder'
<1>1. CASE UNCHANGED wire
  BY <1>1, DataQuiet
<1>2. CASE Written(Units(kind, code))
  <2>. DEFINE units == Units(kind, code)
  <2>1. units \in Seq(Unit) /\ Len(units) = 2 /\ \A i \in 1..2 : units[i].kind = kind
    BY DEF Units, Unit
  <2>. HIDE DEF units
  <2>2. /\ wire \in Seq(Unit) /\ Len(wire) \in Nat
        /\ Fits(units) \in 0..2 /\ Len(wire') = Len(wire) + Fits(units)
        /\ \A i \in 1..Len(wire) : wire'[i] = wire[i]
        /\ \A i \in (Len(wire) + 1)..Len(wire') : wire'[i] = units[i - Len(wire)]
    <3>1. wire \in Seq(Unit) /\ room \in Nat /\ Written(units)
      BY Zenon, <1>2 DEF OutputInv, units
    <3>2. Len(wire) \in Nat
      BY SMTT(30), <3>1
    <3>. QED BY Zenon, <2>1, <3>1, <3>2, WrittenFacts
  <2>3. ASSUME NEW i \in (Len(wire) + 1)..Len(wire') PROVE wire'[i].kind # "data"
    <3>1. i - Len(wire) \in 1..2
      BY <2>2
    <3>. QED BY ZenonT(30), <2>1, <2>2, <3>1
  <2>. QED BY SMTT(30), <2>2, <2>3, DataKept
<1>. QED BY <1>1, <1>2

(* Data that follows what there is: it goes to the socket and what is left *)
(* of it becomes the backlog, or is lost with the connection.              *)
LEMMA DataSent ==
  ASSUME OutputInv, DataInOrder, NEW units \in Seq(Unit), Written(units),
         \A k \in 1..Len(units) : units[k] = NthData(Cardinality(DataAt) + k),
         \/ out' = SubSeq(units, Fits(units) + 1, Len(units))
         \/ out' = <<>> /\ st' # "open",
         st' = "open" => Cardinality(DataAt) + Len(units) = 2 * queued'
  PROVE  DataInOrder'
<1>. DEFINE k == Fits(units)
            C == Cardinality(DataAt)
<1>1. /\ \A i \in DataAt' : wire'[i] = NthData(Rank(i)')
      /\ Cardinality(DataAt') = C + k /\ C \in Nat
  BY ZenonT(30), DataWritten DEF OutputInv, DataInOrder
<1>2. k \in 0..Len(units) /\ Len(units) \in Nat
  <2>1. units \in Seq(Unit) /\ wire \in Seq(Unit) /\ room \in Nat
    BY ZenonT(30) DEF OutputInv
  <2>2. Len(units) \in Nat
    BY ONLY SMTT(30), <2>1
  <2>. QED BY ZenonT(30), <2>1, <2>2, WrittenFacts
<1>. HIDE DEF k, C
<1>3. CASE out' = <<>> /\ st' # "open"
  <2>1. \A j \in 1..Len(<<>>) : FALSE
    BY ONLY SMTT(30)
  <2>. QED BY ZenonT(30), <1>1, <1>3, <2>1 DEF DataInOrder
<1>4. CASE out' = SubSeq(units, k + 1, Len(units))
  <2>1. /\ Len(out') = Len(units) - k
        /\ \A i \in 1..Len(out') : out'[i] = units[k + i] /\ k + i \in 1..Len(units)
    BY SMTT(30), <1>2, <1>4
  <2>2. \A i \in 1..Len(out') : out'[i] = NthData(Cardinality(DataAt') + i)
    <3>. SUFFICES ASSUME NEW i \in 1..Len(out') PROVE out'[i] = NthData(Cardinality(DataAt') + i)
      OBVIOUS
    <3>1. C + (k + i) = (C + k) + i
      BY <1>1, <1>2, <2>1
    <3>2. out'[i] = NthData(C + (k + i))
      BY SMTT(30), <2>1 DEF C
    <3>. QED BY ZenonT(30), <1>1, <3>1, <3>2
  <2>3. st' = "open" => Cardinality(DataAt') + Len(out') = 2 * queued'
    <3>1. st' = "open" => C + Len(units) = 2 * queued'
      BY DEF C
    <3>. QED BY <1>1, <1>2, <2>1, <3>1
  <2>. QED BY ZenonT(30), <1>1, <2>2, <2>3 DEF DataInOrder
<1>. QED BY SMTT(30), <1>3, <1>4 DEF k

-----------------------------------------------------------------------------
LEMMA DataInit == Init => DataInOrder
<1> SUFFICES ASSUME Init PROVE DataInOrder
  OBVIOUS
<1>1. wire = <<>> /\ out = <<>> /\ queued = 0
  BY DEF Init
<1>2. DataAt = {}
  BY <1>1 DEF DataAt
<1>. QED BY <1>1, <1>2, FS_EmptySet DEF DataInOrder

(* The frame that is sent next follows what was sent before.               *)
LEMMA DataFollows ==
  ASSUME InputInv, OutputInv, DataInOrder, st = "open"
  PROVE  /\ Units("data", queued + 1) \in Seq(Unit) /\ Len(Units("data", queued + 1)) = 2
         /\ \A k \in 1..2 : Units("data", queued + 1)[k]
                            = NthData(Cardinality(DataAt) + Len(out) + k)
         /\ Cardinality(DataAt) + Len(out) = 2 * queued
         /\ queued \in Nat /\ Cardinality(DataAt) \in Nat
<1>1. queued \in Nat /\ Cardinality(DataAt) + Len(out) = 2 * queued
  BY ZenonT(30) DEF InputInv, DataInOrder
<1>2. Cardinality(DataAt) \in Nat
  <2>1. Len(wire) \in Nat /\ DataAt \in SUBSET (1..Len(wire))
    BY DEF OutputInv, DataAt
  <2>. QED BY Zenon, <2>1, AddRun
<1>3. Units("data", queued + 1) \in Seq(Unit) /\ Len(Units("data", queued + 1)) = 2
  BY <1>1 DEF Units, Unit
<1>4. /\ Units("data", queued + 1)[1] = NthData(2 * queued + 1)
      /\ Units("data", queued + 1)[2] = NthData(2 * queued + 2)
  BY <1>1, UnitsAre
<1>5. \A k \in 1..2 : k = 1 \/ k = 2
  OBVIOUS
<1>. QED BY ZenonT(30), <1>1, <1>2, <1>3, <1>4, <1>5

(* A frame of two units behind others.                                     *)
LEMMA PutBehind ==
  ASSUME NEW S, NEW s \in Seq(S), NEW t \in Seq(S)
  PROVE  /\ Len(s \o t) = Len(s) + Len(t)
         /\ \A k \in 1..Len(s) : (s \o t)[k] = s[k]
         /\ \A k \in 1..Len(t) : (s \o t)[Len(s) + k] = t[k]
OBVIOUS

LEMMA DataOthers ==
  ASSUME InputInv, OutputInv, DataInOrder, Client \/ Application \/ Reap
  PROVE  DataInOrder'
<1>. USE DEF outVars, appVars, Asking
<1>1. CASE (\E f \in Frames : ClientSends(f)) \/ Arrive \/ ClientCloses \/ ClientReads \/ DropData
  BY ZenonT(30), <1>1, DataQuiet DEF ClientSends, Arrive, ClientCloses, ClientReads, DropData
<1>2. CASE SendData
  <2>. DEFINE units == Units("data", queued + 1)
  <2>1. st = "open" /\ st' = "open" /\ ConnSend(units) /\ queued' = queued + 1
    BY <1>2 DEF SendData
  <2>2. /\ units \in Seq(Unit) /\ Len(units) = 2
        /\ \A k \in 1..2 : units[k] = NthData(Cardinality(DataAt) + Len(out) + k)
        /\ Cardinality(DataAt) + Len(out) = 2 * queued
        /\ queued \in Nat /\ Cardinality(DataAt) \in Nat
    BY <2>1, DataFollows
  <2>. HIDE DEF units
  <2>3. CASE out # <<>>
    <3>1. out' = out \o units /\ UNCHANGED wire
      BY Zenon, <2>1, <2>3 DEF ConnSend
    <3>2. out \in Seq(Unit) /\ Len(out) \in Nat
      BY DEF OutputInv, IsData
    <3>3. /\ Len(out') = Len(out) + 2
          /\ \A k \in 1..Len(out) : out'[k] = out[k]
          /\ \A k \in 1..2 : out'[Len(out) + k] = units[k]
      <4>1. /\ Len(out \o units) = Len(out) + Len(units)
            /\ \A k \in 1..Len(out) : (out \o units)[k] = out[k]
            /\ \A k \in 1..Len(units) : (out \o units)[Len(out) + k] = units[k]
        <5>1. units \in Seq(Unit) /\ out \in Seq(Unit)
          BY <2>2, <3>2
        <5>. QED BY ONLY <5>1, PutBehind
      <4>. QED BY Zenon, <2>2, <3>1, <4>1
    <3>4. DataAt' = DataAt /\ \A i \in DataAt : wire'[i] = wire[i] /\ Rank(i)' = Rank(i)
      BY Zenon, <3>1 DEF DataAt, Rank
    <3>5. ASSUME NEW k \in 1..Len(out') PROVE out'[k] = NthData(Cardinality(DataAt) + k)
      <4>1. CASE k \in 1..Len(out)
        BY Zenon, <3>3, <4>1 DEF DataInOrder
      <4>2. CASE k \notin 1..Len(out)
        <5>1. PICK m \in 1..2 : k = Len(out) + m
          <6>1. k - Len(out) \in 1..2 /\ k = Len(out) + (k - Len(out))
            BY <3>2, <3>3, <4>2
          <6>. QED BY <6>1
        <5>2. out'[k] = NthData(Cardinality(DataAt) + Len(out) + m)
          BY ZenonT(30), <2>2, <3>3, <5>1
        <5>3. Cardinality(DataAt) + Len(out) + m = Cardinality(DataAt) + k
          BY <2>2, <3>2, <5>1
        <5>. QED BY Zenon, <5>2, <5>3
      <4>. QED BY <4>1, <4>2
    <3>6. Cardinality(DataAt) + Len(out') = 2 * queued'
      BY <2>1, <2>2, <3>2, <3>3
    <3>. QED BY Zenon, <3>4, <3>5, <3>6 DEF DataInOrder
  <2>4. CASE out = <<>>
    <3>1. Written(units) /\ out' = SubSeq(units, Fits(units) + 1, Len(units))
      BY <2>1, <2>4 DEF ConnSend
    <3>2. Len(out) = 0
      BY <2>4
    <3>3. /\ \A k \in 1..Len(units) : units[k] = NthData(Cardinality(DataAt) + k)
          /\ Cardinality(DataAt) + Len(units) = 2 * queued'
      <4>1. \A k \in 1..2 : Cardinality(DataAt) + Len(out) + k = Cardinality(DataAt) + k
        BY <2>2, <3>2
      <4>2. Cardinality(DataAt) + 2 = 2 * queued'
        BY <2>1, <2>2, <3>2
      <4>. QED BY Zenon, <2>2, <4>1, <4>2
    <3>. QED BY Zenon, <2>2, <3>1, <3>3, DataSent
  <2>. QED BY <2>3, <2>4
<1>3. CASE SlowConsumer
  <2>. DEFINE units == Units("data", queued + 1)
  <2>1. st = "open" /\ st' = "closing" /\ ConnSendFails(units)
    BY <1>3 DEF SlowConsumer
  <2>2. /\ units \in Seq(Unit) /\ Len(units) = 2
        /\ \A k \in 1..2 : units[k] = NthData(Cardinality(DataAt) + Len(out) + k)
        /\ Cardinality(DataAt) \in Nat
    BY ZenonT(30), <2>1, DataFollows
  <2>. HIDE DEF units
  <2>3. CASE out # <<>>
    BY <2>1, <2>3, DataQuiet DEF ConnSendFails
  <2>4. CASE out = <<>>
    <3>1. Written(units) /\ out' = <<>> /\ Len(out) = 0
      BY <2>1, <2>4 DEF ConnSendFails
    <3>2. \A k \in 1..Len(units) : units[k] = NthData(Cardinality(DataAt) + k)
      <4>1. \A k \in 1..2 : Cardinality(DataAt) + Len(out) + k = Cardinality(DataAt) + k
        BY <2>2, <3>1
      <4>. QED BY Zenon, <2>2, <4>1
    <3>. QED BY ZenonT(30), <2>1, <2>2, <3>1, <3>2, DataSent
  <2>. QED BY <2>3, <2>4
<1>4. CASE SendPing
  BY <1>4, DataControl DEF SendPing, SendControl
<1>5. CASE SendClose
  BY <1>5, DataControl DEF SendClose, Wiped, Normal
<1>6. CASE Reap
  BY ZenonT(30), <1>6, DataQuiet DEF Reap, Wiped
<1>. QED BY SMTT(30), <1>1, <1>2, <1>3, <1>4, <1>5, <1>6 DEF Client, Application

LEMMA DataThread ==
  ASSUME InputInv, OutputInv, DataInOrder, Thread
  PROVE  DataInOrder'
<1>. USE DEF outVars, appVars, Goto, Return0
<1>1. ASSUME UNCHANGED <<st, outVars, queued>> PROVE DataInOrder'
  BY <1>1, DataQuiet
<1>2. CASE Event \/ WriteFails
  BY <1>1, <1>2 DEF Event, WriteFails
<1>3. CASE Close
  BY <1>3, DataQuiet DEF Close, Wiped
<1>4. CASE OnWritable
  <2>1. /\ st' = st /\ queued' = queued /\ Written(out)
        /\ out' = SubSeq(out, Fits(out) + 1, Len(out))
    BY <1>4 DEF OnWritable
  <2>2. out \in Seq(Unit)
    BY DEF OutputInv, IsData
  <2>3. st' = "open" => Cardinality(DataAt) + Len(out) = 2 * queued'
    BY ZenonT(30), <2>1 DEF DataInOrder
  <2>. QED BY Zenon, <2>1, <2>2, <2>3, DataSent DEF DataInOrder
<1>5. CASE Receive
  BY ZenonT(30), <1>1, <1>5 DEF Receive, GrowBuffer, ReadSome, ReadNothing, ParseStops
<1>6. CASE Process
  <2>. USE DEF Ok, Error, Silent
  <2>1. PICK f \in Frames :
          \/ Malformed(f) \/ Ping(f) \/ Pong(f) \/ CloseFrame(f)
          \/ OutOfPlace(f) \/ FirstFragment(f) \/ WholeMessage(f)
          \/ ContinuationTooBig(f) \/ ContinuationRefused(f)
          \/ MoreFragments(f) \/ LastFragment(f)
    BY <1>6 DEF Process
  <2>2. queued' = queued
    BY Zenon, <2>1
    DEF Parsed, Malformed, Ping, Pong, CloseFrame, OutOfPlace, FirstFragment, WholeMessage,
        Continued, ContinuationTooBig, ContinuationRefused, MoreFragments, LastFragment
  <2>3. ASSUME NEW code \in Nat, FailConnection(code) PROVE DataInOrder'
    BY ZenonT(30), <2>2, <2>3, DataControl DEF FailConnection, SendControl
  <2>4. ProtocolError \in Nat /\ InvalidUtf8 \in Nat /\ MessageTooBig \in Nat
    BY DEF ProtocolError, InvalidUtf8, MessageTooBig
  <2>5. CASE Malformed(f)
    BY ZenonT(30), <1>1, <2>2, <2>3, <2>4, <2>5 DEF Malformed
  <2>6. CASE Ping(f)
    BY ZenonT(30), <2>2, <2>6, DataControl DEF Ping, SendControl
  <2>7. CASE CloseFrame(f)
    BY <2>3, <2>7, CloseReplyFacts DEF CloseFrame
  <2>8. CASE Pong(f) \/ OutOfPlace(f) \/ FirstFragment(f) \/ MoreFragments(f)
             \/ ContinuationRefused(f)
    BY ZenonT(30), <1>1, <2>2, <2>8
    DEF Pong, OutOfPlace, FirstFragment, MoreFragments, ContinuationRefused
  <2>9. CASE WholeMessage(f)
    BY ZenonT(30), <1>1, <2>2, <2>3, <2>4, <2>9 DEF WholeMessage
  <2>10. CASE ContinuationTooBig(f)
    BY SMTT(30), <2>3, <2>4, <2>10 DEF ContinuationTooBig
  <2>11. CASE LastFragment(f)
    BY ZenonT(30), <1>1, <2>2, <2>3, <2>4, <2>11 DEF LastFragment
  <2>. QED BY SMTT(30), <2>1, <2>5, <2>6, <2>7, <2>8, <2>9, <2>10, <2>11
<1>. QED BY <1>2, <1>3, <1>4, <1>5, <1>6 DEF Thread

(* Whatever the traffic, the socket and the cap of the backlog, the data   *)
(* frames of the application reach the wire whole, in order and without a  *)
(* gap, and until the consumer is given up none is missing.                *)
THEOREM DataKeepsItsOrder == Spec => []DataInOrder
<1>1. OutputInv /\ DataInOrder /\ UNCHANGED vars => DataInOrder'
  BY DataQuiet DEF vars, outVars, appVars
<1>2. InputInv /\ OutputInv /\ DataInOrder /\ [Next]_vars => DataInOrder'
  BY <1>1, DataOthers, DataThread DEF Next
<1>. QED BY <1>2, DataInit, InputInvariance, OutputInvariance, PTL DEF Spec
=============================================================================
