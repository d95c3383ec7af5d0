-------------------------- MODULE MpscQueueProofs --------------------------
(***************************************************************************)
(* Proofs about MpscQueue, for any number of nodes, producers and          *)
(* messages and any batch sizes.                                           *)
(***************************************************************************)
EXTENDS MpscQueue, FiniteSetTheorems, TLAPS

Front == {"next", "tail", "spin", "advance", "clear"}
Cleared == {"cas", "republish"}

(* Where node and chead must be nodes, beyond the types of TypeOK.         *)
Typed ==
  /\ TypeOK
  /\ \A p \in Producers : pc[p] \in {"have", "link"} => node[p] \in Nodes
  /\ cpc \in Front \union Cleared \union {"got"} => chead \in Nodes

(* No node has two owners, and none is lost.                               *)
Owned ==
  /\ \A i, j \in 1..Len(order) : order[i] = order[j] => i = j
  /\ \A i \in 1..Len(order) :
       /\ order[i] \notin free
       /\ \A p \in Producers : pc[p] = "have" => node[p] # order[i]
       /\ cpc = "got" => chead # order[i]
  /\ \A p \in Producers : pc[p] = "have" =>
       /\ node[p] \notin free
       /\ cpc = "got" => chead # node[p]
       /\ \A q \in Producers \ {p} : pc[q] = "have" => node[q] # node[p]
  /\ cpc = "got" => chead \notin free
  /\ \A n \in Nodes :
       \/ n \in free
       \/ Queued(n)
       \/ Handled(n)
       \/ \E p \in Producers : Holds(p, n)

(* Every missing link is still owed by exactly one producer.               *)
TailLast ==
  /\ order = <<>> => tail = NULL
  /\ order # <<>> => tail = order[Len(order)] /\ next[order[Len(order)]] = NULL

LinkedOrOwed ==
  \A i \in 1..Len(order) - 1 :
    \/ next[order[i]] = order[i + 1]
    \/ /\ next[order[i]] = NULL
       /\ \E p \in Producers : Linking(p, order[i + 1]) /\ prev[p] = order[i]

LinkerPlaced ==
  \A p \in Producers : pc[p] = "link" =>
    \E i \in 1..Len(order) :
      /\ node[p] = order[i]
      /\ i = 1 => prev[p] = NULL
      /\ i > 1 => prev[p] = order[i - 1] /\ next[order[i - 1]] = NULL

OneLinker ==
  \A p, q \in Producers :
    pc[p] = "link" /\ pc[q] = "link" /\ node[p] = node[q] => p = q

Linked == TailLast /\ LinkedOrOwed /\ LinkerPlaced /\ OneLinker

(* What the consumer knows of the front of the queue at each point.        *)
FrontLinked == \A p \in Producers : ~ Linking(p, order[1])

AtFront ==
  /\ order = <<>> => head = NULL
  /\ cpc \notin Front \union Cleared /\ order # <<>> =>
       \/ head = order[1] /\ FrontLinked
       \/ head = NULL /\ \E p \in Producers : Linking(p, order[1])
  /\ cpc \in Front \union Cleared =>
       /\ order # <<>>
       /\ chead = order[1]
       /\ FrontLinked
       /\ head = IF cpc \in Cleared THEN NULL ELSE order[1]
  /\ cpc \in {"spin", "advance", "republish"} => Len(order) > 1
  /\ cpc = "advance" => cnext = order[2] /\ next[order[1]] = order[2]

(* Outside the wakeup branch a queued message has a wakeup coming.         *)
Woken ==
  /\ cpc = "drain" => branch = "wakeup"
  /\ (cpc = "wait" \/ branch = "timeout") /\ order # <<>> =>
       \/ edge /\ eventfd = 1
       \/ \E p \in Producers : pc[p] \in {"link", "wake"}

IndInv == Typed /\ Owned /\ Linked /\ AtFront /\ Woken

-----------------------------------------------------------------------------
(* Appending to a sequence without repetitions: what exchanging tail does  *)
(* to order.                                                               *)
LEMMA AppendFacts ==
  ASSUME NEW S, NEW s \in Seq(S), NEW e \in S
  PROVE  /\ Append(s, e) \in Seq(S)
         /\ Append(s, e) # <<>>
         /\ Len(Append(s, e)) = Len(s) + 1
         /\ \A i \in 1..Len(s) : Append(s, e)[i] = s[i]
         /\ Append(s, e)[Len(s) + 1] = e
  OBVIOUS

(* Dropping the head of a sequence without repetitions: what a dequeue does*)
(* to order.                                                               *)
LEMMA TailFacts ==
  ASSUME NEW S, NEW s \in Seq(S), s # <<>>
  PROVE  /\ Tail(s) \in Seq(S)
         /\ Len(s) \in Nat
         /\ Len(s) >= 1
         /\ Len(Tail(s)) = Len(s) - 1
         /\ \A i \in 1..Len(s) - 1 : Tail(s)[i] = s[i + 1]
         /\ Tail(s) = <<>> <=> Len(s) = 1
<1>1. Len(s) \in Nat /\ Len(s) >= 1
  OBVIOUS
<1>2. Tail(s) \in Seq(S) /\ Len(Tail(s)) = Len(s) - 1
  BY <1>1
<1>3. \A t \in Seq(S) : t = <<>> <=> Len(t) = 0
  OBVIOUS
<1>4. \A i \in 1..Len(s) - 1 : Tail(s)[i] = s[i + 1]
  BY <1>1
<1>. QED BY <1>1, <1>2, <1>3, <1>4

(* Sequences with the same elements are equal.                             *)
LEMMA SeqEqual ==
  ASSUME NEW S, NEW s \in Seq(S), NEW t \in Seq(S), Len(s) = Len(t),
         \A i \in 1..Len(s) : s[i] = t[i]
  PROVE  s = t
  OBVIOUS

(* The queue that ws_mpsc_queue_create returns satisfies the invariant.    *)
LEMMA InitInd == Init => IndInv
<1> SUFFICES ASSUME Init PROVE IndInv
  OBVIOUS
<1>1. order = <<>> /\ Len(order) = 0 /\ order \in Seq(Nodes)
  BY DEF Init
<1>2. Typed
  <2>1. processed \in Nat /\ processed < BatchMax /\ eventfd \in 0..1
    BY MpscAssumption DEF Init
  <2>. QED BY <1>1, <2>1, Zenon DEF Init, Typed, TypeOK, ProducerPc, ConsumerPc, Front,
              Cleared
<1>3. Owned
  BY <1>1 DEF Init, Owned
<1>4. Linked
  BY <1>1 DEF Init, Linked, TailLast, LinkedOrOwed, LinkerPlaced, OneLinker
<1>5. AtFront
  BY <1>1 DEF Init, AtFront, Front, Cleared
<1>6. Woken
  BY <1>1 DEF Init, Woken
<1>. QED BY <1>2, <1>3, <1>4, <1>5, <1>6 DEF IndInv

(* ws_mpsc_queue_get_node preserves the invariant: the node it pops is in  *)
(* nobody else's hands, so initialising it cuts no link.                   *)
LEMMA GetNodeInd ==
  ASSUME IndInv, NEW p \in Producers, GetNode(p)
  PROVE  IndInv'
<1>1. Typed'
  BY MpscAssumption DEF IndInv, Typed, TypeOK, ProducerPc, ConsumerPc, Front, Cleared,
     AtFront, GetNode, consVars, wakeVars
<1>2. Owned'
  BY MpscAssumption DEF IndInv, Typed, TypeOK, Owned, Queued, Handled, Holds, Front,
     Cleared, AtFront, GetNode, consVars, wakeVars
<1>3. Linked'
  <2>1. TailLast'
    BY MpscAssumption DEF IndInv, Typed, TypeOK, Owned, Linked, TailLast, AtFront,
       GetNode, consVars, wakeVars
  <2>2. LinkedOrOwed'
    <3>1. PICK n \in free : next' = [next EXCEPT ![n] = NULL]
      BY Zenon DEF GetNode
    <3>2. order' = order /\ \A i \in 1..Len(order) : next'[order[i]] = next[order[i]]
      BY <3>1 DEF GetNode, IndInv, Typed, TypeOK, Owned
    <3>3. \A q \in Producers, m \in Nodes :
            Linking(q, m) => Linking(q, m)' /\ prev'[q] = prev[q]
      BY DEF GetNode, Linking, IndInv, Typed, TypeOK
    <3>4. \A i \in 1..Len(order) : order[i] \in Nodes
      BY DEF IndInv, Typed, TypeOK
    <3>5. ASSUME NEW i \in 1..Len(order) - 1
          PROVE  \/ next'[order[i]] = order[i + 1]
                 \/ /\ next'[order[i]] = NULL
                    /\ \E q \in Producers : Linking(q, order[i + 1])' /\ prev'[q] = order[i]
      <4>1. i \in 1..Len(order) /\ i + 1 \in 1..Len(order)
        BY DEF IndInv, Typed, TypeOK
      <4>2. CASE next[order[i]] = order[i + 1]
        BY <4>1, <4>2, <3>2
      <4>3. CASE next[order[i]] # order[i + 1]
        <5>1. PICK q \in Producers : Linking(q, order[i + 1]) /\ prev[q] = order[i]
          BY <4>3 DEF IndInv, Linked, LinkedOrOwed
        <5>2. next[order[i]] = NULL
          BY <4>3 DEF IndInv, Linked, LinkedOrOwed
        <5>3. Linking(q, order[i + 1])' /\ prev'[q] = order[i]
          BY <5>1, <4>1, <3>2, <3>3, <3>4 DEF Linking
        <5>. QED BY <5>2, <5>3, <4>1, <3>2
      <4>. QED BY <4>2, <4>3
    <3>. QED BY <3>2, <3>5 DEF LinkedOrOwed, Linking
  <2>3. LinkerPlaced'
    BY MpscAssumption DEF IndInv, Typed, TypeOK, Owned, Linked, LinkerPlaced, OneLinker,
       GetNode, consVars, wakeVars
  <2>4. OneLinker'
    BY MpscAssumption DEF IndInv, Typed, TypeOK, Linked, OneLinker, GetNode, consVars,
       wakeVars
  <2>. QED BY <2>1, <2>2, <2>3, <2>4 DEF Linked
<1>4. AtFront'
  BY MpscAssumption DEF IndInv, Typed, TypeOK, Owned, Linked, TailLast, LinkedOrOwed,
     LinkerPlaced, OneLinker, Linking, AtFront, FrontLinked, Front, Cleared, ConsumerPc,
     GetNode, consVars, wakeVars
<1>5. Woken'
  BY MpscAssumption DEF IndInv, Typed, TypeOK, Woken, Linking, AtFront, Front, Cleared,
     GetNode, consVars, wakeVars
<1>. QED BY <1>1, <1>2, <1>3, <1>4, <1>5 DEF IndInv

(* The error path of a sender preserves the invariant.                     *)
LEMMA MallocFailsInd ==
  ASSUME IndInv, NEW p \in Producers, MallocFails(p)
  PROVE  IndInv'
<1>1. Typed'
  BY MpscAssumption DEF IndInv, Typed, TypeOK, ProducerPc, ConsumerPc, Front, Cleared,
     AtFront, MallocFails, ReturnNode, consVars, wakeVars
<1>2. Owned'
  BY SMTT(30), MpscAssumption DEF IndInv, Typed, TypeOK, Owned, Queued, Handled, Holds, Front,
     Cleared, AtFront, MallocFails, ReturnNode, consVars, wakeVars
<1>3. Linked'
  <2>1. TailLast'
    BY MpscAssumption DEF IndInv, Typed, TypeOK, Owned, Linked, TailLast, AtFront,
       MallocFails, consVars, wakeVars
  <2>2. LinkedOrOwed'
    BY MpscAssumption DEF IndInv, Typed, TypeOK, Owned, Linked, LinkedOrOwed,
       LinkerPlaced, Linking, MallocFails, consVars, wakeVars
  <2>3. LinkerPlaced'
    BY MpscAssumption DEF IndInv, Typed, TypeOK, Owned, Linked, LinkerPlaced, OneLinker,
       MallocFails, consVars, wakeVars
  <2>4. OneLinker'
    BY MpscAssumption DEF IndInv, Typed, TypeOK, Linked, OneLinker, MallocFails,
       consVars, wakeVars
  <2>. QED BY <2>1, <2>2, <2>3, <2>4 DEF Linked
<1>4. AtFront'
  BY MpscAssumption DEF IndInv, Typed, TypeOK, Owned, Linked, TailLast, LinkedOrOwed,
     LinkerPlaced, OneLinker, Linking, AtFront, FrontLinked, Front, Cleared, ConsumerPc,
     MallocFails, consVars, wakeVars
<1>5. Woken'
  BY MpscAssumption DEF IndInv, Typed, TypeOK, Woken, Linking, AtFront, Front, Cleared,
     MallocFails, consVars, wakeVars
<1>. QED BY <1>1, <1>2, <1>3, <1>4, <1>5 DEF IndInv

(* The second half of ws_mpsc_queue_enqueue preserves the invariant: the   *)
(* link it stores is the one that was owed, and no other producer owes the *)
(* same one.                                                               *)
LEMMA LinkInd ==
  ASSUME IndInv, NEW p \in Producers, Link(p)
  PROVE  IndInv'
<1>2. Owned'
  <2>1. \A q \in Producers :
          /\ pc'[q] = "have" <=> pc[q] = "have"
          /\ pc[q] = "have" => node'[q] = node[q]
    BY DEF Link, IndInv, Typed, TypeOK
  <2>2. \A n \in Nodes, q \in Producers : Holds(q, n)' <=> Holds(q, n)
    BY <2>1 DEF Holds
  <2>3. UNCHANGED <<free, order, cpc, chead>>
    BY DEF Link, consVars
  <2>. QED BY SMTT(30), <2>1, <2>2, <2>3 DEF IndInv, Owned, Queued, Handled
<1>a. PICK k \in 1..Len(order) :
        /\ node[p] = order[k]
        /\ k = 1 => prev[p] = NULL
        /\ k > 1 => prev[p] = order[k - 1] /\ next[order[k - 1]] = NULL
  BY ZenonT(30) DEF Link, IndInv, Linked, LinkerPlaced
<1>b. /\ Len(order) \in Nat
      /\ \A i \in 1..Len(order) : order[i] \in Nodes
      /\ \A i, j \in 1..Len(order) : order[i] = order[j] => i = j
  BY DEF IndInv, Typed, TypeOK, Owned
<1>c. /\ order' = order
      /\ k = 1 => next' = next
      /\ k > 1 => next' = [next EXCEPT ![order[k - 1]] = order[k]]
  BY <1>a, <1>b, MpscAssumption DEF Link
<1>d. next \in [Nodes -> Nodes \union {NULL}]
  BY DEF IndInv, Typed, TypeOK
<1>1. Typed'
  BY ZenonT(30), MpscAssumption DEF IndInv, Typed, TypeOK, ProducerPc, ConsumerPc, Front, Cleared,
     AtFront, Link, consVars, wakeVars
<1>3. Linked'
  <2>1. TailLast'
    <3>1. order # <<>> => next'[order[Len(order)]] = next[order[Len(order)]]
      BY <1>a, <1>b, <1>c, <1>d
    <3>. QED BY <3>1, <1>c DEF Link, IndInv, Linked, TailLast
  <2>2. LinkedOrOwed'
    <3>1. ASSUME NEW i \in 1..Len(order) - 1
          PROVE  \/ next'[order[i]] = order[i + 1]
                 \/ /\ next'[order[i]] = NULL
                    /\ \E q \in Producers : Linking(q, order[i + 1])' /\ prev'[q] = order[i]
      <4>1. i \in 1..Len(order) /\ i + 1 \in 1..Len(order)
        BY <1>b
      <4>2. CASE i + 1 = k
        BY <4>1, <4>2, <1>a, <1>b, <1>c, <1>d
      <4>3. CASE i + 1 # k
        <5>1. next'[order[i]] = next[order[i]]
          BY <4>1, <4>3, <1>a, <1>b, <1>c, <1>d
        <5>2. CASE next[order[i]] = order[i + 1]
          BY <5>1, <5>2
        <5>3. CASE next[order[i]] # order[i + 1]
          <6>1. PICK q \in Producers : Linking(q, order[i + 1]) /\ prev[q] = order[i]
            BY <5>3 DEF IndInv, Linked, LinkedOrOwed
          <6>2. next[order[i]] = NULL
            BY <5>3 DEF IndInv, Linked, LinkedOrOwed
          <6>3. q # p
            BY <6>1, <4>1, <4>3, <1>a, <1>b DEF Linking
          <6>4. Linking(q, order[i + 1])' /\ prev'[q] = order[i]
            BY ZenonT(30), <6>1, <6>3, <1>c DEF Linking, Link, IndInv, Typed, TypeOK
          <6>. QED BY <6>2, <6>4, <5>1
        <5>. QED BY <5>2, <5>3
      <4>. QED BY <4>2, <4>3
    <3>. QED BY <3>1, <1>c DEF LinkedOrOwed, Linking
  <2>3. LinkerPlaced'
    BY SMTT(30), MpscAssumption DEF IndInv, Typed, TypeOK, Owned, Linked, LinkerPlaced, OneLinker,
       Link, wakeVars
  <2>4. OneLinker'
    BY MpscAssumption DEF IndInv, Typed, TypeOK, Linked, OneLinker, Link, consVars,
       wakeVars
  <2>. QED BY <2>1, <2>2, <2>3, <2>4 DEF Linked
<1>4. AtFront'
  <2>1. UNCHANGED <<order, cpc, chead, cnext>>
    BY DEF Link, consVars
  <2>2. \A q \in Producers : Linking(q, order[1])' <=> Linking(q, order[1]) /\ q # p
    BY SMTT(30), <1>c DEF Link, Linking, IndInv, Typed, TypeOK
  <2>3. CASE k = 1
    <3>1. Linking(p, order[1])
      BY ZenonT(30), <2>3, <1>a DEF Link, Linking
    <3>2. cpc \notin Front \union Cleared
      BY <3>1 DEF IndInv, AtFront, FrontLinked
    <3>3. FrontLinked'
      BY <2>1, <2>2, <3>1 DEF FrontLinked, Linking, IndInv, Linked, OneLinker
    <3>4. head' = order[1]
      BY ZenonT(30), <2>3, <1>a DEF Link
    <3>. QED BY ONLY SMTT(30), <2>1, <3>2, <3>3, <3>4 DEF AtFront, Front, Cleared
  <2>4. CASE k # 1
    <3>1. head' = head
      BY <2>4, <1>a, <1>b, MpscAssumption DEF Link
    <3>2. ~ Linking(p, order[1])
      BY <2>4, <1>a, <1>b DEF Linking
    <3>3. \A q \in Producers : Linking(q, order[1])' <=> Linking(q, order[1])
      BY <2>2, <3>2
    <3>4. FrontLinked' <=> FrontLinked
      BY ZenonT(30), <2>1, <3>3 DEF FrontLinked, Linking
    <3>5. cpc = "advance" => next'[order[1]] = order[2]
      <4>1. ASSUME cpc = "advance" PROVE k # 2
        BY <4>1, <1>a, <1>b, MpscAssumption DEF IndInv, AtFront
      <4>2. cpc = "advance" => next'[order[1]] = next[order[1]]
        BY <4>1, <2>4, <1>a, <1>b, <1>c, <1>d
      <4>. QED BY <4>2 DEF IndInv, AtFront
    <3>6. (\E q \in Producers : Linking(q, order[1]))' <=> \E q \in Producers : Linking(q, order[1])
      BY <2>1, <3>3 DEF Linking
    <3>. QED BY <2>1, <3>1, <3>4, <3>5, <3>6 DEF IndInv, AtFront
  <2>. QED BY <2>3, <2>4
<1>5. Woken'
  BY MpscAssumption DEF IndInv, Typed, TypeOK, Woken, Linking, AtFront, Front, Cleared,
     Link, consVars, wakeVars
<1>. QED BY SMTT(30), <1>1, <1>2, <1>3, <1>4, <1>5 DEF IndInv

(* Writing the eventfd preserves the invariant: the producer is excused    *)
(* only once the wakeup is pending.                                        *)
LEMMA WakeThreadInd ==
  ASSUME IndInv, NEW p \in Producers, WakeThread(p)
  PROVE  IndInv'
<1>1. Typed'
  BY MpscAssumption DEF IndInv, Typed, TypeOK, ProducerPc, ConsumerPc, Front, Cleared,
     AtFront, WakeThread, poolVars, consVars
<1>2. Owned'
  <2>1. UNCHANGED <<free, order, cpc, chead, node>>
    BY ZenonT(30) DEF WakeThread, poolVars, consVars
  <2>2. \A q \in Producers : pc'[q] = "have" <=> pc[q] = "have"
    BY SMTT(30) DEF WakeThread, IndInv, Typed, TypeOK
  <2>. QED BY ZenonT(30), <2>1, <2>2 DEF IndInv, Owned, Queued, Handled, Holds
<1>3. Linked'
  <2>1. TailLast'
    BY ZenonT(30), MpscAssumption DEF IndInv, Typed, TypeOK, Owned, Linked, TailLast, AtFront,
       WakeThread, poolVars, consVars
  <2>2. LinkedOrOwed'
    BY SMTT(30) DEF IndInv, Linked, LinkedOrOwed, Linking, WakeThread, poolVars
  <2>3. LinkerPlaced'
    BY SMTT(30) DEF IndInv, Linked, LinkerPlaced, WakeThread, poolVars
  <2>4. OneLinker'
    BY MpscAssumption DEF IndInv, Typed, TypeOK, Linked, OneLinker, WakeThread,
       poolVars, consVars
  <2>. QED BY <2>1, <2>2, <2>3, <2>4 DEF Linked
<1>4. AtFront'
  BY SMTT(30) DEF IndInv, Linking, AtFront, FrontLinked, WakeThread, poolVars, consVars
<1>5. Woken'
  BY ZenonT(30), MpscAssumption DEF IndInv, Typed, TypeOK, Woken, Linking, AtFront, Front, Cleared,
     WakeThread, poolVars, consVars
<1>. QED BY <1>1, <1>2, <1>3, <1>4, <1>5 DEF IndInv

(* Being woken preserves the invariant: the consumer is no longer asleep.  *)
LEMMA EpollWakeupInd ==
  ASSUME IndInv, EpollWakeup
  PROVE  IndInv'
<1>1. Typed'
  BY ZenonT(30), MpscAssumption DEF IndInv, Typed, TypeOK, ProducerPc, ConsumerPc, Front, Cleared,
     AtFront, EpollWakeup, poolVars, prodVars
<1>2. Owned'
  BY SMTT(30), MpscAssumption DEF IndInv, Typed, TypeOK, Owned, Queued, Handled, Holds, Front,
     Cleared, AtFront, EpollWakeup, poolVars, prodVars
<1>3. Linked'
  BY ZenonT(30) DEF IndInv, Linked, TailLast, LinkedOrOwed, LinkerPlaced, OneLinker, Linking,
     EpollWakeup, poolVars, prodVars
<1>4. AtFront'
  BY ZenonT(30), MpscAssumption DEF IndInv, Typed, TypeOK, Owned, Linked, TailLast, LinkedOrOwed,
     LinkerPlaced, OneLinker, Linking, AtFront, FrontLinked, Front, Cleared, ConsumerPc,
     EpollWakeup, poolVars, prodVars
<1>5. Woken'
  BY SMTT(30), MpscAssumption DEF IndInv, Typed, TypeOK, Woken, Linking, AtFront, Front, Cleared,
     EpollWakeup, poolVars, prodVars
<1>. QED BY <1>1, <1>2, <1>3, <1>4, <1>5 DEF IndInv

(* Draining the eventfd preserves the invariant.                           *)
LEMMA DrainEventfdInd ==
  ASSUME IndInv, DrainEventfd
  PROVE  IndInv'
<1>1. Typed'
  BY SMTT(30), MpscAssumption DEF IndInv, Typed, TypeOK, ProducerPc, ConsumerPc, Front, Cleared,
     AtFront, DrainEventfd, poolVars, prodVars
<1>2. Owned'
  BY SMTT(30), MpscAssumption DEF IndInv, Typed, TypeOK, Owned, Queued, Handled, Holds, Front,
     Cleared, AtFront, DrainEventfd, poolVars, prodVars
<1>3. Linked'
  BY ZenonT(30) DEF IndInv, Linked, TailLast, LinkedOrOwed, LinkerPlaced, OneLinker, Linking,
     DrainEventfd, poolVars, prodVars
<1>4. AtFront'
  BY ZenonT(30), MpscAssumption DEF IndInv, Typed, TypeOK, Owned, Linked, TailLast, LinkedOrOwed,
     LinkerPlaced, OneLinker, Linking, AtFront, FrontLinked, Front, Cleared, ConsumerPc,
     DrainEventfd, poolVars, prodVars
<1>5. Woken'
  BY MpscAssumption DEF IndInv, Typed, TypeOK, Woken, Linking, AtFront, Front, Cleared,
     DrainEventfd, poolVars, prodVars
<1>. QED BY <1>1, <1>2, <1>3, <1>4, <1>5 DEF IndInv

(* The call on an epoll timeout preserves the invariant.                   *)
LEMMA EpollTimeoutInd ==
  ASSUME IndInv, EpollTimeout
  PROVE  IndInv'
<1>1. Typed'
  BY MpscAssumption DEF IndInv, Typed, TypeOK, ProducerPc, ConsumerPc, Front, Cleared,
     AtFront, EpollTimeout, poolVars, prodVars, wakeVars
<1>2. Owned'
  BY MpscAssumption DEF IndInv, Typed, TypeOK, Owned, Queued, Handled, Holds, Front,
     Cleared, AtFront, EpollTimeout, poolVars, prodVars, wakeVars
<1>3. Linked'
  BY ZenonT(30) DEF IndInv, Linked, TailLast, LinkedOrOwed, LinkerPlaced, OneLinker, Linking,
     EpollTimeout, poolVars, prodVars
<1>4. AtFront'
  BY ZenonT(30), MpscAssumption DEF IndInv, Typed, TypeOK, Owned, Linked, TailLast, LinkedOrOwed,
     LinkerPlaced, OneLinker, Linking, AtFront, FrontLinked, Front, Cleared, ConsumerPc,
     EpollTimeout, poolVars, prodVars, wakeVars
<1>5. Woken'
  BY ZenonT(30), MpscAssumption DEF IndInv, Typed, TypeOK, Woken, Linking, AtFront, Front, Cleared,
     EpollTimeout, poolVars, prodVars, wakeVars
<1>. QED BY <1>1, <1>2, <1>3, <1>4, <1>5 DEF IndInv

(* Finding head NULL preserves the invariant: the consumer goes to sleep   *)
(* only when order is empty or its first node is still being linked.       *)
LEMMA DequeueEmptyInd ==
  ASSUME IndInv, DequeueEmpty
  PROVE  IndInv'
<1>1. Typed'
  BY MpscAssumption DEF IndInv, Typed, TypeOK, ProducerPc, ConsumerPc, Front, Cleared,
     AtFront, DequeueEmpty, poolVars, prodVars, wakeVars, ReturnFromProcess
<1>2. Owned'
  BY ZenonT(30), MpscAssumption DEF IndInv, Typed, TypeOK, Owned, Queued, Handled, Holds, Front,
     Cleared, AtFront, DequeueEmpty, poolVars, prodVars, wakeVars, ReturnFromProcess
<1>3. Linked'
  BY ZenonT(30) DEF IndInv, Linked, TailLast, LinkedOrOwed, LinkerPlaced, OneLinker, Linking,
     DequeueEmpty, poolVars, prodVars
<1>4. AtFront'
  BY ZenonT(30), MpscAssumption DEF IndInv, Typed, TypeOK, Owned, Linked, TailLast, LinkedOrOwed,
     LinkerPlaced, OneLinker, Linking, AtFront, FrontLinked, Front, Cleared, ConsumerPc,
     DequeueEmpty, poolVars, prodVars, wakeVars, ReturnFromProcess
<1>5. Woken'
  BY SMTT(30), MpscAssumption DEF IndInv, Typed, TypeOK, Woken, Linking, AtFront, Front, Cleared,
     DequeueEmpty, poolVars, prodVars, wakeVars, ReturnFromProcess
<1>. QED BY <1>1, <1>2, <1>3, <1>4, <1>5 DEF IndInv

(* Loading head preserves the invariant.                                   *)
LEMMA LoadHeadInd ==
  ASSUME IndInv, LoadHead
  PROVE  IndInv'
<1>1. Typed'
  BY ZenonT(30), MpscAssumption DEF IndInv, Typed, TypeOK, ProducerPc, ConsumerPc, Front, Cleared,
     AtFront, LoadHead, poolVars, prodVars, wakeVars
<1>2. Owned'
  BY SMTT(30), MpscAssumption DEF IndInv, Typed, TypeOK, Owned, Queued, Handled, Holds, Front,
     Cleared, AtFront, LoadHead, poolVars, prodVars, wakeVars
<1>3. Linked'
  BY ZenonT(30) DEF IndInv, Linked, TailLast, LinkedOrOwed, LinkerPlaced, OneLinker, Linking,
     LoadHead, poolVars, prodVars
<1>4. AtFront'
  BY ZenonT(30), MpscAssumption DEF IndInv, Typed, TypeOK, Owned, Linked, TailLast, LinkedOrOwed,
     LinkerPlaced, OneLinker, Linking, AtFront, FrontLinked, Front, Cleared, ConsumerPc,
     LoadHead, poolVars, prodVars, wakeVars
<1>5. Woken'
  BY ZenonT(30), MpscAssumption DEF IndInv, Typed, TypeOK, Woken, Linking, AtFront, Front, Cleared,
     LoadHead, poolVars, prodVars, wakeVars
<1>. QED BY <1>1, <1>2, <1>3, <1>4, <1>5 DEF IndInv

(* Loading head->next preserves the invariant.                             *)
LEMMA LoadNextInd ==
  ASSUME IndInv, LoadNext
  PROVE  IndInv'
<1>1. Typed'
  BY ZenonT(30), MpscAssumption DEF IndInv, Typed, TypeOK, ProducerPc, ConsumerPc, Front, Cleared,
     AtFront, LoadNext, poolVars, prodVars, wakeVars
<1>2. Owned'
  BY ZenonT(30) DEF IndInv, Owned, Queued, Handled, Holds, LoadNext, poolVars, prodVars
<1>3. Linked'
  BY ZenonT(30) DEF IndInv, Linked, TailLast, LinkedOrOwed, LinkerPlaced, OneLinker, Linking,
     LoadNext, poolVars, prodVars
<1>4. AtFront'
  BY SMTT(30) DEF IndInv, Linked, TailLast, LinkedOrOwed, Linking, AtFront, FrontLinked, Front,
     Cleared, LoadNext, poolVars, prodVars
<1>5. Woken'
  BY ZenonT(30), MpscAssumption DEF IndInv, Typed, TypeOK, Woken, Linking, AtFront, Front, Cleared,
     LoadNext, poolVars, prodVars, wakeVars
<1>. QED BY <1>1, <1>2, <1>3, <1>4, <1>5 DEF IndInv

(* Loading tail preserves the invariant.                                   *)
LEMMA LoadTailInd ==
  ASSUME IndInv, LoadTail
  PROVE  IndInv'
<1>1. Typed'
  BY ZenonT(30), MpscAssumption DEF IndInv, Typed, TypeOK, ProducerPc, ConsumerPc, Front, Cleared,
     AtFront, LoadTail, poolVars, prodVars, wakeVars
<1>2. Owned'
  BY ZenonT(30) DEF IndInv, Owned, Queued, Handled, Holds, LoadTail, poolVars, prodVars
<1>3. Linked'
  BY ZenonT(30) DEF IndInv, Linked, TailLast, LinkedOrOwed, LinkerPlaced, OneLinker, Linking,
     LoadTail, poolVars, prodVars
<1>4. AtFront'
  BY SMTT(30) DEF IndInv, Linked, TailLast, Linking, AtFront, FrontLinked, Front, Cleared,
     LoadTail, prodVars
<1>5. Woken'
  BY ZenonT(30), MpscAssumption DEF IndInv, Typed, TypeOK, Woken, Linking, AtFront, Front, Cleared,
     LoadTail, poolVars, prodVars, wakeVars
<1>. QED BY <1>1, <1>2, <1>3, <1>4, <1>5 DEF IndInv

(* The link the consumer waited for is the one that belongs behind head.   *)
LEMMA SpinForLinkInd ==
  ASSUME IndInv, SpinForLink
  PROVE  IndInv'
<1>1. Typed'
  BY ZenonT(30), MpscAssumption DEF IndInv, Typed, TypeOK, ProducerPc, ConsumerPc, Front, Cleared,
     AtFront, SpinForLink, poolVars, prodVars, wakeVars
<1>2. Owned'
  BY ZenonT(30) DEF IndInv, Owned, Queued, Handled, Holds, SpinForLink, poolVars, prodVars
<1>3. Linked'
  BY ZenonT(30) DEF IndInv, Linked, TailLast, LinkedOrOwed, LinkerPlaced, OneLinker, Linking,
     SpinForLink, poolVars, prodVars
<1>4. AtFront'
  BY SMTT(30) DEF IndInv, Linked, LinkedOrOwed, Linking, AtFront, FrontLinked, Front, Cleared,
     SpinForLink, poolVars, prodVars
<1>5. Woken'
  BY ZenonT(30), MpscAssumption DEF IndInv, Typed, TypeOK, Woken, Linking, AtFront, Front, Cleared,
     SpinForLink, poolVars, prodVars, wakeVars
<1>. QED BY <1>1, <1>2, <1>3, <1>4, <1>5 DEF IndInv

(* Clearing head preserves the invariant: the consumer keeps the only      *)
(* reference to the first node.                                            *)
LEMMA ClearHeadInd ==
  ASSUME IndInv, ClearHead
  PROVE  IndInv'
<1>1. Typed'
  BY ZenonT(30), MpscAssumption DEF IndInv, Typed, TypeOK, ProducerPc, ConsumerPc, Front, Cleared,
     AtFront, ClearHead, poolVars, prodVars, wakeVars
<1>2. Owned'
  BY ZenonT(30) DEF IndInv, Owned, Queued, Handled, Holds, ClearHead, poolVars, prodVars
<1>3. Linked'
  BY ZenonT(30) DEF IndInv, Linked, TailLast, LinkedOrOwed, LinkerPlaced, OneLinker, Linking,
     ClearHead, poolVars, prodVars
<1>4. AtFront'
  BY ZenonT(30), MpscAssumption DEF IndInv, Typed, TypeOK, Owned, Linked, TailLast, LinkedOrOwed,
     LinkerPlaced, OneLinker, Linking, AtFront, FrontLinked, Front, Cleared, ConsumerPc,
     ClearHead, poolVars, prodVars, wakeVars
<1>5. Woken'
  BY ZenonT(30), MpscAssumption DEF IndInv, Typed, TypeOK, Woken, Linking, AtFront, Front, Cleared,
     ClearHead, poolVars, prodVars, wakeVars
<1>. QED BY <1>1, <1>2, <1>3, <1>4, <1>5 DEF IndInv

(* Giving the node back to the free list preserves the invariant: no queued*)
(* node points at it and no producer holds it.                             *)
LEMMA HandleMessageInd ==
  ASSUME IndInv, HandleMessage
  PROVE  IndInv'
<1>1. Typed'
  BY MpscAssumption DEF IndInv, Typed, TypeOK, ProducerPc, ConsumerPc, Front, Cleared,
     AtFront, HandleMessage, prodVars, wakeVars, ReturnNode,
     ReturnFromProcess
<1>2. Owned'
  BY ZenonT(30) DEF IndInv, Owned, Queued, Handled, Holds, HandleMessage, prodVars, ReturnNode,
     ReturnFromProcess
<1>3. Linked'
  BY ZenonT(30) DEF IndInv, Linked, TailLast, LinkedOrOwed, LinkerPlaced, OneLinker, Linking,
     HandleMessage, prodVars
<1>4. AtFront'
  BY ZenonT(30), MpscAssumption DEF IndInv, Typed, TypeOK, Owned, Linked, TailLast, LinkedOrOwed,
     LinkerPlaced, OneLinker, Linking, AtFront, FrontLinked, Front, Cleared, ConsumerPc,
     HandleMessage, prodVars, wakeVars, ReturnFromProcess
<1>5. Woken'
  BY MpscAssumption DEF IndInv, Typed, TypeOK, Woken, Linking, AtFront, Front, Cleared,
     HandleMessage, prodVars, wakeVars, ReturnFromProcess
<1>. QED BY <1>1, <1>2, <1>3, <1>4, <1>5 DEF IndInv

(* Exchanging tail preserves the invariant: the new node is last, and its  *)
(* producer owes the link to it.                                           *)
LEMMA ExchangeTailInd ==
  ASSUME IndInv, NEW p \in Producers, NEW m \in Messages, ExchangeTail(p, m)
  PROVE  IndInv'
<1> DEFINE L == Len(order)
<1>a. /\ order \in Seq(Nodes)
      /\ L \in Nat
      /\ node[p] \in Nodes
      /\ pc[p] = "have"
      /\ next \in [Nodes -> Nodes \union {NULL}]
      /\ \A i \in 1..L : order[i] \in Nodes /\ order[i] # node[p]
  <2>1. pc[p] = "have"
    BY ZenonT(30) DEF ExchangeTail
  <2>2. /\ order \in Seq(Nodes) /\ node[p] \in Nodes
        /\ next \in [Nodes -> Nodes \union {NULL}]
    BY ZenonT(30), <2>1 DEF IndInv, Typed, TypeOK
  <2>3. L \in Nat /\ \A i \in 1..L : order[i] \in Nodes
    BY ONLY SMTT(30), <2>2
  <2>4. \A i \in 1..L : order[i] # node[p]
    BY ZenonT(30), <2>1 DEF IndInv, Owned
  <2>. QED BY ZenonT(30), <2>1, <2>2, <2>3, <2>4
<1>b. /\ order' \in Seq(Nodes)
      /\ order' # <<>>
      /\ Len(order') = L + 1
      /\ \A i \in 1..L : order'[i] = order[i]
      /\ order'[L + 1] = node[p]
  BY SMTT(30), <1>a DEF ExchangeTail
<1>c. order = <<>> <=> L = 0
  BY <1>a
<1> HIDE DEF L
<1>d. \A q \in Producers, n \in Nodes :
        q # p => (Linking(q, n)' <=> Linking(q, n)) /\ prev'[q] = prev[q]
  BY ZenonT(30) DEF ExchangeTail, Linking, IndInv, Typed, TypeOK
<1>e. /\ pc'[p] = "link"
      /\ node' = node
      /\ prev'[p] = tail
      /\ tail' = node[p]
      /\ next'[node[p]] = NULL
      /\ \A i \in 1..L : next'[order[i]] = next[order[i]]
  BY ZenonT(30), <1>a DEF ExchangeTail, IndInv, Typed, TypeOK
<1>1. Typed'
  BY ZenonT(30), <1>a, <1>b, MpscAssumption
     DEF ExchangeTail, IndInv, Typed, TypeOK, ProducerPc, consVars, wakeVars
<1>2. Owned'
  <2>1. \A q \in Producers : pc'[q] = "have" <=> pc[q] = "have" /\ q # p
    BY DEF ExchangeTail, IndInv, Typed, TypeOK
  <2>2. UNCHANGED <<free, cpc, chead, node>>
    BY SMTT(30) DEF ExchangeTail, consVars
  <2>a. \A i, j \in 1..L : order[i] = order[j] => i = j
    BY ZenonT(30), <1>a DEF IndInv, Owned, L
  <2>b. \A i \in 1..L :
          /\ order[i] \notin free
          /\ \A q \in Producers : pc[q] = "have" => node[q] # order[i]
          /\ cpc = "got" => chead # order[i]
    BY ZenonT(30), <1>a DEF IndInv, Owned, L
  <2>c. /\ node[p] \notin free /\ (cpc = "got" => chead # node[p])
        /\ \A q \in Producers \ {p} : pc[q] = "have" => node[q] # node[p]
    BY ZenonT(30), <1>a DEF IndInv, Owned, L
  <2>3. \A i, j \in 1..Len(order') : order'[i] = order'[j] => i = j
    BY ONLY SMTT(30), <1>a, <1>b, <2>a
  <2>4. \A i \in 1..Len(order') : i \in 1..L \/ i = L + 1
    BY ONLY SMTT(30), <1>a, <1>b
  <2>5. ASSUME NEW i \in 1..Len(order')
        PROVE  /\ order'[i] \notin free
               /\ \A q \in Producers \ {p} : pc[q] = "have" => node[q] # order'[i]
               /\ cpc = "got" => chead # order'[i]
    <3>1. CASE i \in 1..L
      <4>1. order'[i] = order[i]
        BY ZenonT(30), <1>b, <3>1
      <4>2. /\ order[i] \notin free /\ (cpc = "got" => chead # order[i])
            /\ \A q \in Producers : pc[q] = "have" => node[q] # order[i]
        BY ZenonT(30), <2>b, <3>1
      <4>. QED BY ZenonT(30), <4>1, <4>2
    <3>2. CASE i = L + 1
      <4>1. order'[i] = node[p]
        BY ZenonT(30), <1>b, <3>2
      <4>2. \A q \in Producers \ {p} : pc[q] = "have" => node[q] # order'[i]
        BY ZenonT(30), <2>c, <4>1
      <4>. QED BY ZenonT(30), <2>c, <4>1, <4>2
    <3>. QED BY ZenonT(30), <2>4, <3>1, <3>2
  <2>6. \A n \in Nodes : Queued(n)' <=> Queued(n) \/ n = node[p]
    BY ONLY SMTT(30), <1>b DEF Queued, L
  <2>7. \A n \in Nodes, q \in Producers : Holds(q, n) /\ q # p => Holds(q, n)'
    BY ZenonT(30), <2>1, <2>2 DEF Holds
  <2>8. \A n \in Nodes : Holds(p, n) => n = node[p]
    BY ZenonT(30) DEF Holds
  <2>9. \A n \in Nodes : Handled(n)' <=> Handled(n)
    BY SMTT(30), <2>2 DEF Handled
  <2>10. \A n \in Nodes :
           n \in free' \/ Queued(n)' \/ Handled(n)' \/ \E q \in Producers : Holds(q, n)'
    BY ZenonT(30), <2>2, <2>6, <2>7, <2>8, <2>9 DEF IndInv, Owned
  <2>. QED BY ZenonT(30), <2>1, <2>2, <2>3, <2>5, <2>10 DEF IndInv, Owned
<1>3. Linked'
  <2>1. TailLast'
    BY ZenonT(30), <1>b, <1>e DEF TailLast
  <2>2. LinkedOrOwed'
    <3>1. ASSUME NEW i \in 1..L
          PROVE  \/ next'[order'[i]] = order'[i + 1]
                 \/ /\ next'[order'[i]] = NULL
                    /\ \E q \in Producers : Linking(q, order[i + 1])' /\ prev'[q] = order'[i]
      <4>1. CASE i = L
        <5>1. order # <<>> /\ order'[i] = order[L] /\ order'[i + 1] = node[p]
          BY SMTT(30), <4>1, <1>a, <1>b, <1>c
        <5>2. next'[order'[i]] = NULL /\ tail = order[L]
          BY ZenonT(30), <5>1, <4>1, <1>e DEF IndInv, Linked, TailLast, L
        <5>3. Linking(p, order[i + 1])' /\ prev'[p] = order'[i]
          BY ZenonT(30), <5>1, <5>2, <1>e DEF Linking
        <5>. QED BY ZenonT(30), <5>2, <5>3
      <4>2. CASE i # L
        <5>1. /\ i \in 1..L - 1 /\ i + 1 \in 1..L
              /\ order'[i] = order[i] /\ order'[i + 1] = order[i + 1]
          BY SMTT(30), <4>2, <1>a, <1>b
        <5>2. CASE next[order[i]] = order[i + 1]
          BY ZenonT(30), <5>1, <5>2, <1>e
        <5>3. CASE next[order[i]] # order[i + 1]
          <6>1. next[order[i]] = NULL
            BY ZenonT(30), <5>1, <5>3 DEF IndInv, Linked, LinkedOrOwed, L
          <6>2. PICK q \in Producers : Linking(q, order[i + 1]) /\ prev[q] = order[i]
            BY ZenonT(30), <5>1, <5>3 DEF IndInv, Linked, LinkedOrOwed, L
          <6>3. q # p
            BY ZenonT(30), <6>2, <1>a DEF Linking
          <6>4. Linking(q, order[i + 1])' /\ prev'[q] = order'[i]
            BY ZenonT(30), <6>2, <6>3, <5>1, <1>a, <1>d DEF Linking
          <6>. QED BY ZenonT(30), <6>1, <6>4, <5>1, <1>e
        <5>. QED BY ZenonT(30), <5>2, <5>3
      <4>. QED BY ZenonT(30), <4>1, <4>2
    <3>. QED BY SMTT(30), <3>1, <1>a, <1>b DEF LinkedOrOwed, Linking
  <2>3. LinkerPlaced'
    <3>1. /\ node'[p] = order'[L + 1]
          /\ L + 1 = 1 => prev'[p] = NULL
          /\ L + 1 > 1 => prev'[p] = order'[L] /\ next'[order'[L]] = NULL
      <4>1. TailLast
        BY ZenonT(30) DEF IndInv, Linked
      <4>. QED BY ONLY SMTT(30), <1>a, <1>b, <1>c, <1>e, <4>1 DEF TailLast, L
    <3>2. ASSUME NEW q \in Producers, q # p, pc[q] = "link"
          PROVE  \E i \in 1..L :
                   /\ node'[q] = order'[i]
                   /\ i = 1 => prev'[q] = NULL
                   /\ i > 1 => prev'[q] = order'[i - 1] /\ next'[order'[i - 1]] = NULL
      <4>1. PICK i \in 1..L :
              /\ node[q] = order[i]
              /\ i = 1 => prev[q] = NULL
              /\ i > 1 => prev[q] = order[i - 1] /\ next[order[i - 1]] = NULL
        BY ZenonT(30), <3>2 DEF IndInv, Linked, LinkerPlaced, L
      <4>2. prev'[q] = prev[q] /\ node'[q] = node[q]
        BY ZenonT(30), <3>2, <1>a, <1>d, <1>e
      <4>3. i > 1 => i - 1 \in 1..L
        BY SMTT(30), <1>a
      <4>. QED BY ZenonT(30), <4>1, <4>2, <4>3, <1>a, <1>b, <1>e
    <3>3. \A q \in Producers : q # p /\ pc'[q] = "link" => pc[q] = "link"
      BY ZenonT(30) DEF ExchangeTail, IndInv, Typed, TypeOK
    <3>. QED BY ONLY SMTT(30), <3>1, <3>2, <3>3, <1>a, <1>b DEF LinkerPlaced
  <2>4. OneLinker'
    <3>1. \A q \in Producers : pc[q] = "link" => node[q] # node[p]
      BY ZenonT(30), <1>a DEF IndInv, Linked, LinkerPlaced, L
    <3>2. \A q \in Producers : q # p => (pc'[q] = "link" <=> pc[q] = "link")
      BY ZenonT(30) DEF ExchangeTail, IndInv, Typed, TypeOK
    <3>. QED BY ZenonT(30), <3>1, <3>2, <1>e DEF IndInv, Linked, OneLinker
  <2>. QED BY SMTT(30), <2>1, <2>2, <2>3, <2>4 DEF Linked
<1>4. AtFront'
  <2>1. UNCHANGED <<head, cpc, chead, cnext>>
    BY ZenonT(30) DEF ExchangeTail, consVars
  <2>2. CASE L = 0
    <3>1. cpc \notin Front \union Cleared /\ head = NULL
      BY SMTT(30), <2>2, <1>c DEF IndInv, AtFront
    <3>2. Linking(p, order[1])'
      BY SMTT(30), <2>2, <1>b, <1>e DEF Linking
    <3>. QED BY ZenonT(30), <2>1, <3>1, <3>2, <1>b DEF AtFront, Front, Cleared
  <2>3. CASE L # 0
    <3>1. order # <<>> /\ order'[1] = order[1] /\ order[1] \in Nodes /\ order[1] # node[p]
      BY SMTT(30), <2>3, <1>a, <1>b, <1>c
    <3>2. \A q \in Producers : Linking(q, order[1])' <=> Linking(q, order[1])
      BY ZenonT(30), <3>1, <1>a, <1>b, <1>d, <1>e DEF Linking
    <3>3. (FrontLinked' <=> FrontLinked)
      BY <3>2 DEF FrontLinked
    <3>4. (\E q \in Producers : Linking(q, order[1]))' <=> \E q \in Producers : Linking(q, order[1])
      BY SMTT(30), <3>2
    <3>5. L > 1 => order'[2] = order[2]
      BY SMTT(30), <1>a, <1>b
    <3>6. next'[order[1]] = next[order[1]]
      BY SMTT(30), <2>3, <1>a, <1>e
    <3>7. AtFront /\ Len(order) = L
      BY DEF IndInv, L
    <3>8. cpc' \in {"spin", "advance", "republish"} => Len(order') > 1
      BY SMTT(30), <2>1, <3>7, <1>a, <1>b DEF AtFront
    <3>9. cpc' = "advance" => cnext' = order'[2] /\ next'[order'[1]] = order'[2]
      <4>1. cpc = "advance" => L > 1 /\ cnext = order[2] /\ next[order[1]] = order[2]
        BY SMTT(30), <3>7 DEF AtFront
      <4> QED BY Zenon, <2>1, <3>1, <3>5, <3>6, <4>1
    <3>10. cpc' \in Front \union Cleared =>
             /\ chead' = order'[1] /\ FrontLinked'
             /\ head' = IF cpc' \in Cleared THEN NULL ELSE order'[1]
      BY Zenon, <2>1, <3>1, <3>3, <3>7 DEF AtFront
    <3>11. cpc' \notin Front \union Cleared =>
             \/ head' = order'[1] /\ FrontLinked'
             \/ head' = NULL /\ \E q \in Producers : Linking(q, order[1])'
      BY Zenon, <2>1, <3>1, <3>3, <3>4, <3>7 DEF AtFront
    <3>. QED BY Zenon, <1>b, <3>1, <3>8, <3>9, <3>10, <3>11 DEF AtFront
  <2>. QED BY SMTT(30), <2>2, <2>3
<1>5. Woken'
  BY ZenonT(30), <1>e DEF ExchangeTail, IndInv, Woken, consVars
<1>. QED BY SMTT(30), <1>1, <1>2, <1>3, <1>4, <1>5 DEF IndInv

(* The three ways dequeue takes the front node - Advance, a successful     *)
(* SwapTail and Republish - leave the queue in the same shape.             *)
Popped ==
  /\ cpc \in Front \union Cleared
  /\ cpc' = "got"
  /\ order' = Tail(order)
  /\ UNCHANGED <<poolVars, prodVars, chead, cnext, branch, processed, wakeVars>>
  /\ \/ Len(order) > 1 /\ next[order[1]] = order[2] /\ head' = order[2] /\ tail' = tail
     \/ Len(order) = 1 /\ head' = NULL /\ tail' = NULL

(* The three ways a dequeue ends leave a queue that satisfies the          *)
(* invariant, one node shorter.                                            *)
LEMMA PoppedInd ==
  ASSUME IndInv, Popped
  PROVE  IndInv'
<1> DEFINE L == Len(order)
<1>a. /\ order \in Seq(Nodes)
      /\ order # <<>>
      /\ chead = order[1]
      /\ chead \in Nodes
      /\ cpc # "got"
      /\ FrontLinked
  BY ZenonT(30) DEF Popped, IndInv, Typed, TypeOK, AtFront, Front, Cleared
<1>b. /\ order' \in Seq(Nodes)
      /\ L \in Nat
      /\ L >= 1
      /\ Len(order') = L - 1
      /\ \A i \in 1..L - 1 : order'[i] = order[i + 1]
      /\ order' = <<>> <=> L = 1
  BY <1>a, TailFacts DEF Popped
<1>c. /\ \A i \in 1..L : order[i] \in Nodes
      /\ \A i, j \in 1..L : order[i] = order[j] => i = j
  BY SMTT(30), <1>a DEF IndInv, Owned
<1> HIDE DEF L
<1>d. UNCHANGED <<free, next, data, pc, node, prev, chead, cnext, branch, processed, eventfd, edge>>
  BY ZenonT(30) DEF Popped, poolVars, prodVars, wakeVars
<1>e. \A i \in 1..L - 1 : i + 1 \in 1..L
  BY SMTT(30), <1>b
<1>1. Typed'
  BY SMTT(30), <1>d, <1>c DEF Popped, IndInv, Typed, TypeOK, ConsumerPc
<1>2. Owned'
  <2>1. \A i, j \in 1..Len(order') : order'[i] = order'[j] => i = j
    BY SMTT(30), <1>b, <1>c, <1>e
  <2>2. \A i \in 1..Len(order') :
          /\ order'[i] \notin free
          /\ \A p \in Producers : pc[p] = "have" => node[p] # order'[i]
    <3> SUFFICES ASSUME NEW i \in 1..Len(order')
                 PROVE  /\ order'[i] \notin free
                        /\ \A p \in Producers : pc[p] = "have" => node[p] # order'[i]
      OBVIOUS
    <3>1. i \in 1..L - 1
      BY ZenonT(30), <1>b
    <3>2. i + 1 \in 1..L /\ order'[i] = order[i + 1]
      BY ZenonT(30), <1>b, <1>e, <3>1
    <3>. QED BY ZenonT(30), <3>2 DEF IndInv, Owned, L
  <2>3. \A i \in 1..Len(order') : chead # order'[i]
    BY <1>a, <1>b, <1>c, <1>e
  <2>4. /\ chead \notin free
        /\ \A p \in Producers : pc[p] = "have" => node[p] # chead
    BY <1>a, <1>b DEF IndInv, Owned, L
  <2>5. \A n \in Nodes : Queued(n) => Queued(n)' \/ n = chead
    <3>1. ASSUME NEW n \in Nodes, NEW i \in 1..L, order[i] = n, i # 1
          PROVE  Queued(n)'
      <4>1. i - 1 \in 1..L - 1 /\ order'[i - 1] = n
        BY <3>1, <1>b
      <4>. QED BY <4>1, <1>b DEF Queued
    <3>. QED BY <3>1, <1>a DEF Queued, L
  <2>6. \A n \in Nodes, p \in Producers : Holds(p, n) => Holds(p, n)'
    BY <1>d DEF Holds
  <2>7. \A n \in Nodes : ~ Handled(n)
    BY <1>a DEF Handled
  <2>8. Handled(chead)'
    BY ZenonT(30), <1>d DEF Popped, Handled
  <2>9. \A n \in Nodes :
          n \in free' \/ Queued(n)' \/ Handled(n)' \/ \E p \in Producers : Holds(p, n)'
    BY ZenonT(30), <2>5, <2>6, <2>7, <1>d DEF IndInv, Owned, Handled, Popped
  <2>. QED BY ZenonT(30), <2>1, <2>2, <2>3, <2>4, <2>9, <1>d DEF IndInv, Owned
<1>3. Linked'
  <2>1. TailLast'
    <3>1. CASE L = 1
      BY <3>1, <1>b DEF TailLast, Popped, L
    <3>2. CASE L # 1
      <4>1. order' # <<>> /\ order'[Len(order')] = order[L]
        BY <3>2, <1>b
      <4>2. tail' = tail
        BY ZenonT(30), <3>2, <1>b DEF Popped, L
      <4>. QED BY <4>1, <4>2, <1>a, <1>d DEF IndInv, Linked, TailLast, L
    <3>. QED BY SMTT(30), <3>1, <3>2
  <2>2. LinkedOrOwed'
    <3>1. ASSUME NEW i \in 1..Len(order') - 1
          PROVE  \/ next'[order'[i]] = order'[i + 1]
                 \/ /\ next'[order'[i]] = NULL
                    /\ \E p \in Producers : Linking(p, order[i + 1])' /\ prev'[p] = order'[i]
      <4>1. /\ i + 1 \in 1..L - 1
            /\ order'[i] = order[i + 1]
            /\ order'[i + 1] = order[(i + 1) + 1]
        BY SMTT(30), <1>b
      <4>. QED BY ZenonT(30), <4>1, <1>d DEF IndInv, Linked, LinkedOrOwed, Linking, L
    <3>. QED BY ZenonT(30), <3>1 DEF LinkedOrOwed
  <2>3. LinkerPlaced'
    <3>1. ASSUME NEW p \in Producers, pc[p] = "link"
          PROVE  \E i \in 1..Len(order') :
                   /\ node[p] = order'[i]
                   /\ i = 1 => prev[p] = NULL
                   /\ i > 1 => prev[p] = order'[i - 1] /\ next[order'[i - 1]] = NULL
      <4>1. PICK i \in 1..L :
              /\ node[p] = order[i]
              /\ i = 1 => prev[p] = NULL
              /\ i > 1 => prev[p] = order[i - 1] /\ next[order[i - 1]] = NULL
        BY ZenonT(30), <3>1 DEF IndInv, Linked, LinkerPlaced, L
      <4>2. i # 1
        BY ZenonT(30), <4>1, <3>1, <1>a DEF FrontLinked, Linking
      <4>3. L > 1 /\ next[order[1]] = order[2] /\ order[2] \in Nodes
        BY <4>2, <1>b, <1>c DEF Popped, L
      <4>4. i # 2
        BY <4>1, <4>3, MpscAssumption
      <4>5. /\ i - 1 \in 1..Len(order') /\ i - 1 > 1
            /\ order'[i - 1] = order[i] /\ order'[(i - 1) - 1] = order[i - 1]
        BY <4>2, <4>4, <1>b
      <4>. QED BY SMTT(30), <4>1, <4>2, <4>5
    <3>. QED BY ZenonT(30), <3>1, <1>d DEF LinkerPlaced
  <2>4. OneLinker'
    BY ZenonT(30), <1>d DEF IndInv, Linked, OneLinker
  <2>. QED BY <2>1, <2>2, <2>3, <2>4 DEF Linked
<1>4. AtFront'
  <2>1. CASE L = 1
    BY SMTT(30), <2>1, <1>b DEF AtFront, Popped, Front, Cleared, L
  <2>2. CASE L # 1
    <3>1. /\ next[order[1]] = order[2] /\ head' = order[2]
          /\ order' # <<>> /\ order'[1] = order[2] /\ order[2] \in Nodes
      BY SMTT(30), <2>2, <1>b DEF Popped
    <3>2. \A p \in Producers : ~ (pc[p] = "link" /\ node[p] = order[2])
      <4>1. SUFFICES ASSUME NEW p \in Producers, pc[p] = "link", node[p] = order[2]
                     PROVE  FALSE
        OBVIOUS
      <4>2. PICK i \in 1..L :
              /\ node[p] = order[i]
              /\ i > 1 => next[order[i - 1]] = NULL
        BY ZenonT(30), <4>1 DEF IndInv, Linked, LinkerPlaced, L
      <4>3. i = 2
        <5>1. 2 \in 1..L /\ order[i] = order[2]
          BY SMTT(30), <4>1, <4>2, <2>2, <1>b
        <5>. QED BY <5>1, <1>c
      <4>. QED BY SMTT(30), <4>2, <4>3, <3>1, MpscAssumption
    <3>3. FrontLinked'
      BY ZenonT(30), <3>1, <3>2, <1>d DEF FrontLinked, Linking
    <3>. QED BY ZenonT(30), <3>1, <3>3 DEF AtFront, Popped, Front, Cleared
  <2>. QED BY <2>1, <2>2
<1>5. Woken'
  BY ZenonT(30), <1>a, <1>d DEF Popped, IndInv, Woken
<1>. QED BY SMTT(30), <1>1, <1>2, <1>3, <1>4, <1>5 DEF IndInv

(* A dequeue that found a successor takes it.                              *)
LEMMA AdvancePops ==
  ASSUME IndInv, Advance
  PROVE  Popped
BY ZenonT(30) DEF Advance, Popped, IndInv, AtFront, Front

(* The compare-and-swap succeeds only on a queue of one node.              *)
LEMMA SwapPops ==
  ASSUME IndInv, SwapTail, tail = chead
  PROVE  Popped
<1>1. /\ order \in Seq(Nodes) /\ order # <<>> /\ chead = order[1] /\ head = NULL
      /\ cpc = "cas" /\ tail = order[Len(order)]
      /\ Len(order) \in Nat /\ Len(order) >= 1
  BY SMTT(30) DEF SwapTail, IndInv, Typed, TypeOK, AtFront, Cleared, Linked, TailLast
<1>2. 1 \in 1..Len(order) /\ Len(order) \in 1..Len(order) /\ order[1] = order[Len(order)]
  BY SMTT(30), <1>1
<1>3. Len(order) = 1
  BY Zenon, <1>2 DEF IndInv, Owned
<1> QED BY ZenonT(30), <1>1, <1>3 DEF SwapTail, Popped, Cleared

(* The compare-and-swap preserves the invariant: when it fails, a producer *)
(* got in between.                                                         *)
LEMMA SwapTailInd ==
  ASSUME IndInv, SwapTail
  PROVE  IndInv'
<1>a. /\ order \in Seq(Nodes) /\ order # <<>> /\ chead = order[1] /\ head = NULL
      /\ cpc = "cas" /\ tail = order[Len(order)]
      /\ Len(order) \in Nat /\ Len(order) >= 1
  BY SMTT(30) DEF SwapTail, IndInv, Typed, TypeOK, AtFront, Cleared, Linked, TailLast
<1>1. CASE tail = chead
  BY SMTT(30), <1>1, SwapPops, PoppedInd
<1>2. CASE tail # chead
  <2>a. /\ cpc' = "republish"
        /\ UNCHANGED <<free, next, data, head, tail, pc, node, prev, chead, cnext, branch,
                       processed, eventfd, edge, order>>
    BY ZenonT(30), <1>2 DEF SwapTail, poolVars, prodVars, wakeVars
  <2>b. Len(order) > 1
    BY SMTT(30), <1>2, <1>a
  <2>1. Typed'
    BY ZenonT(30), <2>a, <1>a DEF IndInv, Typed, TypeOK, ConsumerPc, Cleared
  <2>2. Owned'
    BY ZenonT(30), <2>a, <1>a DEF IndInv, Owned, Queued, Handled, Holds
  <2>3. Linked'
    BY ZenonT(30), <2>a DEF IndInv, Linked, TailLast, LinkedOrOwed, LinkerPlaced, OneLinker, Linking
  <2>4. AtFront'
    BY ZenonT(30), <2>a, <2>b, <1>a DEF IndInv, AtFront, FrontLinked, Linking, Front, Cleared
  <2>5. Woken'
    BY SMTT(30), <2>a, <1>a DEF IndInv, Woken
  <2>. QED BY <2>1, <2>2, <2>3, <2>4, <2>5 DEF IndInv
<1>. QED BY SMTT(30), <1>1, <1>2

(* A dequeue that lost the race against a producer takes the head as well. *)
LEMMA RepublishPops ==
  ASSUME IndInv, Republish
  PROVE  Popped
<1>1. Len(order) > 1 /\ chead = order[1] /\ next[chead] # NULL /\ Len(order) \in Nat
  BY SMTT(30) DEF Republish, IndInv, AtFront, Cleared
<1>2. next[order[1]] = order[2]
  BY <1>1 DEF IndInv, Linked, LinkedOrOwed
<1>. QED BY ZenonT(30), <1>1, <1>2 DEF Republish, Popped, Cleared

-----------------------------------------------------------------------------
(* A step that changes nothing preserves the invariant.                    *)
LEMMA StutterInd ==
  ASSUME IndInv, UNCHANGED vars
  PROVE  IndInv'
<1>a. UNCHANGED <<free, next, data, head, tail, pc, node, prev, cpc, chead, cnext,
                  branch, processed, eventfd, edge, order>>
  BY SMTT(30) DEF vars
<1>1. Typed'
  BY ZenonT(30), <1>a DEF IndInv, Typed, TypeOK
<1>2. Owned'
  BY ZenonT(30), <1>a DEF IndInv, Owned, Queued, Handled, Holds
<1>3. Linked'
  BY ZenonT(30), <1>a DEF IndInv, Linked, TailLast, LinkedOrOwed, LinkerPlaced, OneLinker, Linking
<1>4. AtFront'
  BY ZenonT(30), <1>a DEF IndInv, AtFront, FrontLinked, Linking
<1>5. Woken'
  BY <1>a DEF IndInv, Woken
<1>. QED BY <1>1, <1>2, <1>3, <1>4, <1>5 DEF IndInv

(* Every step preserves the invariant.                                     *)
LEMMA NextInd ==
  ASSUME IndInv, [Next]_vars
  PROVE  IndInv'
<1>1. ASSUME NEW p \in Producers, Producer(p)
      PROVE  IndInv'
  BY SMTT(30), <1>1, GetNodeInd, MallocFailsInd, ExchangeTailInd, LinkInd, WakeThreadInd
     DEF Producer
<1>2. CASE ConsumerStep
  BY SMTT(30), <1>2, EpollWakeupInd, DrainEventfdInd, DequeueEmptyInd, LoadHeadInd, LoadNextInd,
     LoadTailInd, SpinForLinkInd, AdvancePops, ClearHeadInd, SwapTailInd, RepublishPops,
     PoppedInd, HandleMessageInd
     DEF ConsumerStep
<1>. QED BY SMTT(30), <1>1, <1>2, EpollTimeoutInd, StutterInd DEF Next

(* The inductive invariant holds in every reachable state, for any number  *)
(* of nodes, producers and messages and any two batch limits.              *)
THEOREM Invariance == Spec => []IndInv
  BY InitInd, NextInd, PTL DEF Spec

(* The variables keep their types, and ws_mpsc_process_messages never      *)
(* exceeds its max_messages.                                               *)
THEOREM TypeCorrect == Spec => []TypeOK
<1>1. IndInv => TypeOK
  BY ZenonT(30) DEF IndInv, Typed
<1>. QED BY <1>1, Invariance, PTL

(* No node of the pool is ever lost or in two hands, whatever the number of*)
(* senders.                                                                *)
THEOREM NodesConserved == Spec => []NodeConserved
<1>1. IndInv => NodeConserved
  BY SMTT(30) DEF IndInv, Owned, NodeConserved, Queued, Holds, Handled
<1>. QED BY <1>1, Invariance, PTL

(* No queued message ever becomes unreachable: the race that the comment in*)
(* ws_mpsc_queue_dequeue describes cannot lose a node.                     *)
THEOREM ChainStaysIntact == Spec => []ChainIntact
<1>1. ASSUME IndInv PROVE ChainIntact
  <2>1. /\ tail = IF order = <<>> THEN NULL ELSE order[Len(order)]
        /\ order = <<>> => head = NULL
    BY ZenonT(30), <1>1 DEF IndInv, Linked, TailLast, AtFront
  <2>2. order # <<>> =>
          \/ head = order[1]
          \/ head = NULL /\ \E p \in Producers : Linking(p, order[1])
          \/ head = NULL /\ cpc \in {"cas", "republish"} /\ chead = order[1]
    BY <1>1 DEF IndInv, AtFront, Front, Cleared
  <2>. QED BY ZenonT(30), <1>1, <2>1, <2>2 DEF ChainIntact, IndInv, Linked, LinkedOrOwed
<1>. QED BY <1>1, Invariance, PTL

(* The event thread never sleeps on a queued message without a wakeup that *)
(* is pending or on its way.                                               *)
THEOREM WakeupNeverLost == Spec => []NoLostWakeup
<1>1. IndInv => NoLostWakeup
  BY DEF IndInv, Woken, NoLostWakeup
<1>. QED BY <1>1, Invariance, PTL

-----------------------------------------------------------------------------
(* The queue implements a bounded FIFO.                                    *)

(* A queued message, or the one the consumer has, is complete.             *)
Filled ==
  /\ \A i \in 1..Len(order) : data[order[i]] \in Messages
  /\ cpc = "got" => data[chead] \in Messages

(* The mapped state.                                                       *)
Content == [i \in 1..Len(order) |-> data[order[i]]]
InHand == IF cpc = "got" THEN data[chead] ELSE NULL

(* Steps of the queue, as a user sees them.                                *)
Puts(m) == Content' = Append(Content, m) /\ UNCHANGED InHand
Takes ==
  /\ Content # <<>> /\ InHand = NULL
  /\ InHand' = Head(Content) /\ Content' = Tail(Content)
Finishes == InHand # NULL /\ InHand' = NULL /\ UNCHANGED Content

(* Nothing a user could see happens while the nodes that are queued or     *)
(* handled keep their messages.                                            *)
LEMMA Unseen ==
  ASSUME IndInv, Filled, UNCHANGED order, cpc' = cpc \/ (cpc # "got" /\ cpc' # "got"),
         cpc = "got" => chead' = chead /\ data'[chead] = data[chead],
         \A i \in 1..Len(order) : data'[order[i]] = data[order[i]]
  PROVE  Filled' /\ UNCHANGED <<Content, InHand>>
<1>1. Filled'
  BY DEF Filled
<1>2. UNCHANGED Content
  BY Zenon DEF Content
<1>3. UNCHANGED InHand
  BY Zenon DEF InHand
<1> QED BY SMTT(30), <1>1, <1>2, <1>3

LEMMA PutStep ==
  ASSUME IndInv, Filled, NEW p \in Producers, NEW m \in Messages, ExchangeTail(p, m)
  PROVE  Filled' /\ Puts(m)
<1> DEFINE L == Len(order)
<1>1. /\ order \in Seq(Nodes) /\ L \in Nat /\ node[p] \in Nodes /\ pc[p] = "have"
      /\ data \in [Nodes -> Messages \union {NULL}]
      /\ \A i \in 1..L : order[i] \in Nodes /\ order[i] # node[p]
      /\ cpc = "got" => chead \in Nodes /\ chead # node[p]
  <2>1. pc[p] = "have"
    BY ZenonT(30) DEF ExchangeTail
  <2>2. /\ order \in Seq(Nodes) /\ data \in [Nodes -> Messages \union {NULL}]
        /\ node[p] \in Nodes /\ (cpc = "got" => chead \in Nodes)
    BY ZenonT(30), <2>1 DEF IndInv, Typed, TypeOK
  <2>3. L \in Nat /\ \A i \in 1..L : order[i] \in Nodes
    BY ONLY <2>2
  <2>4. /\ \A i \in 1..L : order[i] # node[p]
        /\ cpc = "got" => chead # node[p]
    BY Zenon, <2>1 DEF IndInv, Owned
  <2> QED BY Zenon, <2>1, <2>2, <2>3, <2>4
<1>2. /\ Len(order') = L + 1
      /\ \A i \in 1..L : order'[i] = order[i]
      /\ order'[L + 1] = node[p]
  <2>1. order' = Append(order, node[p])
    BY ZenonT(30) DEF ExchangeTail
  <2>2. /\ Len(Append(order, node[p])) = Len(order) + 1
        /\ \A i \in 1..Len(order) : Append(order, node[p])[i] = order[i]
        /\ Append(order, node[p])[Len(order) + 1] = node[p]
    <3>1. order \in Seq(Nodes) /\ node[p] \in Nodes
      BY Zenon, <1>1
    <3> QED BY ONLY SMTT(30), <3>1, AppendFacts
  <2> QED BY ONLY Zenon, <2>1, <2>2 DEF L
<1>3. /\ data'[node[p]] = m
      /\ \A n \in Nodes \ {node[p]} : data'[n] = data[n]
      /\ UNCHANGED <<cpc, chead>>
  BY ZenonT(30), <1>1 DEF ExchangeTail, consVars
<1> HIDE DEF L
<1>4. /\ \A i \in 1..L : data'[order'[i]] = data[order[i]]
      /\ data'[order'[L + 1]] = m
      /\ cpc = "got" => data'[chead] = data[chead]
  BY ZenonT(30), <1>1, <1>2, <1>3
<1>5. Filled'
  BY SMTT(30), <1>2, <1>3, <1>4 DEF Filled, L
<1>6. Content' = Append(Content, m)
  <2>1. Content \in Seq(Messages) /\ Len(Content) = L /\ \A i \in 1..L : Content[i] = data[order[i]]
    BY SMTT(30) DEF Content, Filled, L
  <2>2. /\ Content' \in Seq(Messages) /\ Len(Content') = L + 1
        /\ \A i \in 1..L + 1 : Content'[i] = data'[order'[i]]
    BY ONLY SMTT(30), <1>2, <1>5 DEF Content, Filled
  <2>3. /\ Append(Content, m) \in Seq(Messages) /\ Len(Append(Content, m)) = L + 1
        /\ \A i \in 1..L : Append(Content, m)[i] = Content[i]
        /\ Append(Content, m)[L + 1] = m
    BY ONLY SMTT(30), <2>1
  <2>4. \A i \in 1..L + 1 : Content'[i] = Append(Content, m)[i]
    BY ONLY SMTT(30), <1>4, <2>1, <2>2
  <2> QED BY ZenonT(30), <2>2, <2>3, <2>4, SeqEqual
<1>7. UNCHANGED InHand
  BY ZenonT(30), <1>3, <1>4 DEF InHand
<1> QED BY SMTT(30), <1>5, <1>6, <1>7 DEF Puts

LEMMA TakeStep ==
  ASSUME IndInv, Filled, Popped
  PROVE  Filled' /\ Takes
<1> DEFINE L == Len(order)
<1>1. /\ order \in Seq(Nodes) /\ order # <<>> /\ chead = order[1] /\ cpc # "got" /\ cpc' = "got"
      /\ UNCHANGED <<data, chead>>
  BY ZenonT(30) DEF Popped, IndInv, Typed, TypeOK, AtFront, Front, Cleared, poolVars
<1>2. /\ L \in Nat /\ L >= 1 /\ Len(order') = L - 1
      /\ \A i \in 1..L - 1 : order'[i] = order[i + 1]
  BY ZenonT(30), <1>1, TailFacts DEF Popped
<1> HIDE DEF L
<1>3. \A i \in 1..L : data[order[i]] \in Messages
  BY DEF Filled, L
<1>4. Filled'
  BY <1>1, <1>2, <1>3 DEF Filled
<1>5. Content \in Seq(Messages) /\ Len(Content) = L /\ \A i \in 1..L : Content[i] = data[order[i]]
  BY <1>2, <1>3 DEF Content, L
<1>6. /\ Content' \in Seq(Messages) /\ Len(Content') = L - 1
      /\ \A i \in 1..L - 1 : Content'[i] = data[order[i + 1]]
  BY <1>1, <1>2, <1>4 DEF Content, Filled
<1>7. Content # <<>> /\ Head(Content) = data[chead]
  BY SMTT(30), <1>1, <1>2, <1>5
<1>8. Content' = Tail(Content)
  <2>1. /\ Tail(Content) \in Seq(Messages) /\ Len(Tail(Content)) = L - 1
        /\ \A i \in 1..L - 1 : Tail(Content)[i] = Content[i + 1]
    BY ZenonT(30), <1>5, <1>7, TailFacts
  <2>2. \A i \in 1..L - 1 : Content'[i] = Tail(Content)[i]
    <3>1. \A i \in 1..L - 1 : i + 1 \in 1..L
      BY ONLY <1>2
    <3> QED BY Zenon, <1>5, <1>6, <2>1, <3>1
  <2> QED BY ZenonT(30), <1>6, <2>1, <2>2, SeqEqual
<1>9. InHand = NULL /\ InHand' = data[chead]
  BY Zenon, <1>1 DEF InHand
<1> QED BY SMTT(30), <1>4, <1>7, <1>8, <1>9 DEF Takes

LEMMA FinishStep ==
  ASSUME IndInv, Filled, HandleMessage
  PROVE  Filled' /\ Finishes
<1>1. /\ cpc = "got" /\ cpc' # "got" /\ UNCHANGED order /\ chead \in Nodes
      /\ data' = [data EXCEPT ![chead] = NULL]
      /\ data \in [Nodes -> Messages \union {NULL}] /\ order \in Seq(Nodes)
  BY ZenonT(30) DEF HandleMessage, ReturnNode, ReturnFromProcess, IndInv, Typed, TypeOK
<1>2. \A i \in 1..Len(order) : order[i] \in Nodes /\ order[i] # chead
  <2>1. \A i \in 1..Len(order) : order[i] \in Nodes
    BY ONLY <1>1
  <2>2. \A i \in 1..Len(order) : order[i] # chead
    BY Zenon, <1>1 DEF IndInv, Owned
  <2> QED BY Zenon, <2>1, <2>2
<1>3. \A i \in 1..Len(order) : data'[order[i]] = data[order[i]]
  BY <1>1, <1>2
<1>4. Filled'
  BY ZenonT(30), <1>1, <1>3 DEF Filled
<1>5. UNCHANGED Content
  BY Zenon, <1>1, <1>3 DEF Content
<1>6. InHand # NULL /\ InHand' = NULL
  BY ZenonT(30), <1>1, MpscAssumption DEF InHand, Filled
<1> QED BY <1>4, <1>5, <1>6 DEF Finishes

(* A step of any thread puts, takes or finishes a message, or shows        *)
(* nothing.                                                                *)
LEMMA FifoStep ==
  ASSUME IndInv, Filled, [Next]_vars
  PROVE  /\ Filled'
         /\ \/ \E p \in Producers, m \in Messages : ExchangeTail(p, m) /\ Puts(m)
            \/ Takes \/ Finishes
            \/ UNCHANGED <<Content, InHand>>
<1>1. /\ data \in [Nodes -> Messages \union {NULL}] /\ order \in Seq(Nodes)
      /\ \A i \in 1..Len(order) : order[i] \in Nodes
      /\ cpc = "got" => chead \in Nodes
  BY SMTT(30) DEF IndInv, Typed, TypeOK
<1>2. ASSUME UNCHANGED <<data, order>>, (cpc' = cpc /\ chead' = chead) \/ (cpc # "got" /\ cpc' # "got")
      PROVE  Filled' /\ UNCHANGED <<Content, InHand>>
  BY ZenonT(30), <1>2, Unseen
<1>3. ASSUME NEW n \in Nodes, data' = [data EXCEPT ![n] = NULL], UNCHANGED <<order, cpc, chead>>,
             \A i \in 1..Len(order) : order[i] # n, cpc = "got" => chead # n
      PROVE  Filled' /\ UNCHANGED <<Content, InHand>>
  <2>1. \A i \in 1..Len(order) : data'[order[i]] = data[order[i]]
    BY <1>1, <1>3
  <2>2. cpc = "got" => data'[chead] = data[chead]
    BY SMTT(30), <1>1, <1>3
  <2> QED BY <1>3, <2>1, <2>2, Unseen
<1>4. ASSUME NEW p \in Producers, Producer(p)
      PROVE  /\ Filled'
             /\ \/ \E m \in Messages : ExchangeTail(p, m) /\ Puts(m)
                \/ UNCHANGED <<Content, InHand>>
  <2>1. CASE GetNode(p)
    <3>1. PICK n \in free : data' = [data EXCEPT ![n] = NULL]
      BY Zenon, <2>1 DEF GetNode
    <3>2. UNCHANGED <<order, cpc, chead>>
      BY SMTT(30), <2>1 DEF GetNode, consVars
    <3>3. /\ n \in Nodes /\ \A i \in 1..Len(order) : order[i] # n
          /\ cpc = "got" => chead # n
      BY ZenonT(30) DEF IndInv, Typed, TypeOK, Owned
    <3> QED BY Zenon, <1>3, <3>1, <3>2, <3>3
  <2>2. CASE MallocFails(p)
    <3>1. data' = [data EXCEPT ![node[p]] = NULL] /\ UNCHANGED <<order, cpc, chead>> /\ pc[p] = "have"
      BY SMTT(30), <2>2 DEF MallocFails, ReturnNode, consVars
    <3>2. /\ node[p] \in Nodes /\ \A i \in 1..Len(order) : order[i] # node[p]
          /\ cpc = "got" => chead # node[p]
      BY ZenonT(30), <3>1 DEF IndInv, Typed, Owned
    <3> QED BY ZenonT(30), <1>3, <3>1, <3>2
  <2>3. ASSUME NEW m \in Messages, ExchangeTail(p, m)
        PROVE  Filled' /\ \E mm \in Messages : ExchangeTail(p, mm) /\ Puts(mm)
    BY Zenon, <2>3, PutStep
  <2>4. CASE Link(p) \/ WakeThread(p)
    BY ZenonT(30), <1>2, <2>4 DEF Link, WakeThread, poolVars, consVars
  <2> QED BY ZenonT(30), <1>4, <2>1, <2>2, <2>3, <2>4 DEF Producer
<1>5. CASE ConsumerStep
  <2>1. CASE Advance \/ Republish \/ (SwapTail /\ tail = chead)
    <3>1. Popped
      BY <2>1, AdvancePops, RepublishPops, SwapPops
    <3> QED BY <3>1, TakeStep
  <2>2. CASE SwapTail /\ tail # chead
    BY Zenon, <1>2, <2>2 DEF SwapTail, poolVars
  <2>3. CASE HandleMessage
    BY <2>3, FinishStep
  <2>4. CASE \/ EpollWakeup \/ DrainEventfd \/ DequeueEmpty \/ LoadHead \/ LoadNext \/ LoadTail
             \/ SpinForLink \/ ClearHead
    <3>1. UNCHANGED <<data, order>> /\ cpc # "got" /\ cpc' # "got"
      BY ONLY ZenonT(30), <2>4 DEF EpollWakeup, DrainEventfd, DequeueEmpty, ReturnFromProcess,
         LoadHead, LoadNext, LoadTail, SpinForLink, ClearHead, poolVars
    <3> QED BY SMTT(30), <1>2, <3>1
  <2> QED BY ZenonT(30), <1>5, <2>1, <2>2, <2>3, <2>4 DEF ConsumerStep
<1>6. CASE EpollTimeout
  BY Zenon, <1>2, <1>6 DEF EpollTimeout, poolVars
<1>7. CASE UNCHANGED vars
  BY ZenonT(30), <1>2, <1>7 DEF vars
<1> QED BY ZenonT(30), <1>4, <1>5, <1>6, <1>7 DEF Next

(* There is room for a message whose node is not queued yet.               *)
LEMMA Room ==
  ASSUME IsFiniteSet(Nodes), IndInv, NEW p \in Producers, pc[p] = "have"
  PROVE  Len(order) < Cardinality(Nodes)
<1> DEFINE T == Nodes \ {node[p]}
           n == Len(order)
<1>1. node[p] \in Nodes /\ order \in Seq(Nodes) /\ n \in Nat
  BY DEF IndInv, Typed, TypeOK
<1>2. IsFiniteSet(T) /\ Cardinality(T) = Cardinality(Nodes) - 1 /\ Cardinality(Nodes) \in Nat
  BY Zenon, <1>1, FS_RemoveElement, FS_CardinalityType
<1>3. IsFiniteSet(1..n) /\ Cardinality(1..n) = n
  BY SMTT(30), <1>1, FS_Interval
<1>4. order \in [1..n -> T]
  BY SMTT(30), <1>1 DEF IndInv, Owned
<1>5. ~ \E k, j \in 1..n : k # j /\ order[k] = order[j]
  BY Zenon DEF IndInv, Owned
<1> HIDE DEF T, n
<1>6. ~ (Cardinality(T) < Cardinality(1..n))
  BY ONLY Zenon, <1>2, <1>3, <1>4, <1>5, FS_PigeonHole
<1> QED BY SMTT(30), <1>1, <1>2, <1>3, <1>6 DEF n

(* The lock-free queue, for any finite pool of nodes, is a first-in        *)
(* first-out queue of that capacity: exchanging tail puts a message at the *)
(* end, a dequeue takes the oldest one, whole, whichever of its three ways *)
(* out it leaves by, and no other step of any thread changes what is       *)
(* queued.                                                                 *)
THEOREM QueueIsFifo == ASSUME IsFiniteSet(Nodes) PROVE Spec => ImplementsFifo
<1>1. Init => Filled /\ Fifo!FifoInit
  <2> SUFFICES ASSUME Init PROVE Filled /\ Fifo!FifoInit
    OBVIOUS
  <2>1. order = <<>> /\ Len(order) = 0 /\ cpc = "wait" /\ 1..Len(order) = {}
    BY DEF Init
  <2>2. Filled
    BY <2>1 DEF Filled
  <2>3. Fifo!FifoInit
    BY <2>1 DEF Fifo!FifoInit
  <2> QED BY <2>2, <2>3
<1>2. ASSUME IndInv, Filled, [Next]_vars
      PROVE  Filled' /\ [Fifo!FifoNext]_(Fifo!fifoVars)
  <2>1. ASSUME NEW p \in Producers, NEW m \in Messages, ExchangeTail(p, m), Puts(m)
        PROVE  Fifo!Put(m)
    <3>1. Len(Content) < Cardinality(Nodes)
      <4>1. Len(order) \in Nat /\ Len(order) < Cardinality(Nodes)
        BY SMTT(30), <1>2, <2>1, Room DEF ExchangeTail
      <4>2. Len(Content) = Len(order)
        BY <4>1 DEF Content
      <4> QED BY SMTT(30), <4>1, <4>2
    <3> QED BY Zenon, <2>1, <3>1 DEF Fifo!Put, Puts, Content, InHand
  <2>2. Takes => Fifo!Take
    BY Zenon DEF Takes, Fifo!Take, Content, InHand
  <2>3. Finishes => Fifo!Done
    BY Zenon DEF Finishes, Fifo!Done, Content, InHand
  <2>4. UNCHANGED <<Content, InHand>> => UNCHANGED Fifo!fifoVars
    BY Zenon DEF Fifo!fifoVars, Content, InHand
  <2> QED BY <1>2, <2>1, <2>2, <2>3, <2>4, FifoStep DEF Fifo!FifoNext
<1> QED BY <1>1, <1>2, Invariance, PTL DEF Spec, ImplementsFifo, Fifo!FifoSpec
=============================================================================
