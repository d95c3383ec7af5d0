------------------------ MODULE ConnLifecycleProofs ------------------------
(***************************************************************************)
(* Proofs about the life of a connection, for any number of event threads, *)
(* slots, fds, senders and events per epoll_wait.                          *)
(*                                                                         *)
(* The invariant has three layers, because the properties have.  TypeOK    *)
(* and Held hold always, and with them SocketAccounted.  Owned is about    *)
(* sockets, fd maps, free stacks and counts; it holds as long as no fd was *)
(* closed that the closing thread did not have in its map, and epoll_ctl   *)
(* never failed (NoneStolen).  Counted is about references, the hash and   *)
(* the queued sends; it needs, beyond Owned, that no teardown removed the  *)
(* hash entry of another connection (Undisturbed).  Nothing is stolen      *)
(* while epoll_wait reports one event at a time, and nothing is disturbed  *)
(* when there is one thread besides (Calm, Alone).                         *)
(***************************************************************************)
EXTENDS ConnLifecycle, TLAPS

-----------------------------------------------------------------------------
(* Types.                                                                  *)

ConnType ==
  [fd : Fds \union {NULL}, st : {"pending", "open", "closing", "closed"}, gen : Nat, ref : Int]
MessageType ==
  [type : {"new", "data", "close"}, fd : Fds, slot : Slots \union {NULL}, gen : Nat]
JobType == [op : {"data", "close"}, fd : Fds, slot : Slots]
Own(t) == {t} \X Indices
TaskType(t) == [fd : Fds, slot : Own(t), back : {"wait", "events", "drain"}]

(* Where the thread has a connection in hand: still in its fd map, or out  *)
(* of it.                                                                  *)
Mapped == {"adding", "msgclose"}
Unmapped == {"countdown", "unhash", "release", "msgrelease"}
Working == Mapped \union Unmapped
Resting == {"wait", "events", "drain", "msgcount"}

MapOK ==
  /\ fdmap \in [Threads -> [Fds -> Slots \union {NULL}]]
  /\ \A t \in Threads, f \in Fds : fdmap[t][f] \in Own(t) \union {NULL}
TaskOK ==
  /\ tpc \in [Threads -> Working \union Resting]
  /\ DOMAIN task = Threads
  /\ \A t \in Threads : tpc[t] \in Working => task[t] \in TaskType(t)
  /\ \A t \in Threads : tpc[t] \in Resting => task[t] = NoTask
SenderOK ==
  /\ spc \in [Senders -> {"idle", "found", "checked", "unref"}]
  /\ job \in [Senders -> JobType \union {NULL}]
  /\ \A x \in Senders : spc[x] # "idle" => job[x] \in JobType
TypeOK ==
  /\ conn \in [Slots -> ConnType]
  /\ free \in [Threads -> Seq(Indices)]
  /\ hash \in Seq([fd : Fds, slot : Slots])
  /\ active \in [Threads -> Int]
  /\ sockets \in [Fds -> {"closed", "accepted", "queued", "served"}]
  /\ queue \in [Threads -> Seq(MessageType)]
  /\ holding \in Fds \union {NULL}
  /\ MapOK /\ TaskOK /\ SenderOK

(* What a thread is adding is in its map.                                  *)
Held ==
  \A t \in Threads : tpc[t] = "adding" => fdmap[t][task[t].fd] # NULL

(* A place on the free stack.                                              *)
OnStack(t, i) == \E k \in 1..Len(free[t]) : free[t][k] = i

(* Sockets, maps, stacks and counts, as long as nothing was stolen.        *)
TaskMapped(t) ==
  /\ tpc[t] \in Mapped => fdmap[t][task[t].fd] = task[t].slot
  /\ tpc[t] \in Unmapped => /\ fdmap[t][task[t].fd] = NULL
                            /\ conn[task[t].slot].fd = task[t].fd
MapOwns ==
  \A t \in Threads : \A f \in Served(t) :
    /\ conn[fdmap[t][f]].fd = f
    /\ sockets[f] = IF tpc[t] = "adding" /\ task[t].fd = f THEN "queued" ELSE "served"
    /\ \A u \in Threads \ {t} : fdmap[u][f] = NULL
NewOwns ==
  \A t \in Threads : \A k \in NewMessages(t) :
    /\ sockets[queue[t][k].fd] = "queued"
    /\ \A u \in Threads : fdmap[u][queue[t][k].fd] = NULL
NewOnce ==
  \A t, u \in Threads : \A k \in NewMessages(t), j \in NewMessages(u) :
    queue[t][k].fd = queue[u][j].fd => t = u /\ k = j
HoldingOwns == holding # NULL => sockets[holding] = "accepted"
StackFree == \A t \in Threads, i \in Indices : OnStack(t, i) => ~ InUse(<<t, i>>)
StackOnce ==
  \A t \in Threads : \A k, j \in 1..Len(free[t]) : free[t][k] = free[t][j] => k = j
LiveInUse ==
  \A s \in Slots : conn[s].fd # NULL /\ conn[s].st # "closed" => InUse(s)
CountExact ==
  \A t \in Threads :
    /\ IsFiniteSet(Served(t))
    /\ active[t] = Cardinality(Served(t))
                   + (IF tpc[t] \in {"countdown", "msgrelease", "msgcount"} THEN 1 ELSE 0)
                   - (IF tpc[t] = "adding" THEN 1 ELSE 0)
Owned ==
  /\ \A t \in Threads : TaskMapped(t)
  /\ MapOwns /\ NewOwns /\ NewOnce /\ HoldingOwns
  /\ StackFree /\ StackOnce /\ LiveInUse /\ CountExact

(* References, the hash and the queued sends, as long as nothing was       *)
(* disturbed.                                                              *)
RefsExact ==
  \A s \in Slots :
    /\ IsFiniteSet(HeldBy(s))
    /\ conn[s].ref = Cardinality(HeldBy(s)) + (IF InUse(s) THEN 1 ELSE 0)
Unhashed(s) == task[s[1]].slot = s /\ tpc[s[1]] \in {"release", "msgclose", "msgrelease"}
HashLive ==
  \A k \in 1..Len(hash) : \A s \in Slots :
    hash[k].slot = s => conn[s].fd = hash[k].fd /\ InUse(s) /\ ~ Unhashed(s)
HashOnce == \A k, j \in 1..Len(hash) : hash[k].slot = hash[j].slot => k = j
JobsLive == \A x \in Senders : spc[x] # "idle" => conn[job[x].slot].fd = job[x].fd
OpenHasFd == \A s \in Slots : conn[s].st = "open" => conn[s].fd # NULL
DataKnown ==
  \A t \in Threads : \A k \in 1..Len(queue[t]) :
    LET m == queue[t][k]
    IN  m.type = "data" =>
          /\ m.slot \in Own(t)
          /\ m.gen <= conn[m.slot].gen
          /\ m.gen = conn[m.slot].gen => conn[m.slot].fd \in {m.fd, NULL}
StackClean ==
  \A t \in Threads, i \in Indices :
    OnStack(t, i) => /\ conn[<<t, i>>].fd = NULL
                     /\ HeldBy(<<t, i>>) = {}
                     /\ <<"tls", <<t, i>>>> \notin mishaps
LostUnused == \A s \in Slots : InUse(s) => <<"tls", s>> \notin mishaps
NoneForgotten ==
  \A t \in Threads, i \in Indices :
    \/ OnStack(t, i)
    \/ InUse(<<t, i>>)
    \/ HeldBy(<<t, i>>) # {}
    \/ Stranded(<<t, i>>)
    \/ <<"tls", <<t, i>>>> \in mishaps
Counted ==
  /\ RefsExact /\ HashLive /\ HashOnce /\ JobsLive /\ OpenHasFd /\ DataKnown
  /\ StackClean /\ LostUnused /\ NoneForgotten

Inv ==
  /\ TypeOK /\ Held /\ SocketAccounted
  /\ NoneStolen => Owned
  /\ Undisturbed => Counted

(* A leaf is for Zenon unless it names another prover.                     *)
USE Zenon

LEMMA OwnSlots == \A t \in Threads : Own(t) \subseteq Slots /\ NULL \notin Own(t)
BY ConnAssumption DEF Own, Slots

(* The facts about sets of numbers and finite sets that the proofs use.   *)
(* Holding them as a hypothesis keeps the library of theorems out of the   *)
(* way until the end of the module, where SetFacts is proved.              *)
SetFacts ==
  /\ \A M : M \subseteq Nat /\ M # {} => \E k \in M : \A j \in M : k <= j
  /\ \A S : IsFiniteSet(S) => Cardinality(S) \in Nat /\ (Cardinality(S) = 0 <=> S = {})
  /\ IsFiniteSet({}) /\ Cardinality({}) = 0
  /\ \A S, x : IsFiniteSet(S) /\ x \in S =>
       IsFiniteSet(S \ {x}) /\ Cardinality(S \ {x}) = Cardinality(S) - 1
  /\ \A S, x : IsFiniteSet(S) /\ x \notin S =>
       IsFiniteSet(S \union {x}) /\ Cardinality(S \union {x}) = Cardinality(S) + 1
  /\ \A q \in Seq(Indices), i \in Indices :
       /\ \A k, j \in 1..Len(q) : q[k] = q[j] => k = j
       /\ \A k \in 1..Len(q) : q[k] # i
       => Len(q) < MaxConnections

(* A search that finds something finds the first entry for the fd.         *)
LEMMA FirstMatches ==
  ASSUME SetFacts, NEW f, Matches(f) # {}
  PROVE  First(f) \in 1..Len(hash) /\ hash[First(f)].fd = f
<1>1. Matches(f) \subseteq Nat
  BY SMT DEF Matches
<1>2. \E k \in Matches(f) : \A j \in Matches(f) : k <= j
  BY <1>1 DEF SetFacts
<1>3. First(f) \in Matches(f)
  BY <1>2 DEF First
<1> QED BY <1>3 DEF Matches

LEMMA SeqOf ==
  ASSUME NEW S, NEW n \in Nat, NEW h \in [1..n -> S]
  PROVE  h \in Seq(S) /\ Len(h) = n
<1>1. h \in Seq(S)
  BY SMT
<1> QED BY <1>1, SMT

LEMMA Element ==
  ASSUME NEW S, NEW q \in Seq(S), NEW k \in 1..Len(q)
  PROVE  q[k] \in S
BY SMT

(* The hash without the first entry for f.                                 *)
Filled(f) == [k \in 1..Len(hash) - 1 |-> IF k = First(f) THEN hash[Len(hash)] ELSE hash[k]]

LEMMA HashRemoves ==
  ASSUME SetFacts, NEW f, hash \in Seq([fd : Fds, slot : Slots]), HashRemove(f), Matches(f) # {}
  PROVE  /\ hash' \in Seq([fd : Fds, slot : Slots])
         /\ Len(hash) \in Nat /\ Len(hash) > 0
         /\ Len(hash') = Len(hash) - 1
         /\ \A k \in 1..Len(hash') :
              hash'[k] = IF k = First(f) THEN hash[Len(hash)] ELSE hash[k]
<1>1. Len(hash) \in Nat /\ Len(hash) > 0
  BY FirstMatches, SMT
<1>2. hash' = Filled(f)
  BY DEF HashRemove, Filled
<1>3. \A k \in 1..Len(hash) : hash[k] \in [fd : Fds, slot : Slots]
  BY Element
<1>4. \A k \in 1..Len(hash) - 1 : Filled(f)[k] = IF k = First(f) THEN hash[Len(hash)] ELSE hash[k]
  BY DEF Filled
<1>5. \A k \in 1..Len(hash) - 1 : k \in 1..Len(hash) /\ Len(hash) \in 1..Len(hash)
  BY <1>1, SMT
<1>6. \A k \in 1..Len(hash) - 1 : Filled(f)[k] \in [fd : Fds, slot : Slots]
  BY <1>3, <1>4, <1>5
<1>7. Filled(f) \in [1..Len(hash) - 1 -> [fd : Fds, slot : Slots]]
  BY <1>6 DEF Filled
<1>8. Len(hash) - 1 \in Nat
  BY <1>1, SMT
<1>9. hash' \in Seq([fd : Fds, slot : Slots]) /\ Len(hash') = Len(hash) - 1
  BY <1>2, <1>7, <1>8, SeqOf
<1> QED BY <1>1, <1>2, <1>4, <1>9

(* What a change of a slot does.                                           *)
LEMMA ConnUpdate ==
  ASSUME conn \in [Slots -> ConnType], NEW s \in Slots, NEW c \in ConnType,
         conn' = [conn EXCEPT ![s] = c]
  PROVE  /\ conn' \in [Slots -> ConnType]
         /\ conn'[s] = c
         /\ \A r \in Slots \ {s} : conn'[r] = conn[r]
OBVIOUS

LEMMA NewRef ==
  ASSUME NEW c \in ConnType, NEW n \in Int
  PROVE  /\ [c EXCEPT !.ref = n] \in ConnType
         /\ [c EXCEPT !.ref = n].fd = c.fd
         /\ [c EXCEPT !.ref = n].st = c.st
         /\ [c EXCEPT !.ref = n].gen = c.gen
         /\ [c EXCEPT !.ref = n].ref = n
BY DEF ConnType

LEMMA NewState ==
  ASSUME NEW c \in ConnType, NEW z \in {"pending", "open", "closing", "closed"}
  PROVE  /\ [c EXCEPT !.st = z] \in ConnType
         /\ [c EXCEPT !.st = z].fd = c.fd
         /\ [c EXCEPT !.st = z].st = z
         /\ [c EXCEPT !.st = z].gen = c.gen
         /\ [c EXCEPT !.st = z].ref = c.ref
BY DEF ConnType

LEMMA Marks ==
  ASSUME NEW c \in ConnType, NEW n \in Int
  PROVE  /\ [c EXCEPT !.ref = n, !.st = "closed"] \in ConnType
         /\ [c EXCEPT !.ref = n, !.st = "closed"].fd = c.fd
         /\ [c EXCEPT !.ref = n, !.st = "closed"].st = "closed"
         /\ [c EXCEPT !.ref = n, !.st = "closed"].gen = c.gen
         /\ [c EXCEPT !.ref = n, !.st = "closed"].ref = n
<1> DEFINE d == [c EXCEPT !.ref = n]
           e == [d EXCEPT !.st = "closed"]
<1>1. e = [c EXCEPT !.ref = n, !.st = "closed"]
  OBVIOUS
<1>2. d \in ConnType /\ d.fd = c.fd /\ d.gen = c.gen /\ d.ref = n
  BY NewRef
<1> HIDE DEF d
<1>3. e \in ConnType /\ e.fd = d.fd /\ e.st = "closed" /\ e.gen = d.gen /\ e.ref = d.ref
  BY <1>2, NewState
<1> QED BY <1>1, <1>2, <1>3

LEMMA WipedType ==
  ASSUME NEW g \in Nat
  PROVE  /\ Wiped(g) \in ConnType
         /\ Wiped(g).fd = NULL /\ Wiped(g).st = "pending" /\ Wiped(g).gen = g /\ Wiped(g).ref = 0
BY SMT DEF Wiped, ConnType

(* What a dropped reference does.                                          *)
LEMMA Unreferences ==
  ASSUME TypeOK, NEW t \in Threads, NEW s \in Own(t), Unreference(t, s)
  PROVE  /\ conn' \in [Slots -> ConnType]
         /\ free' \in [Threads -> Seq(Indices)]
         /\ \A r \in Slots \ {s} : conn'[r] = conn[r]
         /\ conn'[s].gen = conn[s].gen
         /\ conn[s].ref = 1 =>
              conn'[s].fd = NULL /\ conn'[s].st = "pending" /\ conn'[s].ref = 0
         /\ conn[s].ref # 1 =>
              /\ conn'[s].fd = conn[s].fd
              /\ conn'[s].st = "closed"
              /\ conn'[s].ref = conn[s].ref - 1
<1>1. s \in Slots /\ PoolIndex(s) \in Indices
  BY OwnSlots, ConnAssumption, SMT DEF PoolIndex, Indices, Own
<1>0. conn \in [Slots -> ConnType] /\ free \in [Threads -> Seq(Indices)]
  BY DEF TypeOK
<1> DEFINE c == conn[s]
<1>2. c \in ConnType /\ c.gen \in Nat /\ c.ref - 1 \in Int
  BY <1>0, <1>1, SMT DEF ConnType
<1>3. CASE c.ref = 1
  <2> DEFINE w == Wiped(c.gen)
  <2>1. conn' = [conn EXCEPT ![s] = w]
    BY <1>3 DEF Unreference
  <2>2. free' = IF Len(free[t]) < MaxConnections
                THEN [free EXCEPT ![t] = Append(@, PoolIndex(s))]
                ELSE free
    BY <1>3 DEF Unreference
  <2>3. w \in ConnType /\ w.fd = NULL /\ w.st = "pending" /\ w.gen = c.gen /\ w.ref = 0
    BY <1>2, WipedType
  <2>4. free' \in [Threads -> Seq(Indices)]
    BY <1>0, <1>1, <2>2, SMT
  <2> HIDE DEF w
  <2>5. /\ conn' \in [Slots -> ConnType]
        /\ conn'[s] = w
        /\ \A r \in Slots \ {s} : conn'[r] = conn[r]
    BY ONLY Zenon, <1>1, <2>1, <2>3, ConnUpdate, <1>0
  <2> QED BY ONLY Zenon, <1>3, <2>3, <2>4, <2>5
<1>4. CASE c.ref # 1
  <2> DEFINE w == [c EXCEPT !.ref = c.ref - 1, !.st = "closed"]
  <2>1. conn' = [conn EXCEPT ![s] = w] /\ free' = free
    BY <1>4 DEF Unreference
  <2>2. w \in ConnType /\ w.fd = c.fd /\ w.st = "closed" /\ w.gen = c.gen /\ w.ref = c.ref - 1
    BY ONLY Zenon, <1>2, Marks
  <2> HIDE DEF w
  <2>3. /\ conn' \in [Slots -> ConnType]
        /\ conn'[s] = w
        /\ \A r \in Slots \ {s} : conn'[r] = conn[r]
    BY ONLY Zenon, <1>1, <2>1, <2>2, ConnUpdate, <1>0
  <2> QED BY ONLY Zenon, <1>4, <2>1, <2>2, <2>3, <1>0
<1> QED BY <1>3, <1>4

LEMMA MapSet ==
  ASSUME TypeOK, NEW t \in Threads, NEW f \in Fds, NEW s \in Own(t) \union {NULL},
         RegisterFd(t, f, s)
  PROVE  /\ MapOK'
         /\ fdmap'[t][f] = s
         /\ \A g \in Fds \ {f} : fdmap'[t][g] = fdmap[t][g]
         /\ \A u \in Threads \ {t}, g \in Fds : fdmap'[u][g] = fdmap[u][g]
BY OwnSlots DEF TypeOK, MapOK, RegisterFd

LEMMA SocketClosed ==
  ASSUME TypeOK, NEW f \in Fds, CloseFd(f)
  PROVE  /\ sockets' \in [Fds -> {"closed", "accepted", "queued", "served"}]
         /\ sockets'[f] = "closed"
         /\ \A g \in Fds \ {f} : sockets'[g] = sockets[g]
BY DEF TypeOK, CloseFd

(* Sending and taking a message.                                           *)
LEMMA Sent ==
  ASSUME TypeOK, NEW t \in Threads, NEW m \in MessageType, Send(t, m)
  PROVE  /\ queue' \in [Threads -> Seq(MessageType)]
         /\ Len(queue'[t]) = Len(queue[t]) + 1
         /\ \A k \in 1..Len(queue[t]) : queue'[t][k] = queue[t][k]
         /\ queue'[t][Len(queue[t]) + 1] = m
         /\ \A u \in Threads \ {t} : queue'[u] = queue[u]
BY SMT DEF TypeOK, Send

LEMMA Dequeued ==
  ASSUME TypeOK, NEW t \in Threads, NEW type, Dequeue(t, type)
  PROVE  /\ queue' \in [Threads -> Seq(MessageType)]
         /\ Len(queue[t]) > 0
         /\ Len(queue'[t]) = Len(queue[t]) - 1
         /\ \A k \in 1..Len(queue'[t]) : queue'[t][k] = queue[t][k + 1]
         /\ queue[t][1] = Head(queue[t]) /\ queue[t][1] \in MessageType
         /\ queue[t][1].type = type
         /\ \A u \in Threads \ {t} : queue'[u] = queue[u]
         /\ tpc[t] = "drain"
BY SMT DEF TypeOK, Dequeue

LEMMA Front ==
  ASSUME NEW S, NEW q \in Seq(S), NEW n \in Nat, n <= Len(q)
  PROVE  /\ SubSeq(q, 1, n) \in Seq(S)
         /\ Len(SubSeq(q, 1, n)) = n
         /\ \A k \in 1..n : SubSeq(q, 1, n)[k] = q[k]
<1>1. SubSeq(q, 1, n) \in Seq(S)
  BY SMT
<1>2. Len(SubSeq(q, 1, n)) = n
  BY SMT
<1>3. \A k \in 1..n : SubSeq(q, 1, n)[k] = q[k]
  BY SMT
<1> QED BY <1>1, <1>2, <1>3

(* The top of the free stack.                                              *)
LEMMA Popped ==
  ASSUME TypeOK, NEW t \in Threads, free[t] # <<>>, PopFree(t)
  PROVE  /\ free' \in [Threads -> Seq(Indices)]
         /\ Len(free[t]) \in Nat /\ Len(free[t]) > 0
         /\ Len(free'[t]) = Len(free[t]) - 1
         /\ \A k \in 1..Len(free'[t]) : free'[t][k] = free[t][k]
         /\ \A u \in Threads \ {t} : free'[u] = free[u]
         /\ PoppedSlot(t) \in Own(t)
         /\ PoppedSlot(t) = <<t, free[t][Len(free[t])]>>
         /\ free[t][Len(free[t])] \in Indices
<1> DEFINE q == free[t]
           n == Len(q) - 1
           p == SubSeq(q, 1, n)
<1>1. free' = [free EXCEPT ![t] = p] /\ free \in [Threads -> Seq(Indices)] /\ q \in Seq(Indices)
  BY DEF TypeOK, PopFree
<1>2. Len(q) \in Nat /\ Len(q) > 0 /\ q[Len(q)] \in Indices /\ n \in Nat /\ n <= Len(q)
  BY <1>1, SMT
<1>3. p \in Seq(Indices) /\ Len(p) = n /\ \A k \in 1..n : p[k] = q[k]
  <2> HIDE DEF n
  <2> QED BY ONLY <1>1, <1>2, Front, Zenon
<1> HIDE DEF p
<1>4. /\ free' \in [Threads -> Seq(Indices)]
      /\ free'[t] = p
      /\ \A u \in Threads \ {t} : free'[u] = free[u]
  BY <1>1, <1>3
<1>5. PoppedSlot(t) = <<t, q[Len(q)]>> /\ PoppedSlot(t) \in Own(t)
  BY <1>2 DEF PoppedSlot, Own
<1> QED BY ONLY Zenon, <1>2, <1>3, <1>4, <1>5

(* A reference more or less.                                               *)
LEMMA Rereferenced ==
  ASSUME TypeOK, NEW s \in Slots, NEW n \in Int,
         conn' = [conn EXCEPT ![s].ref = n]
  PROVE  /\ conn' \in [Slots -> ConnType]
         /\ conn'[s].ref = n
         /\ \A r \in Slots : /\ conn'[r].fd = conn[r].fd
                             /\ conn'[r].st = conn[r].st
                             /\ conn'[r].gen = conn[r].gen
         /\ \A r \in Slots \ {s} : conn'[r].ref = conn[r].ref
<1> DEFINE c == conn[s]
           w == [c EXCEPT !.ref = n]
<1>1. c \in ConnType /\ conn \in [Slots -> ConnType]
  BY DEF TypeOK
<1>2. conn' = [conn EXCEPT ![s] = w]
  OBVIOUS
<1>3. w \in ConnType /\ w.fd = c.fd /\ w.st = c.st /\ w.gen = c.gen /\ w.ref = n
  BY ONLY Zenon, <1>1, NewRef
<1> HIDE DEF w
<1>4. /\ conn' \in [Slots -> ConnType]
      /\ conn'[s] = w
      /\ \A r \in Slots \ {s} : conn'[r] = conn[r]
  BY ONLY Zenon, <1>2, <1>3, ConnUpdate, <1>1, s \in Slots
<1> QED BY ONLY Zenon, <1>3, <1>4

(* A connection is marked.                                                 *)
LEMMA Remarked ==
  ASSUME TypeOK, NEW s \in Slots,
         NEW z \in {"pending", "open", "closing", "closed"}, conn' = [conn EXCEPT ![s].st = z]
  PROVE  /\ conn' \in [Slots -> ConnType]
         /\ conn'[s].st = z
         /\ \A r \in Slots : /\ conn'[r].fd = conn[r].fd
                             /\ conn'[r].gen = conn[r].gen
                             /\ conn'[r].ref = conn[r].ref
         /\ \A r \in Slots \ {s} : conn'[r].st = conn[r].st
<1> DEFINE c == conn[s]
           w == [c EXCEPT !.st = z]
<1>1. c \in ConnType /\ conn \in [Slots -> ConnType]
  BY DEF TypeOK
<1>2. conn' = [conn EXCEPT ![s] = w]
  OBVIOUS
<1>3. w \in ConnType /\ w.fd = c.fd /\ w.st = z /\ w.gen = c.gen /\ w.ref = c.ref
  BY ONLY Zenon, <1>1, NewState, z \in {"pending", "open", "closing", "closed"}
<1> HIDE DEF w
<1>4. /\ conn' \in [Slots -> ConnType]
      /\ conn'[s] = w
      /\ \A r \in Slots \ {s} : conn'[r] = conn[r]
  BY ONLY Zenon, <1>2, <1>3, ConnUpdate, <1>1, s \in Slots
<1> QED BY ONLY Zenon, <1>3, <1>4

LEMMA HashedSlot ==
  ASSUME SetFacts, TypeOK, NEW f, Matches(f) # {}
  PROVE  /\ First(f) \in 1..Len(hash) /\ hash[First(f)].fd = f
         /\ hash[First(f)].slot \in Slots
<1>1. First(f) \in 1..Len(hash) /\ hash[First(f)].fd = f
  BY FirstMatches
<1>2. hash[First(f)] \in [fd : Fds, slot : Slots]
  BY <1>1, Element DEF TypeOK
<1> QED BY <1>1, <1>2

LEMMA TaskInHand ==
  ASSUME TypeOK, NEW t \in Threads, tpc[t] \in Working
  PROVE  /\ task[t] \in TaskType(t) /\ task[t].fd \in Fds /\ task[t].slot \in Own(t)
         /\ task[t].slot \in Slots /\ task[t].slot # NULL
         /\ task[t].back \in Resting /\ task[t].back \in {"wait", "events", "drain"}
<1>1. task[t] \in TaskType(t)
  BY DEF TypeOK, TaskOK
<1>2. task[t].fd \in Fds /\ task[t].slot \in Own(t) /\ task[t].back \in {"wait", "events", "drain"}
  BY <1>1 DEF TaskType
<1> QED BY <1>1, <1>2, OwnSlots DEF Resting

(* A new connection gets the popped slot, or the slot is wiped.            *)
LEMMA SlotSet ==
  ASSUME TypeOK, NEW s \in Slots, NEW f \in Fds \union {NULL}, NEW g \in Nat, NEW n \in Int,
         conn' = [conn EXCEPT ![s] = [fd |-> f, st |-> "pending", gen |-> g, ref |-> n]]
  PROVE  /\ conn' \in [Slots -> ConnType]
         /\ conn'[s].fd = f /\ conn'[s].st = "pending" /\ conn'[s].gen = g /\ conn'[s].ref = n
         /\ \A r \in Slots \ {s} : conn'[r] = conn[r]
<1> DEFINE w == [fd |-> f, st |-> "pending", gen |-> g, ref |-> n]
<1>1. w \in ConnType /\ w.fd = f /\ w.st = "pending" /\ w.gen = g /\ w.ref = n
  BY DEF ConnType
<1>2. conn' = [conn EXCEPT ![s] = w]
  OBVIOUS
<1> HIDE DEF w
<1>3. conn' \in [Slots -> ConnType] /\ conn'[s] = w /\ \A r \in Slots \ {s} : conn'[r] = conn[r]
  BY <1>1, <1>2, ConnUpdate DEF TypeOK
<1> QED BY <1>1, <1>3

LEMMA HashInserts ==
  ASSUME TypeOK, NEW f \in Fds, NEW s \in Slots, HashInsert(f, s)
  PROVE  /\ hash' \in Seq([fd : Fds, slot : Slots])
         /\ \/ hash' = hash
            \/ /\ Len(hash') = Len(hash) + 1
               /\ hash'[Len(hash) + 1] = [fd |-> f, slot |-> s]
               /\ \A k \in 1..Len(hash) : hash'[k] = hash[k]
<1> DEFINE e == [fd |-> f, slot |-> s]
<1>1. e \in [fd : Fds, slot : Slots]
  OBVIOUS
<1>2. hash' = Append(hash, e) \/ hash' = hash
  BY DEF HashInsert
<1> HIDE DEF e
<1>3. CASE hash' = hash
  BY <1>3 DEF TypeOK
<1>4. CASE hash' = Append(hash, e)
  <2>1. /\ Append(hash, e) \in Seq([fd : Fds, slot : Slots])
        /\ Len(Append(hash, e)) = Len(hash) + 1
        /\ \A k \in 1..Len(hash) : Append(hash, e)[k] = hash[k]
        /\ Append(hash, e)[Len(hash) + 1] = e
    BY <1>1, SMT DEF TypeOK
  <2> QED BY <1>4, <2>1 DEF e
<1> QED BY <1>2, <1>3, <1>4

(* The acceptor's steps that move a socket.  Its choice of a thread is     *)
(* remembered by nobody else, and counts as no step here.                  *)
Transfer ==
  (\E f \in Fds : Accept(f)) \/ RejectClient \/ (\E t \in Threads : HandOff(t))

Same == UNCHANGED <<conn, free, fdmap, hash, active, sockets, epoll, queue, tpc, batch,
                    budget, task, holding, spc, job, mishaps>>

LEMMA AcceptorSteps == (Acceptor \/ UNCHANGED vars) => (Transfer \/ Same)
<1>1. ASSUME NEW t \in Threads, ChooseThread(t) PROVE Same
  BY <1>1 DEF ChooseThread, Same, threadVars, senderVars
<1>2. ASSUME UNCHANGED vars PROVE Same
  BY <1>2 DEF vars, Same
<1> QED BY <1>1, <1>2 DEF Acceptor, Transfer

LEMMA TypeStep == ASSUME SetFacts, TypeOK, [Next]_vars PROVE TypeOK'
<1>HashRemoveType.
    ASSUME NEW f, hash \in Seq([fd : Fds, slot : Slots]), HashRemove(f)
    PROVE  hash' \in Seq([fd : Fds, slot : Slots])
  BY <1>HashRemoveType, HashRemoves DEF HashRemove
<1>MapSame. MapOK /\ UNCHANGED fdmap => MapOK'
  BY DEF MapOK
<1>TaskSame. TaskOK /\ UNCHANGED <<tpc, task>> => TaskOK'
  BY DEF TaskOK
<1>SenderSame. SenderOK /\ UNCHANGED senderVars => SenderOK'
  BY DEF TypeOK, SenderOK, senderVars
(* A thread goes on, with the same connection in hand or without one.      *)
<1>TaskGoesOn.
    ASSUME NEW t \in Threads, NEW l, Goto(t, l), UNCHANGED task,
           \/ tpc[t] \in Working /\ l \in Working
           \/ tpc[t] \in Resting /\ l \in Resting
    PROVE  TaskOK'
  BY <1>TaskGoesOn DEF TypeOK, TaskOK, Goto, Working, Resting, Mapped, Unmapped
(* A thread takes a connection in hand, or lets go of it.                  *)
<1>TaskTaken.
    ASSUME NEW t \in Threads, NEW l \in Working, NEW y \in TaskType(t),
           Goto(t, l), task' = [task EXCEPT ![t] = y]
    PROVE  TaskOK'
  BY <1>TaskTaken DEF TypeOK, TaskOK, Goto, Working, Resting, Mapped, Unmapped
<1>TaskLeft.
    ASSUME NEW t \in Threads, NEW l \in Resting,
           Goto(t, l), task' = [task EXCEPT ![t] = NoTask]
    PROVE  TaskOK'
  BY <1>TaskLeft DEF TypeOK, TaskOK, Goto, Working, Resting, Mapped, Unmapped
<1>TypeAcceptor. ASSUME Transfer PROVE TypeOK'
  <2> USE <1>TypeAcceptor
  <2>1. ASSUME NEW f \in Fds, Accept(f) PROVE TypeOK'
    BY <2>1, <1>MapSame, <1>TaskSame, <1>SenderSame DEF TypeOK, Accept, threadVars
  <2>2. CASE RejectClient
    BY <2>2, <1>MapSame, <1>TaskSame, <1>SenderSame DEF TypeOK, RejectClient, CloseFd, threadVars
  <2>3. ASSUME NEW t \in Threads, HandOff(t) PROVE TypeOK'
    <3> DEFINE m == [type |-> "new", fd |-> holding, slot |-> NULL, gen |-> 0]
    <3>1. m \in MessageType
      BY <2>3 DEF TypeOK, HandOff, MessageType
    <3>2. queue' \in [Threads -> Seq(MessageType)]
      BY <2>3, <3>1, Sent DEF HandOff
    <3> QED BY <2>3, <3>2, <1>MapSame, <1>TaskSame, <1>SenderSame DEF TypeOK, HandOff, threadVars
  <2> QED BY <2>1, <2>2, <2>3 DEF Transfer
<1>TypeSender. ASSUME NEW x \in Senders, Sender(x) PROVE TypeOK'
  <2> USE <1>TypeSender
  <2>1. ASSUME NEW op \in Ops, NEW f \in Fds, FindAndRef(x, op, f) PROVE TypeOK'
    <3> DEFINE s == hash[First(f)].slot
               j == [op |-> op, fd |-> f, slot |-> s]
    <3>1. s \in Slots
      BY <2>1, HashedSlot DEF FindAndRef
    <3>2. op \in {"data", "close"}
      BY ConnAssumption
    <3>3. conn[s].ref + 1 \in Int
      BY SMTT(30), <3>1, SMT DEF TypeOK, ConnType
    <3>4. conn' = [conn EXCEPT ![s].ref = conn[s].ref + 1]
      BY <2>1 DEF FindAndRef
    <3>5. conn' \in [Slots -> ConnType]
      BY <3>1, <3>3, <3>4, Rereferenced
    <3>6. j \in JobType
      BY <3>1, <3>2 DEF JobType
    <3>7. job' = [job EXCEPT ![x] = j]
      BY <2>1 DEF FindAndRef
    <3> HIDE DEF j
    <3>8. SenderOK'
      BY ZenonT(30), <2>1, <3>6, <3>7 DEF TypeOK, SenderOK, FindAndRef
    <3> QED BY <2>1, <3>5, <3>8, <1>MapSame, <1>TaskSame
        DEF TypeOK, FindAndRef, threadVars, acceptorVars
  <2>2. CASE CheckOpen(x)
    <3>1. SenderOK'
      BY <2>2 DEF TypeOK, SenderOK, CheckOpen
    <3> QED BY <2>2, <3>1, <1>MapSame, <1>TaskSame DEF TypeOK, CheckOpen, threadVars, acceptorVars
  <2>3. CASE Enqueue(x)
    <3> DEFINE s == job[x].slot
               m == [type |-> job[x].op, fd |-> job[x].fd, slot |-> s, gen |-> conn[s].gen]
    <3>1. s \in Slots /\ job[x] \in JobType
      BY <2>3 DEF TypeOK, SenderOK, Enqueue, JobType
    <3>2. ThreadOf(s) \in Threads
      BY <3>1, ConnAssumption, SMT DEF ThreadOf, Slots, Threads
    <3>3. m \in MessageType
      BY <3>1 DEF TypeOK, JobType, MessageType, ConnType
    <3>4. queue' \in [Threads -> Seq(MessageType)]
      BY <2>3, <3>2, <3>3, Sent DEF Enqueue
    <3>5. SenderOK'
      BY <2>3 DEF TypeOK, SenderOK, Enqueue
    <3> QED BY <2>3, <3>4, <3>5, <1>MapSame, <1>TaskSame
        DEF TypeOK, Enqueue, threadVars, acceptorVars
  <2>4. CASE QueueFull(x)
    <3>1. SenderOK'
      BY <2>4 DEF TypeOK, SenderOK, QueueFull
    <3> QED BY <2>4, <3>1, <1>MapSame, <1>TaskSame DEF TypeOK, QueueFull, threadVars, acceptorVars
  <2>5. CASE Unref(x)
    <3> DEFINE s == job[x].slot
    <3>1. s \in Slots
      BY <2>5 DEF TypeOK, SenderOK, Unref, JobType
    <3>2. conn[s].ref - 1 \in Int
      BY <3>1, SMT DEF TypeOK, ConnType
    <3>3. conn' = [conn EXCEPT ![s].ref = conn[s].ref - 1]
      BY <2>5 DEF Unref
    <3>4. conn' \in [Slots -> ConnType]
      BY <3>1, <3>2, <3>3, Rereferenced
    <3>5. SenderOK'
      BY <2>5 DEF TypeOK, SenderOK, Unref
    <3> QED BY <2>5, <3>4, <3>5, <1>MapSame, <1>TaskSame DEF TypeOK, Unref, threadVars, acceptorVars
  <2> QED BY <2>1, <2>2, <2>3, <2>4, <2>5 DEF Sender
<1>TypeResting.
    ASSUME NEW t \in Threads,
           EpollWait(t) \/ EpollTimeout(t) \/ WakeupEvent(t) \/ EventsDone(t) \/ DrainDone(t)
    PROVE  TypeOK'
  <2> USE <1>TypeResting
  <2>1. /\ UNCHANGED <<conn, free, fdmap, hash, active, sockets, queue, task, holding, spc, job>>
        /\ \E l \in Resting : Goto(t, l)
        /\ tpc[t] \in Resting
    BY DEF EpollWait, EpollTimeout, WakeupEvent, EventsDone, DrainDone, acceptorVars,
       senderVars, Resting
  <2>2. TaskOK'
    BY <2>1, <1>TaskGoesOn
  <2> QED BY <2>1, <2>2, <1>MapSame, <1>SenderSame DEF TypeOK, senderVars
<1>TypeClose.
    ASSUME NEW t \in Threads, NEW f \in Fds, NEW back \in {"wait", "events", "drain"},
           tpc[t] \in Resting, CloseConnection(t, f, back)
    PROVE  TypeOK'
  <2> USE <1>TypeClose
  <2>1. sockets' \in [Fds -> {"closed", "accepted", "queued", "served"}]
    BY SocketClosed DEF CloseConnection
  <2>2. MapOK'
    BY MapSet DEF CloseConnection
  <2>3. TaskOK'
    <3>1. CASE fdmap[t][f] = NULL
      <4>1. back \in Resting
        BY DEF Resting
      <4> QED BY <3>1, <4>1, <1>TaskGoesOn DEF CloseConnection
    <3>2. CASE fdmap[t][f] # NULL
      <4> DEFINE y == [fd |-> f, slot |-> fdmap[t][f], back |-> back]
      <4>1. y \in TaskType(t)
        BY <3>2 DEF TypeOK, MapOK, TaskType
      <4>2. Goto(t, "countdown") /\ task' = [task EXCEPT ![t] = y]
        BY <3>2 DEF CloseConnection
      <4>3. "countdown" \in Working
        BY DEF Working, Unmapped
      <4> HIDE DEF y
      <4> QED BY <4>1, <4>2, <4>3, <1>TaskTaken
    <3> QED BY <3>1, <3>2
  <2> QED BY <2>1, <2>2, <2>3, <1>SenderSame DEF TypeOK, CloseConnection, acceptorVars
<1>TypeClosing. ASSUME NEW t \in Threads, Closing(t) PROVE TypeOK'
  <2> USE <1>TypeClosing
  <2>1. CASE CountDown(t)
    <3>1. TaskOK'
      BY <2>1, <1>TaskGoesOn DEF CountDown, Working, Unmapped
    <3>2. active' \in [Threads -> Int]
      BY <2>1, SMT DEF TypeOK, CountDown
    <3> QED BY <2>1, <3>1, <3>2, <1>MapSame, <1>SenderSame DEF TypeOK, CountDown, acceptorVars
  <2>2. CASE Unhash(t)
    <3>1. TaskOK'
      BY <2>2, <1>TaskGoesOn DEF Unhash, Working, Unmapped
    <3>2. hash' \in Seq([fd : Fds, slot : Slots])
      BY <2>2, <1>HashRemoveType DEF TypeOK, Unhash
    <3> QED BY <2>2, <3>1, <3>2, <1>MapSame, <1>SenderSame DEF TypeOK, Unhash, acceptorVars
  <2>3. CASE Release(t)
    <3>1. task[t].slot \in Own(t) /\ task[t].back \in Resting
      BY <2>3, TaskInHand DEF Release, Working, Unmapped
    <3>2. TaskOK'
      BY <2>3, <3>1, <1>TaskLeft DEF Release
    <3>3. conn' \in [Slots -> ConnType] /\ free' \in [Threads -> Seq(Indices)]
      BY <2>3, <3>1, Unreferences DEF Release
    <3> QED BY <2>3, <3>2, <3>3, <1>MapSame, <1>SenderSame DEF TypeOK, Release, acceptorVars
  <2> QED BY <2>1, <2>2, <2>3 DEF Closing
(* An event leaves its connection alone, or finds it open.                 *)
<1>TypeEvent. ASSUME NEW t \in Threads, Event(t) PROVE TypeOK'
  <2> USE <1>TypeEvent
  <2>1. ASSUME NEW f \in Fds, EventCloses(t, f) PROVE TypeOK'
    BY <2>1, <1>TypeClose DEF EventCloses, Resting
  <2>2. ASSUME NEW f \in Fds, EventHandled(t, f) PROVE TypeOK'
    <3>1. conn' \in [Slots -> ConnType]
      <4> DEFINE s == fdmap[t][f]
      <4>1. CASE UNCHANGED conn
        BY <4>1 DEF TypeOK
      <4>2. CASE s # NULL /\ conn' = [conn EXCEPT ![s].st = "open"]
        <5>1. s \in Slots
          BY <4>2, OwnSlots DEF TypeOK, MapOK
        <5> QED BY <4>2, <5>1, Remarked
      <4> QED BY <2>2, <4>1, <4>2 DEF EventHandled
    <3>2. TaskOK' /\ MapOK' /\ SenderOK'
      BY <2>2, <1>TaskSame, <1>MapSame, <1>SenderSame DEF TypeOK, EventHandled
    <3> QED BY <2>2, <3>1, <3>2 DEF TypeOK, EventHandled, acceptorVars
  <2> QED BY <2>1, <2>2, <1>TypeResting DEF Event
<1>TypeReap.
    ASSUME NEW t \in Threads, NEW i \in Indices, ReapConnection(t, <<t, i>>)
    PROVE  TypeOK'
  <2> USE <1>TypeReap
  <2>1. <<t, i>> \in Slots
    BY DEF Slots
  <2>2. conn[<<t, i>>].fd \in Fds
    BY <2>1 DEF TypeOK, ReapConnection, ConnType
  <2> QED BY <2>2, <1>TypeClose DEF ReapConnection, Resting
<1>TypeMessage. ASSUME NEW t \in Threads, Message(t) PROVE TypeOK'
  <2> USE <1>TypeMessage
  <2>1. CASE NoFreeSlot(t)
    <3>1. queue' \in [Threads -> Seq(MessageType)] /\ Head(queue[t]) \in MessageType
      BY <2>1, Dequeued DEF NoFreeSlot
    <3>2. Head(queue[t]).fd \in Fds
      BY <3>1 DEF MessageType
    <3>3. sockets' \in [Fds -> {"closed", "accepted", "queued", "served"}]
      BY <2>1, <3>2, SocketClosed DEF NoFreeSlot
    <3> QED BY <2>1, <3>1, <3>3, <1>MapSame, <1>TaskSame, <1>SenderSame
            DEF TypeOK, NoFreeSlot, acceptorVars
  <2>2. CASE TlsInitFails(t)
    <3>1. queue' \in [Threads -> Seq(MessageType)] /\ Head(queue[t]) \in MessageType
      BY <2>2, Dequeued DEF TlsInitFails
    <3>2. Head(queue[t]).fd \in Fds
      BY <3>1 DEF MessageType
    <3>3. sockets' \in [Fds -> {"closed", "accepted", "queued", "served"}]
      BY <2>2, <3>2, SocketClosed DEF TlsInitFails
    <3> DEFINE s == PoppedSlot(t)
    <3>4. free' \in [Threads -> Seq(Indices)] /\ s \in Own(t)
      BY <2>2, Popped DEF TlsInitFails
    <3>5. s \in Slots /\ NULL \in Fds \union {NULL} /\ 0 \in Int
      BY <3>4, OwnSlots, SMT
    <3>6. conn[s].gen + 1 \in Nat
      BY <3>5, SMT DEF TypeOK, ConnType
    <3>7. conn' = [conn EXCEPT ![s] = [fd |-> NULL, st |-> "pending", gen |-> conn[s].gen + 1, ref |-> 0]]
      BY <2>2 DEF TlsInitFails, Wiped
    <3>8. conn' \in [Slots -> ConnType]
      BY <3>5, <3>6, <3>7, SlotSet
    <3> QED BY <2>2, <3>1, <3>3, <3>4, <3>8, <1>MapSame, <1>TaskSame, <1>SenderSame
            DEF TypeOK, TlsInitFails, acceptorVars
  <2>3. CASE RegisterConnection(t)
    <3> DEFINE f == Head(queue[t]).fd
               s == PoppedSlot(t)
               y == [fd |-> f, slot |-> s, back |-> "drain"]
    <3>1. queue' \in [Threads -> Seq(MessageType)] /\ Head(queue[t]) \in MessageType
      BY <2>3, Dequeued DEF RegisterConnection
    <3>2. f \in Fds
      BY <3>1 DEF MessageType
    <3>3. free' \in [Threads -> Seq(Indices)] /\ s \in Own(t)
      BY <2>3, Popped DEF RegisterConnection
    <3>4. s \in Slots /\ 1 \in Int
      BY <3>3, OwnSlots, SMT
    <3>5. conn[s].gen + 1 \in Nat
      BY <3>4, SMT DEF TypeOK, ConnType
    <3>6. conn' = [conn EXCEPT ![s] = [fd |-> f, st |-> "pending", gen |-> conn[s].gen + 1, ref |-> 1]]
      BY <2>3 DEF RegisterConnection
    <3>7. conn' \in [Slots -> ConnType]
      BY <3>2, <3>4, <3>5, <3>6, SlotSet
    <3>8. MapOK'
      BY <2>3, <3>2, <3>3, MapSet DEF RegisterConnection
    <3>9. hash' \in Seq([fd : Fds, slot : Slots])
      BY <2>3, <3>2, <3>4, HashInserts DEF RegisterConnection
    <3>10. y \in TaskType(t)
      BY <3>2, <3>3 DEF TaskType
    <3>11. Goto(t, "adding") /\ task' = [task EXCEPT ![t] = y]
      BY <2>3 DEF RegisterConnection
    <3>12. TaskOK'
      <4>1. "adding" \in Working
        BY DEF Working, Mapped
      <4> HIDE DEF y
      <4> QED BY <3>10, <3>11, <4>1, <1>TaskTaken
    <3> QED BY <2>3, <3>1, <3>3, <3>7, <3>8, <3>9, <3>12, <1>SenderSame
            DEF TypeOK, RegisterConnection, acceptorVars
  <2>4. CASE AddToEpoll(t)
    <3>1. task[t].fd \in Fds
      BY <2>4, TaskInHand DEF AddToEpoll, Working, Mapped
    <3>2. sockets' \in [Fds -> {"closed", "accepted", "queued", "served"}]
      BY <2>4, <3>1 DEF TypeOK, AddToEpoll
    <3>3. active' \in [Threads -> Int]
      BY <2>4, SMT DEF TypeOK, AddToEpoll
    <3>4. TaskOK'
      BY <2>4, <1>TaskLeft DEF AddToEpoll, Resting
    <3> QED BY <2>4, <3>2, <3>3, <3>4, <1>MapSame, <1>SenderSame
        DEF TypeOK, AddToEpoll, acceptorVars
  <2>5. CASE AddToEpollFails(t)
    <3> DEFINE s == task[t].slot
    <3>1. task[t].fd \in Fds /\ s \in Slots /\ NULL \in Fds \union {NULL} /\ 0 \in Int
      BY <2>5, TaskInHand, SMT DEF AddToEpollFails, Working, Mapped
    <3>2. sockets' \in [Fds -> {"closed", "accepted", "queued", "served"}]
      BY <2>5, <3>1, SocketClosed DEF AddToEpollFails
    <3>3. conn' = [conn EXCEPT ![s] = [fd |-> NULL, st |-> "pending", gen |-> conn[s].gen, ref |-> 0]]
      BY <2>5 DEF AddToEpollFails, Wiped
    <3>4. conn[s].gen \in Nat
      BY <3>1 DEF TypeOK, ConnType
    <3>5. conn' \in [Slots -> ConnType]
      BY <3>1, <3>3, <3>4, SlotSet
    <3>6. TaskOK'
      BY <2>5, <1>TaskLeft DEF AddToEpollFails, Resting
    <3> QED BY <2>5, <3>2, <3>5, <3>6, <1>MapSame, <1>SenderSame
        DEF TypeOK, AddToEpollFails, acceptorVars
  <2>6. CASE ProcessData(t)
    <3> DEFINE s == fdmap[t][Head(queue[t]).fd]
    <3>0. Dequeue(t, "data")
      BY <2>6 DEF ProcessData
    <3>1. queue' \in [Threads -> Seq(MessageType)] /\ Head(queue[t]) \in MessageType
      BY <3>0, Dequeued
    <3>2. Head(queue[t]).fd \in Fds
      BY <3>1 DEF MessageType
    <3>3. conn' \in [Slots -> ConnType]
      <4>1. CASE UNCHANGED conn
        BY <4>1 DEF TypeOK
      <4>2. CASE s # NULL /\ conn' = [conn EXCEPT ![s].st = "closing"]
        <5>1. s \in Slots
          BY <3>2, <4>2, OwnSlots DEF TypeOK, MapOK
        <5> QED BY <4>2, <5>1, Remarked
      <4> QED BY <2>6, <4>1, <4>2 DEF ProcessData
    <3> QED BY <2>6, <3>1, <3>3, <1>MapSame, <1>TaskSame, <1>SenderSame
        DEF TypeOK, ProcessData, acceptorVars
  <2>7. CASE ProcessClose(t)
    <3> DEFINE f == Head(queue[t]).fd
               y == [fd |-> f, slot |-> fdmap[t][f], back |-> "drain"]
    <3>1. queue' \in [Threads -> Seq(MessageType)] /\ Head(queue[t]) \in MessageType
      BY ZenonT(30), <2>7, Dequeued DEF ProcessClose
    <3>2. f \in Fds
      BY <3>1 DEF MessageType
    <3>3. CASE fdmap[t][f] = NULL
      BY <2>7, <3>1, <3>3, <1>MapSame, <1>TaskSame, <1>SenderSame
        DEF TypeOK, ProcessClose, acceptorVars
    <3>4. CASE fdmap[t][f] # NULL
      <4>1. y \in TaskType(t)
        BY <3>2, <3>4 DEF TypeOK, MapOK, TaskType
      <4>2. Goto(t, "msgclose") /\ task' = [task EXCEPT ![t] = y] /\ HashRemove(f)
        BY <2>7, <3>4 DEF ProcessClose
      <4>3. TaskOK'
        <5>1. "msgclose" \in Working
          BY DEF Working, Mapped
        <5> HIDE DEF y
        <5> QED BY <4>1, <4>2, <5>1, <1>TaskTaken
      <4>4. hash' \in Seq([fd : Fds, slot : Slots])
        BY <4>2, <1>HashRemoveType DEF TypeOK
      <4> QED BY <2>7, <3>1, <4>3, <4>4, <1>MapSame, <1>SenderSame
          DEF TypeOK, ProcessClose, acceptorVars
    <3> QED BY <3>3, <3>4
  <2>8. CASE MsgCloseFd(t)
    <3>1. task[t].fd \in Fds /\ NULL \in Own(t) \union {NULL}
      BY <2>8, TaskInHand DEF MsgCloseFd, Working, Mapped
    <3>2. sockets' \in [Fds -> {"closed", "accepted", "queued", "served"}]
      BY <2>8, <3>1, SocketClosed DEF MsgCloseFd
    <3>3. MapOK'
      BY <2>8, <3>1, MapSet DEF MsgCloseFd
    <3>4. TaskOK'
      BY <2>8, <1>TaskGoesOn DEF MsgCloseFd, Working, Mapped, Unmapped
    <3> QED BY <2>8, <3>2, <3>3, <3>4, <1>SenderSame DEF TypeOK, MsgCloseFd, acceptorVars
  <2>9. CASE MsgRelease(t)
    <3>1. task[t].slot \in Own(t)
      BY <2>9, TaskInHand DEF MsgRelease, Working, Unmapped
    <3>2. TaskOK'
      BY <2>9, <1>TaskLeft DEF MsgRelease, Resting
    <3>3. conn' \in [Slots -> ConnType] /\ free' \in [Threads -> Seq(Indices)]
      BY <2>9, <3>1, Unreferences DEF MsgRelease
    <3> QED BY <2>9, <3>2, <3>3, <1>MapSame, <1>SenderSame DEF TypeOK, MsgRelease, acceptorVars
  <2>10. CASE MsgCount(t)
    <3>1. TaskOK'
      BY <2>10, <1>TaskGoesOn DEF MsgCount, Resting
    <3>2. active' \in [Threads -> Int]
      BY <2>10, SMT DEF TypeOK, MsgCount
    <3> QED BY <2>10, <3>1, <3>2, <1>MapSame, <1>SenderSame DEF TypeOK, MsgCount, acceptorVars
  <2> QED BY <2>1, <2>2, <2>3, <2>4, <2>5, <2>6, <2>7, <2>8, <2>9, <2>10, <1>TypeResting DEF Message
<1>1. CASE Same
  BY <1>1, <1>MapSame, <1>TaskSame, <1>SenderSame DEF TypeOK, Same, senderVars
<1>2. CASE Acceptor \/ UNCHANGED vars
  BY <1>1, <1>2, <1>TypeAcceptor, AcceptorSteps
<1>3. CASE (\E x \in Senders : Sender(x)) \/ (\E t \in Threads : EventThread(t))
  BY <1>3, <1>TypeSender, <1>TypeResting, <1>TypeEvent, <1>TypeMessage, <1>TypeClosing, <1>TypeReap
    DEF EventThread
<1> QED BY <1>2, <1>3 DEF Next

-----------------------------------------------------------------------------
(* Steps that leave sockets, maps, stacks and counts alone.                *)

Between == {"wait", "events", "drain"}

(* The new-connection messages of a queue are those it had, one place      *)
(* further on if another message was taken.                                *)
SameNews(u, d) ==
  /\ \A k \in 1..Len(queue'[u]) : queue'[u][k].type = "new" =>
       k + d \in 1..Len(queue[u]) /\ queue[u][k + d] = queue'[u][k]
  /\ \A k \in 1..Len(queue[u]) : queue[u][k].type = "new" =>
       k - d \in 1..Len(queue'[u]) /\ queue'[u][k - d] = queue[u][k]

NewsKept == \A u \in Threads : \E d \in {0, 1} : SameNews(u, d)

ConnKept ==
  \A s \in Slots :
    /\ conn'[s].fd = conn[s].fd
    /\ conn'[s].st # "closed" => conn[s].st # "closed"

Quiet ==
  /\ UNCHANGED <<free, fdmap, active, sockets, holding, task>>
  /\ NewsKept
  /\ ConnKept
  /\ \A u \in Threads : tpc'[u] = tpc[u] \/ (tpc[u] \in Between /\ tpc'[u] \in Between)

LEMMA NewsSame == UNCHANGED queue => NewsKept
BY SMT DEF NewsKept, SameNews

LEMMA NewsDequeued ==
  ASSUME TypeOK, NEW t \in Threads, NEW type, type # "new", Dequeue(t, type)
  PROVE  NewsKept
<1>1. /\ Len(queue'[t]) = Len(queue[t]) - 1 /\ Len(queue[t]) \in Nat
      /\ \A k \in 1..Len(queue'[t]) : queue'[t][k] = queue[t][k + 1]
      /\ queue[t][1].type # "new"
      /\ \A u \in Threads \ {t} : queue'[u] = queue[u]
  BY Dequeued, SMT DEF TypeOK
<1>2. SameNews(t, 1)
  <2>1. ASSUME NEW k \in 1..Len(queue[t]), queue[t][k].type = "new"
        PROVE  k - 1 \in 1..Len(queue'[t]) /\ queue'[t][k - 1] = queue[t][k]
    <3>1. k # 1
      BY <1>1, <2>1
    <3> QED BY <1>1, <3>1, SMT
  <2>2. \A k \in 1..Len(queue'[t]) : k + 1 \in 1..Len(queue[t])
    BY <1>1, SMT
  <2> QED BY <1>1, <2>1, <2>2 DEF SameNews
<1>3. \A u \in Threads \ {t} : SameNews(u, 0)
  BY <1>1, SMT DEF SameNews
<1> QED BY <1>2, <1>3 DEF NewsKept

(* The steps, sorted by what they do to the connections.                   *)
Rests(t) ==
  EpollWait(t) \/ EpollTimeout(t) \/ WakeupEvent(t) \/ EventsDone(t) \/ DrainDone(t)

Handles(t) == \E f \in Fds : EventHandled(t, f)

Ignores(t) == ProcessClose(t) /\ fdmap[t][Head(queue[t]).fd] = NULL

LEMMA QuietStep ==
  ASSUME SetFacts, TypeOK,
         \/ \E x \in Senders : Sender(x)
         \/ \E t \in Threads : Rests(t) \/ Handles(t) \/ ProcessData(t) \/ Ignores(t)
  PROVE  Quiet
<1>NewsSent.
    ASSUME NEW t \in Threads, NEW m \in MessageType, m.type # "new", Send(t, m)
    PROVE  NewsKept
  <2> USE <1>NewsSent
  <2>1. /\ Len(queue'[t]) = Len(queue[t]) + 1 /\ Len(queue[t]) \in Nat
        /\ \A k \in 1..Len(queue[t]) : queue'[t][k] = queue[t][k]
        /\ queue'[t][Len(queue[t]) + 1] = m
        /\ \A u \in Threads \ {t} : queue'[u] = queue[u]
    BY Sent, SMT DEF TypeOK
  <2>2. SameNews(t, 0)
    BY SMTT(30), <2>1, SMT DEF SameNews
  <2>3. \A u \in Threads \ {t} : SameNews(u, 0)
    BY <2>1, SMT DEF SameNews
  <2> QED BY <2>2, <2>3 DEF NewsKept
<1>QuietSender. ASSUME NEW x \in Senders, Sender(x) PROVE Quiet
  <2> USE <1>QuietSender
  <2>1. UNCHANGED <<free, fdmap, active, sockets, holding, task, tpc>>
    BY DEF Sender, FindAndRef, CheckOpen, Enqueue, QueueFull, Unref, threadVars, acceptorVars
  <2>2. ConnKept
    <3>1. CASE UNCHANGED conn
      BY <3>1 DEF ConnKept
    <3>2. ASSUME NEW s \in Slots, NEW n \in Int, conn' = [conn EXCEPT ![s].ref = n] PROVE ConnKept
      BY <3>2, Rereferenced DEF ConnKept
    <3>3. ASSUME NEW op \in Ops, NEW f \in Fds, FindAndRef(x, op, f) PROVE ConnKept
      <4>1. hash[First(f)].slot \in Slots
        BY <3>3, HashedSlot DEF FindAndRef
      <4>2. conn[hash[First(f)].slot].ref + 1 \in Int
        BY SMTT(30), <4>1, SMT DEF TypeOK, ConnType
      <4> QED BY <3>2, <3>3, <4>1, <4>2 DEF FindAndRef
    <3>4. CASE Unref(x)
      <4>1. job[x].slot \in Slots
        BY <3>4 DEF TypeOK, SenderOK, Unref, JobType
      <4>2. conn[job[x].slot].ref - 1 \in Int
        BY <4>1, SMT DEF TypeOK, ConnType
      <4> QED BY <3>2, <3>4, <4>1, <4>2 DEF Unref
    <3> QED BY <3>1, <3>3, <3>4 DEF Sender, CheckOpen, Enqueue, QueueFull
  <2>3. NewsKept
    <3>1. CASE UNCHANGED queue
      BY <3>1, NewsSame
    <3>2. CASE Enqueue(x)
      <4> DEFINE s == job[x].slot
                 m == [type |-> job[x].op, fd |-> job[x].fd, slot |-> s, gen |-> conn[s].gen]
      <4>1. s \in Slots /\ job[x] \in JobType
        BY <3>2 DEF TypeOK, SenderOK, Enqueue, JobType
      <4>2. ThreadOf(s) \in Threads
        BY <4>1, ConnAssumption, SMT DEF ThreadOf, Slots, Threads
      <4>3. m \in MessageType /\ m.type # "new"
        BY <4>1 DEF TypeOK, JobType, MessageType, ConnType
      <4>4. Send(ThreadOf(s), m)
        BY <3>2 DEF Enqueue
      <4> HIDE DEF m
      <4> QED BY <4>2, <4>3, <4>4, <1>NewsSent
    <3> QED BY <3>1, <3>2 DEF Sender, FindAndRef, CheckOpen, QueueFull, Unref
  <2> QED BY <2>1, <2>2, <2>3 DEF Quiet
<1>QuietResting.
    ASSUME NEW t \in Threads,
           EpollWait(t) \/ EpollTimeout(t) \/ WakeupEvent(t) \/ EventsDone(t) \/ DrainDone(t)
    PROVE  Quiet
  <2> USE <1>QuietResting
  <2>1. /\ UNCHANGED <<conn, free, fdmap, active, sockets, queue, task, holding>>
        /\ tpc[t] \in Between
        /\ \E l \in Between : Goto(t, l)
    BY DEF EpollWait, EpollTimeout, WakeupEvent, EventsDone, DrainDone, acceptorVars, Between
  <2>2. \A u \in Threads : tpc'[u] = tpc[u] \/ (tpc[u] \in Between /\ tpc'[u] \in Between)
    BY <2>1 DEF TypeOK, TaskOK, Goto
  <2> QED BY <2>1, <2>2, NewsSame DEF Quiet, ConnKept
<1>QuietEvent. ASSUME NEW t \in Threads, NEW f \in Fds, EventHandled(t, f) PROVE Quiet
  <2> USE <1>QuietEvent
  <2> DEFINE s == fdmap[t][f]
  <2>1. CASE UNCHANGED conn
    BY <2>1, NewsSame DEF EventHandled, Quiet, ConnKept, acceptorVars
  <2>2. CASE s # NULL /\ conn[s].st = "pending" /\ conn' = [conn EXCEPT ![s].st = "open"]
    <3>1. s \in Slots
      BY <2>2, OwnSlots DEF TypeOK, MapOK
    <3>2. ConnKept
      BY ZenonT(30), <2>2, <3>1, Remarked DEF ConnKept
    <3> QED BY <3>2, NewsSame DEF EventHandled, Quiet, acceptorVars
  <2> QED BY <2>1, <2>2 DEF EventHandled
<1>QuietData. ASSUME NEW t \in Threads, ProcessData(t) PROVE Quiet
  <2> USE <1>QuietData
  <2> DEFINE s == fdmap[t][Head(queue[t]).fd]
  <2>1. Dequeue(t, "data") /\ UNCHANGED <<free, fdmap, active, sockets, tpc, task, holding>>
    BY DEF ProcessData, acceptorVars
  <2>2. Head(queue[t]) \in MessageType
    BY <2>1, Dequeued
  <2>3. NewsKept
    BY <2>1, NewsDequeued
  <2>4. ConnKept
    <3>1. CASE UNCHANGED conn
      BY <3>1 DEF ConnKept
    <3>2. CASE s # NULL /\ conn[s].st = "open" /\ conn' = [conn EXCEPT ![s].st = "closing"]
      <4>1. Head(queue[t]).fd \in Fds
        BY <2>2 DEF MessageType
      <4>2. s \in Slots
        BY <3>2, <4>1, OwnSlots DEF TypeOK, MapOK
      <4> QED BY <3>2, <4>2, Remarked DEF ConnKept
    <3> QED BY <3>1, <3>2 DEF ProcessData
  <2> QED BY <2>1, <2>3, <2>4 DEF Quiet
<1>QuietClose.
    ASSUME NEW t \in Threads, ProcessClose(t), fdmap[t][Head(queue[t]).fd] = NULL
    PROVE  Quiet
  <2> USE <1>QuietClose
  <2>1. Dequeue(t, "close") /\ UNCHANGED <<conn, free, fdmap, active, sockets, tpc, task, holding>>
    BY DEF ProcessClose, acceptorVars
  <2> QED BY <2>1, NewsDequeued DEF Quiet, ConnKept
<1> QED BY <1>QuietSender, <1>QuietResting, <1>QuietEvent, <1>QuietData, <1>QuietClose
    DEF Rests, Handles, Ignores

LEMMA MapCleared ==
  ASSUME TypeOK, NEW t \in Threads, NEW f \in Fds, RegisterFd(t, f, NULL)
  PROVE  /\ MapOK'
         /\ fdmap'[t][f] = NULL
         /\ \A u \in Threads : \A g \in Fds \ {f} : fdmap'[u][g] = fdmap[u][g]
         /\ \A u \in Threads \ {t} : fdmap'[u][f] = fdmap[u][f]
<1>1. NULL \in Own(t) \union {NULL}
  OBVIOUS
<1>2. /\ MapOK'
      /\ fdmap'[t][f] = NULL
      /\ \A g \in Fds \ {f} : fdmap'[t][g] = fdmap[t][g]
      /\ \A u \in Threads \ {t}, g \in Fds : fdmap'[u][g] = fdmap[u][g]
  BY <1>1, MapSet
<1> QED BY <1>2

AddingSame ==
  \A u \in Threads : \/ tpc'[u] = tpc[u] /\ task'[u] = task[u]
                     \/ tpc[u] # "adding" /\ tpc'[u] # "adding"

Promised(f) ==
  \E t \in Threads :
    \/ \E k \in NewMessages(t) : queue[t][k].fd = f
    \/ tpc[t] = "adding" /\ task[t].fd = f

(* The first message of a queue, a new connection, is taken.               *)
LEMMA NewTaken ==
  ASSUME TypeOK, NEW t \in Threads, Dequeue(t, "new")
  PROVE  /\ Head(queue[t]) = queue[t][1] /\ Head(queue[t]).fd \in Fds
         /\ 1 \in NewMessages(t)
         /\ \A k \in NewMessages(t)' : k + 1 \in NewMessages(t) /\ queue'[t][k] = queue[t][k + 1]
         /\ \A k \in NewMessages(t) \ {1} : k - 1 \in NewMessages(t)' /\ queue'[t][k - 1] = queue[t][k]
         /\ \A u \in Threads \ {t} : queue'[u] = queue[u] /\ UNCHANGED NewMessages(u)
<1>1. /\ Len(queue'[t]) = Len(queue[t]) - 1 /\ Len(queue[t]) \in Nat /\ Len(queue[t]) > 0
      /\ \A k \in 1..Len(queue'[t]) : queue'[t][k] = queue[t][k + 1]
      /\ queue[t][1].type = "new"
      /\ queue[t][1] = Head(queue[t]) /\ queue[t][1] \in MessageType
      /\ \A u \in Threads \ {t} : queue'[u] = queue[u]
  BY Dequeued, SMT DEF TypeOK
<1>2. Head(queue[t]).fd \in Fds
  BY <1>1 DEF MessageType
<1>3. \A k \in NewMessages(t)' : k + 1 \in NewMessages(t) /\ queue'[t][k] = queue[t][k + 1]
  BY <1>1, SMT DEF NewMessages
<1>4. \A k \in NewMessages(t) \ {1} : k - 1 \in NewMessages(t)' /\ queue'[t][k - 1] = queue[t][k]
  BY <1>1, SMT DEF NewMessages
<1>5. 1 \in NewMessages(t)
  BY <1>1, SMT DEF NewMessages
<1>6. \A u \in Threads \ {t} : UNCHANGED NewMessages(u)
  BY <1>1 DEF NewMessages
<1> QED BY <1>1, <1>2, <1>3, <1>4, <1>5, <1>6

(* The other announcements stay in their queues.                           *)
LEMMA OtherNewsKept ==
  ASSUME TypeOK, NEW t \in Threads, Dequeue(t, "new")
  PROVE  \A u \in Threads : \A k \in NewMessages(u) :
           queue[u][k].fd # Head(queue[t]).fd =>
             \E j \in NewMessages(u)' : queue'[u][j].fd = queue[u][k].fd
<1>1. \A k \in NewMessages(t) : queue[t][k].fd # Head(queue[t]).fd =>
        k - 1 \in NewMessages(t)' /\ queue'[t][k - 1] = queue[t][k]
  BY NewTaken
<1>2. \A u \in Threads \ {t} : queue'[u] = queue[u] /\ NewMessages(u)' = NewMessages(u)
  BY NewTaken
<1> QED BY <1>1, <1>2

(* What makes a thread close f: an event, or the reaper.                   *)
Sparked(t, f) ==
  \/ /\ tpc[t] = "events"
     /\ f \in batch[t]
     /\ batch' = [batch EXCEPT ![t] = @ \ {f}]
  \/ /\ tpc[t] = "wait"
     /\ UNCHANGED batch
     /\ \E i \in Indices : conn[<<t, i>>].fd = f /\ conn[<<t, i>>].st \in {"pending", "open"}

Closes(t) ==
  \E f \in Fds, back \in Between :
    tpc[t] \in Between /\ CloseConnection(t, f, back) /\ Sparked(t, f)

Unhashes(t) == Unhash(t) \/ (ProcessClose(t) /\ fdmap[t][Head(queue[t]).fd] # NULL)

TurnsAway(t) == NoFreeSlot(t) \/ TlsInitFails(t)

Counts(t) == CountDown(t) \/ MsgCount(t)

Lets(t) == Release(t) \/ MsgRelease(t)

ThreadStep(t) ==
  \/ Rests(t) \/ Handles(t) \/ ProcessData(t) \/ Ignores(t)
  \/ Closes(t) \/ Counts(t) \/ Unhashes(t) \/ MsgCloseFd(t) \/ Lets(t)
  \/ TurnsAway(t) \/ RegisterConnection(t) \/ AddToEpoll(t) \/ AddToEpollFails(t)

LEMMA Steps ==
  ASSUME TypeOK, [Next]_vars
  PROVE  \/ Same \/ Transfer
         \/ \E x \in Senders : Sender(x)
         \/ \E t \in Threads : ThreadStep(t)
<1>1. ASSUME NEW t \in Threads, EventThread(t) PROVE ThreadStep(t)
  <2>1. ASSUME NEW f \in Fds, EventCloses(t, f) PROVE Closes(t)
    <3>1. /\ tpc[t] \in Between /\ CloseConnection(t, f, "events") /\ "events" \in Between
          /\ Sparked(t, f)
      BY <2>1 DEF EventCloses, Between, Sparked
    <3> QED BY <3>1 DEF Closes
  <2>2. ASSUME NEW i \in Indices, ReapConnection(t, <<t, i>>) PROVE Closes(t)
    <3>1. PICK f : f = conn[<<t, i>>].fd
      OBVIOUS
    <3>2. tpc[t] \in Between /\ CloseConnection(t, f, "wait") /\ "wait" \in Between /\ f # NULL
      BY <2>2, <3>1 DEF ReapConnection, Between
    <3>4. Sparked(t, f)
      BY <2>2, <3>1 DEF ReapConnection, Sparked
    <3>3. f \in Fds
      BY <3>1, <3>2 DEF TypeOK, ConnType, Slots
    <3> QED BY <3>2, <3>3, <3>4 DEF Closes
  <2>3. CASE Event(t)
    BY <2>1, <2>3 DEF Event, ThreadStep, Rests, Handles
  <2>4. CASE Message(t)
    BY <2>4 DEF Message, ThreadStep, Rests, Ignores, Unhashes, TurnsAway, Counts, Lets
  <2>5. CASE Closing(t)
    BY <2>5 DEF Closing, ThreadStep, Unhashes, Counts, Lets
  <2>6. CASE EpollWait(t) \/ EpollTimeout(t)
    BY <2>6 DEF ThreadStep, Rests
  <2> QED BY <1>1, <2>2, <2>3, <2>4, <2>5, <2>6 DEF EventThread, ThreadStep
<1> QED BY <1>1, AcceptorSteps DEF Next

-----------------------------------------------------------------------------
(* No socket leaks.                                                        *)

LEMMA AccountedStep ==
  ASSUME SetFacts, TypeOK, Held, SocketAccounted, [Next]_vars PROVE Held' /\ SocketAccounted'
<1>AccountedIs.
    SocketAccounted <=>
      \A f \in Fds :
        /\ sockets[f] = "accepted" => holding = f
        /\ sockets[f] = "queued" => Promised(f)
        /\ sockets[f] = "served" => \E t \in Threads : fdmap[t][f] # NULL
  BY DEF SocketAccounted, Promised
<1>PromiseKept.
    ASSUME NEW f, Promised(f),
           \A u \in Threads : \A k \in NewMessages(u) :
             queue[u][k].fd = f => \E j \in NewMessages(u)' : queue'[u][j].fd = f,
           \A u \in Threads : tpc[u] = "adding" /\ task[u].fd = f =>
                              tpc'[u] = "adding" /\ task'[u].fd = f
    PROVE  Promised(f)'
  <2> USE <1>PromiseKept
  <2>1. PICK t \in Threads :
          \/ \E k \in NewMessages(t) : queue[t][k].fd = f
          \/ tpc[t] = "adding" /\ task[t].fd = f
    BY DEF Promised
  <2>2. CASE \E k \in NewMessages(t) : queue[t][k].fd = f
    <3>1. \E j \in NewMessages(t)' : queue'[t][j].fd = f
      BY <2>2
    <3> QED BY <3>1 DEF Promised
  <2>3. CASE tpc[t] = "adding" /\ task[t].fd = f
    BY <2>3 DEF Promised
  <2> QED BY <2>1, <2>2, <2>3
<1>AccountedBy.
    ASSUME \A f \in Fds : sockets'[f] = "accepted" => holding' = f,
           \A f \in Fds : sockets'[f] = "queued" => Promised(f)',
           \A f \in Fds : sockets'[f] = "served" => \E t \in Threads : fdmap'[t][f] # NULL
    PROVE  SocketAccounted'
  BY <1>AccountedBy DEF SocketAccounted, Promised
<1>AccountedSame.
    ASSUME UNCHANGED <<sockets, holding, fdmap>>, NewsKept, AddingSame
    PROVE  Held' /\ SocketAccounted'
  <2> USE <1>AccountedSame
  <2>1. Held'
    BY DEF Held, AddingSame
  <2>2. ASSUME NEW t \in Threads, NEW k \in NewMessages(t)
        PROVE  \E j \in NewMessages(t)' : queue'[t][j] = queue[t][k]
    <3>1. PICK d \in {0, 1} : SameNews(t, d)
      BY DEF NewsKept
    <3>2. k - d \in NewMessages(t)' /\ queue'[t][k - d] = queue[t][k]
      BY <3>1 DEF SameNews, NewMessages
    <3> QED BY <3>2
  <2>3. ASSUME NEW f \in Fds, Promised(f) PROVE Promised(f)'
    <3>1. \A u \in Threads : \A k \in NewMessages(u) :
            queue[u][k].fd = f => \E j \in NewMessages(u)' : queue'[u][j].fd = f
      BY ZenonT(30), <2>2
    <3>2. \A u \in Threads : tpc[u] = "adding" /\ task[u].fd = f =>
                               tpc'[u] = "adding" /\ task'[u].fd = f
      BY DEF AddingSame
    <3> QED BY <2>3, <3>1, <3>2, <1>PromiseKept
  <2> QED BY <2>1, <2>3, <1>AccountedIs, <1>AccountedBy
<1>AccountedQuiet. ASSUME Quiet PROVE Held' /\ SocketAccounted'
  <2> USE <1>AccountedQuiet
  <2>1. AddingSame
    BY DEF Quiet, AddingSame, Between
  <2> QED BY <2>1, <1>AccountedSame DEF Quiet
<1>AccountedAcceptor. ASSUME Transfer PROVE Held' /\ SocketAccounted'
  <2> USE <1>AccountedAcceptor
  <2>1. ASSUME NEW f \in Fds, Accept(f) PROVE Held' /\ SocketAccounted'
    <3>1. sockets'[f] = "accepted" /\ \A g \in Fds \ {f} : sockets'[g] = sockets[g]
      BY <2>1 DEF TypeOK, Accept
    <3>2. UNCHANGED <<queue, fdmap, tpc, task>> /\ holding = NULL /\ holding' = f
      BY <2>1 DEF Accept, threadVars
    <3>3. \A g \in Fds : UNCHANGED Promised(g)
      BY <3>2 DEF Promised, NewMessages
    <3>4. \A g \in Fds : sockets[g] # "accepted"
      BY <3>2, <1>AccountedIs, ConnAssumption
    <3> QED BY <3>1, <3>2, <3>3, <3>4, <1>AccountedIs, <1>AccountedBy DEF Held
  <2>2. CASE RejectClient
    <3>1. holding \in Fds
      BY <2>2 DEF TypeOK, RejectClient
    <3>2. sockets'[holding] = "closed" /\ \A g \in Fds \ {holding} : sockets'[g] = sockets[g]
      BY <2>2, <3>1, SocketClosed DEF RejectClient
    <3>3. UNCHANGED <<queue, fdmap, tpc, task>>
      BY <2>2 DEF RejectClient, threadVars
    <3>4. \A g \in Fds : UNCHANGED Promised(g)
      BY <3>3 DEF Promised, NewMessages
    <3>5. \A g \in Fds : sockets'[g] # "accepted"
      BY <3>2, <1>AccountedIs
    <3> QED BY <3>2, <3>3, <3>4, <3>5, <1>AccountedIs, <1>AccountedBy DEF Held
  <2>3. ASSUME NEW t \in Threads, HandOff(t) PROVE Held' /\ SocketAccounted'
    <3> DEFINE m == [type |-> "new", fd |-> holding, slot |-> NULL, gen |-> 0]
    <3>1. m \in MessageType /\ m.type = "new" /\ m.fd = holding /\ holding \in Fds
      BY <2>3 DEF TypeOK, HandOff, MessageType
    <3>2. Send(t, m)
      BY <2>3 DEF HandOff
    <3> HIDE DEF m
    <3>3. /\ Len(queue'[t]) = Len(queue[t]) + 1 /\ Len(queue[t]) \in Nat
          /\ \A k \in 1..Len(queue[t]) : queue'[t][k] = queue[t][k]
          /\ queue'[t][Len(queue[t]) + 1] = m
          /\ \A u \in Threads \ {t} : queue'[u] = queue[u]
      <4>1. Len(queue[t]) \in Nat
        BY SMT DEF TypeOK
      <4> QED BY <3>1, <3>2, <4>1, Sent
    <3>4. /\ sockets'[holding] \in {"closed", "queued"}
          /\ \A g \in Fds \ {holding} : sockets'[g] = sockets[g]
      BY <2>3, <3>1 DEF TypeOK, HandOff
    <3>5. \A u \in Threads : \A k \in NewMessages(u) : k \in NewMessages(u)' /\ queue'[u][k] = queue[u][k]
      BY <3>3, SMT DEF NewMessages
    <3>6. Len(queue[t]) + 1 \in NewMessages(t)' /\ queue'[t][Len(queue[t]) + 1].fd = holding
      BY <3>1, <3>3, SMT DEF NewMessages
    <3>7. UNCHANGED <<fdmap, tpc, task>> /\ holding' = NULL
      BY <2>3 DEF HandOff, threadVars
    <3>8. ASSUME NEW f \in Fds, Promised(f) PROVE Promised(f)'
      <4>1. \A u \in Threads : \A k \in NewMessages(u) :
              queue[u][k].fd = f => \E j \in NewMessages(u)' : queue'[u][j].fd = f
        BY <3>5
      <4> QED BY <3>7, <3>8, <4>1, <1>PromiseKept
    <3>9. ASSUME NEW f \in Fds, f = holding PROVE Promised(f)'
      BY <3>6, <3>9 DEF Promised
    <3>10. \A f \in Fds : sockets'[f] = "queued" => Promised(f)'
      BY <3>4, <3>8, <3>9, <1>AccountedIs
    <3>11. \A f \in Fds : sockets'[f] # "accepted"
      BY <3>4, <1>AccountedIs
    <3> QED BY <3>4, <3>7, <3>10, <3>11, <1>AccountedIs, <1>AccountedBy DEF Held
  <2> QED BY <2>1, <2>2, <2>3 DEF Transfer
(* A socket is closed, and whatever knew it forgets it or not.             *)
<1>AccountedClose.
    ASSUME NEW t \in Threads, NEW f \in Fds,
           CloseFd(f), UNCHANGED holding,
           \A u \in Threads : \A g \in Fds \ {f} : fdmap'[u][g] = fdmap[u][g],
           \A u \in Threads \ {t} : fdmap'[u][f] = fdmap[u][f],
           \A u \in Threads : \/ tpc'[u] = tpc[u] /\ task'[u] = task[u]
                              \/ u = t /\ tpc'[u] # "adding" /\ (tpc[u] = "adding" => task[u].fd = f),
           tpc'[t] # "adding",
           \A u \in Threads : \A k \in NewMessages(u) :
             queue[u][k].fd # f => \E j \in NewMessages(u)' : queue'[u][j].fd = queue[u][k].fd
    PROVE  Held' /\ SocketAccounted'
  <2> USE <1>AccountedClose
  <2>1. sockets'[f] = "closed" /\ \A g \in Fds \ {f} : sockets'[g] = sockets[g]
    BY SocketClosed
  <2>2. Held'
    <3> SUFFICES ASSUME NEW u \in Threads, tpc'[u] = "adding" PROVE fdmap'[u][task'[u].fd] # NULL
      BY DEF Held
    <3>1. u # t /\ tpc[u] = "adding" /\ task'[u] = task[u]
      OBVIOUS
    <3>2. task[u].fd \in Fds
      BY <3>1, TaskInHand DEF Working, Mapped
    <3>3. fdmap[u][task[u].fd] # NULL
      BY <3>1 DEF Held
    <3>4. fdmap'[u][task[u].fd] = fdmap[u][task[u].fd]
      BY ZenonT(30), <3>1, <3>2
    <3> QED BY <3>1, <3>3, <3>4
  <2>3. ASSUME NEW g \in Fds, g # f, Promised(g) PROVE Promised(g)'
    <3>1. \A u \in Threads : \A k \in NewMessages(u) :
            queue[u][k].fd = g => \E j \in NewMessages(u)' : queue'[u][j].fd = g
      BY <2>3, SMT
    <3>2. \A u \in Threads : tpc[u] = "adding" /\ task[u].fd = g =>
                             tpc'[u] = "adding" /\ task'[u].fd = g
      BY <2>3
    <3> QED BY <2>3, <3>1, <3>2, <1>PromiseKept
  <2>4. \A g \in Fds : sockets'[g] = "served" => \E u \in Threads : fdmap'[u][g] # NULL
    BY <2>1, <1>AccountedIs, SMT
  <2>5. \A g \in Fds : sockets'[g] = "queued" => Promised(g)'
    BY <2>1, <2>3, <1>AccountedIs
  <2>6. \A g \in Fds : sockets'[g] = "accepted" => holding' = g
    BY <2>1, <1>AccountedIs
  <2> QED BY <2>2, <2>4, <2>5, <2>6, <1>AccountedBy
<1>AccountedCloses.
    ASSUME NEW t \in Threads, NEW f \in Fds,
           NEW back \in {"wait", "events", "drain"},
           tpc[t] \in Resting, CloseConnection(t, f, back)
    PROVE  Held' /\ SocketAccounted'
  <2> USE <1>AccountedCloses
  <2>1. /\ \A u \in Threads : \A g \in Fds \ {f} : fdmap'[u][g] = fdmap[u][g]
        /\ \A u \in Threads \ {t} : fdmap'[u][f] = fdmap[u][f]
    BY MapCleared DEF CloseConnection
  <2>2. /\ \A u \in Threads \ {t} : tpc'[u] = tpc[u] /\ task'[u] = task[u]
        /\ tpc'[t] # "adding" /\ tpc[t] # "adding"
    BY DEF TypeOK, TaskOK, CloseConnection, Goto, Resting
  <2>3. CloseFd(f) /\ UNCHANGED <<queue, holding>>
    BY DEF CloseConnection, acceptorVars
  <2>4. \A u \in Threads : UNCHANGED NewMessages(u)
    BY <2>3 DEF NewMessages
  <2> QED BY <2>1, <2>2, <2>3, <2>4, <1>AccountedClose
<1>AccountedTurnedAway.
    ASSUME NEW t \in Threads, NoFreeSlot(t) \/ TlsInitFails(t)
    PROVE  Held' /\ SocketAccounted'
  <2> USE <1>AccountedTurnedAway
  <2> DEFINE f == Head(queue[t]).fd
  <2>1. /\ Dequeue(t, "new") /\ CloseFd(f) /\ tpc[t] = "drain"
        /\ UNCHANGED <<fdmap, tpc, task, holding>>
    BY DEF NoFreeSlot, TlsInitFails, acceptorVars, Dequeue
  <2>2. f \in Fds
    BY <2>1, NewTaken
  <2>3. \A u \in Threads : \A k \in NewMessages(u) :
          queue[u][k].fd # f => \E j \in NewMessages(u)' : queue'[u][j].fd = queue[u][k].fd
    BY ONLY TypeOK, <2>1, OtherNewsKept, Zenon
  <2> HIDE DEF f
  <2> QED BY <2>1, <2>2, <2>3, <1>AccountedClose
<1>AccountedRegister.
    ASSUME NEW t \in Threads, RegisterConnection(t)
    PROVE  Held' /\ SocketAccounted'
  <2> USE <1>AccountedRegister
  <2> DEFINE f == Head(queue[t]).fd
             s == PoppedSlot(t)
             y == [fd |-> f, slot |-> s, back |-> "drain"]
  <2>1. f \in Fds /\ s \in Own(t)
    BY NewTaken, Popped DEF RegisterConnection
  <2>0. s \in Own(t) \union {NULL} /\ s # NULL
    BY <2>1, OwnSlots
  <2>2. /\ fdmap'[t][f] = s
        /\ \A g \in Fds \ {f} : fdmap'[t][g] = fdmap[t][g]
        /\ \A u \in Threads \ {t}, g \in Fds : fdmap'[u][g] = fdmap[u][g]
    BY ZenonT(30), <2>0, <2>1, MapSet DEF RegisterConnection
  <2>3. /\ \A u \in Threads \ {t} : tpc'[u] = tpc[u] /\ task'[u] = task[u]
        /\ tpc'[t] = "adding" /\ task'[t].fd = f /\ tpc[t] = "drain"
    BY DEF TypeOK, TaskOK, RegisterConnection, Goto, Dequeue
  <2>4. \A u \in Threads : \A k \in NewMessages(u) :
          queue[u][k].fd # f => \E j \in NewMessages(u)' : queue'[u][j].fd = queue[u][k].fd
    <3>1. Dequeue(t, "new")
      BY DEF RegisterConnection
    <3> QED BY ONLY TypeOK, <3>1, OtherNewsKept, Zenon
  <2>5. UNCHANGED <<sockets, holding>>
    BY DEF RegisterConnection, acceptorVars
  <2> HIDE DEF f, s
  <2>6. Held'
    <3> SUFFICES ASSUME NEW u \in Threads, tpc'[u] = "adding" PROVE fdmap'[u][task'[u].fd] # NULL
      BY DEF Held
    <3>1. CASE u = t
      BY <2>0, <2>2, <2>3, <3>1
    <3>2. CASE u # t
      <4>1. tpc[u] = "adding" /\ task'[u] = task[u]
        BY <2>3, <3>2
      <4>2. task[u].fd \in Fds
        BY <4>1, TaskInHand DEF Working, Mapped
      <4>3. fdmap[u][task[u].fd] # NULL
        BY <4>1 DEF Held
      <4> QED BY ZenonT(30), <2>2, <3>2, <4>1, <4>2, <4>3
    <3> QED BY <3>1, <3>2
  <2>7. ASSUME NEW g \in Fds, g # f, Promised(g) PROVE Promised(g)'
    <3>1. \A u \in Threads : \A k \in NewMessages(u) :
            queue[u][k].fd = g => \E j \in NewMessages(u)' : queue'[u][j].fd = g
      BY <2>4, <2>7
    <3>2. \A u \in Threads : tpc[u] = "adding" /\ task[u].fd = g =>
                             tpc'[u] = "adding" /\ task'[u].fd = g
      BY <2>3
    <3> QED BY <2>7, <3>1, <3>2, <1>PromiseKept
  <2>8. ASSUME NEW g \in Fds, g = f PROVE Promised(g)'
    BY <2>3, <2>8 DEF Promised
  <2>9. \A g \in Fds : sockets'[g] = "queued" => Promised(g)'
    BY <2>5, <2>7, <2>8, <1>AccountedIs
  <2>10. \A g \in Fds : sockets'[g] = "served" => \E u \in Threads : fdmap'[u][g] # NULL
    BY <2>0, <2>2, <2>5, <1>AccountedIs
  <2> QED BY <2>5, <2>6, <2>9, <2>10, <1>AccountedIs, <1>AccountedBy
<1>AccountedAdd.
    ASSUME NEW t \in Threads, AddToEpoll(t)
    PROVE  Held' /\ SocketAccounted'
  <2> USE <1>AccountedAdd
  <2> DEFINE f == task[t].fd
  <2>1. f \in Fds /\ fdmap[t][f] # NULL /\ tpc[t] = "adding"
    BY TaskInHand DEF Held, AddToEpoll, Working, Mapped
  <2>2. sockets'[f] = "served" /\ \A g \in Fds \ {f} : sockets'[g] = sockets[g]
    BY <2>1 DEF TypeOK, AddToEpoll
  <2>3. /\ \A u \in Threads \ {t} : tpc'[u] = tpc[u] /\ task'[u] = task[u]
        /\ tpc'[t] # "adding"
    BY DEF TypeOK, TaskOK, AddToEpoll, Goto
  <2>4. UNCHANGED <<fdmap, queue, holding>> /\ \A u \in Threads : UNCHANGED NewMessages(u)
    BY DEF AddToEpoll, acceptorVars, NewMessages
  <2>5. Held'
    BY <2>3, <2>4 DEF Held
  <2>6. ASSUME NEW g \in Fds \ {f}, Promised(g) PROVE Promised(g)'
    <3>1. \A u \in Threads : \A k \in NewMessages(u) :
            queue[u][k].fd = g => \E j \in NewMessages(u)' : queue'[u][j].fd = g
      BY <2>4
    <3>2. \A u \in Threads : tpc[u] = "adding" /\ task[u].fd = g =>
                             tpc'[u] = "adding" /\ task'[u].fd = g
      BY <2>3
    <3> QED BY <2>6, <3>1, <3>2, <1>PromiseKept
  <2> QED BY <2>1, <2>2, <2>4, <2>5, <2>6, <1>AccountedIs, <1>AccountedBy
<1>AccountedHand.
    ASSUME NEW t \in Threads, AddToEpollFails(t) \/ MsgCloseFd(t)
    PROVE  Held' /\ SocketAccounted'
  <2> USE <1>AccountedHand
  <2> DEFINE f == task[t].fd
  <2>1. /\ f \in Fds /\ CloseFd(f) /\ UNCHANGED <<queue, holding>>
        /\ \A u \in Threads : UNCHANGED NewMessages(u)
    BY TaskInHand DEF AddToEpollFails, MsgCloseFd, Working, Mapped, acceptorVars, NewMessages
  <2>2. /\ \A u \in Threads : \A g \in Fds \ {f} : fdmap'[u][g] = fdmap[u][g]
        /\ \A u \in Threads \ {t} : fdmap'[u][f] = fdmap[u][f]
    BY <2>1, MapCleared DEF AddToEpollFails, MsgCloseFd
  <2>3. /\ \A u \in Threads \ {t} : tpc'[u] = tpc[u] /\ task'[u] = task[u]
        /\ tpc'[t] # "adding"
    BY DEF TypeOK, TaskOK, AddToEpollFails, MsgCloseFd, Goto
  <2>4. \A u \in Threads :
          \/ tpc'[u] = tpc[u] /\ task'[u] = task[u]
          \/ u = t /\ tpc'[u] # "adding" /\ (tpc[u] = "adding" => task[u].fd = f)
    BY <2>3
  <2>5. \A u \in Threads : \A k \in NewMessages(u) :
          queue[u][k].fd # f => \E j \in NewMessages(u)' : queue'[u][j].fd = queue[u][k].fd
    BY <2>1
  <2> HIDE DEF f
  <2> QED BY <2>1, <2>2, <2>3, <2>4, <2>5, <1>AccountedClose
<1>AccountedOther.
    ASSUME NEW t \in Threads,
           \/ CountDown(t) \/ Unhash(t) \/ Release(t) \/ MsgRelease(t) \/ MsgCount(t)
           \/ ProcessClose(t) /\ fdmap[t][Head(queue[t]).fd] # NULL
    PROVE  Held' /\ SocketAccounted'
  <2> USE <1>AccountedOther
  <2>1. UNCHANGED <<sockets, holding, fdmap>>
    BY DEF CountDown, Unhash, Release, MsgRelease, MsgCount, ProcessClose, acceptorVars
  <2>2. NewsKept
    BY NewsSame, NewsDequeued DEF CountDown, Unhash, Release, MsgRelease, MsgCount, ProcessClose
  <2>3. tpc[t] # "adding" /\ \E l : l # "adding" /\ Goto(t, l)
    <3>1. CASE Release(t)
      BY <3>1, TaskInHand DEF Release, Working, Unmapped, Resting
    <3> QED BY <3>1 DEF CountDown, Unhash, MsgRelease, MsgCount, ProcessClose, Dequeue
  <2>4. \A u \in Threads \ {t} : tpc'[u] = tpc[u] /\ task'[u] = task[u]
    BY DEF TypeOK, TaskOK, CountDown, Unhash, Release, MsgRelease, MsgCount, ProcessClose, Goto
  <2>5. AddingSame
    BY <2>3, <2>4 DEF AddingSame, Goto, TypeOK, TaskOK
  <2> QED BY <2>1, <2>2, <2>5, <1>AccountedSame
<1>1. CASE Same
  BY <1>1, NewsSame, <1>AccountedSame DEF Same, AddingSame
<1>2. ASSUME NEW t \in Threads, ThreadStep(t) PROVE Held' /\ SocketAccounted'
  <2>1. CASE Rests(t) \/ Handles(t) \/ ProcessData(t) \/ Ignores(t)
    BY <2>1, QuietStep, <1>AccountedQuiet
  <2>2. CASE Closes(t)
    BY <2>2, <1>AccountedCloses DEF Closes, Between, Resting
  <2>3. CASE Counts(t) \/ Unhashes(t) \/ Lets(t)
    BY <2>3, <1>AccountedOther DEF Counts, Unhashes, Lets
  <2>4. CASE MsgCloseFd(t) \/ AddToEpollFails(t)
    BY <2>4, <1>AccountedHand
  <2>5. CASE TurnsAway(t)
    BY <2>5, <1>AccountedTurnedAway DEF TurnsAway
  <2>6. CASE RegisterConnection(t) \/ AddToEpoll(t)
    BY <2>6, <1>AccountedRegister, <1>AccountedAdd
  <2> QED BY <1>2, <2>1, <2>2, <2>3, <2>4, <2>5, <2>6 DEF ThreadStep
<1>3. ASSUME NEW x \in Senders, Sender(x) PROVE Held' /\ SocketAccounted'
  BY <1>3, QuietStep, <1>AccountedQuiet
<1> QED BY <1>1, <1>2, <1>3, Steps, <1>AccountedAcceptor

-----------------------------------------------------------------------------
(* Sockets, maps, stacks and counts while nothing was stolen.              *)

LEMMA CardLess ==
  ASSUME SetFacts, NEW S, IsFiniteSet(S), NEW x, x \in S
  PROVE  /\ IsFiniteSet(S \ {x}) /\ Cardinality(S \ {x}) = Cardinality(S) - 1
         /\ Cardinality(S) \in Nat
BY DEF SetFacts

LEMMA CardMore ==
  ASSUME SetFacts, NEW S, IsFiniteSet(S), NEW x, x \notin S
  PROVE  /\ IsFiniteSet(S \union {x}) /\ Cardinality(S \union {x}) = Cardinality(S) + 1
         /\ Cardinality(S) \in Nat
BY DEF SetFacts

InUseSame == \A s \in Slots : InUse(s)' <=> InUse(s)

(* Every new-connection message there is was there before.                 *)
NewsFrom ==
  \A u \in Threads : \E d \in {0, 1} : \A k \in NewMessages(u)' :
    k + d \in NewMessages(u) /\ queue'[u][k] = queue[u][k + d]

LEMMA ServedFacts ==
  ASSUME Owned, NEW t \in Threads, NEW f \in Fds, fdmap[t][f] # NULL
  PROVE  /\ conn[fdmap[t][f]].fd = f
         /\ tpc[t] = "adding" /\ task[t].fd = f => sockets[f] = "queued"
         /\ ~ (tpc[t] = "adding" /\ task[t].fd = f) => sockets[f] = "served"
         /\ \A u \in Threads \ {t} : fdmap[u][f] = NULL
         /\ \A u \in Threads : \A k \in NewMessages(u) : queue[u][k].fd # f
<1>1. f \in Served(t)
  BY DEF Served
<1>2. \A u \in Threads : \A k \in NewMessages(u) : queue[u][k].fd # f
  BY ZenonT(30) DEF Owned, NewOwns
<1> QED BY ZenonT(30), <1>1, <1>2 DEF Owned, MapOwns

LEMMA TaskInUse ==
  ASSUME TypeOK, NEW u \in Threads, tpc[u] \in Working PROVE InUse(task[u].slot)
BY TaskInHand DEF InUse, HoldsTask, Own

LEMMA MapInUse ==
  ASSUME TypeOK, NEW u \in Threads, NEW f \in Fds, fdmap[u][f] # NULL
  PROVE  InUse(fdmap[u][f]) /\ fdmap[u][f] \in Own(u) /\ fdmap[u][f] \in Slots
<1>1. fdmap[u][f] \in Own(u) /\ fdmap[u][f] \in Slots
  BY OwnSlots DEF TypeOK, MapOK
<1>2. fdmap[u][f][1] = u
  BY <1>1 DEF Own
<1> QED BY <1>1, <1>2 DEF InUse

(* One thread t moves on; the counts of the others stay.                   *)
CountFor(n, p) ==
  n + (IF p \in {"countdown", "msgrelease", "msgcount"} THEN 1 ELSE 0)
    - (IF p = "adding" THEN 1 ELSE 0)

OthersStay(t) ==
  \A u \in Threads \ {t} :
    tpc'[u] = tpc[u] /\ task'[u] = task[u] /\ active'[u] = active[u] /\ fdmap'[u] = fdmap[u]

(* A popped slot was free, and is gone from the stack.                     *)
LEMMA PopsFree ==
  ASSUME TypeOK, StackFree, StackOnce, NEW t \in Threads, free[t] # <<>>, PopFree(t)
  PROVE  /\ ~ InUse(PoppedSlot(t))
         /\ OnStack(t, PoppedSlot(t)[2]) /\ PoppedSlot(t)[2] \in Indices
         /\ StackOnce'
         /\ \A u \in Threads, i \in Indices :
              OnStack(u, i)' <=> OnStack(u, i) /\ <<u, i>> # PoppedSlot(t)
<1> DEFINE n == Len(free[t])
           p == free[t][n]
<1>1. /\ n \in Nat /\ n > 0 /\ Len(free'[t]) = n - 1
      /\ \A k \in 1..Len(free'[t]) : free'[t][k] = free[t][k]
      /\ \A u \in Threads \ {t} : free'[u] = free[u]
      /\ PoppedSlot(t) = <<t, p>> /\ PoppedSlot(t) \in Own(t)
  BY Popped
<1>2. p \in Indices
  BY <1>1, SMT DEF Own
<1>3. OnStack(t, p)
  BY <1>1, SMT DEF OnStack
<1>4. ~ InUse(<<t, p>>)
  BY <1>2, <1>3 DEF StackFree
<1>5. StackOnce'
  <2>1. \A k, j \in 1..Len(free'[t]) : free'[t][k] = free'[t][j] => k = j
    <3>1. \A k \in 1..Len(free'[t]) : k \in 1..n
      BY <1>1, SMT
    <3>2. \A k, j \in 1..n : free[t][k] = free[t][j] => k = j
      BY DEF StackOnce
    <3> QED BY ONLY <1>1, <3>1, <3>2, Zenon
  <2> QED BY <1>1, <2>1 DEF StackOnce
<1>6. ASSUME NEW i \in Indices PROVE OnStack(t, i)' <=> OnStack(t, i) /\ i # p
  <2>1. \A k \in 1..n : free[t][k] = p => k = n
    BY <1>1, SMT DEF StackOnce
  <2> HIDE DEF p
  <2>2. OnStack(t, i)' => OnStack(t, i) /\ i # p
    BY <1>1, <2>1, SMT DEF OnStack
  <2>3. OnStack(t, i) /\ i # p => OnStack(t, i)'
    BY SMTT(30), <1>1, SMT DEF OnStack, p
  <2> QED BY <2>2, <2>3
<1>7. \A u \in Threads, i \in Indices : u # t => (OnStack(u, i)' <=> OnStack(u, i))
  BY <1>1 DEF OnStack
<1> HIDE DEF p, n
<1>8. \A u \in Threads, i \in Indices : <<u, i>> # PoppedSlot(t) <=> u # t \/ i # p
  BY <1>1, SMT
<1>9. PoppedSlot(t)[2] = p
  BY <1>1, SMT
<1>10. ASSUME NEW u \in Threads, NEW i \in Indices
       PROVE  OnStack(u, i)' <=> OnStack(u, i) /\ <<u, i>> # PoppedSlot(t)
  <2>1. CASE u = t
    BY <1>6, <1>8, <2>1
  <2>2. CASE u # t
    BY <1>7, <1>8, <2>2
  <2> QED BY <2>1, <2>2
<1> QED BY <1>1, <1>2, <1>3, <1>4, <1>5, <1>9, <1>10

(* What RegisterConnection does, in the state's own terms.                 *)
Registers(t, f, s) ==
  /\ f = Head(queue[t]).fd /\ s = PoppedSlot(t)
  /\ f \in Fds /\ s \in Own(t) /\ s \in Slots /\ s # NULL
  /\ Dequeue(t, "new") /\ PopFree(t) /\ free[t] # <<>>
  /\ conn'[s].fd = f /\ conn'[s].st = "pending" /\ conn'[s].ref = 1
  /\ conn'[s].gen = conn[s].gen + 1
  /\ \A r \in Slots \ {s} : conn'[r] = conn[r]
  /\ fdmap'[t][f] = s
  /\ \A g \in Fds \ {f} : fdmap'[t][g] = fdmap[t][g]
  /\ \A u \in Threads \ {t} : fdmap'[u] = fdmap[u] /\ tpc'[u] = tpc[u] /\ task'[u] = task[u]
  /\ tpc[t] = "drain" /\ task[t] = NoTask
  /\ tpc'[t] = "adding" /\ task'[t].fd = f /\ task'[t].slot = s
  /\ HashInsert(f, s)
  /\ UNCHANGED <<sockets, active, holding, mishaps, spc, job>>

LEMMA Registered ==
  ASSUME TypeOK, NEW t \in Threads, RegisterConnection(t) PROVE \E f, s : Registers(t, f, s)
<1>0. PICK f, s : f = Head(queue[t]).fd /\ s = PoppedSlot(t)
  OBVIOUS
<1>1. Dequeue(t, "new") /\ PopFree(t) /\ free[t] # <<>>
  BY DEF RegisterConnection
<1>2. f \in Fds /\ s \in Own(t)
  BY <1>0, <1>1, NewTaken, Popped
<1>3. s \in Slots /\ s # NULL /\ 1 \in Int /\ s \in Own(t) \union {NULL}
  BY <1>2, OwnSlots, SMT
<1>4. conn[s].gen + 1 \in Nat
  BY <1>3, SMT DEF TypeOK, ConnType
<1>5. conn' = [conn EXCEPT ![s] = [fd |-> f, st |-> "pending", gen |-> conn[s].gen + 1, ref |-> 1]]
  BY <1>0 DEF RegisterConnection
<1>6. /\ conn'[s].fd = f /\ conn'[s].st = "pending" /\ conn'[s].ref = 1
      /\ conn'[s].gen = conn[s].gen + 1
      /\ \A r \in Slots \ {s} : conn'[r] = conn[r]
  <2>1. f \in Fds \union {NULL}
    BY <1>2
  <2> QED BY ONLY TypeOK, <1>3, <1>4, <1>5, <2>1, SlotSet, Zenon
<1>7. RegisterFd(t, f, s)
  BY <1>0 DEF RegisterConnection
<1>8. fdmap'[t][f] = s /\ \A g \in Fds \ {f} : fdmap'[t][g] = fdmap[t][g]
  <2>1. f \in Fds
    BY <1>2
  <2>2. /\ MapOK'
        /\ fdmap'[t][f] = s
        /\ \A g \in Fds \ {f} : fdmap'[t][g] = fdmap[t][g]
        /\ \A u \in Threads \ {t}, g \in Fds : fdmap'[u][g] = fdmap[u][g]
    BY ONLY ZenonT(30), TypeOK, <1>3, <1>7, <2>1, MapSet
  <2> QED BY Zenon, <2>2
<1>9. \A u \in Threads \ {t} : fdmap'[u] = fdmap[u]
  BY <1>7 DEF RegisterFd, TypeOK, MapOK
<1>10. /\ \A u \in Threads \ {t} : tpc'[u] = tpc[u] /\ task'[u] = task[u]
       /\ tpc[t] = "drain" /\ task[t] = NoTask
       /\ tpc'[t] = "adding" /\ task'[t].fd = f /\ task'[t].slot = s
  BY <1>0 DEF TypeOK, TaskOK, RegisterConnection, Dequeue, Goto, Resting
<1>11. HashInsert(f, s) /\ UNCHANGED <<sockets, active, holding, mishaps, spc, job>>
  BY <1>0 DEF RegisterConnection, acceptorVars, senderVars
<1>12. Registers(t, f, s)
  BY <1>0, <1>1, <1>2, <1>3, <1>6, <1>8, <1>9, <1>10, <1>11 DEF Registers
<1> QED BY <1>12

(* Using the slot s of thread t is all that changes in use.                *)
LEMMA InUseMore ==
  ASSUME TypeOK, NEW t \in Threads, NEW s \in Own(t), NEW f \in Fds,
         fdmap'[t][f] = s, fdmap[t][f] = NULL,
         \A g \in Fds \ {f} : fdmap'[t][g] = fdmap[t][g],
         \A u \in Threads \ {t} : fdmap'[u] = fdmap[u] /\ task'[u] = task[u],
         task[t] = NoTask, task'[t].slot = s
  PROVE  \A r \in Slots : InUse(r)' <=> InUse(r) \/ r = s
<1> SUFFICES ASSUME NEW r \in Slots PROVE InUse(r)' <=> InUse(r) \/ r = s
  OBVIOUS
<1>1. r[1] \in Threads /\ r # NULL /\ s[1] = t
  BY ConnAssumption DEF Slots, Own
<1>2. CASE r[1] # t
  <2>1. fdmap'[r[1]] = fdmap[r[1]] /\ task'[r[1]] = task[r[1]] /\ r # s
    BY <1>1, <1>2
  <2> QED BY <2>1 DEF InUse, HoldsTask
<1>3. CASE r = s
  BY <1>1, <1>3 DEF InUse, HoldsTask
<1>4. CASE r[1] = t /\ r # s
  <2>1. ~ HoldsTask(t, r) /\ ~ HoldsTask(t, r)'
    BY <1>1, <1>4, SMT DEF HoldsTask, NoTask
  <2>2. \A g \in Fds : fdmap'[t][g] = r <=> fdmap[t][g] = r
    BY <1>1, <1>4
  <2> QED BY <1>4, <2>1, <2>2 DEF InUse
<1> QED BY <1>2, <1>3, <1>4

(* What the release of a slot does to stack and use.                       *)
Releases(t, f, s) ==
  /\ f = task[t].fd /\ s = task[t].slot
  /\ f \in Fds /\ s \in Own(t) /\ s \in Slots /\ s = <<t, s[2]>> /\ s[2] \in Indices
  /\ Unreference(t, s)
  /\ \A u \in Threads \ {t} : tpc'[u] = tpc[u] /\ task'[u] = task[u] /\ free'[u] = free[u]
  /\ \/ tpc[t] = "release" /\ tpc'[t] \in Between
     \/ tpc[t] = "msgrelease" /\ tpc'[t] = "msgcount"
  /\ task'[t] = NoTask
  /\ conn[s].fd = f
  /\ \A r \in Slots \ {s} : conn'[r] = conn[r]
  /\ conn'[s].gen = conn[s].gen
  /\ conn[s].ref = 1 => conn'[s].fd = NULL /\ conn'[s].st = "pending" /\ conn'[s].ref = 0
  /\ conn[s].ref # 1 => /\ conn'[s].fd = conn[s].fd
                        /\ conn'[s].st = "closed"
                        /\ conn'[s].ref = conn[s].ref - 1
  /\ \A r \in Slots : InUse(r)' <=> InUse(r) /\ r # s
  /\ InUse(s)
  /\ UNCHANGED <<fdmap, hash, active, sockets, queue, holding, mishaps, spc, job>>

LEMMA Released ==
  ASSUME TypeOK, Owned, NEW t \in Threads, Release(t) \/ MsgRelease(t)
  PROVE  \E f, s : Releases(t, f, s)
<1>0. PICK f, s : f = task[t].fd /\ s = task[t].slot
  OBVIOUS
<1>1. /\ Unreference(t, s) /\ task' = [task EXCEPT ![t] = NoTask]
      /\ UNCHANGED <<fdmap, hash, active, sockets, queue, holding, mishaps, spc, job>>
      /\ tpc[t] \in Unmapped
  BY <1>0 DEF Release, MsgRelease, acceptorVars, senderVars, Unmapped
<1>2. /\ f \in Fds /\ s \in Own(t) /\ s \in Slots /\ task[t].back \in Between /\ InUse(s)
      /\ fdmap[t][f] = NULL /\ conn[s].fd = f
  BY <1>0, <1>1, TaskInHand, TaskInUse DEF Working, Between, Owned, TaskMapped
<1>3. s = <<t, s[2]>> /\ s[1] = t /\ s[2] \in Indices
  BY <1>2, SMT DEF Own
<1>4. /\ \A u \in Threads \ {t} : tpc'[u] = tpc[u] /\ task'[u] = task[u]
      /\ \/ tpc[t] = "release" /\ tpc'[t] \in Between
         \/ tpc[t] = "msgrelease" /\ tpc'[t] = "msgcount"
      /\ task'[t] = NoTask
  BY <1>1, <1>2 DEF TypeOK, TaskOK, Release, MsgRelease, Goto
<1>5. /\ \A r \in Slots \ {s} : conn'[r] = conn[r]
      /\ conn'[s].gen = conn[s].gen
      /\ conn[s].ref = 1 => conn'[s].fd = NULL /\ conn'[s].st = "pending" /\ conn'[s].ref = 0
      /\ conn[s].ref # 1 => /\ conn'[s].fd = conn[s].fd
                            /\ conn'[s].st = "closed"
                            /\ conn'[s].ref = conn[s].ref - 1
  BY <1>1, <1>2, Unreferences
<1>6. \A u \in Threads \ {t} : free'[u] = free[u]
  BY <1>1 DEF Unreference, TypeOK
<1>7. ASSUME NEW r \in Slots PROVE InUse(r)' <=> InUse(r) /\ r # s
  <2>1. r[1] \in Threads /\ r # NULL
    BY ConnAssumption DEF Slots
  <2>2. CASE r[1] # t
    <3>1. task'[r[1]] = task[r[1]] /\ r # s
      BY <1>3, <1>4, <2>1, <2>2
    <3> QED BY <1>1, <3>1 DEF InUse, HoldsTask
  <2>3. CASE r[1] = t
    <3>1. ~ HoldsTask(t, r)'
      BY <1>4, <2>1, SMT DEF HoldsTask, NoTask
    <3>2. HoldsTask(t, r) <=> r = s
      BY <1>0 DEF HoldsTask
    <3>3. \A g \in Fds : fdmap[t][g] # s
      <4> SUFFICES ASSUME NEW g \in Fds, fdmap[t][g] = s PROVE FALSE
        OBVIOUS
      <4>1. fdmap[t][g] # NULL
        BY <1>2, OwnSlots
      <4>2. conn[fdmap[t][g]].fd = g
        BY <4>1, ServedFacts
      <4> QED BY <1>2, <4>1, <4>2
    <3> QED BY <1>1, <2>3, <3>1, <3>2, <3>3 DEF InUse
  <2> QED BY <2>2, <2>3
<1>8. Releases(t, f, s)
  BY <1>0, <1>1, <1>2, <1>3, <1>4, <1>5, <1>6, <1>7 DEF Releases
<1> QED BY <1>8

Pushes(t, s) ==
  /\ conn[s].ref = 1
  /\ Len(free'[t]) = Len(free[t]) + 1
  /\ \A k \in 1..Len(free[t]) : free'[t][k] = free[t][k]
  /\ free'[t][Len(free[t]) + 1] = s[2]

LEMMA Pushed ==
  ASSUME TypeOK, NEW t \in Threads, NEW f, NEW s, Releases(t, f, s)
  PROVE  \/ free'[t] = free[t] /\ (conn[s].ref = 1 => Len(free[t]) >= MaxConnections)
         \/ Pushes(t, s)
<1>1. PoolIndex(s) = s[2]
  BY ConnAssumption DEF Releases, PoolIndex
<1>2. free \in [Threads -> Seq(Indices)] /\ s[2] \in Indices /\ Unreference(t, s)
  BY DEF TypeOK, Releases
<1>3. CASE conn[s].ref = 1 /\ Len(free[t]) < MaxConnections
  <2>1. free' = [free EXCEPT ![t] = Append(free[t], s[2])]
    BY <1>1, <1>2, <1>3 DEF Unreference
  <2> QED BY <1>2, <1>3, <2>1, SMT DEF Pushes
<1>4. CASE conn[s].ref # 1
  BY <1>2, <1>4 DEF Unreference
<1>5. CASE conn[s].ref = 1 /\ ~ (Len(free[t]) < MaxConnections)
  <2>1. free' = free
    BY <1>2, <1>5 DEF Unreference
  <2>2. Len(free[t]) >= MaxConnections
    BY <1>2, <1>5, ConnAssumption, SMT
  <2> QED BY <2>1, <2>2
<1> QED BY <1>3, <1>4, <1>5

LEMMA PushesOn ==
  ASSUME TypeOK, Owned, NEW t \in Threads, NEW f, NEW s, Releases(t, f, s)
  PROVE  /\ StackOnce'
         /\ \A u \in Threads, i \in Indices :
              OnStack(u, i)' <=> OnStack(u, i) \/ (Pushes(t, s) /\ <<u, i>> = s)
<1>1. /\ s = <<t, s[2]>> /\ s[2] \in Indices /\ InUse(s)
      /\ \A u \in Threads \ {t} : free'[u] = free[u]
  BY DEF Releases
<1>2. \A k \in 1..Len(free[t]) : free[t][k] # s[2]
  <2>1. ~ OnStack(t, s[2])
    BY <1>1 DEF Owned, StackFree
  <2> QED BY <2>1 DEF OnStack
<1>3. Len(free[t]) \in Nat
  BY SMT DEF TypeOK
<1>4. \A k, j \in 1..Len(free[t]) : free[t][k] = free[t][j] => k = j
  BY DEF Owned, StackOnce
<1>5. \A k, j \in 1..Len(free'[t]) : free'[t][k] = free'[t][j] => k = j
  <2>1. CASE free'[t] = free[t]
    BY <1>4, <2>1
  <2>2. CASE Pushes(t, s)
    <3>1. \A k \in 1..Len(free'[t]) :
            \/ k \in 1..Len(free[t]) /\ free'[t][k] = free[t][k]
            \/ k = Len(free[t]) + 1 /\ free'[t][k] = s[2]
      BY <1>3, <2>2, SMT DEF Pushes
    <3> QED BY ONLY <1>2, <1>4, <3>1, Zenon
  <2> QED BY <2>1, <2>2, Pushed
<1>6. StackOnce'
  BY <1>1, <1>5 DEF Owned, StackOnce
<1>7. ASSUME NEW u \in Threads, NEW i \in Indices
      PROVE  OnStack(u, i)' <=> OnStack(u, i) \/ (Pushes(t, s) /\ <<u, i>> = s)
  <2>1. <<u, i>> = s <=> u = t /\ i = s[2]
    BY <1>1, SMT
  <2>2. CASE u # t
    BY <1>1, <2>1, <2>2 DEF OnStack
  <2>3. CASE u = t /\ free'[t] = free[t] /\ ~ Pushes(t, s)
    BY <2>3 DEF OnStack
  <2>4. CASE u = t /\ Pushes(t, s)
    BY SMTT(30), <1>3, <2>1, <2>4, SMT DEF OnStack, Pushes
  <2> QED BY <2>2, <2>3, <2>4, Pushed
<1> QED BY <1>6, <1>7

(* Steps after which the same slots are in use.                            *)
Keeps(t) == Closes(t) \/ Counts(t) \/ Unhashes(t) \/ MsgCloseFd(t) \/ AddToEpoll(t)

LEMMA OwnedStep ==
  ASSUME SetFacts, TypeOK, Owned, NoneStolen', [Next]_vars
  PROVE  Owned' /\ \A t \in Threads : Keeps(t) => InUseSame
<1>KeptFrom. NewsKept => NewsFrom
  BY ZenonT(30) DEF NewsKept, SameNews, NewsFrom, NewMessages
<1>OnceFrom. ASSUME NewOnce, NewsFrom PROVE NewOnce'
  <2> USE <1>OnceFrom
  <2> SUFFICES ASSUME NEW t \in Threads, NEW u \in Threads,
                      NEW k \in NewMessages(t)', NEW j \in NewMessages(u)',
                      queue'[t][k].fd = queue'[u][j].fd
               PROVE  t = u /\ k = j
    BY DEF NewOnce
  <2>1. PICK d \in {0, 1} : \A l \in NewMessages(t)' : l + d \in NewMessages(t) /\ queue'[t][l] = queue[t][l + d]
    BY DEF NewsFrom
  <2>2. PICK e \in {0, 1} : \A l \in NewMessages(u)' : l + e \in NewMessages(u) /\ queue'[u][l] = queue[u][l + e]
    BY DEF NewsFrom
  <2>3. k \in Int /\ j \in Int
    BY SMT DEF NewMessages
  <2>4. /\ k + d \in NewMessages(t) /\ j + e \in NewMessages(u)
        /\ queue[t][k + d].fd = queue[u][j + e].fd
    BY <2>1, <2>2
  <2>5. t = u /\ k + d = j + e
    BY <2>4, SMT DEF NewOnce
  <2>6. /\ j + d \in NewMessages(t) /\ j + e \in NewMessages(t)
        /\ queue[t][j + d].fd = queue[t][j + e].fd
    BY <2>1, <2>2, <2>5
  <2>7. j + d = j + e
    BY <2>6, SMT DEF NewOnce
  <2> QED BY <2>3, <2>5, <2>7, SMT
<1>OwnsFrom.
    ASSUME NewOwns, NewsFrom,
           \A u \in Threads : \A k \in NewMessages(u) :
             /\ sockets'[queue[u][k].fd] = sockets[queue[u][k].fd]
             /\ \A v \in Threads : fdmap'[v][queue[u][k].fd] = fdmap[v][queue[u][k].fd]
    PROVE  NewOwns'
  <2> USE <1>OwnsFrom
  <2> SUFFICES ASSUME NEW t \in Threads, NEW k \in NewMessages(t)'
               PROVE  /\ sockets'[queue'[t][k].fd] = "queued"
                      /\ \A u \in Threads : fdmap'[u][queue'[t][k].fd] = NULL
    BY DEF NewOwns
  <2>1. PICK d \in {0, 1} : \A l \in NewMessages(t)' : l + d \in NewMessages(t) /\ queue'[t][l] = queue[t][l + d]
    BY DEF NewsFrom
  <2>2. k + d \in NewMessages(t) /\ queue'[t][k] = queue[t][k + d]
    BY <2>1
  <2> DEFINE f == queue[t][k + d].fd
  <2>3. sockets[f] = "queued" /\ \A u \in Threads : fdmap[u][f] = NULL
    BY <2>2 DEF NewOwns
  <2>4. sockets'[f] = sockets[f] /\ \A u \in Threads : fdmap'[u][f] = fdmap[u][f]
    BY <2>2
  <2>5. queue'[t][k].fd = f
    BY <2>2
  <2> HIDE DEF f
  <2> QED BY <2>3, <2>4, <2>5
<1>NewsFds. ASSUME NEW u \in Threads, NEW k \in NewMessages(u) PROVE queue[u][k].fd \in Fds
  <2>1. queue[u] \in Seq(MessageType) /\ k \in 1..Len(queue[u])
    BY DEF TypeOK, NewMessages
  <2>2. queue[u][k] \in MessageType
    BY <2>1, Element
  <2> QED BY <2>2 DEF MessageType
<1>StackKept.
    ASSUME UNCHANGED free, InUseSame, ConnKept
    PROVE  StackFree' /\ StackOnce' /\ LiveInUse'
  <2> USE <1>StackKept
  <2>1. StackFree'
    <3>1. \A t \in Threads, i \in Indices : <<t, i>> \in Slots /\ (OnStack(t, i)' <=> OnStack(t, i))
      BY DEF Slots, OnStack
    <3> QED BY <3>1 DEF Owned, StackFree, InUseSame
  <2>2. StackOnce'
    BY DEF Owned, StackOnce
  <2>3. LiveInUse'
    BY DEF Owned, LiveInUse, ConnKept, InUseSame
  <2> QED BY <2>1, <2>2, <2>3
(* Nothing is opened, closed, mapped or unmapped.                          *)
<1>OwnedKept.
    ASSUME UNCHANGED <<free, fdmap, sockets, holding>>,
           ConnKept, NewsKept, AddingSame, InUseSame,
           \A u \in Threads : TaskMapped(u)', CountExact'
    PROVE  Owned'
  <2> USE <1>OwnedKept
  <2>1. StackFree' /\ StackOnce' /\ LiveInUse'
    BY <1>StackKept
  <2>2. NewOwns' /\ NewOnce'
    BY <1>KeptFrom, <1>OnceFrom, <1>OwnsFrom DEF Owned
  <2>3. HoldingOwns'
    BY DEF Owned, HoldingOwns
  <2>4. MapOwns'
    <3> SUFFICES ASSUME NEW t \in Threads, NEW f \in Served(t)'
                 PROVE  /\ conn'[fdmap'[t][f]].fd = f
                        /\ sockets'[f] = IF tpc'[t] = "adding" /\ task'[t].fd = f THEN "queued" ELSE "served"
                        /\ \A u \in Threads \ {t} : fdmap'[u][f] = NULL
      BY DEF MapOwns
    <3>1. f \in Served(t) /\ fdmap[t][f] \in Slots
      BY OwnSlots DEF Served, TypeOK, MapOK
    <3>2. /\ conn[fdmap[t][f]].fd = f
          /\ sockets[f] = IF tpc[t] = "adding" /\ task[t].fd = f THEN "queued" ELSE "served"
          /\ \A u \in Threads \ {t} : fdmap[u][f] = NULL
      BY ZenonT(30), <3>1 DEF Owned, MapOwns
    <3> QED BY <3>1, <3>2 DEF AddingSame, ConnKept
  <2> QED BY <2>1, <2>2, <2>3, <2>4 DEF Owned
<1>OwnedQuiet. ASSUME Quiet PROVE Owned'
  <2> USE <1>OwnedQuiet
  <2>1. AddingSame
    BY DEF Quiet, AddingSame, Between
  <2>2. InUseSame
    BY DEF Quiet, InUseSame, InUse, HoldsTask
  <2>3. ASSUME NEW u \in Threads PROVE TaskMapped(u)'
    <3>1. CASE tpc'[u] \notin Mapped /\ tpc'[u] \notin Unmapped
      BY <3>1 DEF TaskMapped
    <3>2. CASE tpc'[u] \in Mapped \/ tpc'[u] \in Unmapped
      <4>1. tpc'[u] = tpc[u] /\ task'[u] = task[u] /\ fdmap'[u] = fdmap[u]
        BY <3>2 DEF Quiet, Between, Mapped, Unmapped
      <4>2. task[u].slot \in Slots
        BY <3>2, <4>1, TaskInHand DEF Working
      <4>3. conn'[task[u].slot].fd = conn[task[u].slot].fd
        BY <4>2 DEF Quiet, ConnKept
      <4> QED BY <4>1, <4>3 DEF TaskMapped, Owned
    <3> QED BY <3>1, <3>2
  <2>4. CountExact'
    <3> SUFFICES ASSUME NEW u \in Threads
                 PROVE  /\ IsFiniteSet(Served(u))'
                        /\ active'[u] = Cardinality(Served(u)')
                             + (IF tpc'[u] \in {"countdown", "msgrelease", "msgcount"} THEN 1 ELSE 0)
                             - (IF tpc'[u] = "adding" THEN 1 ELSE 0)
      BY DEF CountExact
    <3>1. Served(u)' = Served(u) /\ active' = active
      BY DEF Quiet, Served
    <3>2. /\ tpc'[u] \in {"countdown", "msgrelease", "msgcount"} <=> tpc[u] \in {"countdown", "msgrelease", "msgcount"}
          /\ tpc'[u] = "adding" <=> tpc[u] = "adding"
      BY DEF Quiet, Between
    <3> QED BY <3>1, <3>2 DEF Owned, CountExact
  <2> QED BY <2>1, <2>2, <2>3, <2>4, <1>OwnedKept DEF Quiet
(* Nobody has a socket that is closed or still the acceptor's.             *)
<1>NotServed.
    ASSUME NEW f \in Fds, sockets[f] \notin {"queued", "served"}
    PROVE  /\ \A u \in Threads : fdmap[u][f] = NULL
           /\ \A u \in Threads : \A k \in NewMessages(u) : queue[u][k].fd # f
  <2> USE <1>NotServed
  <2>1. ASSUME NEW u \in Threads, fdmap[u][f] # NULL PROVE FALSE
    <3>1. sockets[f] = "queued" \/ sockets[f] = "served"
      BY <2>1, ServedFacts, SMT
    <3> QED BY <3>1
  <2>2. \A u \in Threads : \A k \in NewMessages(u) : queue[u][k].fd # f
    BY DEF Owned, NewOwns
  <2> QED BY <2>1, <2>2
(* Maps and tasks stay; only sockets that nobody serves change, and slots  *)
(* that nobody uses.                                                       *)
<1>OwnedSockets.
    ASSUME UNCHANGED <<fdmap, active, tpc, task>>,
           \A s \in Slots : InUse(s) => conn'[s].fd = conn[s].fd,
           \A u \in Threads : \A g \in Served(u) : sockets'[g] = sockets[g],
           NewOwns', NewOnce', HoldingOwns', StackFree', StackOnce', LiveInUse'
    PROVE  Owned'
  <2> USE <1>OwnedSockets
  <2>1. \A u \in Threads : Served(u)' = Served(u)
    BY DEF Served
  <2>2. CountExact'
    BY <2>1 DEF Owned, CountExact
  <2>3. MapOwns'
    <3> SUFFICES ASSUME NEW t \in Threads, NEW f \in Served(t)'
                 PROVE  /\ conn'[fdmap'[t][f]].fd = f
                        /\ sockets'[f] = IF tpc'[t] = "adding" /\ task'[t].fd = f THEN "queued" ELSE "served"
                        /\ \A u \in Threads \ {t} : fdmap'[u][f] = NULL
      BY DEF MapOwns
    <3>1. f \in Served(t)
      BY <2>1
    <3>2. /\ conn[fdmap[t][f]].fd = f
          /\ sockets[f] = IF tpc[t] = "adding" /\ task[t].fd = f THEN "queued" ELSE "served"
          /\ \A u \in Threads \ {t} : fdmap[u][f] = NULL
      BY ONLY <3>1, Owned DEF Owned, MapOwns
    <3>3. conn'[fdmap[t][f]].fd = conn[fdmap[t][f]].fd /\ sockets'[f] = sockets[f]
      BY <3>1, MapInUse DEF Served
    <3> QED BY <3>2, <3>3
  <2>4. \A u \in Threads : TaskMapped(u)'
    <3> SUFFICES ASSUME NEW u \in Threads PROVE TaskMapped(u)'
      OBVIOUS
    <3>1. tpc[u] \in Unmapped => conn'[task[u].slot].fd = conn[task[u].slot].fd
      BY TaskInUse, TaskInHand DEF Working
    <3> QED BY <3>1 DEF TaskMapped, Owned
  <2> QED BY <2>2, <2>3, <2>4 DEF Owned
<1>OwnedAcceptor. ASSUME Transfer PROVE Owned'
  <2> USE <1>OwnedAcceptor
  <2>1. UNCHANGED <<conn, free, fdmap, active, tpc, task>>
    BY DEF Transfer, Accept, RejectClient, HandOff, threadVars
  <2>2. StackFree' /\ StackOnce' /\ LiveInUse'
    <3>1. InUseSame /\ ConnKept
      BY <2>1 DEF InUseSame, InUse, HoldsTask, ConnKept
    <3> QED BY <2>1, <3>1, <1>StackKept
  <2>3. ASSUME NEW f \in Fds, Accept(f) PROVE Owned'
    <3>1. sockets[f] = "closed" /\ UNCHANGED queue /\ holding' = f
      BY <2>3 DEF Accept
    <3>2. sockets'[f] = "accepted" /\ \A g \in Fds \ {f} : sockets'[g] = sockets[g]
      BY <2>3 DEF TypeOK, Accept
    <3>3. /\ \A u \in Threads : fdmap[u][f] = NULL
          /\ \A u \in Threads : \A k \in NewMessages(u) : queue[u][k].fd # f
      BY <3>1, <1>NotServed
    <3>4. \A u \in Threads : \A g \in Served(u) : sockets'[g] = sockets[g]
      BY <3>2, <3>3 DEF Served
    <3>5. NewOwns' /\ NewOnce'
      BY ZenonT(30), <2>1, <3>1, <3>2, <3>3, <1>NewsFds, NewsSame, <1>KeptFrom, <1>OnceFrom, <1>OwnsFrom
        DEF Owned
    <3> QED BY ZenonT(30), <2>1, <2>2, <3>1, <3>2, <3>4, <3>5, <1>OwnedSockets DEF HoldingOwns
  <2>4. CASE RejectClient
    <3>1. /\ holding \in Fds /\ sockets[holding] = "accepted"
          /\ UNCHANGED queue /\ holding' = NULL /\ CloseFd(holding)
      BY <2>4 DEF RejectClient, TypeOK, Owned, HoldingOwns
    <3>2. sockets'[holding] = "closed" /\ \A g \in Fds \ {holding} : sockets'[g] = sockets[g]
      BY <3>1, SocketClosed
    <3>3. /\ \A u \in Threads : fdmap[u][holding] = NULL
          /\ \A u \in Threads : \A k \in NewMessages(u) : queue[u][k].fd # holding
      BY <3>1, <1>NotServed
    <3>4. \A u \in Threads : \A g \in Served(u) : sockets'[g] = sockets[g]
      BY <3>2, <3>3 DEF Served
    <3>5. NewOwns' /\ NewOnce'
      BY ZenonT(30), <2>1, <3>1, <3>2, <3>3, <1>NewsFds, NewsSame, <1>KeptFrom, <1>OnceFrom, <1>OwnsFrom
        DEF Owned
    <3> QED BY <2>1, <2>2, <3>1, <3>4, <3>5, <1>OwnedSockets DEF HoldingOwns
  <2>5. ASSUME NEW t \in Threads, HandOff(t) PROVE Owned'
    <3> DEFINE m == [type |-> "new", fd |-> holding, slot |-> NULL, gen |-> 0]
               n == Len(queue[t]) + 1
    <3>1. /\ m \in MessageType /\ m.fd = holding /\ holding \in Fds
          /\ sockets[holding] = "accepted" /\ holding' = NULL
      BY <2>5 DEF TypeOK, HandOff, MessageType, Owned, HoldingOwns
    <3>2. Send(t, m)
      BY <2>5 DEF HandOff
    <3> HIDE DEF m
    <3>3. /\ Len(queue'[t]) = Len(queue[t]) + 1
          /\ \A k \in 1..Len(queue[t]) : queue'[t][k] = queue[t][k]
          /\ queue'[t][n] = m
          /\ \A u \in Threads \ {t} : queue'[u] = queue[u]
      BY <3>1, <3>2, Sent
    <3>4. sockets'[holding] = "queued" /\ \A g \in Fds \ {holding} : sockets'[g] = sockets[g]
      BY <2>5, <3>1 DEF TypeOK, HandOff
    <3>5. /\ \A u \in Threads : fdmap[u][holding] = NULL
          /\ \A u \in Threads : \A k \in NewMessages(u) : queue[u][k].fd # holding
      BY <3>1, <1>NotServed
    <3>6. \A u \in Threads : \A k \in NewMessages(u)' :
            \/ k \in NewMessages(u) /\ queue'[u][k] = queue[u][k]
            \/ u = t /\ k = n /\ queue'[u][k].fd = holding
      <4>1. Len(queue[t]) \in Nat
        BY SMT DEF TypeOK
      <4>2. \A k \in NewMessages(t)' :
              \/ k \in NewMessages(t) /\ queue'[t][k] = queue[t][k]
              \/ k = n /\ queue'[t][k].fd = holding
        BY <3>1, <3>3, <4>1, SMT DEF NewMessages
      <4>3. \A u \in Threads \ {t} : UNCHANGED NewMessages(u)
        BY <3>3 DEF NewMessages
      <4> QED BY <3>3, <4>2, <4>3, SMT
    <3>7. NewOwns'
      <4> SUFFICES ASSUME NEW u \in Threads, NEW k \in NewMessages(u)'
                   PROVE  /\ sockets'[queue'[u][k].fd] = "queued"
                          /\ \A v \in Threads : fdmap[v][queue'[u][k].fd] = NULL
        BY <2>1 DEF NewOwns
      <4>1. CASE k \in NewMessages(u) /\ queue'[u][k] = queue[u][k]
        <5> DEFINE f == queue[u][k].fd
        <5>1. sockets[f] = "queued" /\ \A v \in Threads : fdmap[v][f] = NULL
          BY <4>1 DEF Owned, NewOwns
        <5>2. queue'[u][k].fd = f /\ f \in Fds /\ f # holding
          BY <3>5, <4>1, <1>NewsFds
        <5> HIDE DEF f
        <5> QED BY <3>4, <5>1, <5>2
      <4>2. CASE queue'[u][k].fd = holding
        BY <3>4, <3>5, <4>2
      <4> QED BY <3>6, <4>1, <4>2
    <3>8. NewOnce'
      <4> HIDE DEF n
      <4> SUFFICES ASSUME NEW u \in Threads, NEW v \in Threads,
                          NEW k \in NewMessages(u)', NEW j \in NewMessages(v)',
                          queue'[u][k].fd = queue'[v][j].fd
                   PROVE  u = v /\ k = j
        BY DEF NewOnce
      <4>1. CASE k \in NewMessages(u) /\ queue'[u][k] = queue[u][k]
                 /\ j \in NewMessages(v) /\ queue'[v][j] = queue[v][j]
        <5>1. queue[u][k].fd = queue[v][j].fd
          BY <4>1
        <5> QED BY <4>1, <5>1, SMT DEF Owned, NewOnce
      <4> QED BY ZenonT(30), <3>5, <3>6, <4>1
    <3>9. \A u \in Threads : \A g \in Served(u) : sockets'[g] = sockets[g]
      BY <3>4, <3>5 DEF Served
    <3> QED BY ZenonT(30), <2>1, <2>2, <3>1, <3>7, <3>8, <3>9, <1>OwnedSockets DEF HoldingOwns
  <2> QED BY <2>3, <2>4, <2>5 DEF Transfer
<1>CountIs.
    ASSUME NEW t \in Threads
    PROVE  /\ IsFiniteSet(Served(t)) /\ Cardinality(Served(t)) \in Nat
           /\ active[t] = CountFor(Cardinality(Served(t)), tpc[t])
  <2>1. IsFiniteSet(Served(t)) /\ active[t] = CountFor(Cardinality(Served(t)), tpc[t])
    BY DEF Owned, CountExact, CountFor
  <2> QED BY <2>1 DEF SetFacts
<1>CountBy.
    ASSUME NEW t \in Threads, OthersStay(t),
           IsFiniteSet(Served(t)'), active'[t] = CountFor(Cardinality(Served(t)'), tpc'[t])
    PROVE  CountExact'
  <2> USE <1>CountBy
  <2> SUFFICES ASSUME NEW u \in Threads
               PROVE  IsFiniteSet(Served(u)') /\ active'[u] = CountFor(Cardinality(Served(u)'), tpc'[u])
    BY DEF CountExact, CountFor
  <2>1. CASE u # t
    <3>1. Served(u)' = Served(u) /\ active'[u] = active[u] /\ tpc'[u] = tpc[u]
      BY <2>1 DEF OthersStay, Served
    <3> QED BY <3>1, <1>CountIs
  <2> QED BY <2>1
<1>MappedElse.
    ASSUME NEW t \in Threads, OthersStay(t), TaskMapped(t)',
           \A s \in Slots : InUse(s) /\ s \notin Own(t) => conn'[s].fd = conn[s].fd
    PROVE  \A u \in Threads : TaskMapped(u)'
  <2> USE <1>MappedElse
  <2> SUFFICES ASSUME NEW u \in Threads, u # t PROVE TaskMapped(u)'
    OBVIOUS
  <2>1. tpc'[u] = tpc[u] /\ task'[u] = task[u] /\ fdmap'[u] = fdmap[u]
    BY DEF OthersStay
  <2>2. tpc[u] \in Unmapped => conn'[task[u].slot].fd = conn[task[u].slot].fd
    <3> SUFFICES ASSUME tpc[u] \in Unmapped PROVE conn'[task[u].slot].fd = conn[task[u].slot].fd
      OBVIOUS
    <3>1. task[u].slot \in Own(u) /\ task[u].slot \in Slots /\ InUse(task[u].slot)
      BY TaskInHand, TaskInUse DEF Working
    <3>2. task[u].slot \notin Own(t)
      BY <3>1 DEF Own
    <3> QED BY <3>1, <3>2
  <2> QED BY <2>1, <2>2 DEF TaskMapped, Owned
<1>OwnedOther.
    ASSUME NEW t \in Threads,
           \/ CountDown(t) \/ Unhash(t) \/ MsgCount(t)
           \/ ProcessClose(t) /\ fdmap[t][Head(queue[t]).fd] # NULL
    PROVE  Owned' /\ InUseSame
  <2> USE <1>OwnedOther
  <2>1. UNCHANGED <<conn, free, sockets, holding, fdmap>>
    BY DEF CountDown, Unhash, MsgCount, ProcessClose, acceptorVars
  <2>2. NewsKept
    BY NewsSame, NewsDequeued DEF CountDown, Unhash, MsgCount, ProcessClose
  <2>3. OthersStay(t)
    BY DEF TypeOK, TaskOK, OthersStay, CountDown, Unhash, MsgCount, ProcessClose, Goto
  <2>4. tpc[t] # "adding" /\ tpc'[t] # "adding"
    BY DEF TypeOK, TaskOK, CountDown, Unhash, MsgCount, ProcessClose, Dequeue, Goto
  <2>5. AddingSame
    BY <2>3, <2>4 DEF AddingSame, OthersStay
  <2>6. CountExact'
    <3>1. Served(t)' = Served(t)
      BY <2>1 DEF Served
    <3>2. active'[t] = CountFor(Cardinality(Served(t)), tpc'[t])
      <4>1. \/ /\ tpc[t] \in {"countdown", "msgcount"} /\ tpc'[t] \in {"unhash", "drain"}
               /\ active'[t] = active[t] - 1
            \/ /\ tpc[t] \in {"unhash", "drain"} /\ tpc'[t] \in {"release", "msgclose"}
               /\ active'[t] = active[t]
        BY DEF TypeOK, TaskOK, CountDown, Unhash, MsgCount, ProcessClose, Dequeue, Goto
      <4> QED BY <4>1, <1>CountIs, SMT DEF CountFor
    <3> QED BY <2>3, <3>1, <3>2, <1>CountIs, <1>CountBy
  <2>7. CASE ~ ProcessClose(t)
    <3>1. UNCHANGED task
      BY <2>7 DEF CountDown, Unhash, MsgCount
    <3>2. InUseSame
      BY <2>1, <3>1 DEF InUseSame, InUse, HoldsTask
    <3>3. TaskMapped(t)'
      <4>1. tpc'[t] \in Unmapped => tpc[t] \in Unmapped
        BY <2>7 DEF TypeOK, TaskOK, CountDown, Unhash, MsgCount, Goto, Unmapped
      <4>2. tpc'[t] \notin Mapped
        BY <2>7 DEF TypeOK, TaskOK, CountDown, Unhash, MsgCount, Goto, Mapped
      <4> QED BY <2>1, <3>1, <4>1, <4>2 DEF TaskMapped, Owned
    <3>4. \A u \in Threads : TaskMapped(u)'
      BY <2>1, <2>3, <3>3, <1>MappedElse
    <3> QED BY ZenonT(30), <2>1, <2>2, <2>5, <2>6, <3>2, <3>4, <1>OwnedKept DEF ConnKept
  <2>8. CASE ProcessClose(t)
    <3> DEFINE f == Head(queue[t]).fd
               s == fdmap[t][f]
    <3>1. fdmap[t][f] # NULL
      BY <2>8 DEF ProcessClose, CountDown, Unhash, MsgCount, Dequeue
    <3>2. f \in Fds
      <4>1. Head(queue[t]) \in MessageType
        BY ZenonT(30), <2>8, Dequeued DEF ProcessClose
      <4> QED BY <4>1 DEF MessageType
    <3>3. /\ tpc'[t] = "msgclose" /\ task'[t].fd = f /\ task'[t].slot = s
          /\ tpc[t] = "drain" /\ task[t] = NoTask
      <4>1. /\ tpc' = [tpc EXCEPT ![t] = "msgclose"] /\ tpc[t] = "drain"
            /\ task' = [task EXCEPT ![t] = [fd |-> f, slot |-> s, back |-> "drain"]]
        BY ZenonT(30), <2>8, <3>1 DEF ProcessClose, Dequeue, Goto
      <4>2. t \in DOMAIN tpc /\ t \in DOMAIN task /\ task[t] = NoTask
        BY ZenonT(30), <4>1 DEF TypeOK, TaskOK, Resting
      <4> QED BY ZenonT(30), <4>1, <4>2
    <3>4. s \in Own(t) /\ InUse(s)
      BY <3>1, <3>2, MapInUse
    <3> HIDE DEF f
    <3>5. TaskMapped(t)'
      BY ZenonT(30), <2>1, <3>3 DEF TaskMapped, Mapped, Unmapped
    <3>6. \A u \in Threads : TaskMapped(u)'
      BY <2>1, <2>3, <3>5, <1>MappedElse
    <3>7. InUseSame
      <4> SUFFICES ASSUME NEW r \in Slots PROVE InUse(r)' <=> InUse(r)
        BY DEF InUseSame
      <4>1. r[1] \in Threads /\ r # NULL
        BY ConnAssumption DEF Slots
      <4>2. CASE r[1] # t
        BY <2>1, <2>3, <4>1, <4>2 DEF InUse, HoldsTask, OthersStay
      <4>3. CASE r[1] = t
        <5>1. ~ HoldsTask(t, r)
          BY ONLY SMTT(30), <3>3, <4>1 DEF HoldsTask, NoTask
        <5>2. HoldsTask(t, r)' => \E g \in Fds : fdmap[t][g] = r
          BY <3>2, <3>3 DEF HoldsTask
        <5> QED BY ZenonT(30), <2>1, <4>3, <5>1, <5>2 DEF InUse
      <4> QED BY <4>2, <4>3
    <3> QED BY ZenonT(30), <2>1, <2>2, <2>5, <2>6, <3>6, <3>7, <1>OwnedKept DEF ConnKept
  <2> QED BY <2>7, <2>8
(* A served connection leaves the map, and its socket is closed.           *)
<1>OwnedUnmap.
    ASSUME NEW t \in Threads, NEW f \in Fds, NEW s, s = fdmap[t][f], s # NULL,
           CloseFd(f), RegisterFd(t, f, NULL), UNCHANGED <<conn, free, active, queue, holding>>,
           \A u \in Threads \ {t} : tpc'[u] = tpc[u] /\ task'[u] = task[u],
           \/ tpc[t] \in Between /\ task[t] = NoTask
           \/ tpc[t] = "msgclose" /\ task[t].slot = s,
           tpc'[t] \in {"countdown", "msgrelease"}, task'[t].fd = f, task'[t].slot = s
    PROVE  Owned' /\ InUseSame
  <2> USE <1>OwnedUnmap
  <2>1. sockets'[f] = "closed" /\ \A g \in Fds \ {f} : sockets'[g] = sockets[g]
    BY SocketClosed
  <2>2. /\ MapOK' /\ fdmap'[t][f] = NULL
        /\ \A u \in Threads : \A g \in Fds \ {f} : fdmap'[u][g] = fdmap[u][g]
        /\ \A u \in Threads \ {t} : fdmap'[u][f] = fdmap[u][f]
    BY ZenonT(30), MapCleared
  <2>3. \A u \in Threads \ {t} : fdmap'[u] = fdmap[u]
    BY DEF RegisterFd, TypeOK, MapOK
  <2>4. tpc[t] # "adding" /\ tpc'[t] # "adding"
    BY DEF Between
  <2>5. /\ conn[s].fd = f /\ sockets[f] = "served"
        /\ \A u \in Threads \ {t} : fdmap[u][f] = NULL
        /\ \A u \in Threads : \A k \in NewMessages(u) : queue[u][k].fd # f
    BY <2>4, ServedFacts, SMT
  <2>6. OthersStay(t)
    BY <2>3 DEF OthersStay
  <2>7. TaskMapped(t)'
    BY <2>2, <2>5 DEF TaskMapped, Mapped, Unmapped
  <2>8. \A u \in Threads : TaskMapped(u)'
    BY <2>6, <2>7, <1>MappedElse
  <2>9. NewOwns' /\ NewOnce'
    <3>1. NewsFrom
      BY NewsSame, <1>KeptFrom
    <3>2. \A u \in Threads : \A k \in NewMessages(u) :
            /\ sockets'[queue[u][k].fd] = sockets[queue[u][k].fd]
            /\ \A v \in Threads : fdmap'[v][queue[u][k].fd] = fdmap[v][queue[u][k].fd]
      BY <2>1, <2>2, <2>5, <1>NewsFds
    <3> QED BY <3>1, <3>2, <1>OnceFrom, <1>OwnsFrom DEF Owned
  <2>10. HoldingOwns'
    BY <2>1, <2>5 DEF Owned, HoldingOwns, TypeOK
  <2>11. InUseSame
    <3> SUFFICES ASSUME NEW r \in Slots PROVE InUse(r)' <=> InUse(r)
      BY DEF InUseSame
    <3>1. r[1] \in Threads /\ r # NULL
      BY ConnAssumption DEF Slots
    <3>2. CASE r[1] # t
      BY ONLY ZenonT(30), <2>6, <3>1, <3>2 DEF InUse, HoldsTask, OthersStay
    <3>3. CASE r = s
      <4>1. s[1] = t
        BY ZenonT(30), MapInUse DEF Own
      <4> QED BY <3>3, <4>1 DEF InUse, HoldsTask
    <3>4. CASE r[1] = t /\ r # s
      <4>1. ~ HoldsTask(t, r) /\ ~ HoldsTask(t, r)'
        BY <3>1, <3>4, SMT DEF HoldsTask, NoTask
      <4>2. \A g \in Fds : fdmap'[t][g] = r <=> fdmap[t][g] = r
        BY ZenonT(30), <2>2, <3>1, <3>4
      <4> QED BY <3>4, <4>1, <4>2 DEF InUse
    <3> QED BY <3>2, <3>3, <3>4
  <2>12. StackFree' /\ StackOnce' /\ LiveInUse'
    BY <2>11, <1>StackKept DEF ConnKept
  <2>13. MapOwns'
    <3> SUFFICES ASSUME NEW u \in Threads, NEW g \in Served(u)'
                 PROVE  /\ conn'[fdmap'[u][g]].fd = g
                        /\ sockets'[g] = IF tpc'[u] = "adding" /\ task'[u].fd = g THEN "queued" ELSE "served"
                        /\ \A v \in Threads \ {u} : fdmap'[v][g] = NULL
      BY DEF MapOwns
    <3>1. g \in Fds /\ fdmap'[u][g] # NULL
      BY DEF Served
    <3>2. g # f
      BY ONLY ZenonT(30), <2>2, <2>5, <3>1
    <3>3. fdmap'[u][g] = fdmap[u][g] /\ fdmap[u][g] # NULL /\ sockets'[g] = sockets[g]
      BY ZenonT(30), <2>1, <2>2, <3>1, <3>2
    <3>4. /\ conn[fdmap[u][g]].fd = g
          /\ tpc[u] = "adding" /\ task[u].fd = g => sockets[g] = "queued"
          /\ ~ (tpc[u] = "adding" /\ task[u].fd = g) => sockets[g] = "served"
          /\ \A v \in Threads \ {u} : fdmap[v][g] = NULL
      BY ONLY SMTT(30), Owned, <3>1, <3>3, ServedFacts
    <3>5. tpc'[u] = "adding" /\ task'[u].fd = g <=> tpc[u] = "adding" /\ task[u].fd = g
      BY <2>4
    <3> QED BY ZenonT(30), <2>2, <3>1, <3>2, <3>3, <3>4, <3>5
  <2>14. CountExact'
    <3>0. f \in Fds /\ fdmap[t][f] # NULL
      OBVIOUS
    <3>1. Served(t)' = Served(t) \ {f} /\ f \in Served(t)
      BY ONLY ZenonT(30), <2>2, <3>0 DEF Served
    <3>2. IsFiniteSet(Served(t)') /\ Cardinality(Served(t)') = Cardinality(Served(t)) - 1
      <4>1. IsFiniteSet(Served(t))
        BY <1>CountIs
      <4> QED BY ONLY SetFacts, <3>1, <4>1, CardLess, Zenon
    <3>3. active'[t] = CountFor(Cardinality(Served(t)'), tpc'[t])
      <4>1. /\ active'[t] = active[t] /\ tpc'[t] \in {"countdown", "msgrelease"}
            /\ tpc[t] \in {"wait", "events", "drain", "msgclose"}
        BY ZenonT(30) DEF Between
      <4>2. /\ Cardinality(Served(t)) \in Nat
            /\ active[t] = CountFor(Cardinality(Served(t)), tpc[t])
        BY ZenonT(30), <1>CountIs
      <4> QED BY ONLY SMTT(30), <3>2, <4>1, <4>2 DEF CountFor
    <3> QED BY <2>6, <3>2, <3>3, <1>CountBy
  <2> QED BY ZenonT(30), <2>8, <2>9, <2>10, <2>11, <2>12, <2>13, <2>14 DEF Owned
<1>OwnedClose.
    ASSUME NEW t \in Threads, NEW f \in Fds, NEW back \in Between,
           tpc[t] \in Between, CloseConnection(t, f, back)
    PROVE  Owned' /\ InUseSame
  <2> USE <1>OwnedClose
  <2>1. task[t] = NoTask
    BY DEF TypeOK, TaskOK, Between, Resting
  <2>2. CASE fdmap[t][f] = NULL
    <3>1. sockets[f] = "closed"
      <4> SUFFICES ASSUME sockets[f] # "closed" PROVE FALSE
        OBVIOUS
      <4>1. <<"stale", f>> \in mishaps'
        BY <2>2 DEF CloseConnection
      <4> QED BY <4>1 DEF NoneStolen
    <3>2. UNCHANGED sockets
      BY <3>1 DEF TypeOK, CloseConnection, CloseFd
    <3>3. UNCHANGED fdmap
      <4>1. fdmap' = [fdmap EXCEPT ![t] = [fdmap[t] EXCEPT ![f] = NULL]]
        BY DEF CloseConnection, RegisterFd
      <4>2. [fdmap[t] EXCEPT ![f] = NULL] = fdmap[t]
        BY <2>2 DEF TypeOK, MapOK
      <4> QED BY <4>1, <4>2 DEF TypeOK, MapOK
    <3>4. \A u \in Threads : tpc'[u] = tpc[u] \/ (tpc[u] \in Between /\ tpc'[u] \in Between)
      BY <2>2 DEF TypeOK, TaskOK, CloseConnection, Goto
    <3>5. Quiet
      BY <2>2, <3>2, <3>3, <3>4, NewsSame DEF Quiet, CloseConnection, acceptorVars, ConnKept
    <3>6. InUseSame
      BY <3>5 DEF Quiet, InUseSame, InUse, HoldsTask
    <3> QED BY <3>5, <3>6, <1>OwnedQuiet
  <2>3. CASE fdmap[t][f] # NULL
    <3>1. /\ \A u \in Threads \ {t} : tpc'[u] = tpc[u] /\ task'[u] = task[u]
          /\ tpc'[t] = "countdown" /\ task'[t].fd = f /\ task'[t].slot = fdmap[t][f]
      <4>1. /\ tpc' = [tpc EXCEPT ![t] = "countdown"]
            /\ task' = [task EXCEPT ![t] = [fd |-> f, slot |-> fdmap[t][f], back |-> back]]
        BY ZenonT(30), <2>3 DEF CloseConnection, Goto
      <4>2. DOMAIN tpc = Threads /\ DOMAIN task = Threads
        BY ZenonT(30) DEF TypeOK, TaskOK
      <4> QED BY ZenonT(30), <4>1, <4>2
    <3>2. /\ CloseFd(f) /\ RegisterFd(t, f, NULL)
          /\ UNCHANGED <<conn, free, active, queue, holding>>
      BY DEF CloseConnection, acceptorVars
    <3>3. PICK s : s = fdmap[t][f]
      OBVIOUS
    <3> QED BY ZenonT(30), <2>1, <2>3, <3>1, <3>2, <3>3, <1>OwnedUnmap
  <2> QED BY <2>2, <2>3
<1>OwnedMsgClose.
   ASSUME NEW t \in Threads, MsgCloseFd(t)
    PROVE  Owned' /\ InUseSame
  <2> USE <1>OwnedMsgClose
  <2> DEFINE f == task[t].fd
  <2>1. /\ f \in Fds /\ task[t].slot # NULL /\ fdmap[t][f] = task[t].slot
    BY TaskInHand DEF MsgCloseFd, Working, Mapped, Owned, TaskMapped
  <2>2. /\ \A u \in Threads \ {t} : tpc'[u] = tpc[u] /\ task'[u] = task[u]
        /\ tpc'[t] = "msgrelease" /\ task'[t] = task[t] /\ tpc[t] = "msgclose"
    BY DEF TypeOK, TaskOK, MsgCloseFd, Goto
  <2>3. /\ CloseFd(f) /\ RegisterFd(t, f, NULL)
        /\ UNCHANGED <<conn, free, active, queue, holding>>
    BY DEF MsgCloseFd, acceptorVars
  <2>4. task'[t].fd = f
    BY <2>2
  <2> HIDE DEF f
  <2> QED BY <2>1, <2>2, <2>3, <2>4, <1>OwnedUnmap
<1>NewsLeft.
    ASSUME NEW t \in Threads,
           \A k \in NewMessages(t)' : k + 1 \in NewMessages(t) /\ queue'[t][k] = queue[t][k + 1],
           \A u \in Threads \ {t} : queue'[u] = queue[u] /\ UNCHANGED NewMessages(u)
    PROVE  NewsFrom
  <2> USE <1>NewsLeft
  <2> SUFFICES ASSUME NEW u \in Threads
               PROVE  \E d \in {0, 1} : \A k \in NewMessages(u)' :
                        k + d \in NewMessages(u) /\ queue'[u][k] = queue[u][k + d]
    BY DEF NewsFrom
  <2>1. CASE u = t
    BY <2>1
  <2>2. CASE u # t
    <3>1. \A k \in NewMessages(u)' : k + 0 = k
      BY SMTT(30) DEF NewMessages
    <3>2. \A k \in NewMessages(u)' : k + 0 \in NewMessages(u) /\ queue'[u][k] = queue[u][k + 0]
      BY <2>2, <3>1
    <3> QED BY ZenonT(30), <3>2
  <2> QED BY <2>1, <2>2
(* The messages that are left are for other fds.                           *)
<1>NewsOthers.
    ASSUME NEW t \in Threads, Dequeue(t, "new"),
           NEW u \in Threads, NEW k \in NewMessages(u)'
    PROVE  \E g \in Fds : /\ g = queue'[u][k].fd /\ g # Head(queue[t]).fd
                          /\ sockets[g] = "queued" /\ \A v \in Threads : fdmap[v][g] = NULL
  <2> USE <1>NewsOthers
  <2>1. PICK j \in NewMessages(u) : queue'[u][k] = queue[u][j] /\ (u = t => j # 1)
    <3>1. CASE u = t
      <4>1. k + 1 \in NewMessages(u) /\ queue'[u][k] = queue[u][k + 1]
        BY <3>1, NewTaken
      <4>2. k + 1 # 1
        BY SMT DEF NewMessages
      <4> QED BY <4>1, <4>2
    <3>2. CASE u # t
      BY ZenonT(30), <3>2, NewTaken
    <3> QED BY <3>1, <3>2
  <2>2. Head(queue[t]) = queue[t][1] /\ 1 \in NewMessages(t)
    BY NewTaken
  <2>3. queue[u][j].fd # queue[t][1].fd
    BY <2>1, <2>2, SMT DEF Owned, NewOnce
  <2>4. /\ queue[u][j].fd \in Fds /\ sockets[queue[u][j].fd] = "queued"
        /\ \A v \in Threads : fdmap[v][queue[u][j].fd] = NULL
    BY <1>NewsFds DEF Owned, NewOwns
  <2> QED BY <2>1, <2>2, <2>3, <2>4
(* A socket of a new connection is closed; its slot, if it got one, wiped. *)
<1>OwnedTurnedAway.
    ASSUME NEW t \in Threads, NoFreeSlot(t) \/ TlsInitFails(t)
    PROVE  Owned'
  <2> USE <1>OwnedTurnedAway
  <2> DEFINE f == Head(queue[t]).fd
  <2>1. /\ Dequeue(t, "new") /\ CloseFd(f)
        /\ UNCHANGED <<fdmap, active, tpc, task, holding>>
    BY DEF NoFreeSlot, TlsInitFails, acceptorVars
  <2>2. /\ f = queue[t][1].fd /\ f \in Fds /\ 1 \in NewMessages(t)
        /\ \A k \in NewMessages(t)' : k + 1 \in NewMessages(t) /\ queue'[t][k] = queue[t][k + 1]
        /\ \A u \in Threads \ {t} : queue'[u] = queue[u] /\ UNCHANGED NewMessages(u)
    BY <2>1, NewTaken
  <2> HIDE DEF f
  <2>3. sockets'[f] = "closed" /\ \A g \in Fds \ {f} : sockets'[g] = sockets[g]
    BY <2>1, <2>2, SocketClosed
  <2>4. sockets[f] = "queued" /\ \A u \in Threads : fdmap[u][f] = NULL
    BY ZenonT(30), <2>2 DEF Owned, NewOwns
  <2>5. NewOnce'
    BY <2>2, <1>NewsLeft, <1>OnceFrom DEF Owned
  <2>6. NewOwns'
    <3> SUFFICES ASSUME NEW u \in Threads, NEW k \in NewMessages(u)'
                 PROVE  /\ sockets'[queue'[u][k].fd] = "queued"
                        /\ \A v \in Threads : fdmap[v][queue'[u][k].fd] = NULL
      BY <2>1 DEF NewOwns
    <3>1. PICK g \in Fds : /\ g = queue'[u][k].fd /\ g # f
                           /\ sockets[g] = "queued" /\ \A v \in Threads : fdmap[v][g] = NULL
      BY ZenonT(30), <2>1, <2>2, <1>NewsOthers DEF f
    <3> QED BY <2>3, <3>1
  <2>7. HoldingOwns'
    BY <2>1, <2>3, <2>4 DEF Owned, HoldingOwns, TypeOK
  <2>8. \A u \in Threads : \A g \in Served(u) : sockets'[g] = sockets[g]
    BY <2>3, <2>4 DEF Served
  <2>9. InUseSame
    BY <2>1 DEF InUseSame, InUse, HoldsTask
  <2>10. CASE NoFreeSlot(t)
    <3>1. UNCHANGED <<conn, free>>
      BY <2>10 DEF NoFreeSlot
    <3>2. StackFree' /\ StackOnce' /\ LiveInUse'
      BY <2>9, <3>1, <1>StackKept DEF ConnKept
    <3> QED BY ZenonT(30), <2>1, <2>5, <2>6, <2>7, <2>8, <3>1, <3>2, <1>OwnedSockets
  <2>11. CASE TlsInitFails(t)
    <3> DEFINE s == PoppedSlot(t)
    <3>1. PopFree(t) /\ free[t] # <<>>
      BY <2>11 DEF TlsInitFails
    <3>2. /\ conn'[s].fd = NULL /\ s \in Slots
          /\ \A r \in Slots \ {s} : conn'[r] = conn[r]
      <4>1. s \in Slots /\ NULL \in Fds \union {NULL} /\ 0 \in Int
        BY <3>1, Popped, OwnSlots, SMT
      <4>2. conn[s].gen + 1 \in Nat
        BY <4>1, SMT DEF TypeOK, ConnType
      <4>3. conn' = [conn EXCEPT ![s] = [fd |-> NULL, st |-> "pending", gen |-> conn[s].gen + 1, ref |-> 0]]
        BY <2>11 DEF TlsInitFails, Wiped
      <4> QED BY ZenonT(30), <4>1, <4>2, <4>3, SlotSet
    <3>3. ~ InUse(s) /\ StackOnce'
      BY <3>1, PopsFree DEF Owned
    <3>4. StackFree'
      BY <2>9, <3>1, PopsFree DEF Owned, StackFree, InUseSame, Slots
    <3>5. LiveInUse'
      BY <2>9, <3>2 DEF Owned, LiveInUse, InUseSame
    <3>6. \A r \in Slots : InUse(r) => conn'[r].fd = conn[r].fd
      BY <3>2, <3>3
    <3> QED BY ZenonT(30), <2>1, <2>5, <2>6, <2>7, <2>8, <3>3, <3>4, <3>5, <3>6, <1>OwnedSockets
  <2> QED BY <2>10, <2>11
<1>OwnedRegister. ASSUME NEW t \in Threads, RegisterConnection(t) PROVE Owned'
  <2> USE <1>OwnedRegister
  <2>0. PICK f, s : Registers(t, f, s)
    BY Registered
  <2>1. /\ f = Head(queue[t]).fd /\ s = PoppedSlot(t)
        /\ f \in Fds /\ s \in Own(t) /\ s \in Slots /\ s # NULL
        /\ Dequeue(t, "new") /\ PopFree(t) /\ free[t] # <<>>
        /\ conn'[s].fd = f
        /\ \A r \in Slots \ {s} : conn'[r] = conn[r]
        /\ fdmap'[t][f] = s
        /\ \A g \in Fds \ {f} : fdmap'[t][g] = fdmap[t][g]
        /\ \A u \in Threads \ {t} : fdmap'[u] = fdmap[u] /\ tpc'[u] = tpc[u] /\ task'[u] = task[u]
        /\ tpc[t] = "drain" /\ task[t] = NoTask
        /\ tpc'[t] = "adding" /\ task'[t].fd = f /\ task'[t].slot = s
        /\ UNCHANGED <<sockets, active, holding>>
    BY <2>0 DEF Registers
  <2>2. OthersStay(t)
    BY <2>1 DEF OthersStay
  <2>3. /\ f = queue[t][1].fd /\ 1 \in NewMessages(t)
        /\ \A k \in NewMessages(t)' : k + 1 \in NewMessages(t) /\ queue'[t][k] = queue[t][k + 1]
        /\ \A u \in Threads \ {t} : queue'[u] = queue[u] /\ UNCHANGED NewMessages(u)
    BY <2>1, NewTaken
  <2>4. sockets[f] = "queued" /\ \A u \in Threads : fdmap[u][f] = NULL
    BY ZenonT(30), <2>3 DEF Owned, NewOwns
  <2>5. ~ InUse(s) /\ StackOnce'
    BY <2>1, PopsFree DEF Owned
  <2>6. \A r \in Slots : InUse(r)' <=> InUse(r) \/ r = s
    BY <2>1, <2>4, InUseMore
  <2>7. \A r \in Slots : InUse(r) => conn'[r].fd = conn[r].fd
    BY <2>1, <2>5
  <2>8. TaskMapped(t)'
    BY <2>1 DEF TaskMapped, Mapped, Unmapped
  <2>9. \A u \in Threads : TaskMapped(u)'
    BY ZenonT(30), <2>2, <2>7, <2>8, <1>MappedElse
  <2>10. NewOnce'
    BY <2>3, <1>NewsLeft, <1>OnceFrom DEF Owned
  <2>11. NewOwns'
    <3> SUFFICES ASSUME NEW u \in Threads, NEW k \in NewMessages(u)'
                 PROVE  /\ sockets'[queue'[u][k].fd] = "queued"
                        /\ \A v \in Threads : fdmap'[v][queue'[u][k].fd] = NULL
      BY DEF NewOwns
    <3>1. PICK g \in Fds : /\ g = queue'[u][k].fd /\ g # Head(queue[t]).fd
                           /\ sockets[g] = "queued" /\ \A v \in Threads : fdmap[v][g] = NULL
      BY ZenonT(30), <2>1, <1>NewsOthers
    <3>2. \A v \in Threads : fdmap'[v][g] = fdmap[v][g]
      BY ZenonT(30), <2>1, <3>1
    <3> QED BY ZenonT(30), <2>1, <3>1, <3>2
  <2>12. HoldingOwns'
    BY <2>1 DEF Owned, HoldingOwns
  <2>13. StackFree'
    <3> SUFFICES ASSUME NEW u \in Threads, NEW i \in Indices, OnStack(u, i)' PROVE ~ InUse(<<u, i>>)'
      BY DEF StackFree
    <3>1. OnStack(u, i) /\ <<u, i>> # s
      BY ZenonT(30), <2>1, PopsFree DEF Owned
    <3>2. ~ InUse(<<u, i>>) /\ <<u, i>> \in Slots
      BY <3>1 DEF Owned, StackFree, Slots
    <3> QED BY <2>6, <3>1, <3>2
  <2>14. LiveInUse'
    BY ZenonT(30), <2>1, <2>6 DEF Owned, LiveInUse
  <2>15. MapOwns'
    <3> SUFFICES ASSUME NEW u \in Threads, NEW g \in Served(u)'
                 PROVE  /\ conn'[fdmap'[u][g]].fd = g
                        /\ sockets'[g] = IF tpc'[u] = "adding" /\ task'[u].fd = g THEN "queued" ELSE "served"
                        /\ \A v \in Threads \ {u} : fdmap'[v][g] = NULL
      BY DEF MapOwns
    <3>1. g \in Fds /\ fdmap'[u][g] # NULL
      BY DEF Served
    <3>2. CASE g = f
      <4>1. u = t
        BY ZenonT(30), <2>1, <2>4, <3>1, <3>2
      <4> QED BY <2>1, <2>4, <3>2, <4>1
    <3>3. CASE g # f
      <4>1. \A v \in Threads : fdmap'[v][g] = fdmap[v][g]
        BY <2>1, <3>1, <3>3
      <4>2. fdmap[u][g] # NULL
        BY ZenonT(30), <3>1, <4>1
      <4>3. /\ conn[fdmap[u][g]].fd = g
            /\ tpc[u] = "adding" /\ task[u].fd = g => sockets[g] = "queued"
            /\ ~ (tpc[u] = "adding" /\ task[u].fd = g) => sockets[g] = "served"
            /\ \A v \in Threads \ {u} : fdmap[v][g] = NULL
        BY ONLY SMTT(30), Owned, <3>1, <4>2, ServedFacts
      <4>4. conn'[fdmap[u][g]].fd = conn[fdmap[u][g]].fd
        BY ZenonT(30), <2>7, <3>1, <4>2, MapInUse
      <4>5. tpc'[u] = "adding" /\ task'[u].fd = g <=> tpc[u] = "adding" /\ task[u].fd = g
        BY <2>1, <3>3
      <4> QED BY ZenonT(30), <2>1, <4>1, <4>3, <4>4, <4>5
    <3> QED BY <3>2, <3>3
  <2>16. CountExact'
    <3>1. Served(t)' = Served(t) \union {f} /\ f \notin Served(t)
      BY ZenonT(30), <2>1, <2>4 DEF Served
    <3>2. IsFiniteSet(Served(t)') /\ Cardinality(Served(t)') = Cardinality(Served(t)) + 1
      <4>1. IsFiniteSet(Served(t))
        BY ZenonT(30), <1>CountIs
      <4> QED BY ONLY SetFacts, <3>1, <4>1, CardMore, Zenon
    <3>3. active'[t] = CountFor(Cardinality(Served(t)'), tpc'[t])
      <4>1. active'[t] = active[t] /\ tpc[t] = "drain" /\ tpc'[t] = "adding"
        BY ZenonT(30), <2>1
      <4>2. /\ Cardinality(Served(t)) \in Nat
            /\ active[t] = CountFor(Cardinality(Served(t)), tpc[t])
        BY ZenonT(30), <1>CountIs
      <4> QED BY ONLY SMTT(30), <3>2, <4>1, <4>2 DEF CountFor
    <3> QED BY <2>2, <3>2, <3>3, <1>CountBy
  <2> QED BY ZenonT(30), <2>5, <2>9, <2>10, <2>11, <2>12, <2>13, <2>14, <2>15, <2>16 DEF Owned
<1>OwnedAdd. ASSUME NEW t \in Threads, AddToEpoll(t) PROVE Owned' /\ InUseSame
  <2> USE <1>OwnedAdd
  <2>0. PICK f, s : f = task[t].fd /\ s = task[t].slot
    OBVIOUS
  <2>1. /\ f \in Fds /\ s \in Own(t) /\ s # NULL /\ fdmap[t][f] = s
        /\ tpc[t] = "adding" /\ UNCHANGED <<conn, free, fdmap, queue, holding>>
    BY <2>0, TaskInHand DEF AddToEpoll, acceptorVars, Working, Mapped, Owned, TaskMapped
  <2>2. sockets'[f] = "served" /\ \A g \in Fds \ {f} : sockets'[g] = sockets[g]
    BY <2>0, <2>1 DEF TypeOK, AddToEpoll
  <2>3. /\ \A u \in Threads \ {t} : tpc'[u] = tpc[u] /\ task'[u] = task[u] /\ active'[u] = active[u]
        /\ tpc'[t] = "drain" /\ task'[t] = NoTask /\ active'[t] = active[t] + 1
    BY DEF TypeOK, TaskOK, AddToEpoll, Goto
  <2>4. OthersStay(t)
    BY ZenonT(30), <2>1, <2>3 DEF OthersStay
  <2>5. /\ conn[s].fd = f /\ sockets[f] = "queued"
        /\ \A u \in Threads \ {t} : fdmap[u][f] = NULL
        /\ \A u \in Threads : \A k \in NewMessages(u) : queue[u][k].fd # f
    <3>1. /\ t \in Threads /\ f \in Fds /\ fdmap[t][f] # NULL /\ fdmap[t][f] = s
          /\ tpc[t] = "adding" /\ task[t].fd = f
      BY ZenonT(30), <2>0, <2>1
    <3> QED BY ONLY SMTT(30), Owned, <3>1, ServedFacts
  <2>6. TaskMapped(t)'
    BY <2>3 DEF TaskMapped, Mapped, Unmapped
  <2>7. \A u \in Threads : TaskMapped(u)'
    BY <2>1, <2>4, <2>6, <1>MappedElse
  <2>8. NewOwns' /\ NewOnce'
    <3>1. NewsFrom
      BY <2>1, NewsSame, <1>KeptFrom
    <3>2. \A u \in Threads : \A k \in NewMessages(u) :
            /\ sockets'[queue[u][k].fd] = sockets[queue[u][k].fd]
            /\ \A v \in Threads : fdmap'[v][queue[u][k].fd] = fdmap[v][queue[u][k].fd]
      BY <2>1, <2>2, <2>5, <1>NewsFds
    <3> QED BY <3>1, <3>2, <1>OnceFrom, <1>OwnsFrom DEF Owned
  <2>9. HoldingOwns'
    BY <2>1, <2>2, <2>5 DEF Owned, HoldingOwns, TypeOK
  <2>10. InUseSame
    <3> SUFFICES ASSUME NEW r \in Slots PROVE InUse(r)' <=> InUse(r)
      BY DEF InUseSame
    <3>1. r[1] \in Threads /\ r # NULL
      BY ConnAssumption DEF Slots
    <3>2. CASE r[1] # t
      BY <2>1, <2>3, <3>1, <3>2 DEF InUse, HoldsTask
    <3>3. CASE r[1] = t
      <4>1. ~ HoldsTask(t, r)'
        BY ONLY SMTT(30), <2>3, <3>1 DEF HoldsTask, NoTask
      <4>2. HoldsTask(t, r) => \E g \in Fds : fdmap[t][g] = r
        BY <2>0, <2>1 DEF HoldsTask
      <4> QED BY ZenonT(30), <2>1, <3>3, <4>1, <4>2 DEF InUse
    <3> QED BY <3>2, <3>3
  <2>11. StackFree' /\ StackOnce' /\ LiveInUse'
    BY <2>1, <2>10, <1>StackKept DEF ConnKept
  <2>12. MapOwns'
    <3> SUFFICES ASSUME NEW u \in Threads, NEW g \in Served(u)'
                 PROVE  /\ conn'[fdmap'[u][g]].fd = g
                        /\ sockets'[g] = IF tpc'[u] = "adding" /\ task'[u].fd = g THEN "queued" ELSE "served"
                        /\ \A v \in Threads \ {u} : fdmap'[v][g] = NULL
      BY DEF MapOwns
    <3>1. g \in Fds /\ fdmap[u][g] # NULL
      BY ZenonT(30), <2>1 DEF Served
    <3>2. /\ conn[fdmap[u][g]].fd = g
          /\ tpc[u] = "adding" /\ task[u].fd = g => sockets[g] = "queued"
          /\ ~ (tpc[u] = "adding" /\ task[u].fd = g) => sockets[g] = "served"
          /\ \A v \in Threads \ {u} : fdmap[v][g] = NULL
      BY ONLY SMTT(30), Owned, <3>1, ServedFacts
    <3>3. CASE g = f
      <4>1. u = t
        BY <2>5, <3>1, <3>3
      <4> QED BY <2>1, <2>2, <2>3, <3>2, <3>3, <4>1
    <3>4. CASE g # f
      <4>1. tpc'[u] = "adding" /\ task'[u].fd = g <=> tpc[u] = "adding" /\ task[u].fd = g
        BY <2>0, <2>3, <3>4
      <4> QED BY <2>1, <2>2, <3>1, <3>2, <3>4, <4>1
    <3> QED BY <3>3, <3>4
  <2>13. CountExact'
    <3>1. Served(t)' = Served(t)
      BY ZenonT(30), <2>1 DEF Served
    <3>2. active'[t] = CountFor(Cardinality(Served(t)), tpc'[t])
      <4>1. active'[t] = active[t] + 1 /\ tpc[t] = "adding" /\ tpc'[t] = "drain"
        BY ZenonT(30), <2>1, <2>3
      <4>2. /\ Cardinality(Served(t)) \in Nat
            /\ active[t] = CountFor(Cardinality(Served(t)), tpc[t])
        BY ZenonT(30), <1>CountIs
      <4> QED BY ONLY SMTT(30), <4>1, <4>2 DEF CountFor
    <3> QED BY <2>4, <3>1, <3>2, <1>CountIs, <1>CountBy
  <2> QED BY ZenonT(30), <2>7, <2>8, <2>9, <2>10, <2>11, <2>12, <2>13 DEF Owned
<1>OwnedRelease. ASSUME NEW t \in Threads, Release(t) \/ MsgRelease(t) PROVE Owned'
  <2> USE <1>OwnedRelease
  <2>0. PICK f, s : Releases(t, f, s)
    BY Released
  <2>1. /\ s \in Slots /\ s \in Own(t) /\ InUse(s)
        /\ \A u \in Threads \ {t} : tpc'[u] = tpc[u] /\ task'[u] = task[u]
        /\ \/ tpc[t] = "release" /\ tpc'[t] \in Between
           \/ tpc[t] = "msgrelease" /\ tpc'[t] = "msgcount"
        /\ \A r \in Slots \ {s} : conn'[r] = conn[r]
        /\ conn'[s].fd = NULL \/ conn'[s].st = "closed"
        /\ \A r \in Slots : InUse(r)' <=> InUse(r) /\ r # s
        /\ UNCHANGED <<fdmap, active, sockets, queue, holding>>
    BY <2>0 DEF Releases
  <2>2. OthersStay(t)
    BY <2>1 DEF OthersStay
  <2>3. tpc[t] # "adding" /\ tpc'[t] # "adding" /\ tpc'[t] \notin Mapped /\ tpc'[t] \notin Unmapped
    BY <2>1 DEF Between, Mapped, Unmapped
  <2>4. \A u \in Threads : TaskMapped(u)'
    <3>1. TaskMapped(t)'
      BY <2>3 DEF TaskMapped
    <3>2. \A r \in Slots : r \notin Own(t) => conn'[r] = conn[r]
      BY <2>1
    <3> QED BY ZenonT(30), <2>2, <3>1, <3>2, <1>MappedElse
  <2>5. NewOwns' /\ NewOnce' /\ HoldingOwns'
    BY <2>1, NewsSame, <1>KeptFrom, <1>OnceFrom, <1>OwnsFrom DEF Owned, HoldingOwns
  <2>6. StackOnce'
    BY <2>0, PushesOn
  <2>7. StackFree'
    <3> SUFFICES ASSUME NEW u \in Threads, NEW i \in Indices, OnStack(u, i)' PROVE ~ InUse(<<u, i>>)'
      BY DEF StackFree
    <3>1. OnStack(u, i) \/ <<u, i>> = s
      BY <2>0, PushesOn
    <3>2. <<u, i>> \in Slots
      BY DEF Slots
    <3>3. ~ InUse(<<u, i>>) \/ <<u, i>> = s
      BY <3>1 DEF Owned, StackFree
    <3> QED BY <2>1, <3>2, <3>3
  <2>8. LiveInUse'
    BY <2>1 DEF Owned, LiveInUse
  <2>9. MapOwns'
    <3> SUFFICES ASSUME NEW u \in Threads, NEW g \in Served(u)'
                 PROVE  /\ conn'[fdmap'[u][g]].fd = g
                        /\ sockets'[g] = IF tpc'[u] = "adding" /\ task'[u].fd = g THEN "queued" ELSE "served"
                        /\ \A v \in Threads \ {u} : fdmap'[v][g] = NULL
      BY DEF MapOwns
    <3>1. g \in Fds /\ fdmap[u][g] # NULL
      BY <2>1 DEF Served
    <3>2. /\ conn[fdmap[u][g]].fd = g
          /\ tpc[u] = "adding" /\ task[u].fd = g => sockets[g] = "queued"
          /\ ~ (tpc[u] = "adding" /\ task[u].fd = g) => sockets[g] = "served"
          /\ \A v \in Threads \ {u} : fdmap[v][g] = NULL
      BY ONLY Owned, <3>1, ServedFacts
    <3>3. InUse(fdmap[u][g])' /\ fdmap[u][g] \in Slots
      <4>1. fdmap[u][g] \in Own(u) /\ fdmap[u][g] \in Slots
        BY <3>1, MapInUse
      <4>2. fdmap[u][g][1] = u
        BY <4>1 DEF Own
      <4> QED BY <2>1, <3>1, <4>1, <4>2 DEF InUse
    <3>4. conn'[fdmap[u][g]] = conn[fdmap[u][g]]
      BY <2>1, <3>3
    <3>5. tpc'[u] = "adding" /\ task'[u].fd = g <=> tpc[u] = "adding" /\ task[u].fd = g
      BY <2>1, <2>3
    <3> QED BY <2>1, <3>2, <3>4, <3>5
  <2>10. CountExact'
    <3>1. Served(t)' = Served(t) /\ active' = active
      BY <2>1 DEF Served
    <3>2. active'[t] = CountFor(Cardinality(Served(t)), tpc'[t])
      <4>1. CountFor(Cardinality(Served(t)), tpc'[t]) = CountFor(Cardinality(Served(t)), tpc[t])
        BY <2>1 DEF CountFor, Between
      <4> QED BY <3>1, <4>1, <1>CountIs
    <3> QED BY <2>2, <3>1, <3>2, <1>CountIs, <1>CountBy
  <2> QED BY ZenonT(30), <2>4, <2>5, <2>6, <2>7, <2>8, <2>9, <2>10 DEF Owned
<1>1. ASSUME Same PROVE Owned'
  <2>1. Quiet
    BY <1>1, NewsSame DEF Same, Quiet, ConnKept
  <2> QED BY <2>1, <1>OwnedQuiet
<1>2. ASSUME NEW t \in Threads, Keeps(t) PROVE Owned' /\ InUseSame
  <2>1. CASE Closes(t)
    BY <2>1, <1>OwnedClose DEF Closes
  <2>2. CASE Counts(t) \/ Unhashes(t)
    BY <2>2, <1>OwnedOther DEF Counts, Unhashes
  <2>3. CASE MsgCloseFd(t) \/ AddToEpoll(t)
    BY <2>3, <1>OwnedMsgClose, <1>OwnedAdd
  <2> QED BY <1>2, <2>1, <2>2, <2>3 DEF Keeps
<1>3. ASSUME NEW t \in Threads, ThreadStep(t) PROVE Owned'
  <2>1. CASE Rests(t) \/ Handles(t) \/ ProcessData(t) \/ Ignores(t)
    BY ZenonT(30), <2>1, QuietStep, <1>OwnedQuiet
  <2>2. CASE Lets(t) \/ TurnsAway(t) \/ RegisterConnection(t)
    BY ZenonT(30), <2>2, <1>OwnedRelease, <1>OwnedTurnedAway, <1>OwnedRegister DEF Lets, TurnsAway
  <2>3. CASE AddToEpollFails(t)
    <3>1. <<"epoll", task[t].slot>> \in mishaps'
      BY <2>3 DEF AddToEpollFails
    <3> QED BY <3>1 DEF NoneStolen
  <2> QED BY ZenonT(30), <1>2, <1>3, <2>1, <2>2, <2>3 DEF ThreadStep, Keeps
<1>4. ASSUME NEW x \in Senders, Sender(x) PROVE Owned'
  BY <1>4, QuietStep, <1>OwnedQuiet
<1>5. ASSUME Transfer PROVE Owned'
  BY <1>5, <1>OwnedAcceptor
<1>6. Owned'
  BY ZenonT(30), <1>1, <1>3, <1>4, <1>5, Steps
<1> QED BY <1>2, <1>6

(* Every send that is queued was queued before, and the slots go on with   *)
(* the life they have, end it, or begin the next.                          *)
DataFrom ==
  \A u \in Threads : \A k \in 1..Len(queue'[u]) :
    queue'[u][k].type = "data" => \E j \in 1..Len(queue[u]) : queue[u][j] = queue'[u][k]

LifeGoesOn ==
  \A s \in Slots : \/ conn'[s].gen = conn[s].gen /\ conn'[s].fd \in {conn[s].fd, NULL}
                   \/ conn'[s].gen = conn[s].gen + 1

Unhashing == {"release", "msgclose", "msgrelease"}

-----------------------------------------------------------------------------
(* References, the hash and the queued sends while nothing was disturbed.  *)

LEMMA CountedStep ==
  ASSUME SetFacts, TypeOK, Owned, Counted, NoneStolen', Undisturbed', [Next]_vars PROVE Counted'
<1>DataSent.
    ASSUME NEW t \in Threads, NEW m \in MessageType, m.type # "data", Send(t, m)
    PROVE  DataFrom
  <2> USE <1>DataSent
  <2>1. /\ Len(queue'[t]) = Len(queue[t]) + 1 /\ Len(queue[t]) \in Nat
        /\ \A k \in 1..Len(queue[t]) : queue'[t][k] = queue[t][k]
        /\ queue'[t][Len(queue[t]) + 1] = m
        /\ \A u \in Threads \ {t} : queue'[u] = queue[u]
    BY SMTT(30), Sent
  <2>2. \A k \in 1..Len(queue'[t]) : k \in 1..Len(queue[t]) \/ k = Len(queue[t]) + 1
    BY ONLY SMTT(30), <2>1
  <2> QED BY ZenonT(30), <2>1, <2>2 DEF DataFrom
<1>DataDequeued. ASSUME NEW t \in Threads, NEW type, Dequeue(t, type) PROVE DataFrom
  <2> USE <1>DataDequeued
  <2>1. /\ Len(queue'[t]) = Len(queue[t]) - 1 /\ Len(queue[t]) \in Nat
        /\ \A k \in 1..Len(queue'[t]) : queue'[t][k] = queue[t][k + 1]
        /\ \A u \in Threads \ {t} : queue'[u] = queue[u]
    BY SMTT(30), Dequeued, SMT DEF TypeOK
  <2>2. \A k \in 1..Len(queue'[t]) : k + 1 \in 1..Len(queue[t])
    BY SMTT(30), <2>1, SMT
  <2> QED BY ZenonT(30), <2>1, <2>2 DEF DataFrom
<1>DataKept. ASSUME DataKnown, DataFrom, LifeGoesOn PROVE DataKnown'
  <2> USE <1>DataKept
  <2> SUFFICES ASSUME NEW t \in Threads, NEW k \in 1..Len(queue'[t]), NEW m,
                      m = queue'[t][k], m.type = "data"
               PROVE  /\ m.slot \in Own(t)
                      /\ m.gen <= conn'[m.slot].gen
                      /\ m.gen = conn'[m.slot].gen => conn'[m.slot].fd \in {m.fd, NULL}
    BY DEF DataKnown
  <2>1. PICK j \in 1..Len(queue[t]) : queue[t][j] = m
    BY DEF DataFrom
  <2>2. m \in MessageType
    <3>1. queue[t] \in Seq(MessageType)
      BY DEF TypeOK
    <3> QED BY <2>1, <3>1, Element
  <2>3. /\ m.slot \in Own(t)
        /\ m.gen <= conn[m.slot].gen
        /\ m.gen = conn[m.slot].gen => conn[m.slot].fd \in {m.fd, NULL}
    BY <2>1 DEF DataKnown
  <2>4. m.slot \in Slots
    BY <2>3, OwnSlots
  <2>5. m.gen \in Nat
    BY <2>2 DEF MessageType
  <2>6. conn[m.slot].gen \in Nat
    BY <2>4 DEF TypeOK, ConnType
  <2>7. \/ conn'[m.slot].gen = conn[m.slot].gen /\ conn'[m.slot].fd \in {conn[m.slot].fd, NULL}
        \/ conn'[m.slot].gen = conn[m.slot].gen + 1
    BY <2>4 DEF LifeGoesOn
  <2> QED BY ONLY <2>3, <2>5, <2>6, <2>7
(* The slots keep what they have, but for opening and closing.             *)
<1>CountedKept.
    ASSUME UNCHANGED <<free, mishaps>>, InUseSame,
           \A s \in Slots : /\ conn'[s].fd = conn[s].fd /\ conn'[s].ref = conn[s].ref
                            /\ conn'[s].st = "closed" <=> conn[s].st = "closed",
           \A s \in Slots : HeldBy(s)' = HeldBy(s),
           HashLive', HashOnce', JobsLive', OpenHasFd', DataKnown'
    PROVE  Counted'
  <2> USE <1>CountedKept
  <2>0. \A t \in Threads, i \in Indices : <<t, i>> \in Slots /\ (OnStack(t, i)' <=> OnStack(t, i))
    BY DEF Slots, OnStack
  <2>1. RefsExact'
    BY DEF Counted, RefsExact, InUseSame
  <2>2. StackClean'
    BY <2>0 DEF Counted, StackClean
  <2>3. LostUnused'
    BY DEF Counted, LostUnused, InUseSame
  <2>4. NoneForgotten'
    BY <2>0 DEF Counted, NoneForgotten, InUseSame, Stranded
  <2> QED BY ZenonT(30), <2>1, <2>2, <2>3, <2>4 DEF Counted
<1>HashKept.
    ASSUME UNCHANGED hash, InUseSame,
           \A s \in Slots : conn'[s].fd = conn[s].fd,
           \A u \in Threads : \/ tpc'[u] \notin Unhashing
                              \/ tpc[u] \in Unhashing /\ task'[u].slot = task[u].slot
    PROVE  HashLive' /\ HashOnce'
  <2> USE <1>HashKept
  <2>1. HashOnce'
    BY DEF Counted, HashOnce
  <2>2. HashLive'
    <3> SUFFICES ASSUME NEW k \in 1..Len(hash), NEW s \in Slots, hash[k].slot = s
                 PROVE  conn'[s].fd = hash[k].fd /\ InUse(s)' /\ ~ Unhashed(s)'
      BY DEF HashLive
    <3>1. s[1] \in Threads
      BY DEF Slots
    <3>2. conn[s].fd = hash[k].fd /\ InUse(s) /\ ~ Unhashed(s)
      BY DEF Counted, HashLive
    <3> QED BY <3>1, <3>2 DEF InUseSame, Unhashed, Unhashing
  <2> QED BY <2>1, <2>2
<1>JobsKept.
    ASSUME \A s \in Slots : conn'[s].fd = conn[s].fd,
           \A x \in Senders : spc'[x] # "idle" => spc[x] # "idle" /\ job'[x] = job[x]
    PROVE  JobsLive'
  <2> USE <1>JobsKept
  <2> SUFFICES ASSUME NEW x \in Senders, spc'[x] # "idle"
               PROVE  conn'[job'[x].slot].fd = job'[x].fd
    BY DEF JobsLive
  <2>1. spc[x] # "idle" /\ job'[x] = job[x]
    OBVIOUS
  <2>2. job[x].slot \in Slots
    BY <2>1 DEF TypeOK, SenderOK, JobType
  <2> QED BY ZenonT(30), <2>1, <2>2 DEF Counted, JobsLive
(* Slots, hash and senders stay as they are.                               *)
<1>CountedCalm.
    ASSUME UNCHANGED <<conn, free, hash, spc, job, mishaps>>, InUseSame, DataFrom,
           \A u \in Threads : \/ tpc'[u] \notin Unhashing
                              \/ tpc[u] \in Unhashing /\ task'[u].slot = task[u].slot
    PROVE  Counted'
  <2> USE <1>CountedCalm
  <2>1. DataKnown'
    BY <1>DataKept DEF Counted, LifeGoesOn
  <2>2. HashLive' /\ HashOnce'
    BY <1>HashKept
  <2>3. JobsLive' /\ OpenHasFd'
    BY <1>JobsKept DEF Counted, OpenHasFd
  <2>4. \A s \in Slots : HeldBy(s)' = HeldBy(s)
    BY DEF HeldBy
  <2> QED BY ZenonT(30), <2>1, <2>2, <2>3, <2>4, <1>CountedKept
<1>CountedStill.
    ASSUME UNCHANGED <<conn, free, fdmap, hash, task, spc, job, mishaps>>, DataFrom,
           \A u \in Threads : tpc'[u] = tpc[u] \/ tpc'[u] \in Between
    PROVE  Counted'
  <2> USE <1>CountedStill
  <2>1. InUseSame
    BY DEF InUseSame, InUse, HoldsTask
  <2>2. \A u \in Threads : tpc'[u] \notin Unhashing \/ (tpc[u] \in Unhashing /\ task'[u].slot = task[u].slot)
    BY DEF Unhashing, Between
  <2> QED BY <2>1, <2>2, <1>CountedCalm
<1>CountedAcceptor. ASSUME Transfer PROVE Counted'
  <2> USE <1>CountedAcceptor
  <2>1. UNCHANGED <<conn, free, fdmap, hash, tpc, task, spc, job, mishaps>>
    BY DEF Transfer, Accept, RejectClient, HandOff, threadVars, senderVars
  <2>2. DataFrom
    <3>1. CASE UNCHANGED queue
      BY <3>1 DEF DataFrom
    <3>2. ASSUME NEW t \in Threads, HandOff(t) PROVE DataFrom
      <4> DEFINE m == [type |-> "new", fd |-> holding, slot |-> NULL, gen |-> 0]
      <4>1. m \in MessageType /\ m.type # "data"
        BY <3>2 DEF HandOff, TypeOK, MessageType
      <4>2. Send(t, m)
        BY <3>2 DEF HandOff
      <4> HIDE DEF m
      <4> QED BY <4>1, <4>2, <1>DataSent
    <3> QED BY <3>1, <3>2 DEF Transfer, Accept, RejectClient
  <2> QED BY <2>1, <2>2, <1>CountedStill
<1>CountedResting.
    ASSUME NEW t \in Threads,
           \/ EpollWait(t) \/ EpollTimeout(t) \/ WakeupEvent(t) \/ EventsDone(t) \/ DrainDone(t)
           \/ NoFreeSlot(t)
           \/ ProcessClose(t) /\ fdmap[t][Head(queue[t]).fd] = NULL
    PROVE  Counted'
  <2> USE <1>CountedResting
  <2>1. UNCHANGED <<conn, free, fdmap, hash, task, spc, job, mishaps>>
    BY DEF EpollWait, EpollTimeout, WakeupEvent, EventsDone, DrainDone, NoFreeSlot, ProcessClose,
       senderVars
  <2>2. UNCHANGED queue \/ \E type : Dequeue(t, type)
    BY DEF EpollWait, EpollTimeout, WakeupEvent, EventsDone, DrainDone, NoFreeSlot, ProcessClose
  <2>3. DataFrom
    BY <2>2, <1>DataDequeued DEF DataFrom
  <2>4. UNCHANGED tpc \/ \E l \in Between : Goto(t, l)
    BY
      DEF EpollWait, EpollTimeout, WakeupEvent, EventsDone, DrainDone, NoFreeSlot, ProcessClose, Between
  <2>5. \A u \in Threads : tpc'[u] = tpc[u] \/ tpc'[u] \in Between
    BY <2>4 DEF TypeOK, TaskOK, Goto
  <2> QED BY ZenonT(30), <2>1, <2>3, <2>5, <1>CountedStill
(* Steps of a set-up or a teardown that leave slots and hash alone.        *)
<1>CountedMoves.
    ASSUME InUseSame, NEW t \in Threads,
           CountDown(t) \/ MsgCount(t) \/ AddToEpoll(t) \/ MsgCloseFd(t)
    PROVE  Counted'
  <2> USE <1>CountedMoves
  <2>1. UNCHANGED <<conn, free, hash, queue, spc, job, mishaps>>
    BY DEF CountDown, MsgCount, AddToEpoll, MsgCloseFd, senderVars
  <2>2. \A u \in Threads : tpc'[u] \notin Unhashing \/ (tpc[u] \in Unhashing /\ task'[u].slot = task[u].slot)
    <3>1. /\ \A u \in Threads \ {t} : tpc'[u] = tpc[u] /\ task'[u] = task[u]
          /\ \/ tpc'[t] \in {"unhash", "drain"}
             \/ tpc[t] = "msgclose" /\ task'[t] = task[t]
      BY DEF TypeOK, TaskOK, CountDown, MsgCount, AddToEpoll, MsgCloseFd, Goto
    <3> QED BY <3>1 DEF Unhashing
  <2> QED BY ZenonT(30), <2>1, <2>2, <1>CountedCalm DEF DataFrom
<1>CountedClose.
    ASSUME InUseSame, Undisturbed', NEW t \in Threads, NEW f \in Fds, NEW back \in Between,
           CloseConnection(t, f, back)
    PROVE  Counted'
  <2> USE <1>CountedClose
  <2>1. UNCHANGED <<conn, free, hash, queue, spc, job>>
    BY DEF CloseConnection, senderVars
  <2>2. UNCHANGED mishaps
    <3>1. <<"stale", f>> \notin mishaps'
      BY DEF Undisturbed
    <3> QED BY <3>1 DEF CloseConnection
  <2>3. \A u \in Threads : tpc'[u] \notin Unhashing \/ (tpc[u] \in Unhashing /\ task'[u].slot = task[u].slot)
    <3>1. /\ \A u \in Threads \ {t} : tpc'[u] = tpc[u] /\ task'[u] = task[u]
          /\ tpc'[t] \in {"countdown", back}
      BY ZenonT(30) DEF TypeOK, TaskOK, CloseConnection, Goto
    <3> QED BY <3>1 DEF Unhashing, Between
  <2> QED BY ZenonT(30), <2>1, <2>2, <2>3, <1>CountedCalm DEF DataFrom
(* A connection opens, or is marked for closing.                           *)
<1>CountedMarks.
    ASSUME UNCHANGED <<free, fdmap, hash, tpc, task, spc, job, mishaps>>, DataFrom,
           NEW s \in Slots, NEW z \in {"open", "closing"},
           conn' = [conn EXCEPT ![s].st = z], conn[s].fd # NULL, conn[s].st # "closed"
    PROVE  Counted'
  <2> USE <1>CountedMarks
  <2>1. /\ conn'[s].st = z
        /\ \A r \in Slots : conn'[r].fd = conn[r].fd /\ conn'[r].gen = conn[r].gen /\ conn'[r].ref = conn[r].ref
        /\ \A r \in Slots \ {s} : conn'[r].st = conn[r].st
    <3>1. z \in {"pending", "open", "closing", "closed"}
      OBVIOUS
    <3> QED BY <3>1, Remarked
  <2>2. \A r \in Slots : conn'[r].st = "closed" <=> conn[r].st = "closed"
    BY <2>1
  <2>3. InUseSame
    BY DEF InUseSame, InUse, HoldsTask
  <2>4. DataKnown'
    BY <2>1, <1>DataKept DEF Counted, LifeGoesOn
  <2>5. HashLive' /\ HashOnce'
    BY <2>1, <2>3, <1>HashKept
  <2>6. JobsLive'
    BY <2>1, <1>JobsKept
  <2>7. OpenHasFd'
    BY ZenonT(30), <2>1 DEF Counted, OpenHasFd
  <2>8. \A r \in Slots : HeldBy(r)' = HeldBy(r)
    BY DEF HeldBy
  <2> QED BY <2>1, <2>2, <2>3, <2>4, <2>5, <2>6, <2>7, <2>8, <1>CountedKept
<1>CountedEvent. ASSUME NEW t \in Threads, NEW f \in Fds, EventHandled(t, f) PROVE Counted'
  <2> USE <1>CountedEvent
  <2>1. /\ UNCHANGED <<free, fdmap, hash, queue, tpc, task, spc, job, mishaps>>
        /\ DataFrom
    BY DEF EventHandled, senderVars, DataFrom
  <2>2. CASE UNCHANGED conn
    BY <2>1, <2>2, <1>CountedStill
  <2>3. CASE ~ UNCHANGED conn
    <3>1. /\ fdmap[t][f] # NULL /\ conn[fdmap[t][f]].st = "pending" /\ conn[fdmap[t][f]].fd # NULL
          /\ conn' = [conn EXCEPT ![fdmap[t][f]].st = "open"]
      BY <2>3 DEF EventHandled
    <3>2. fdmap[t][f] \in Slots /\ "pending" # "closed" /\ "open" \in {"open", "closing"}
      BY <3>1, MapInUse
    <3> QED BY <2>1, <3>1, <3>2, <1>CountedMarks
  <2> QED BY <2>2, <2>3
<1>CountedData. ASSUME NEW t \in Threads, ProcessData(t) PROVE Counted'
  <2> USE <1>CountedData
  <2>1. Dequeue(t, "data") /\ UNCHANGED <<free, fdmap, hash, tpc, task, spc, job, mishaps>>
    BY DEF ProcessData, senderVars
  <2>2. DataFrom
    BY ZenonT(30), <2>1, <1>DataDequeued
  <2>3. CASE UNCHANGED conn
    BY ZenonT(30), <2>1, <2>2, <2>3, <1>CountedStill
  <2>4. CASE ~ UNCHANGED conn
    <3>1. PICK f : f = Head(queue[t]).fd
      OBVIOUS
    <3>2. f \in Fds
      <4>1. Head(queue[t]) \in MessageType
        BY <2>1, Dequeued
      <4> QED BY <3>1, <4>1 DEF MessageType
    <3>3. /\ fdmap[t][f] # NULL /\ conn[fdmap[t][f]].st = "open"
          /\ conn' = [conn EXCEPT ![fdmap[t][f]].st = "closing"]
      BY <2>4, <3>1 DEF ProcessData
    <3>4. fdmap[t][f] \in Slots /\ "open" # "closed" /\ "closing" \in {"open", "closing"}
      BY <3>2, <3>3, MapInUse
    <3>5. conn[fdmap[t][f]].fd # NULL
      BY <3>3, <3>4 DEF Counted, OpenHasFd
    <3> QED BY ZenonT(30), <2>1, <2>2, <3>3, <3>4, <3>5, <1>CountedMarks
  <2> QED BY ZenonT(30), <2>3, <2>4
(* A sender goes on inside its call.                                       *)
<1>CountedCall.
    ASSUME NEW x \in Senders, CheckOpen(x) \/ Enqueue(x) \/ QueueFull(x)
    PROVE  Counted'
  <2> USE <1>CountedCall
  <2>1. UNCHANGED <<conn, free, fdmap, hash, tpc, task, mishaps, job>>
    BY DEF CheckOpen, Enqueue, QueueFull, threadVars
  <2>2. \A y \in Senders : spc'[y] # "idle" <=> spc[y] # "idle"
    BY DEF TypeOK, SenderOK, CheckOpen, Enqueue, QueueFull
  <2>3. InUseSame
    BY <2>1 DEF InUseSame, InUse, HoldsTask
  <2>4. \A s \in Slots : HeldBy(s)' = HeldBy(s)
    BY <2>1, <2>2 DEF HeldBy
  <2>5. HashLive' /\ HashOnce' /\ JobsLive' /\ OpenHasFd'
    BY ZenonT(30), <2>1, <2>2, <2>3, <1>HashKept, <1>JobsKept DEF Counted, OpenHasFd
  <2>6. DataKnown'
    <3>1. CASE UNCHANGED queue
      BY <2>1, <3>1 DEF Counted, DataKnown
    <3>2. CASE Enqueue(x)
      <4>1. PICK s, f : s = job[x].slot /\ f = job[x].fd
        OBVIOUS
      <4>2. job[x] \in JobType /\ s \in Slots /\ f \in Fds
        BY <3>2, <4>1 DEF TypeOK, SenderOK, Enqueue, JobType
      <4>3. conn[s].fd = f
        BY <3>2, <4>1 DEF Counted, JobsLive, Enqueue
      <4>4. ThreadOf(s) = s[1] /\ s[1] \in Threads /\ s \in Own(s[1])
        BY ZenonT(30), <4>2, <4>3, ConnAssumption DEF ThreadOf, Slots, Own
      <4>5. PICK m : m = [type |-> job[x].op, fd |-> f, slot |-> s, gen |-> conn[s].gen]
        OBVIOUS
      <4>6. m \in MessageType /\ m.slot = s /\ m.fd = f /\ m.gen = conn[s].gen /\ conn[s].gen \in Nat
        BY ZenonT(30), <4>2, <4>5 DEF TypeOK, JobType, MessageType, ConnType
      <4>7. Send(s[1], m)
        BY ZenonT(30), <3>2, <4>1, <4>4, <4>5 DEF Enqueue
      <4>8. /\ Len(queue'[s[1]]) = Len(queue[s[1]]) + 1 /\ Len(queue[s[1]]) \in Nat
            /\ \A k \in 1..Len(queue[s[1]]) : queue'[s[1]][k] = queue[s[1]][k]
            /\ queue'[s[1]][Len(queue[s[1]]) + 1] = m
            /\ \A u \in Threads \ {s[1]} : queue'[u] = queue[u]
        BY SMTT(30), <4>4, <4>6, <4>7, Sent
      <4>9. ASSUME NEW t \in Threads, NEW k \in 1..Len(queue'[t])
            PROVE  \/ k \in 1..Len(queue[t]) /\ queue'[t][k] = queue[t][k]
                   \/ t = s[1] /\ queue'[t][k] = m
        <5>1. CASE t # s[1]
          BY ZenonT(30), <4>8, <5>1
        <5>2. CASE t = s[1]
          <6>1. k \in 1..Len(queue[t]) \/ k = Len(queue[t]) + 1
            BY ONLY SMTT(30), <4>8, <5>2
          <6> QED BY ZenonT(30), <4>8, <5>2, <6>1
        <5> QED BY <5>1, <5>2
      <4>10. conn[s].gen <= conn[s].gen
        BY SMTT(30), <4>6, SMT
      <4> QED BY ZenonT(30), <2>1, <4>3, <4>4, <4>6, <4>9, <4>10 DEF Counted, DataKnown
    <3> QED BY <3>1, <3>2 DEF CheckOpen, QueueFull
  <2> QED BY ZenonT(30), <2>1, <2>3, <2>4, <2>5, <2>6, <1>CountedKept
(* A reference of a sender more or less, to a slot that has an fd.         *)
<1>CountedRef.
    ASSUME UNCHANGED <<free, fdmap, hash, queue, tpc, task, mishaps>>,
           NEW s \in Slots, conn[s].fd # NULL,
           \A r \in Slots : /\ conn'[r].fd = conn[r].fd /\ conn'[r].st = conn[r].st
                            /\ conn'[r].gen = conn[r].gen,
           \A r \in Slots \ {s} : conn'[r].ref = conn[r].ref /\ HeldBy(r)' = HeldBy(r),
           IsFiniteSet(HeldBy(s)'),
           conn'[s].ref = Cardinality(HeldBy(s)') + (IF InUse(s) THEN 1 ELSE 0),
           JobsLive'
    PROVE  Counted'
  <2> USE <1>CountedRef
  <2>1. InUseSame
    BY DEF InUseSame, InUse, HoldsTask
  <2>2. HashLive' /\ HashOnce'
    BY <2>1, <1>HashKept
  <2>3. DataKnown'
    BY <1>DataKept DEF Counted, LifeGoesOn, DataFrom
  <2>4. RefsExact'
    <3>1. ASSUME NEW r \in Slots
          PROVE  /\ IsFiniteSet(HeldBy(r)')
                 /\ conn'[r].ref = Cardinality(HeldBy(r)') + (IF InUse(r)' THEN 1 ELSE 0)
      <4>1. InUse(r)' <=> InUse(r)
        BY <2>1 DEF InUseSame
      <4>2. CASE r = s
        BY <4>1, <4>2
      <4>3. CASE r # s
        BY <4>1, <4>3 DEF Counted, RefsExact
      <4> QED BY <4>2, <4>3
    <3> QED BY <3>1 DEF RefsExact
  <2>5. OpenHasFd' /\ LostUnused'
    BY <2>1 DEF Counted, OpenHasFd, LostUnused, InUseSame
  <2>6. \A t \in Threads, i \in Indices : <<t, i>> \in Slots /\ (OnStack(t, i)' <=> OnStack(t, i))
    BY DEF Slots, OnStack
  <2>7. StackClean'
    BY ZenonT(30), <2>6 DEF Counted, StackClean
  <2>8. NoneForgotten'
    <3>1. InUse(s) \/ HeldBy(s)' # {} \/ Stranded(s)'
      <4> SUFFICES ASSUME ~ InUse(s), HeldBy(s)' = {} PROVE Stranded(s)'
        OBVIOUS
      <4>1. conn[s].st = "closed"
        BY ZenonT(30) DEF Owned, LiveInUse
      <4>2. conn'[s].ref = 0
        <5>1. conn'[s].ref = Cardinality(HeldBy(s)') + 0 /\ Cardinality(HeldBy(s)') = 0
          BY ZenonT(30), SetFacts DEF SetFacts
        <5> QED BY ONLY SMTT(30), <5>1
      <4> QED BY <4>1, <4>2 DEF Stranded
    <3>2. ASSUME NEW r \in Slots, r # s PROVE UNCHANGED <<HeldBy(r), Stranded(r)>>
      BY <3>2 DEF Stranded
    <3> QED BY <2>1, <2>6, <3>1, <3>2 DEF Counted, NoneForgotten, InUseSame
  <2> QED BY ZenonT(30), <2>2, <2>3, <2>4, <2>5, <2>7, <2>8 DEF Counted
<1>CountedFind.
    ASSUME NEW x \in Senders, NEW op \in Ops, NEW f \in Fds, FindAndRef(x, op, f)
    PROVE  Counted'
  <2> USE <1>CountedFind
  <2>1. PICK s : s = hash[First(f)].slot
    OBVIOUS
  <2>2. s \in Slots /\ conn[s].fd = f /\ InUse(s)
    BY <2>1, HashedSlot DEF FindAndRef, Counted, HashLive
  <2>3. f # NULL
    BY ConnAssumption
  <2>4. conn[s].ref + 1 \in Int
    BY <2>2, SMT DEF TypeOK, ConnType
  <2>5. /\ conn'[s].ref = conn[s].ref + 1
        /\ \A r \in Slots : /\ conn'[r].fd = conn[r].fd /\ conn'[r].st = conn[r].st
                            /\ conn'[r].gen = conn[r].gen
        /\ \A r \in Slots \ {s} : conn'[r].ref = conn[r].ref
    <3>1. conn' = [conn EXCEPT ![s].ref = conn[s].ref + 1]
      BY <2>1 DEF FindAndRef
    <3> QED BY <2>2, <2>4, <3>1, Rereferenced
  <2>6. /\ spc[x] = "idle" /\ spc'[x] # "idle" /\ job'[x].slot = s /\ job'[x].fd = f
        /\ \A y \in Senders \ {x} : spc'[y] = spc[y] /\ job'[y] = job[y]
    BY <2>1 DEF TypeOK, SenderOK, FindAndRef
  <2>7. HeldBy(s)' = HeldBy(s) \union {x} /\ x \notin HeldBy(s)
    BY <2>6 DEF HeldBy
  <2>8. \A r \in Slots \ {s} : HeldBy(r)' = HeldBy(r)
    BY <2>6 DEF HeldBy
  <2>9. IsFiniteSet(HeldBy(s)) /\ conn[s].ref = Cardinality(HeldBy(s)) + 1
    BY <2>2 DEF Counted, RefsExact
  <2>10. /\ IsFiniteSet(HeldBy(s)') /\ Cardinality(HeldBy(s)') = Cardinality(HeldBy(s)) + 1
         /\ Cardinality(HeldBy(s)) \in Nat
    BY ONLY SetFacts, <2>7, <2>9, CardMore, Zenon
  <2>11. conn'[s].ref = Cardinality(HeldBy(s)') + (IF InUse(s) THEN 1 ELSE 0)
    BY <2>2, <2>5, <2>9, <2>10
  <2>12. JobsLive'
    <3> SUFFICES ASSUME NEW y \in Senders, spc'[y] # "idle"
                 PROVE  conn'[job'[y].slot].fd = job'[y].fd
      BY DEF JobsLive
    <3>1. CASE y = x
      BY <2>2, <2>5, <2>6, <3>1
    <3>2. CASE y # x
      <4>1. spc[y] # "idle" /\ job'[y] = job[y]
        BY <2>6, <3>2
      <4>2. job[y].slot \in Slots
        BY <4>1 DEF TypeOK, SenderOK, JobType
      <4> QED BY ZenonT(30), <2>5, <4>1, <4>2 DEF Counted, JobsLive
    <3> QED BY <3>1, <3>2
  <2>13. UNCHANGED <<free, fdmap, hash, queue, tpc, task, mishaps>>
    BY DEF FindAndRef, threadVars
  <2> QED BY ZenonT(30), <2>2, <2>3, <2>5, <2>8, <2>10, <2>11, <2>12, <2>13, <1>CountedRef
<1>CountedUnref. ASSUME NEW x \in Senders, Unref(x) PROVE Counted'
  <2> USE <1>CountedUnref
  <2>1. PICK s, f : s = job[x].slot /\ f = job[x].fd
    OBVIOUS
  <2>2. spc[x] = "unref" /\ s \in Slots /\ f \in Fds
    BY <2>1 DEF TypeOK, SenderOK, Unref, JobType
  <2>3. conn[s].fd = f /\ f # NULL
    BY <2>1, <2>2, ConnAssumption DEF Counted, JobsLive
  <2>4. conn[s].ref - 1 \in Int
    BY <2>2, SMT DEF TypeOK, ConnType
  <2>5. /\ conn'[s].ref = conn[s].ref - 1
        /\ \A r \in Slots : /\ conn'[r].fd = conn[r].fd /\ conn'[r].st = conn[r].st
                            /\ conn'[r].gen = conn[r].gen
        /\ \A r \in Slots \ {s} : conn'[r].ref = conn[r].ref
    <3>1. conn' = [conn EXCEPT ![s].ref = conn[s].ref - 1]
      BY <2>1 DEF Unref
    <3> QED BY <2>2, <2>4, <3>1, Rereferenced
  <2>6. spc'[x] = "idle" /\ \A y \in Senders \ {x} : spc'[y] = spc[y] /\ job'[y] = job[y]
    BY DEF TypeOK, SenderOK, Unref
  <2>7. HeldBy(s)' = HeldBy(s) \ {x} /\ x \in HeldBy(s)
    BY <2>1, <2>2, <2>6 DEF HeldBy
  <2>8. \A r \in Slots \ {s} : HeldBy(r)' = HeldBy(r)
    BY <2>1, <2>6 DEF HeldBy
  <2>9. /\ IsFiniteSet(HeldBy(s))
        /\ conn[s].ref = Cardinality(HeldBy(s)) + (IF InUse(s) THEN 1 ELSE 0)
    BY <2>2 DEF Counted, RefsExact
  <2>10. /\ IsFiniteSet(HeldBy(s)') /\ Cardinality(HeldBy(s)') = Cardinality(HeldBy(s)) - 1
         /\ Cardinality(HeldBy(s)) \in Nat
    BY ONLY ZenonT(30), SetFacts, <2>7, <2>9, CardLess
  <2>11. conn'[s].ref = Cardinality(HeldBy(s)') + (IF InUse(s) THEN 1 ELSE 0)
    BY ONLY SMTT(30), <2>5, <2>9, <2>10
  <2>12. JobsLive'
    BY <2>5, <2>6, <1>JobsKept
  <2>13. UNCHANGED <<free, fdmap, hash, queue, tpc, task, mishaps>>
    BY DEF Unref, threadVars
  <2> QED BY <2>2, <2>3, <2>5, <2>8, <2>10, <2>11, <2>12, <2>13, <1>CountedRef
(* A removal that does not hit another connection takes the entry of its   *)
(* own out of the hash, if it is there, and leaves the others.             *)
<1>HashLess.
    ASSUME NEW s \in Slots, NEW f \in Fds, conn[s].fd = f,
           HashRemove(f), ~ RemovesAnother(f, s)
    PROVE  /\ HashOnce'
           /\ \A k \in 1..Len(hash') : \E j \in 1..Len(hash) : hash'[k] = hash[j] /\ hash[j].slot # s
  <2> USE <1>HashLess
  <2>1. CASE Matches(f) = {}
    <3>1. hash' = hash
      BY <2>1 DEF HashRemove
    <3>2. \A j \in 1..Len(hash) : hash[j].slot # s
      BY <2>1 DEF Matches, Counted, HashLive
    <3> QED BY <3>1, <3>2 DEF Counted, HashOnce
  <2>2. CASE Matches(f) # {}
    <3>1. PICK n, z : n = Len(hash) /\ z = First(f)
      OBVIOUS
    <3>2. /\ n \in Nat /\ n > 0 /\ Len(hash') = n - 1
          /\ \A k \in 1..Len(hash') : hash'[k] = IF k = z THEN hash[n] ELSE hash[k]
      BY <2>2, <3>1, HashRemoves DEF TypeOK
    <3>3. z \in 1..n /\ hash[z].slot = s
      BY <2>2, <3>1, HashedSlot DEF RemovesAnother
    <3>4. \A k, j \in 1..n : hash[k].slot = hash[j].slot => k = j
      BY ZenonT(30), <3>1 DEF Counted, HashOnce
    <3>5. \A k \in 1..Len(hash') :
            \/ k = z /\ n # z /\ n \in 1..n /\ hash'[k] = hash[n]
            \/ k # z /\ k # n /\ k \in 1..n /\ hash'[k] = hash[k]
      BY ONLY SMTT(30), <3>2, <3>3
    <3>6. \A k, j \in 1..Len(hash') : hash'[k].slot = hash'[j].slot => k = j
      BY ONLY <3>4, <3>5, Zenon
    <3>7. \A k \in 1..Len(hash') : \E j \in 1..n : hash'[k] = hash[j] /\ hash[j].slot # s
      BY ONLY <3>3, <3>4, <3>5, Zenon
    <3> QED BY <3>1, <3>6, <3>7 DEF HashOnce
  <2> QED BY ZenonT(30), <2>1, <2>2
(* The teardown of the connection in s takes it out of the hash.           *)
<1>CountedRemove.
    ASSUME InUseSame, NEW t \in Threads, NEW s \in Own(t), NEW f \in Fds,
           conn[s].fd = f, HashRemove(f), ~ RemovesAnother(f, s),
           UNCHANGED <<conn, free, spc, job, mishaps>>, DataFrom,
           \A u \in Threads \ {t} : tpc'[u] = tpc[u] /\ task'[u] = task[u], task'[t].slot = s
    PROVE  Counted'
  <2> USE <1>CountedRemove
  <2>1. s \in Slots
    BY OwnSlots
  <2>2. /\ HashOnce'
        /\ \A k \in 1..Len(hash') : \E j \in 1..Len(hash) : hash'[k] = hash[j] /\ hash[j].slot # s
    BY <2>1, <1>HashLess
  <2>3. HashLive'
    <3> SUFFICES ASSUME NEW k \in 1..Len(hash'), NEW r \in Slots, hash'[k].slot = r
                 PROVE  conn'[r].fd = hash'[k].fd /\ InUse(r)' /\ ~ Unhashed(r)'
      BY DEF HashLive
    <3>1. PICK j \in 1..Len(hash) : hash'[k] = hash[j] /\ hash[j].slot # s
      BY <2>2
    <3>2. r # s /\ conn[r].fd = hash'[k].fd /\ InUse(r) /\ ~ Unhashed(r)
      BY ZenonT(30), <3>1 DEF Counted, HashLive
    <3>3. r[1] \in Threads
      BY DEF Slots
    <3> QED BY <3>2, <3>3 DEF InUseSame, Unhashed
  <2>5. DataKnown' /\ JobsLive' /\ OpenHasFd'
    BY <1>DataKept, <1>JobsKept DEF Counted, LifeGoesOn, OpenHasFd
  <2>6. \A r \in Slots : HeldBy(r)' = HeldBy(r)
    BY DEF HeldBy
  <2> QED BY ZenonT(30), <2>2, <2>3, <2>5, <2>6, <1>CountedKept
<1>CountedUnhash.
    ASSUME InUseSame, Undisturbed', NEW t \in Threads,
           Unhash(t) \/ (ProcessClose(t) /\ fdmap[t][Head(queue[t]).fd] # NULL)
    PROVE  Counted'
  <2> USE <1>CountedUnhash
  <2>1. /\ UNCHANGED <<conn, free, spc, job>> /\ DataFrom
        /\ \A u \in Threads \ {t} : tpc'[u] = tpc[u] /\ task'[u] = task[u]
    <3>1. UNCHANGED <<conn, free, spc, job>> /\ (UNCHANGED queue \/ Dequeue(t, "close"))
      BY DEF Unhash, ProcessClose, senderVars
    <3>2. DataFrom
      BY <3>1, <1>DataDequeued DEF DataFrom
    <3>3. \A u \in Threads \ {t} : tpc'[u] = tpc[u] /\ task'[u] = task[u]
      BY DEF TypeOK, TaskOK, Unhash, ProcessClose, Goto
    <3> QED BY <3>1, <3>2, <3>3
  <2>2. \E f \in Fds : \E s \in Own(t) :
          /\ conn[s].fd = f /\ HashRemove(f) /\ task'[t].slot = s
          /\ mishaps' = IF RemovesAnother(f, s) THEN mishaps \union {<<"entry", f>>} ELSE mishaps
    <3>1. CASE Unhash(t)
      <4>1. tpc[t] \in Unmapped /\ task' = task
        BY <3>1 DEF Unhash, Unmapped
      <4>2. task[t].fd \in Fds /\ task[t].slot \in Own(t) /\ conn[task[t].slot].fd = task[t].fd
        BY <4>1, TaskInHand DEF Working, Owned, TaskMapped
      <4> QED BY <3>1, <4>1, <4>2 DEF Unhash
    <3>2. CASE ProcessClose(t) /\ fdmap[t][Head(queue[t]).fd] # NULL
      <4>1. PICK f : f = Head(queue[t]).fd
        OBVIOUS
      <4>2. f \in Fds
        <5>1. Head(queue[t]) \in MessageType
          BY <3>2, Dequeued DEF ProcessClose
        <5> QED BY <4>1, <5>1 DEF MessageType
      <4>3. conn[fdmap[t][f]].fd = f /\ fdmap[t][f] \in Own(t)
        <5>1. fdmap[t][f] # NULL
          BY ZenonT(30), <3>2, <4>1
        <5> QED BY ONLY ZenonT(30), TypeOK, Owned, <4>2, <5>1, ServedFacts, MapInUse
      <4>4. task'[t].slot = fdmap[t][f]
        <5>1. task' = [task EXCEPT ![t] = [fd |-> f, slot |-> fdmap[t][f], back |-> "drain"]]
          BY ZenonT(30), <3>2, <4>1 DEF ProcessClose
        <5>2. t \in DOMAIN task
          BY ZenonT(30) DEF TypeOK, TaskOK
        <5> QED BY ZenonT(30), <5>1, <5>2
      <4> QED BY ZenonT(30), <3>2, <4>1, <4>2, <4>3, <4>4 DEF ProcessClose
    <3> QED BY <3>1, <3>2
  <2>3. PICK f \in Fds : \E s \in Own(t) :
          /\ conn[s].fd = f /\ HashRemove(f) /\ task'[t].slot = s
          /\ mishaps' = IF RemovesAnother(f, s) THEN mishaps \union {<<"entry", f>>} ELSE mishaps
    BY <2>2
  <2>4. PICK s \in Own(t) :
          /\ conn[s].fd = f /\ HashRemove(f) /\ task'[t].slot = s
          /\ mishaps' = IF RemovesAnother(f, s) THEN mishaps \union {<<"entry", f>>} ELSE mishaps
    BY <2>3
  <2>5. ~ RemovesAnother(f, s) /\ UNCHANGED mishaps
    <3>1. <<"entry", f>> \notin mishaps'
      BY DEF Undisturbed
    <3> QED BY <2>4, <3>1
  <2> QED BY ZenonT(30), <2>1, <2>4, <2>5, <1>CountedRemove
(* One slot s begins or ends a life, and the senders stay where they are.  *)
<1>CountedSlot.
    ASSUME NEW s \in Slots, UNCHANGED <<spc, job>>,
           \A r \in Slots \ {s} : /\ conn'[r] = conn[r] /\ (InUse(r)' <=> InUse(r))
                                  /\ <<"tls", r>> \in mishaps' <=> <<"tls", r>> \in mishaps,
           conn'[s].ref = Cardinality(HeldBy(s)) + (IF InUse(s)' THEN 1 ELSE 0),
           conn'[s].st # "open",
           HeldBy(s) # {} => conn'[s].fd = conn[s].fd,
           InUse(s)' => <<"tls", s>> \notin mishaps',
           \A u \in Threads, i \in Indices : <<u, i>> # s => (OnStack(u, i)' <=> OnStack(u, i)),
           \A u \in Threads, i \in Indices : <<u, i>> = s =>
             IF OnStack(u, i)'
             THEN conn'[s].fd = NULL /\ HeldBy(s) = {} /\ <<"tls", s>> \notin mishaps'
             ELSE InUse(s)' \/ HeldBy(s) # {} \/ <<"tls", s>> \in mishaps',
           HashLive', HashOnce', DataKnown'
    PROVE  Counted'
  <2> USE <1>CountedSlot
  <2>0. \A r : HeldBy(r)' = HeldBy(r)
    BY DEF HeldBy
  <2>1. RefsExact'
    <3>1. ASSUME NEW r \in Slots
          PROVE  /\ IsFiniteSet(HeldBy(r))
                 /\ conn'[r].ref = Cardinality(HeldBy(r)) + (IF InUse(r)' THEN 1 ELSE 0)
      <4>1. CASE r = s
        BY <4>1 DEF Counted, RefsExact
      <4>2. CASE r # s
        <5>1. conn'[r] = conn[r] /\ (InUse(r)' <=> InUse(r))
          BY <4>2
        <5> QED BY <5>1 DEF Counted, RefsExact
      <4> QED BY <4>1, <4>2
    <3> QED BY <2>0, <3>1 DEF RefsExact
  <2>2. JobsLive'
    <3> SUFFICES ASSUME NEW x \in Senders, spc[x] # "idle" PROVE conn'[job[x].slot].fd = job[x].fd
      BY DEF JobsLive
    <3>1. conn[job[x].slot].fd = job[x].fd /\ x \in HeldBy(job[x].slot)
      BY DEF Counted, JobsLive, HeldBy
    <3>2. CASE job[x].slot = s
      BY <3>1, <3>2
    <3>3. CASE job[x].slot \in Slots \ {s}
      BY <3>1, <3>3
    <3>4. job[x].slot \in Slots
      BY DEF TypeOK, SenderOK, JobType
    <3> QED BY <3>2, <3>3, <3>4
  <2>3. OpenHasFd'
    BY DEF Counted, OpenHasFd
  <2>4. LostUnused'
    BY DEF Counted, LostUnused
  <2>5. \A u \in Threads, i \in Indices : <<u, i>> \in Slots
    BY DEF Slots
  <2>6. StackClean'
    <3> SUFFICES ASSUME NEW u \in Threads, NEW i \in Indices, OnStack(u, i)'
                 PROVE  /\ conn'[<<u, i>>].fd = NULL /\ HeldBy(<<u, i>>)' = {}
                        /\ <<"tls", <<u, i>>>> \notin mishaps'
      BY DEF StackClean
    <3>1. CASE <<u, i>> = s
      BY <2>0, <3>1
    <3>2. CASE <<u, i>> # s
      BY ZenonT(30), <2>0, <2>5, <3>2 DEF Counted, StackClean
    <3> QED BY <3>1, <3>2
  <2>7. NoneForgotten'
    <3> SUFFICES ASSUME NEW u \in Threads, NEW i \in Indices
                 PROVE  \/ OnStack(u, i)' \/ InUse(<<u, i>>)' \/ HeldBy(<<u, i>>)' # {}
                        \/ Stranded(<<u, i>>)' \/ <<"tls", <<u, i>>>> \in mishaps'
      BY DEF NoneForgotten
    <3>1. CASE <<u, i>> = s
      BY <2>0, <3>1
    <3>2. CASE <<u, i>> # s
      <4>1. Stranded(<<u, i>>)' <=> Stranded(<<u, i>>)
        BY <2>5, <3>2 DEF Stranded
      <4> QED BY ZenonT(30), <2>0, <2>5, <3>2, <4>1 DEF Counted, NoneForgotten
    <3> QED BY <3>1, <3>2
  <2> QED BY ZenonT(30), <2>1, <2>2, <2>3, <2>4, <2>6, <2>7 DEF Counted
(* The slot whose TLS set-up failed is in nobody's hands.                  *)
<1>CountedTls. ASSUME NEW t \in Threads, TlsInitFails(t) PROVE Counted'
  <2> USE <1>CountedTls
  <2>0. PICK s : s = PoppedSlot(t)
    OBVIOUS
  <2>1. /\ Dequeue(t, "new") /\ PopFree(t) /\ free[t] # <<>>
        /\ mishaps' = mishaps \union {<<"tls", s>>}
        /\ conn' = [conn EXCEPT ![s] = Wiped(conn[s].gen + 1)]
        /\ UNCHANGED <<fdmap, hash, tpc, task, spc, job>>
    BY <2>0 DEF TlsInitFails, senderVars
  <2>2. /\ ~ InUse(s) /\ OnStack(t, s[2]) /\ s[2] \in Indices
        /\ \A u \in Threads, i \in Indices : OnStack(u, i)' <=> OnStack(u, i) /\ <<u, i>> # s
    BY <2>0, <2>1, PopsFree DEF Owned
  <2>3. s \in Own(t) /\ s \in Slots /\ s = <<t, s[2]>>
    <3>1. s \in Own(t)
      BY <2>0, <2>1, Popped
    <3> QED BY <3>1, OwnSlots, SMT DEF Own
  <2>4. conn[s].gen + 1 \in Nat /\ 0 \in Int /\ NULL \in Fds \union {NULL}
    BY <2>3, SMT DEF TypeOK, ConnType
  <2>5. /\ conn'[s].fd = NULL /\ conn'[s].st = "pending" /\ conn'[s].ref = 0
        /\ conn'[s].gen = conn[s].gen + 1
        /\ \A r \in Slots \ {s} : conn'[r] = conn[r]
    BY <2>1, <2>3, <2>4, SlotSet DEF Wiped
  <2>6. HeldBy(s) = {} /\ Cardinality(HeldBy(s)) = 0
    BY <2>2, <2>3 DEF Counted, StackClean, SetFacts
  <2>7. InUseSame
    BY <2>1 DEF InUseSame, InUse, HoldsTask
  <2>8. DataKnown'
    <3>1. LifeGoesOn
      BY <2>5 DEF LifeGoesOn
    <3> QED BY <2>1, <3>1, <1>DataDequeued, <1>DataKept DEF Counted
  <2>9. HashLive' /\ HashOnce'
    <3>1. \A k \in 1..Len(hash) : hash[k].slot # s
      BY <2>2, <2>3 DEF Counted, HashLive
    <3>2. HashOnce'
      BY <2>1 DEF Counted, HashOnce
    <3> SUFFICES ASSUME NEW k \in 1..Len(hash), NEW r \in Slots, hash[k].slot = r
                 PROVE  conn'[r].fd = hash[k].fd /\ InUse(r)' /\ ~ Unhashed(r)'
      BY ZenonT(30), <2>1, <3>2 DEF HashLive
    <3>3. conn[r].fd = hash[k].fd /\ InUse(r) /\ ~ Unhashed(r) /\ r # s
      BY <3>1 DEF Counted, HashLive
    <3> QED BY ZenonT(30), <2>1, <2>5, <2>7, <3>3 DEF InUseSame, Unhashed
  <2>10. conn'[s].ref = Cardinality(HeldBy(s)) + (IF InUse(s)' THEN 1 ELSE 0)
    <3>1. ~ InUse(s)'
      BY <2>2, <2>3, <2>7 DEF InUseSame
    <3> QED BY ONLY SMTT(30), <2>5, <2>6, <3>1
  <2>11. ~ InUse(s)' /\ <<"tls", s>> \in mishaps'
    BY <2>1, <2>2, <2>3, <2>7 DEF InUseSame
  <2>12. \A r \in Slots \ {s} : /\ conn'[r] = conn[r] /\ (InUse(r)' <=> InUse(r))
                                /\ <<"tls", r>> \in mishaps' <=> <<"tls", r>> \in mishaps
    <3>1. \A r \in Slots \ {s} : <<"tls", r>> \in mishaps' <=> <<"tls", r>> \in mishaps
      BY <2>1
    <3> QED BY <2>5, <2>7, <3>1 DEF InUseSame
  <2>13. /\ \A u \in Threads, i \in Indices : <<u, i>> # s => (OnStack(u, i)' <=> OnStack(u, i))
         /\ \A u \in Threads, i \in Indices : <<u, i>> = s => ~ OnStack(u, i)'
    BY <2>2
  <2>14. /\ conn'[s].st # "open" /\ (HeldBy(s) # {} => conn'[s].fd = conn[s].fd)
         /\ InUse(s)' => <<"tls", s>> \notin mishaps'
         /\ \A u \in Threads, i \in Indices : <<u, i>> = s =>
              IF OnStack(u, i)'
              THEN conn'[s].fd = NULL /\ HeldBy(s) = {} /\ <<"tls", s>> \notin mishaps'
              ELSE InUse(s)' \/ HeldBy(s) # {} \/ <<"tls", s>> \in mishaps'
    BY <2>5, <2>6, <2>11, <2>13
  <2> QED BY ONLY ZenonT(30), TypeOK, Counted, <2>1, <2>3, <2>8, <2>9, <2>10, <2>12, <2>13, <2>14, <1>CountedSlot
(* A new connection enters the hash under a slot that was not in it.       *)
<1>CountedRegister. ASSUME NEW t \in Threads, RegisterConnection(t) PROVE Counted'
  <2> USE <1>CountedRegister
  <2>0. PICK f, s : Registers(t, f, s)
    BY Registered
  <2>1. /\ f = Head(queue[t]).fd /\ s = PoppedSlot(t)
        /\ f \in Fds /\ s \in Own(t) /\ s \in Slots /\ s # NULL
        /\ Dequeue(t, "new") /\ PopFree(t) /\ free[t] # <<>>
        /\ conn'[s].fd = f /\ conn'[s].st = "pending" /\ conn'[s].ref = 1
        /\ conn'[s].gen = conn[s].gen + 1
        /\ \A r \in Slots \ {s} : conn'[r] = conn[r]
        /\ fdmap'[t][f] = s
        /\ \A g \in Fds \ {f} : fdmap'[t][g] = fdmap[t][g]
        /\ \A u \in Threads \ {t} : fdmap'[u] = fdmap[u] /\ tpc'[u] = tpc[u] /\ task'[u] = task[u]
        /\ task[t] = NoTask /\ tpc'[t] = "adding" /\ task'[t].slot = s
        /\ HashInsert(f, s)
        /\ UNCHANGED <<mishaps, spc, job>>
    BY <2>0 DEF Registers
  <2>2. /\ ~ InUse(s) /\ OnStack(t, s[2]) /\ s[2] \in Indices
        /\ \A u \in Threads, i \in Indices : OnStack(u, i)' <=> OnStack(u, i) /\ <<u, i>> # s
    <3>1. StackFree /\ StackOnce
      BY DEF Owned
    <3> QED BY ONLY ZenonT(30), TypeOK, <2>1, <3>1, PopsFree
  <2>3. s = <<t, s[2]>> /\ s[1] = t
    <3>1. s \in Own(t)
      BY Zenon, <2>1
    <3> QED BY ONLY SMTT(30), <3>1 DEF Own
  <2>4. fdmap[t][f] = NULL
    <3>1. f = queue[t][1].fd /\ 1 \in NewMessages(t)
      BY <2>1, NewTaken
    <3> QED BY <3>1 DEF Owned, NewOwns
  <2>5. \A r \in Slots : InUse(r)' <=> InUse(r) \/ r = s
    BY <2>1, <2>4, InUseMore
  <2>6. HeldBy(s) = {} /\ Cardinality(HeldBy(s)) = 0 /\ <<"tls", s>> \notin mishaps
    BY <2>2, <2>3 DEF Counted, StackClean, SetFacts
  <2>7. DataKnown'
    <3>1. LifeGoesOn
      BY <2>1 DEF LifeGoesOn
    <3> QED BY <2>1, <3>1, <1>DataDequeued, <1>DataKept DEF Counted
  <2>8. HashLive' /\ HashOnce'
    <3>1. \A k \in 1..Len(hash) : hash[k].slot # s
      BY <2>1, <2>2 DEF Counted, HashLive
    <3>2. \A k \in 1..Len(hash') : \/ k \in 1..Len(hash) /\ hash'[k] = hash[k]
                                   \/ k = Len(hash) + 1 /\ hash'[k].fd = f /\ hash'[k].slot = s
      <4>1. \/ hash' = hash
            \/ /\ Len(hash') = Len(hash) + 1
               /\ hash'[Len(hash) + 1] = [fd |-> f, slot |-> s]
               /\ \A k \in 1..Len(hash) : hash'[k] = hash[k]
        BY <2>1, HashInserts
      <4>2. Len(hash) \in Nat
        BY SMT DEF TypeOK
      <4> QED BY ONLY SMTT(30), <4>1, <4>2
    <3>3. HashOnce'
      <4>1. \A k, j \in 1..Len(hash) : hash[k].slot = hash[j].slot => k = j
        BY DEF Counted, HashOnce
      <4>2. \A k, j \in 1..Len(hash') : hash'[k].slot = hash'[j].slot => k = j
        BY ONLY <3>1, <3>2, <4>1, Zenon
      <4> QED BY <4>2 DEF HashOnce
    <3> SUFFICES ASSUME NEW k \in 1..Len(hash'), NEW r \in Slots, hash'[k].slot = r
                 PROVE  conn'[r].fd = hash'[k].fd /\ InUse(r)' /\ ~ Unhashed(r)'
      BY <3>3 DEF HashLive
    <3>4. r[1] \in Threads
      BY DEF Slots
    <3>5. CASE r = s
      <4>1. ~ Unhashed(r)'
        BY <2>1, <2>3, <3>5 DEF Unhashed
      <4>2. hash'[k].fd = f
        BY <3>1, <3>2, <3>5
      <4> QED BY <2>1, <2>5, <3>5, <4>1, <4>2
    <3>6. CASE r # s
      <4>1. k \in 1..Len(hash) /\ hash'[k] = hash[k]
        BY <3>2, <3>6
      <4>2. conn[r].fd = hash[k].fd /\ InUse(r) /\ ~ Unhashed(r)
        BY <4>1 DEF Counted, HashLive
      <4>3. ~ Unhashed(r)'
        BY ZenonT(30), <2>1, <3>4, <4>2 DEF Unhashed
      <4> QED BY ZenonT(30), <2>1, <2>5, <3>6, <4>1, <4>2, <4>3
    <3> QED BY <3>5, <3>6
  <2>9. InUse(s)' /\ conn'[s].ref = Cardinality(HeldBy(s)) + (IF InUse(s)' THEN 1 ELSE 0)
    <3>1. InUse(s)'
      BY <2>1, <2>5
    <3>2. conn'[s].ref = 1 /\ Cardinality(HeldBy(s)) = 0
      BY ZenonT(30), <2>1, <2>6
    <3> QED BY ONLY SMTT(30), <3>1, <3>2
  <2>10. \A r \in Slots \ {s} : /\ conn'[r] = conn[r] /\ (InUse(r)' <=> InUse(r))
                                /\ <<"tls", r>> \in mishaps' <=> <<"tls", r>> \in mishaps
    BY ZenonT(30), <2>1, <2>5
  <2>11. /\ \A u \in Threads, i \in Indices : <<u, i>> # s => (OnStack(u, i)' <=> OnStack(u, i))
         /\ \A u \in Threads, i \in Indices : <<u, i>> = s => ~ OnStack(u, i)'
    BY <2>2
  <2>12. /\ conn'[s].st # "open" /\ (HeldBy(s) # {} => conn'[s].fd = conn[s].fd)
         /\ InUse(s)' => <<"tls", s>> \notin mishaps'
         /\ \A u \in Threads, i \in Indices : <<u, i>> = s =>
              IF OnStack(u, i)'
              THEN conn'[s].fd = NULL /\ HeldBy(s) = {} /\ <<"tls", s>> \notin mishaps'
              ELSE InUse(s)' \/ HeldBy(s) # {} \/ <<"tls", s>> \in mishaps'
    BY ZenonT(30), <2>1, <2>6, <2>9, <2>11
  <2> QED BY ONLY ZenonT(30), TypeOK, Counted, <2>1, <2>7, <2>8, <2>9, <2>10, <2>11, <2>12, <1>CountedSlot
(* The last reference frees the slot: there is room on the stack.          *)
<1>CountedRelease.
    ASSUME NEW t \in Threads, Release(t) \/ MsgRelease(t)
    PROVE  Counted'
  <2> USE <1>CountedRelease
  <2>0. PICK f, s : Releases(t, f, s)
    BY Released
  <2>1. /\ s = task[t].slot /\ s \in Slots /\ s = <<t, s[2]>> /\ s[2] \in Indices
        /\ \A u \in Threads \ {t} : tpc'[u] = tpc[u] /\ task'[u] = task[u]
        /\ tpc[t] \in {"release", "msgrelease"} /\ tpc'[t] \notin Unhashing
        /\ \A r \in Slots \ {s} : conn'[r] = conn[r]
        /\ conn'[s].gen = conn[s].gen
        /\ conn[s].ref = 1 => conn'[s].fd = NULL /\ conn'[s].st = "pending" /\ conn'[s].ref = 0
        /\ conn[s].ref # 1 => /\ conn'[s].fd = conn[s].fd
                              /\ conn'[s].st = "closed"
                              /\ conn'[s].ref = conn[s].ref - 1
        /\ \A r \in Slots : InUse(r)' <=> InUse(r) /\ r # s
        /\ InUse(s)
        /\ UNCHANGED <<hash, queue, mishaps, spc, job>>
    BY ZenonT(30), <2>0 DEF Releases, Between, Unhashing
  <2>2. s[1] = t
    <3>1. s = <<t, s[2]>>
      BY ZenonT(30), <2>1
    <3> QED BY ONLY SMTT(30), <3>1
  <2>3. /\ IsFiniteSet(HeldBy(s)) /\ conn[s].ref = Cardinality(HeldBy(s)) + 1
        /\ <<"tls", s>> \notin mishaps
    <3>1. s \in Slots /\ InUse(s)
      BY ZenonT(30), <2>1
    <3> QED BY ZenonT(30), <3>1 DEF Counted, RefsExact, LostUnused
  <2>4. Cardinality(HeldBy(s)) \in Nat /\ (Cardinality(HeldBy(s)) = 0 <=> HeldBy(s) = {})
    BY ZenonT(30), <2>3 DEF SetFacts
  <2>5. /\ conn[s].ref = 1 <=> HeldBy(s) = {}
        /\ conn'[s].ref = Cardinality(HeldBy(s))
    <3>1. /\ conn[s].ref = 1 => conn'[s].ref = 0
          /\ conn[s].ref # 1 => conn'[s].ref = conn[s].ref - 1
      BY ZenonT(30), <2>1
    <3> QED BY ONLY SMTT(30), <2>3, <2>4, <3>1
  <2>6. ~ OnStack(t, s[2])
    BY <2>1 DEF Owned, StackFree
  <2>7. conn[s].ref = 1 => Pushes(t, s)
    <3>1. Len(free[t]) < MaxConnections
      <4>1. free[t] \in Seq(Indices)
        BY DEF TypeOK
      <4>2. /\ \A k, j \in 1..Len(free[t]) : free[t][k] = free[t][j] => k = j
            /\ \A k \in 1..Len(free[t]) : free[t][k] # s[2]
        BY <2>6 DEF Owned, StackOnce, OnStack
      <4> QED BY <2>1, <4>1, <4>2 DEF SetFacts
    <3>2. ~ (Len(free[t]) >= MaxConnections)
      BY <3>1, ConnAssumption, SMT DEF TypeOK
    <3> QED BY <2>0, <3>2, Pushed
  <2>8. /\ \A u \in Threads, i \in Indices : <<u, i>> # s => (OnStack(u, i)' <=> OnStack(u, i))
        /\ \A u \in Threads, i \in Indices : <<u, i>> = s => (OnStack(u, i)' <=> conn[s].ref = 1)
    <3>1. \A u \in Threads, i \in Indices :
            OnStack(u, i)' <=> OnStack(u, i) \/ (Pushes(t, s) /\ <<u, i>> = s)
      BY <2>0, PushesOn
    <3>2. \A u \in Threads, i \in Indices : <<u, i>> = s => ~ OnStack(u, i)
      BY <2>1 DEF Owned, StackFree
    <3>3. Pushes(t, s) => conn[s].ref = 1
      BY DEF Pushes
    <3> QED BY <2>7, <3>1, <3>2, <3>3
  <2>9. DataKnown'
    <3>1. LifeGoesOn
      BY <2>1 DEF LifeGoesOn
    <3> QED BY <2>1, <3>1, <1>DataKept DEF Counted, DataFrom
  <2>10. HashLive' /\ HashOnce'
    <3>1. Unhashed(s)
      BY <2>1, <2>2 DEF Unhashed
    <3>2. HashOnce'
      BY <2>1 DEF Counted, HashOnce
    <3> SUFFICES ASSUME NEW k \in 1..Len(hash), NEW r \in Slots, hash[k].slot = r
                 PROVE  conn'[r].fd = hash[k].fd /\ InUse(r)' /\ ~ Unhashed(r)'
      BY ZenonT(30), <2>1, <3>2 DEF HashLive
    <3>3. conn[r].fd = hash[k].fd /\ InUse(r) /\ ~ Unhashed(r)
      BY DEF Counted, HashLive
    <3>4. r # s /\ r[1] \in Threads
      BY <3>1, <3>3 DEF Slots
    <3>5. ~ Unhashed(r)'
      BY ZenonT(30), <2>1, <3>3, <3>4 DEF Unhashed, Unhashing
    <3> QED BY ZenonT(30), <2>1, <3>3, <3>4, <3>5
  <2>11. conn'[s].ref = Cardinality(HeldBy(s)) + (IF InUse(s)' THEN 1 ELSE 0)
    <3>1. ~ InUse(s)'
      BY <2>1
    <3> QED BY ONLY SMTT(30), <2>4, <2>5, <3>1
  <2>12. \A r \in Slots \ {s} : /\ conn'[r] = conn[r] /\ (InUse(r)' <=> InUse(r))
                                /\ <<"tls", r>> \in mishaps' <=> <<"tls", r>> \in mishaps
    BY <2>1
  <2>13. /\ conn'[s].st # "open" /\ (HeldBy(s) # {} => conn'[s].fd = conn[s].fd)
         /\ InUse(s)' => <<"tls", s>> \notin mishaps'
         /\ \A u \in Threads, i \in Indices : <<u, i>> = s =>
              IF OnStack(u, i)'
              THEN conn'[s].fd = NULL /\ HeldBy(s) = {} /\ <<"tls", s>> \notin mishaps'
              ELSE InUse(s)' \/ HeldBy(s) # {} \/ <<"tls", s>> \in mishaps'
    <3>1. conn'[s].st # "open"
      BY <2>1
    <3> QED BY ZenonT(30), <2>1, <2>3, <2>5, <2>8, <3>1
  <2> QED BY ONLY ZenonT(30), TypeOK, Counted, <2>1, <2>8, <2>9, <2>10, <2>11, <2>12, <2>13, <1>CountedSlot
<1>0. ASSUME NEW t \in Threads, Keeps(t) PROVE InUseSame
  BY <1>0, OwnedStep
<1>1. CASE Same
  BY <1>1, <1>CountedStill DEF Same, DataFrom
<1>2. ASSUME NEW t \in Threads, ThreadStep(t) PROVE Counted'
  <2>1. CASE Rests(t) \/ Ignores(t) \/ NoFreeSlot(t)
    BY <2>1, <1>CountedResting DEF Rests, Ignores
  <2>2. CASE Handles(t) \/ ProcessData(t)
    BY ZenonT(30), <2>2, <1>CountedEvent, <1>CountedData DEF Handles
  <2>3. CASE Closes(t)
    BY ZenonT(30), <1>0, <2>3, <1>CountedClose DEF Closes, Keeps
  <2>4. CASE Counts(t) \/ AddToEpoll(t) \/ MsgCloseFd(t)
    BY <1>0, <2>4, <1>CountedMoves DEF Counts, Keeps
  <2>5. CASE Unhashes(t)
    BY <1>0, <2>5, <1>CountedUnhash DEF Unhashes, Keeps
  <2>6. CASE Lets(t)
    BY <2>6, <1>CountedRelease DEF Lets
  <2>7. CASE TlsInitFails(t) \/ RegisterConnection(t)
    BY ZenonT(30), <2>7, <1>CountedTls, <1>CountedRegister
  <2>8. CASE AddToEpollFails(t)
    <3>1. <<"epoll", task[t].slot>> \in mishaps'
      BY <2>8 DEF AddToEpollFails
    <3> QED BY <3>1 DEF Undisturbed
  <2> QED BY ZenonT(30), <1>2, <2>1, <2>2, <2>3, <2>4, <2>5, <2>6, <2>7, <2>8 DEF ThreadStep, TurnsAway
<1>3. ASSUME NEW x \in Senders, Sender(x) PROVE Counted'
  BY <1>3, <1>CountedFind, <1>CountedCall, <1>CountedUnref DEF Sender
<1> QED BY ZenonT(30), <1>1, <1>2, <1>3, Steps, <1>CountedAcceptor

-----------------------------------------------------------------------------

(* The operators.                                                          *)

-----------------------------------------------------------------------------

(* Types are kept.                                                         *)

LEMMA TypeInit == Init => TypeOK
<1> SUFFICES ASSUME Init PROVE TypeOK
  BY ZenonT(30)
<1>1. conn \in [Slots -> ConnType] /\ active \in [Threads -> Int]
  BY ConnAssumption, SMT DEF Init, ConnType
<1>2. free \in [Threads -> Seq(Indices)]
  <2> DEFINE h == [i \in 1..MaxConnections |-> MaxConnections - i]
  <2>1. h \in [1..MaxConnections -> Indices] /\ MaxConnections \in Nat
    BY ConnAssumption, SMT DEF Indices
  <2>2. h \in Seq(Indices)
    BY <2>1, SeqOf
  <2> QED BY <2>2 DEF Init
<1>3. hash \in Seq([fd : Fds, slot : Slots]) /\ queue \in [Threads -> Seq(MessageType)]
  BY SMT DEF Init
<1>4. sockets \in [Fds -> {"closed", "accepted", "queued", "served"}] /\ holding \in Fds \union {NULL}
  BY DEF Init
<1>5. MapOK
  BY DEF Init, MapOK
<1>6. TaskOK
  BY DEF Init, TaskOK, Working, Resting, Mapped, Unmapped
<1>7. SenderOK
  BY DEF Init, SenderOK
<1> QED BY ZenonT(30), <1>1, <1>2, <1>3, <1>4, <1>5, <1>6, <1>7 DEF TypeOK

-----------------------------------------------------------------------------

(* The invariant.                                                          *)

LEMMA Grow == ASSUME TypeOK, [Next]_vars PROVE mishaps \subseteq mishaps'
<1>1. ASSUME NEW t \in Threads, ThreadStep(t) PROVE mishaps \subseteq mishaps'
  <2>1. CASE Rests(t) \/ Handles(t) \/ ProcessData(t) \/ Ignores(t) \/ Counts(t) \/ Lets(t)
    BY <2>1 DEF Rests, Handles, Ignores, Counts, Lets, EpollWait, EpollTimeout, WakeupEvent,
       EventsDone, DrainDone, EventHandled, ProcessData, ProcessClose, CountDown, MsgCount, Release, MsgRelease
  <2>2. CASE Closes(t) \/ Unhashes(t)
    BY <2>2 DEF Closes, Unhashes, CloseConnection, Unhash, ProcessClose
  <2>3. CASE TurnsAway(t) \/ MsgCloseFd(t) \/ RegisterConnection(t) \/ AddToEpoll(t) \/ AddToEpollFails(t)
    BY <2>3 DEF TurnsAway, NoFreeSlot, TlsInitFails, MsgCloseFd, RegisterConnection, AddToEpoll,
       AddToEpollFails
  <2> QED BY <1>1, <2>1, <2>2, <2>3 DEF ThreadStep
<1>2. ASSUME NEW x \in Senders, Sender(x) PROVE mishaps' = mishaps
  BY <1>2 DEF Sender, FindAndRef, CheckOpen, Enqueue, QueueFull, Unref
<1>3. CASE Transfer
  BY <1>3 DEF Transfer, Accept, RejectClient, HandOff
<1>4. CASE Same
  BY <1>4 DEF Same
<1> QED BY ZenonT(30), <1>1, <1>2, <1>3, <1>4, Steps

LEMMA InitStep == ASSUME SetFacts, Init PROVE Inv
<1>1. TypeOK
  BY TypeInit
<1>2. /\ \A s \in Slots : conn[s].fd = NULL /\ conn[s].st = "closed" /\ conn[s].ref = 0
      /\ \A t \in Threads : tpc[t] = "wait" /\ task[t] = NoTask /\ active[t] = 0 /\ queue[t] = <<>>
      /\ \A t \in Threads, f \in Fds : fdmap[t][f] = NULL
      /\ \A f \in Fds : sockets[f] = "closed"
      /\ \A x \in Senders : spc[x] = "idle"
      /\ hash = <<>> /\ holding = NULL /\ mishaps = {}
  BY DEF Init
<1>3. \A s \in Slots : s[1] \in Threads /\ s # NULL
  BY ZenonT(30), ConnAssumption DEF Slots
<1>4. \A s \in Slots : ~ InUse(s)
  BY <1>2, <1>3, SMT DEF InUse, HoldsTask, NoTask
<1>5. \A s : HeldBy(s) = {}
  BY <1>2 DEF HeldBy
<1>6. \A t \in Threads : Served(t) = {} /\ NewMessages(t) = {} /\ 1..Len(queue[t]) = {}
  <2>1. \A t \in Threads : 1..Len(queue[t]) = {}
    BY SMTT(30), <1>2, SMT
  <2> QED BY ZenonT(30), <1>2, <2>1 DEF Served, NewMessages
<1>7. ASSUME NEW t \in Threads
      PROVE  /\ Len(free[t]) = MaxConnections
             /\ \A k \in 1..MaxConnections : free[t][k] = MaxConnections - k
  BY ConnAssumption, SMT DEF Init
<1>8. Held /\ SocketAccounted
  BY <1>2 DEF Held, SocketAccounted
<1>9. Owned
  <2>1. \A t \in Threads : TaskMapped(t)
    BY <1>2 DEF TaskMapped, Mapped, Unmapped
  <2>2. MapOwns /\ NewOwns /\ NewOnce /\ HoldingOwns
    BY <1>2, <1>6 DEF MapOwns, NewOwns, NewOnce, HoldingOwns
  <2>3. StackFree /\ LiveInUse
    BY ZenonT(30), <1>2, <1>4 DEF StackFree, LiveInUse, Slots
  <2>4. StackOnce
    BY ONLY SMTT(30), <1>7, ConnAssumption DEF StackOnce
  <2>5. CountExact
    <3>1. IsFiniteSet({}) /\ Cardinality({}) = 0
      BY DEF SetFacts
    <3>2. \A t \in Threads : /\ active[t] = 0 /\ tpc[t] = "wait"
                             /\ IsFiniteSet(Served(t)) /\ Cardinality(Served(t)) = 0
      BY <1>2, <1>6, <3>1
    <3> QED BY <3>2, SMT DEF CountExact
  <2> QED BY <2>1, <2>2, <2>3, <2>4, <2>5 DEF Owned
<1>10. Counted
  <2>1. RefsExact
    <3>1. IsFiniteSet({}) /\ Cardinality({}) = 0
      BY DEF SetFacts
    <3>2. \A s \in Slots : /\ conn[s].ref = 0 /\ ~ InUse(s)
                           /\ IsFiniteSet(HeldBy(s)) /\ Cardinality(HeldBy(s)) = 0
      BY ZenonT(30), <1>2, <1>4, <1>5, <3>1
    <3> QED BY <3>2, SMT DEF RefsExact
  <2>2. 1..Len(hash) = {}
    BY <1>2, SMT
  <2>3. HashLive /\ HashOnce /\ JobsLive /\ OpenHasFd /\ DataKnown /\ LostUnused
    BY <1>2, <1>6, <2>2 DEF HashLive, HashOnce, JobsLive, OpenHasFd, DataKnown, LostUnused
  <2>4. StackClean
    BY <1>2, <1>5 DEF StackClean, Slots
  <2>5. \A t \in Threads, i \in Indices : OnStack(t, i)
    <3> SUFFICES ASSUME NEW t \in Threads, NEW i \in Indices
                 PROVE  \E k \in 1..Len(free[t]) : free[t][k] = i
      BY DEF OnStack
    <3>1. MaxConnections - i \in 1..MaxConnections /\ MaxConnections - (MaxConnections - i) = i
      BY ConnAssumption, SMT DEF Indices
    <3> QED BY <1>7, <3>1
  <2>6. NoneForgotten
    BY <2>5 DEF NoneForgotten
  <2> QED BY ZenonT(30), <2>1, <2>3, <2>4, <2>6 DEF Counted
<1> QED BY <1>1, <1>8, <1>9, <1>10 DEF Inv

LEMMA NextStep == ASSUME SetFacts, Inv, [Next]_vars PROVE Inv'
<1>1. mishaps \subseteq mishaps'
  BY Grow DEF Inv
<1>2. (NoneStolen' => NoneStolen) /\ (Undisturbed' => Undisturbed)
  BY <1>1 DEF NoneStolen, Undisturbed
<1>3. Undisturbed' => NoneStolen'
  BY DEF NoneStolen, Undisturbed
<1>4. TypeOK' /\ Held' /\ SocketAccounted'
  BY TypeStep, AccountedStep DEF Inv
<1>5. NoneStolen' => Owned'
  BY <1>2, OwnedStep DEF Inv
<1>6. Undisturbed' => Counted'
  BY <1>2, <1>3, CountedStep DEF Inv
<1> QED BY <1>4, <1>5, <1>6 DEF Inv

(* What the layers say about the properties.                               *)
LEMMA OwnedMeans == Owned => SocketNotStolen /\ ActiveExact
<1>1. Owned => SocketNotStolen
  BY DEF Owned, MapOwns, NewOwns, HoldingOwns, SocketNotStolen
<1>2. Owned => ActiveExact
  BY DEF Owned, CountExact, ActiveExact
<1> QED BY <1>1, <1>2

LEMMA CountedMeans == ASSUME TypeOK, Counted PROVE RefCountExact /\ HashCurrent
<1>1. RefCountExact
  BY DEF Counted, RefsExact, RefCountExact
<1>2. ASSUME NEW k \in 1..Len(hash)
      PROVE  conn[hash[k].slot].fd = hash[k].fd /\ InUse(hash[k].slot)
  <2>1. hash[k] \in [fd : Fds, slot : Slots]
    BY Element DEF TypeOK
  <2>2. hash[k].slot \in Slots
    BY <2>1
  <2> QED BY <2>2 DEF Counted, HashLive
<1>3. HashCurrent
  BY <1>2 DEF HashCurrent
<1> QED BY <1>1, <1>3

LEMMA SlotsHave == ASSUME SetFacts, TypeOK, Owned, Counted PROVE SlotAccounted
<1> SUFFICES ASSUME NEW t \in Threads, NEW i \in Indices
             PROVE  LET s == <<t, i>>
                        onStack == {k \in 1..Len(free[t]) : free[t][k] = i}
                        taken == InUse(s) \/ HeldBy(s) # {}
                    IN  IF taken \/ Stranded(s) \/ <<"tls", s>> \in mishaps
                        THEN onStack = {}
                        ELSE Cardinality(onStack) = 1
  BY DEF SlotAccounted
<1> DEFINE s == <<t, i>>
           P == {k \in 1..Len(free[t]) : free[t][k] = i}
<1>1. P # {} <=> OnStack(t, i)
  BY DEF OnStack
<1>2. OnStack(t, i) =>
        ~ InUse(s) /\ HeldBy(s) = {} /\ ~ Stranded(s) /\ <<"tls", s>> \notin mishaps
  BY DEF Owned, StackFree, Counted, StackClean, Stranded
<1>3. \/ OnStack(t, i) \/ InUse(s) \/ HeldBy(s) # {} \/ Stranded(s) \/ <<"tls", s>> \in mishaps
  BY DEF Counted, NoneForgotten
<1>4. \A k, j \in P : k = j
  BY DEF Owned, StackOnce
<1> HIDE DEF P, s
<1>5. P # {} => Cardinality(P) = 1
  <2> SUFFICES ASSUME NEW k \in P PROVE Cardinality(P) = 1
    OBVIOUS
  <2>1. P = {} \union {k} /\ k \notin {}
    BY <1>4
  <2>2. Cardinality({} \union {k}) = Cardinality({}) + 1 /\ Cardinality({}) = 0
    BY <2>1 DEF SetFacts
  <2>3. Cardinality(P) = 0 + 1
    BY ONLY <2>1, <2>2, Zenon
  <2> QED BY <2>3, SMT
<1>6. IF (InUse(s) \/ HeldBy(s) # {}) \/ Stranded(s) \/ <<"tls", s>> \in mishaps
      THEN P = {}
      ELSE Cardinality(P) = 1
  BY ZenonT(30), <1>1, <1>2, <1>3, <1>5
<1> QED BY <1>6 DEF P, s

LEMMA DataReaches == ASSUME TypeOK, Owned, Counted PROVE DataReachesItsTarget
<1> SUFFICES ASSUME NEW t \in Threads, NEW k \in 1..Len(queue[t]), NEW m, m = queue[t][k],
                    m.type = "data", Current(m), fdmap[t][m.fd] # NULL
             PROVE  fdmap[t][m.fd] = m.slot /\ conn[m.slot].gen = m.gen
  BY ZenonT(30) DEF DataReachesItsTarget
<1>1. PICK s, f : s = m.slot /\ f = m.fd
  OBVIOUS
<1>2. f \in Fds
  <2>1. queue[t] \in Seq(MessageType)
    BY DEF TypeOK
  <2>2. m \in MessageType
    BY <2>1, Element
  <2> QED BY <1>1, <2>2 DEF MessageType
<1>3. s \in Own(t) /\ (m.gen = conn[s].gen => conn[s].fd \in {f, NULL})
  BY <1>1 DEF Counted, DataKnown
<1>4. s \in Slots /\ s # NULL /\ s[1] = t
  BY <1>3, OwnSlots DEF Own
<1>5. conn[s].gen = m.gen /\ conn[s].st = "open" /\ fdmap[t][f] # NULL
  BY <1>1 DEF Current
<1>6. conn[s].fd = f /\ conn[s].fd # NULL
  BY <1>3, <1>4, <1>5 DEF Counted, OpenHasFd
<1>7. InUse(s)
  BY <1>4, <1>5, <1>6 DEF Owned, LiveInUse
<1>8. ASSUME NEW g \in Fds, fdmap[t][g] = s PROVE fdmap[t][f] = s
  <2>1. conn[fdmap[t][g]].fd = g
    BY ZenonT(30), <1>4, <1>8, ServedFacts
  <2> QED BY <1>6, <1>8, <2>1
<1>9. CASE task[t].slot = s
  <2>1. tpc[t] \in Working
    BY <1>4, <1>9, SMT DEF TypeOK, TaskOK, NoTask
  <2>2. task[t].fd \in Fds
    BY <2>1, TaskInHand
  <2>3. CASE tpc[t] \in Mapped
    <3>1. fdmap[t][task[t].fd] = s
      BY <1>9, <2>3 DEF Owned, TaskMapped
    <3>2. fdmap[t][f] = s
      BY <1>8, <2>2, <3>1
    <3> QED BY <1>1, <1>5, <3>2
  <2>4. CASE tpc[t] \in Unmapped
    BY <1>5, <1>6, <1>9, <2>4 DEF Owned, TaskMapped
  <2> QED BY <2>1, <2>3, <2>4 DEF Working
<1> QED BY ZenonT(30), <1>1, <1>4, <1>5, <1>7, <1>8, <1>9 DEF InUse, HoldsTask

-----------------------------------------------------------------------------
(* No two events at a time: as long as every epoll_wait reports a single   *)
(* event, no thread acts on an event that its own earlier work has made    *)
(* stale, and then none closes an fd that is not in its map.               *)
Lone == \A t \in Threads : \A e, f \in batch[t] : e = f

(* A thread watches only what it serves, and the event it has in hand is   *)
(* about one of these.                                                     *)
WatchType ==
  /\ epoll \in [Threads -> SUBSET Fds]
  /\ batch \in [Threads -> SUBSET (Fds \union {Wakeup})]
Watched == \A t \in Threads : epoll[t] \subseteq Served(t)
OneEvent ==
  \A t \in Threads :
    batch[t] # {} =>
      /\ tpc[t] = "events"
      /\ \E e \in Served(t) \union {Wakeup} : batch[t] = {e}
Calm ==
  /\ WatchType
  /\ NoneRefused => NoneStolen /\ Watched /\ OneEvent

(* A step of one thread: what it leaves of the others, of its events and   *)
(* of its epoll.                                                           *)
OthersWatch(t) ==
  \A u \in Threads \ {t} :
    /\ epoll'[u] \subseteq epoll[u] /\ batch'[u] = batch[u] /\ tpc'[u] = tpc[u]
    /\ \A f \in Fds : fdmap'[u][f] = fdmap[u][f]
Spends(t) ==
  \/ EpollWait(t)
  \/ batch'[t] = batch[t] /\ (tpc[t] # "events" \/ batch[t] = {})
  \/ \E e \in batch[t] : batch'[t] = batch[t] \ {e}
Follows(t) ==
  \A f \in epoll'[t] :
    /\ f \in epoll[t] \/ (tpc[t] = "adding" /\ f = task[t].fd)
    /\ fdmap'[t][f] = NULL => fdmap[t][f] = NULL

LEMMA WatchStep ==
  ASSUME TypeOK, WatchType, NEW t \in Threads, ThreadStep(t)
  PROVE  WatchType' /\ OthersWatch(t) /\ Spends(t) /\ Follows(t)
<1>Goes. ASSUME NEW l, Goto(t, l) PROVE \A u \in Threads \ {t} : tpc'[u] = tpc[u]
  BY <1>Goes DEF Goto, TypeOK, TaskOK
<1>Shut. ASSUME NEW f, CloseFd(f)
         PROVE  /\ epoll' \in [Threads -> SUBSET Fds]
                /\ \A u \in Threads : epoll'[u] = epoll[u] \ {f}
  BY <1>Shut DEF CloseFd, WatchType
<1>Took. ASSUME NEW e, batch' = [batch EXCEPT ![t] = @ \ {e}]
         PROVE  /\ batch' \in [Threads -> SUBSET (Fds \union {Wakeup})]
                /\ batch'[t] = batch[t] \ {e}
                /\ \A u \in Threads \ {t} : batch'[u] = batch[u]
  BY <1>Took DEF WatchType
<1>Kept. ASSUME UNCHANGED <<epoll, fdmap>>, \A u \in Threads \ {t} : tpc'[u] = tpc[u],
                \A u \in Threads \ {t} : batch'[u] = batch[u],
                batch' \in [Threads -> SUBSET (Fds \union {Wakeup})]
         PROVE  WatchType' /\ OthersWatch(t) /\ Follows(t)
  BY <1>Kept DEF WatchType, OthersWatch, Follows
<1>Still. ASSUME UNCHANGED <<epoll, fdmap, batch>>, \A u \in Threads \ {t} : tpc'[u] = tpc[u],
                 tpc[t] # "events" \/ batch[t] = {}
          PROVE  WatchType' /\ OthersWatch(t) /\ Spends(t) /\ Follows(t)
  <2>1. Spends(t)
    BY <1>Still DEF Spends
  <2> QED BY <1>Still, <1>Kept, <2>1 DEF WatchType
<1>Rests. CASE Rests(t)
  <2>1. CASE EpollWait(t)
    <3>1. PICK E \in SUBSET (epoll[t] \union {Wakeup}) : batch' = [batch EXCEPT ![t] = E]
      BY <2>1 DEF EpollWait
    <3>2. E \in SUBSET (Fds \union {Wakeup})
      BY <3>1 DEF WatchType
    <3>3. /\ batch' \in [Threads -> SUBSET (Fds \union {Wakeup})]
          /\ \A u \in Threads \ {t} : batch'[u] = batch[u]
      BY <3>1, <3>2 DEF WatchType
    <3>4. UNCHANGED <<epoll, fdmap>> /\ Goto(t, "events")
      BY <2>1 DEF EpollWait
    <3>5. Spends(t)
      BY <2>1 DEF Spends
    <3> QED BY <3>3, <3>4, <3>5, <1>Goes, <1>Kept
  <2>2. CASE WakeupEvent(t)
    <3>1. batch' = [batch EXCEPT ![t] = @ \ {Wakeup}] /\ Wakeup \in batch[t]
      BY <2>2 DEF WakeupEvent
    <3>2. UNCHANGED <<epoll, fdmap>> /\ Goto(t, "drain")
      BY <2>2 DEF WakeupEvent
    <3>3. Spends(t)
      BY <3>1, <1>Took DEF Spends
    <3> QED BY <3>1, <3>2, <3>3, <1>Goes, <1>Took, <1>Kept
  <2>3. CASE EpollTimeout(t) \/ EventsDone(t) \/ DrainDone(t)
    BY <2>3, <1>Goes, <1>Still DEF EpollTimeout, EventsDone, DrainDone
  <2> QED BY <1>Rests, <2>1, <2>2, <2>3 DEF Rests
<1>Handles. CASE Handles(t)
  <2>1. PICK f \in Fds : EventHandled(t, f)
    BY <1>Handles DEF Handles
  <2>2. /\ batch' = [batch EXCEPT ![t] = @ \ {f}] /\ f \in batch[t]
        /\ UNCHANGED <<epoll, fdmap, tpc>>
    BY <2>1 DEF EventHandled
  <2>3. Spends(t)
    BY <2>2, <1>Took DEF Spends
  <2> QED BY <2>2, <2>3, <1>Took, <1>Kept
<1>Data. CASE ProcessData(t) \/ Ignores(t)
  <2>1. UNCHANGED <<epoll, fdmap, batch, tpc>> /\ tpc[t] # "events"
    BY <1>Data DEF ProcessData, Ignores, ProcessClose, Dequeue
  <2> QED BY <2>1, <1>Still
<1>Ends. CASE Counts(t) \/ Lets(t) \/ Unhash(t)
  <2>1. UNCHANGED <<epoll, fdmap, batch>> /\ tpc[t] # "events" /\ \E l : Goto(t, l)
    BY <1>Ends DEF Counts, Lets, CountDown, MsgCount, Release, MsgRelease, Unhash
  <2> QED BY <2>1, <1>Goes, <1>Still
<1>Closes. CASE Closes(t)
  <2>1. PICK f \in Fds, back \in Between : CloseConnection(t, f, back) /\ Sparked(t, f)
    BY <1>Closes DEF Closes
  <2>2. CloseFd(f) /\ RegisterFd(t, f, NULL) /\ \E l : Goto(t, l)
    BY <2>1 DEF CloseConnection
  <2>3. /\ batch' \in [Threads -> SUBSET (Fds \union {Wakeup})]
        /\ \A u \in Threads \ {t} : batch'[u] = batch[u]
        /\ Spends(t)
    <3>1. CASE f \in batch[t] /\ batch' = [batch EXCEPT ![t] = @ \ {f}]
      BY <3>1, <1>Took DEF Spends
    <3>2. CASE tpc[t] = "wait" /\ UNCHANGED batch
      BY <3>2 DEF Spends, WatchType
    <3> QED BY <2>1, <3>1, <3>2 DEF Sparked
  <2>4. Follows(t)
    <3> SUFFICES ASSUME NEW g \in epoll'[t]
                 PROVE  g \in epoll[t] /\ fdmap'[t][g] = fdmap[t][g]
      BY DEF Follows
    <3>1. g \in epoll[t] /\ g # f
      BY <2>2, <1>Shut
    <3>2. g \in Fds \ {f}
      BY <3>1 DEF WatchType
    <3> QED BY <2>2, <3>1, <3>2, MapCleared
  <2>5. OthersWatch(t)
    <3>1. \A u \in Threads \ {t} : \A g \in Fds : fdmap'[u][g] = fdmap[u][g]
      <4>1. NULL \in Own(t) \union {NULL}
        OBVIOUS
      <4> QED BY <2>2, <4>1, MapSet
    <3>2. \A u \in Threads \ {t} : epoll'[u] \subseteq epoll[u] /\ tpc'[u] = tpc[u]
      BY <2>2, <1>Goes, <1>Shut
    <3> QED BY <2>3, <3>1, <3>2 DEF OthersWatch
  <2> QED BY ZenonT(30), <2>2, <2>3, <2>4, <2>5, <1>Shut DEF WatchType
<1>MsgClose. CASE ProcessClose(t) /\ fdmap[t][Head(queue[t]).fd] # NULL
  <2>1. PICK f : /\ epoll' = [epoll EXCEPT ![t] = @ \ {f}] /\ Goto(t, "msgclose")
                 /\ UNCHANGED <<fdmap, batch>> /\ tpc[t] # "events"
    BY <1>MsgClose DEF ProcessClose, Dequeue
  <2>2. /\ epoll' \in [Threads -> SUBSET Fds]
        /\ epoll'[t] \subseteq epoll[t]
        /\ \A u \in Threads \ {t} : epoll'[u] = epoll[u]
    BY <2>1 DEF WatchType
  <2>3. Spends(t)
    BY <2>1 DEF Spends
  <2>4. Follows(t)
    BY <2>1, <2>2 DEF Follows
  <2>5. OthersWatch(t)
    BY <2>1, <2>2, <1>Goes DEF OthersWatch
  <2> QED BY ZenonT(30), <2>1, <2>2, <2>3, <2>4, <2>5 DEF WatchType
<1>MsgCloseFd. CASE MsgCloseFd(t)
  <2>1. task[t].fd \in Fds
    BY <1>MsgCloseFd, TaskInHand DEF MsgCloseFd, Working, Mapped
  <2>2. PICK f \in Fds : /\ CloseFd(f) /\ RegisterFd(t, f, NULL) /\ Goto(t, "msgrelease")
                         /\ UNCHANGED batch /\ tpc[t] # "events"
    BY <1>MsgCloseFd, <2>1 DEF MsgCloseFd
  <2>3. Spends(t)
    BY <2>2 DEF Spends
  <2>4. Follows(t)
    <3> SUFFICES ASSUME NEW g \in epoll'[t]
                 PROVE  g \in epoll[t] /\ fdmap'[t][g] = fdmap[t][g]
      BY DEF Follows
    <3>1. g \in epoll[t] /\ g # f
      BY ZenonT(30), <2>2, <1>Shut
    <3>2. g \in Fds \ {f}
      BY <3>1 DEF WatchType
    <3> QED BY <2>2, <3>1, <3>2, MapCleared
  <2>5. OthersWatch(t)
    <3>1. \A u \in Threads \ {t} : \A g \in Fds : fdmap'[u][g] = fdmap[u][g]
      <4>1. NULL \in Own(t) \union {NULL}
        OBVIOUS
      <4> QED BY <2>2, <4>1, MapSet
    <3>2. \A u \in Threads \ {t} : epoll'[u] \subseteq epoll[u] /\ tpc'[u] = tpc[u]
      BY <2>2, <1>Goes, <1>Shut
    <3> QED BY <2>2, <3>1, <3>2 DEF OthersWatch
  <2> QED BY <2>2, <2>3, <2>4, <2>5, <1>Shut DEF WatchType
<1>Turns. CASE TurnsAway(t) \/ AddToEpollFails(t)
  <2>1. PICK f : CloseFd(f)
    BY <1>Turns DEF TurnsAway, NoFreeSlot, TlsInitFails, AddToEpollFails
  <2>2. UNCHANGED <<fdmap, batch>> /\ tpc[t] # "events"
    BY <1>Turns DEF TurnsAway, NoFreeSlot, TlsInitFails, AddToEpollFails, Dequeue
  <2>3. \A u \in Threads \ {t} : tpc'[u] = tpc[u]
    BY <1>Turns, <1>Goes DEF TurnsAway, NoFreeSlot, TlsInitFails, AddToEpollFails
  <2>4. Spends(t)
    BY <2>2 DEF Spends
  <2>5. Follows(t)
    BY <2>1, <2>2, <1>Shut DEF Follows
  <2>6. OthersWatch(t)
    BY <2>1, <2>2, <2>3, <1>Shut DEF OthersWatch
  <2> QED BY ZenonT(30), <2>1, <2>2, <2>4, <2>5, <2>6, <1>Shut DEF WatchType
<1>Registers. CASE RegisterConnection(t)
  <2>1. PICK s, f : /\ RegisterFd(t, f, s) /\ s = PoppedSlot(t) /\ f = Head(queue[t]).fd
                    /\ Goto(t, "adding") /\ Dequeue(t, "new") /\ free[t] # <<>> /\ PopFree(t)
                    /\ UNCHANGED <<epoll, batch>>
    BY <1>Registers DEF RegisterConnection
  <2>2. f \in Fds /\ tpc[t] # "events"
    BY <2>1, NewTaken DEF Dequeue
  <2>3. s \in Own(t)
    BY <2>1, Popped
  <2>4. /\ fdmap'[t][f] = s /\ s # NULL
        /\ \A g \in Fds \ {f} : fdmap'[t][g] = fdmap[t][g]
        /\ \A u \in Threads \ {t}, g \in Fds : fdmap'[u][g] = fdmap[u][g]
    <3>1. s \in Own(t) \union {NULL} /\ s # NULL
      BY <2>3, OwnSlots
    <3>2. RegisterFd(t, f, s)
      BY Zenon, <2>1
    <3>3. /\ MapOK'
          /\ fdmap'[t][f] = s
          /\ \A g \in Fds \ {f} : fdmap'[t][g] = fdmap[t][g]
          /\ \A u \in Threads \ {t}, g \in Fds : fdmap'[u][g] = fdmap[u][g]
      BY ZenonT(30), <2>2, <3>1, <3>2, MapSet
    <3> QED BY Zenon, <3>1, <3>3
  <2>5. Spends(t)
    BY <2>1, <2>2 DEF Spends
  <2>6. Follows(t)
    BY <2>1, <2>2, <2>4 DEF Follows, WatchType
  <2>7. OthersWatch(t)
    BY <2>1, <2>4, <1>Goes DEF OthersWatch
  <2> QED BY <2>1, <2>5, <2>6, <2>7 DEF WatchType
<1>Adds. CASE AddToEpoll(t)
  <2>1. task[t].fd \in Fds
    BY <1>Adds, TaskInHand DEF AddToEpoll, Working, Mapped
  <2>2. /\ epoll' = [epoll EXCEPT ![t] = @ \union {task[t].fd}] /\ Goto(t, "drain")
        /\ UNCHANGED <<fdmap, batch>> /\ tpc[t] = "adding"
    BY <1>Adds DEF AddToEpoll
  <2>3. /\ epoll' \in [Threads -> SUBSET Fds]
        /\ epoll'[t] = epoll[t] \union {task[t].fd}
        /\ \A u \in Threads \ {t} : epoll'[u] = epoll[u]
    BY <2>1, <2>2 DEF WatchType
  <2>4. Spends(t)
    BY <2>2 DEF Spends
  <2>5. Follows(t)
    BY <2>2, <2>3 DEF Follows
  <2>6. OthersWatch(t)
    BY <2>2, <2>3, <1>Goes DEF OthersWatch
  <2> QED BY <2>2, <2>3, <2>4, <2>5, <2>6 DEF WatchType
<1> QED BY ZenonT(30), <1>Rests, <1>Handles, <1>Data, <1>Ends, <1>Closes, <1>MsgClose, <1>MsgCloseFd,
           <1>Turns, <1>Registers, <1>Adds
        DEF ThreadStep, Unhashes

LEMMA WatchedStep ==
  ASSUME TypeOK, Held, WatchType, Watched, OneEvent, Lone', NEW t \in Threads, ThreadStep(t)
  PROVE  Watched' /\ OneEvent'
<1>1. OthersWatch(t) /\ Spends(t) /\ Follows(t)
  BY WatchStep
<1>2. \A u \in Threads \ {t} : Served(u)' = Served(u)
  BY <1>1 DEF OthersWatch, Served
<1>3. epoll'[t] \subseteq Served(t)'
  <2> SUFFICES ASSUME NEW f \in epoll'[t] PROVE f \in Fds /\ fdmap'[t][f] # NULL
    BY DEF Served
  <2>1. CASE f \in epoll[t]
    <3>1. f \in Served(t)
      BY <2>1 DEF Watched
    <3> QED BY <1>1, <3>1 DEF Follows, Served
  <2>2. CASE tpc[t] = "adding" /\ f = task[t].fd
    <3>1. f \in Fds
      BY <2>2, TaskInHand DEF Working, Mapped
    <3> QED BY <1>1, <2>2, <3>1 DEF Follows, Held
  <2> QED BY <1>1, <2>1, <2>2 DEF Follows
<1>4. Watched'
  BY ZenonT(30), <1>1, <1>2, <1>3 DEF Watched, OthersWatch
<1>5. batch'[t] # {} =>
        /\ tpc'[t] = "events"
        /\ \E e \in Served(t)' \union {Wakeup} : batch'[t] = {e}
  <2>1. CASE EpollWait(t)
    <3>1. PICK E \in SUBSET (epoll[t] \union {Wakeup}) :
             E # {} /\ batch' = [batch EXCEPT ![t] = E]
      BY <2>1 DEF EpollWait
    <3>2. batch'[t] = E /\ tpc'[t] = "events" /\ UNCHANGED fdmap
      BY <2>1, <3>1 DEF EpollWait, WatchType, Goto, TypeOK, TaskOK
    <3>3. PICK e : e \in E
      BY <3>1
    <3>4. E = {e}
      <4>1. \A f \in E : f = e
        BY <3>2, <3>3 DEF Lone
      <4> QED BY <3>3, <4>1
    <3>5. e \in Served(t)' \union {Wakeup}
      BY <3>2, <3>3 DEF Watched, Served
    <3> QED BY <3>2, <3>4, <3>5
  <2>2. CASE batch'[t] = batch[t] /\ (tpc[t] # "events" \/ batch[t] = {})
    BY <2>2 DEF OneEvent
  <2>3. CASE \E e \in batch[t] : batch'[t] = batch[t] \ {e}
    BY <2>3 DEF OneEvent
  <2> QED BY <1>1, <2>1, <2>2, <2>3 DEF Spends
<1>6. ASSUME NEW u \in Threads \ {t}, batch'[u] # {}
      PROVE  tpc'[u] = "events" /\ \E e \in Served(u)' \union {Wakeup} : batch'[u] = {e}
  BY ZenonT(30), <1>1, <1>2, <1>6 DEF OthersWatch, OneEvent
<1>7. OneEvent'
  BY <1>5, <1>6 DEF OneEvent
<1> QED BY <1>4, <1>7

(* What a thread closes then is in its map.                                *)
LEMMA ClosesOwn ==
  ASSUME TypeOK, Owned, OneEvent, NEW t \in Threads, NEW f \in Fds, Sparked(t, f)
  PROVE  fdmap[t][f] # NULL
<1>1. CASE tpc[t] = "events" /\ f \in batch[t]
  <2>1. PICK e \in Served(t) \union {Wakeup} : batch[t] = {e}
    BY <1>1 DEF OneEvent
  <2>2. f \in Served(t)
    BY <1>1, <2>1, ConnAssumption
  <2> QED BY <2>2 DEF Served
<1>2. CASE /\ tpc[t] = "wait"
           /\ \E i \in Indices : conn[<<t, i>>].fd = f /\ conn[<<t, i>>].st \in {"pending", "open"}
  <2>1. PICK i \in Indices : conn[<<t, i>>].fd = f /\ conn[<<t, i>>].st \in {"pending", "open"}
    BY <1>2
  <2>2. PICK s : s = <<t, i>>
    OBVIOUS
  <2>3. /\ s \in Slots /\ s[1] = t /\ s # NULL
        /\ conn[s].fd = f /\ f # NULL /\ conn[s].st # "closed"
    <3>1. s \in Slots /\ s[1] = t
      BY <2>2 DEF Slots
    <3>2. conn[s].fd = f /\ conn[s].st # "closed"
      BY <2>1, <2>2
    <3> QED BY <3>1, <3>2, ConnAssumption
  <2>4. InUse(s)
    BY ZenonT(30), <2>3 DEF Owned, LiveInUse
  <2>5. task[t].slot = NULL
    BY <1>2, SMT DEF TypeOK, TaskOK, Resting, NoTask
  <2>6. PICK g \in Fds : fdmap[t][g] = s
    BY ONLY Zenon, <2>3, <2>4, <2>5 DEF InUse, HoldsTask
  <2>7. conn[fdmap[t][g]].fd = g
    BY <2>3, <2>6, ServedFacts
  <2> QED BY <2>3, <2>6, <2>7
<1> QED BY <1>1, <1>2 DEF Sparked

LEMMA StolenStep ==
  ASSUME TypeOK, Owned, NoneStolen, OneEvent, NEW t \in Threads, ThreadStep(t), NoneRefused'
  PROVE  NoneStolen'
<1>1. ASSUME NEW m, mishaps' \subseteq mishaps \union {m}, m[1] \notin {"epoll", "stale"}
      PROVE  NoneStolen'
  BY <1>1 DEF NoneStolen
<1>2. CASE mishaps' = mishaps
  BY <1>2 DEF NoneStolen
<1>3. CASE Closes(t)
  <2>1. PICK f \in Fds, back \in Between : CloseConnection(t, f, back) /\ Sparked(t, f)
    BY <1>3 DEF Closes
  <2>2. fdmap[t][f] # NULL
    BY <2>1, ClosesOwn
  <2>3. mishaps' = mishaps
    BY <2>1, <2>2 DEF CloseConnection
  <2> QED BY <1>2, <2>3
<1>4. CASE Unhashes(t)
  <2>1. PICK f : mishaps' \subseteq mishaps \union {<<"entry", f>>}
    BY <1>4 DEF Unhashes, Unhash, ProcessClose
  <2>2. <<"entry", f>>[1] \notin {"epoll", "stale"}
    OBVIOUS
  <2> QED BY <1>1, <2>1, <2>2
<1>5. CASE TurnsAway(t)
  <2>1. PICK s : mishaps' \subseteq mishaps \union {<<"tls", s>>}
    BY <1>5 DEF TurnsAway, NoFreeSlot, TlsInitFails
  <2>2. <<"tls", s>>[1] \notin {"epoll", "stale"}
    OBVIOUS
  <2> QED BY <1>1, <2>1, <2>2
<1>6. CASE AddToEpollFails(t)
  <2>1. task[t].slot \in Slots
    BY <1>6, TaskInHand DEF AddToEpollFails, Working, Mapped
  <2>2. <<"epoll", task[t].slot>> \in mishaps'
    BY <1>6 DEF AddToEpollFails
  <2> QED BY <2>1, <2>2 DEF NoneRefused
<1>7. CASE Rests(t) \/ Handles(t) \/ ProcessData(t) \/ Ignores(t) \/ Counts(t) \/ Lets(t)
  <2>1. mishaps' = mishaps
    BY <1>7 DEF Rests, Handles, Ignores, Counts, Lets, EpollWait, EpollTimeout, WakeupEvent,
       EventsDone, DrainDone, EventHandled, ProcessData, ProcessClose, CountDown, MsgCount,
       Release, MsgRelease
  <2> QED BY <1>2, <2>1
<1>8. CASE MsgCloseFd(t) \/ RegisterConnection(t) \/ AddToEpoll(t)
  BY <1>2, <1>8 DEF MsgCloseFd, RegisterConnection, AddToEpoll
<1> QED BY <1>3, <1>4, <1>5, <1>6, <1>7, <1>8 DEF ThreadStep

LEMMA CalmInit == ASSUME Init PROVE Calm
<1>1. /\ mishaps = {} /\ epoll \in [Threads -> SUBSET Fds]
      /\ batch \in [Threads -> SUBSET (Fds \union {Wakeup})]
      /\ \A t \in Threads : epoll[t] = {} /\ batch[t] = {}
  BY DEF Init
<1>2. WatchType /\ NoneStolen /\ NoneRefused
  BY <1>1 DEF WatchType, NoneStolen, NoneRefused
<1>3. Watched /\ OneEvent
  BY <1>1 DEF Watched, OneEvent
<1> QED BY <1>2, <1>3 DEF Calm

LEMMA CalmStep ==
  ASSUME Inv, Calm, Lone', [Next]_vars PROVE Calm'
<1>1. NoneRefused' => NoneRefused
  BY Grow DEF Inv, NoneRefused
<1>2. NoneRefused => NoneStolen /\ Watched /\ OneEvent /\ Owned
  BY DEF Calm, Inv
<1>3. TypeOK /\ Held /\ WatchType
  BY DEF Calm, Inv
<1>4. ASSUME NEW t \in Threads, ThreadStep(t) PROVE Calm'
  <2>1. WatchType'
    BY <1>3, <1>4, WatchStep
  <2>2. ASSUME NoneRefused' PROVE NoneStolen' /\ Watched' /\ OneEvent'
    <3>1. NoneStolen'
      BY <1>1, <1>2, <1>3, <1>4, <2>2, StolenStep
    <3>2. Watched' /\ OneEvent'
      BY <1>1, <1>2, <1>3, <1>4, <2>2, WatchedStep
    <3> QED BY <3>1, <3>2
  <2> QED BY <2>1, <2>2 DEF Calm
<1>5. ASSUME UNCHANGED <<fdmap, tpc, batch, mishaps>>, epoll' \in [Threads -> SUBSET Fds],
             \A t \in Threads : epoll'[t] \subseteq epoll[t]
      PROVE  Calm'
  <2>1. WatchType'
    BY <1>3, <1>5 DEF WatchType
  <2>2. \A t \in Threads : UNCHANGED Served(t)
    BY <1>5 DEF Served
  <2>3. Watched => Watched'
    BY <1>5, <2>2 DEF Watched
  <2>4. OneEvent => OneEvent'
    BY <1>5, <2>2 DEF OneEvent
  <2>5. UNCHANGED NoneRefused /\ UNCHANGED NoneStolen
    BY <1>5 DEF NoneRefused, NoneStolen
  <2> QED BY <1>2, <1>3, <2>1, <2>3, <2>4, <2>5 DEF Calm
<1>6. CASE Same
  BY <1>3, <1>5, <1>6 DEF Same, WatchType
<1>7. CASE \E x \in Senders : Sender(x)
  BY ZenonT(30), <1>3, <1>5, <1>7
     DEF Sender, FindAndRef, CheckOpen, Enqueue, QueueFull, Unref, threadVars, WatchType
<1>8. CASE Transfer
  <2>1. CASE RejectClient
    <3>1. epoll' = [t \in Threads |-> epoll[t] \ {holding}] /\ UNCHANGED <<fdmap, tpc, batch, mishaps>>
      BY <2>1 DEF RejectClient, CloseFd, threadVars
    <3>2. /\ epoll' \in [Threads -> SUBSET Fds]
          /\ \A t \in Threads : epoll'[t] \subseteq epoll[t]
      BY <1>3, <3>1 DEF WatchType
    <3> QED BY <1>5, <3>1, <3>2
  <2>2. CASE (\E f \in Fds : Accept(f)) \/ (\E t \in Threads : HandOff(t))
    BY <1>3, <1>5, <2>2 DEF Accept, HandOff, threadVars, WatchType
  <2> QED BY <1>8, <2>1, <2>2 DEF Transfer
<1> QED BY <1>3, <1>4, <1>6, <1>7, <1>8, Steps

-----------------------------------------------------------------------------

INSTANCE FiniteSetTheorems

LEMMA SetFactsHold == SetFacts
<1>1. ASSUME NEW M, M \subseteq Nat, M # {} PROVE \E k \in M : \A j \in M : k <= j
  <2> DEFINE R == OpToRel(<, Nat)
  <2>1. IsWellFoundedOn(R, Nat)
    BY NatLessThanWellFounded
  <2>2. \A x, y \in Nat : x < y => <<x, y>> \in R
    BY DEF OpToRel
  <2> HIDE DEF R
  <2>3. PICK x \in M : \A y \in M : ~ (<<y, x>> \in R)
    BY ZenonT(30), <1>1, <2>1, WFMin
  <2>4. \A y \in M : ~ (y < x)
    BY ZenonT(30), <1>1, <2>2, <2>3
  <2> QED BY SMTT(30), <1>1, <2>4, SMT
<1>2. ASSUME NEW S, IsFiniteSet(S)
      PROVE  Cardinality(S) \in Nat /\ (Cardinality(S) = 0 <=> S = {})
  BY ZenonT(30), <1>2, FS_CardinalityType, FS_EmptySet
<1>3. IsFiniteSet({}) /\ Cardinality({}) = 0
  BY FS_EmptySet
<1>4. ASSUME NEW S, NEW x, IsFiniteSet(S), x \in S
      PROVE  IsFiniteSet(S \ {x}) /\ Cardinality(S \ {x}) = Cardinality(S) - 1
  BY <1>4, FS_RemoveElement
<1>5. ASSUME NEW S, NEW x, IsFiniteSet(S), x \notin S
      PROVE  IsFiniteSet(S \union {x}) /\ Cardinality(S \union {x}) = Cardinality(S) + 1
  BY ZenonT(30), <1>5, FS_AddElement
<1>6. ASSUME NEW q \in Seq(Indices), NEW i \in Indices,
             \A k, j \in 1..Len(q) : q[k] = q[j] => k = j, \A k \in 1..Len(q) : q[k] # i
      PROVE  Len(q) < MaxConnections
  <2> DEFINE T == Indices \ {i}
  <2>1. IsFiniteSet(Indices) /\ Cardinality(Indices) = MaxConnections
    BY SMTT(30), FS_Interval, ConnAssumption, SMT DEF Indices
  <2>2. IsFiniteSet(T) /\ Cardinality(T) = MaxConnections - 1
    BY ZenonT(30), <2>1, FS_RemoveElement
  <2>3. PICK n \in Nat : n = Len(q)
    BY SMT
  <2>4. IsFiniteSet(1..n) /\ Cardinality(1..n) = n
    BY SMTT(30), FS_Interval, SMT
  <2>5. q \in [1..n -> T]
    BY SMTT(30), <1>6, <2>3, SMT
  <2> HIDE DEF T
  <2>6. ~ \E k, j \in 1..n : k # j /\ q[k] = q[j]
    BY <1>6, <2>3
  <2>7. ~ (Cardinality(T) < Cardinality(1..n))
    BY ONLY ZenonT(30), <2>2, <2>4, <2>5, <2>6, FS_PigeonHole
  <2> QED BY SMTT(30), <2>2, <2>3, <2>4, <2>7, ConnAssumption, SMT
<1> QED BY ZenonT(30), <1>1, <1>2, <1>3, <1>4, <1>5, <1>6 DEF SetFacts

(* The inductive invariant: in every reachable state types are right and   *)
(* every open socket is accounted for; as long as epoll_ctl(ADD) never     *)
(* failed and no thread closed an fd it did not have in its map, sockets,  *)
(* maps, free stacks and counts agree; and as long as moreover no teardown *)
(* removed the hash entry of another connection, so do references, hash    *)
(* and queued sends.                                                       *)
THEOREM Invariance == Spec => []Inv
<1>1. Init => Inv
  BY ZenonT(30), InitStep, SetFactsHold
<1>2. Inv /\ [Next]_vars => Inv'
  BY ZenonT(30), NextStep, SetFactsHold
<1> QED BY <1>1, <1>2, PTL DEF Spec

(* No socket leaks, whatever fails: an fd that accept(2) returned and      *)
(* nobody has closed is in the acceptor's hands, in one queued message of  *)
(* new connection, being added, or in the fd map of a thread.              *)
THEOREM SocketsAccounted == Spec => []SocketAccounted
<1>1. Inv => SocketAccounted
  BY DEF Inv
<1> QED BY <1>1, Invariance, PTL

(* As long as nothing was stolen, nothing is: a connection in the fd map   *)
(* owns its socket, in that map alone.  So the first close of somebody     *)
(* else's fd can only come from a close_connection that finds no entry in  *)
(* its own map, or after epoll_ctl(ADD) failed.                            *)
THEOREM SocketsNotStolen == Spec => [](NoneStolen => SocketNotStolen)
<1>1. Inv => (NoneStolen => SocketNotStolen)
  BY ZenonT(30), OwnedMeans DEF Inv
<1> QED BY <1>1, Invariance, PTL

(* active_connections, by which the acceptor chooses a thread, is exact    *)
(* but for the connection being added or torn down at this moment.         *)
THEOREM ActiveIsExact == Spec => [](NoneStolen => ActiveExact)
<1>1. Inv => (NoneStolen => ActiveExact)
  BY OwnedMeans DEF Inv
<1> QED BY <1>1, Invariance, PTL

(* ref_count is the number of senders inside a call, plus one while the    *)
(* event thread uses the slot, through every interleaving of               *)
(* find_and_ref, unref and the teardown.                                   *)
THEOREM RefsCounted == Spec => []RefCountExact
<1>1. Inv /\ Undisturbed => RefCountExact
  BY ZenonT(30), CountedMeans DEF Inv
<1>2. ~ Undisturbed => RefCountExact
  BY DEF RefCountExact
<1> QED BY <1>1, <1>2, Invariance, PTL

(* ws_connection_hash_find_and_ref never hands out a slot that is free or  *)
(* that serves another fd.                                                 *)
THEOREM HashIsCurrent == Spec => [](Undisturbed => HashCurrent)
<1>1. Inv => (Undisturbed => HashCurrent)
  BY CountedMeans DEF Inv
<1> QED BY <1>1, Invariance, PTL

LEMMA Layers == ASSUME Inv, Undisturbed PROVE TypeOK /\ Owned /\ Counted
<1>1. NoneStolen
  BY DEF NoneStolen, Undisturbed
<1> QED BY <1>1 DEF Inv

(* A slot is once on the free stack, or in use, or referenced, or lost in  *)
(* one of the two known ways: a push on a full stack, a double push and a  *)
(* slot popped while it is in use cannot happen.                           *)
THEOREM SlotsAccounted == Spec => []SlotAccounted
<1>1. Inv /\ Undisturbed => SlotAccounted
  BY ZenonT(30), Layers, SlotsHave, SetFactsHold
<1>2. ~ Undisturbed => SlotAccounted
  BY DEF SlotAccounted
<1> QED BY <1>1, <1>2, Invariance, PTL

(* The generation guard is enough: a queued send that passes it is         *)
(* delivered to the slot its sender looked up, in the same life.           *)
THEOREM DataReachesTarget == Spec => [](Undisturbed => DataReachesItsTarget)
<1>1. Inv => (Undisturbed => DataReachesItsTarget)
  BY Layers, DataReaches
<1> QED BY <1>1, Invariance, PTL

(* While no epoll_wait reports two events at a time, what a thread watches *)
(* and the event it has in hand are about connections of its own map.      *)
THEOREM CalmWhileLone == Spec /\ []Lone => []Calm
<1>1. Init => Calm
  BY CalmInit
<1>2. Inv /\ Calm /\ Lone' /\ [Next]_vars => Calm'
  BY CalmStep
<1> QED BY <1>1, <1>2, Invariance, PTL DEF Spec

(* The list of events is the only source of a stolen socket: in a run of   *)
(* the server whose epoll_waits report one event each, and whose           *)
(* epoll_ctl(ADD) never fails, no teardown closes the socket of another    *)
(* connection, with any number of threads, slots, fds and senders.         *)
THEOREM LoneEventsSpareSockets == Spec /\ []Lone => []SocketNotStolen
<1>1. Inv /\ Calm /\ NoneRefused => SocketNotStolen
  BY ZenonT(30), OwnedMeans DEF Inv, Calm
<1>2. ~ NoneRefused => SocketNotStolen
  BY DEF SocketNotStolen
<1> QED BY <1>1, <1>2, Invariance, CalmWhileLone, PTL

(* And then active_connections never drifts.                               *)
THEOREM LoneEventsKeepCount == Spec /\ []Lone => []ActiveExact
<1>1. Inv /\ Calm /\ NoneRefused => ActiveExact
  BY ZenonT(30), OwnedMeans DEF Inv, Calm
<1>2. ~ NoneRefused => ActiveExact
  BY DEF ActiveExact
<1> QED BY <1>1, <1>2, Invariance, CalmWhileLone, PTL
=============================================================================
