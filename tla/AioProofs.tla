------------------------------ MODULE AioProofs ------------------------------
(***************************************************************************)
(* Proofs about Aio, for every backend, any number of workers and reads    *)
(* and every queue and ring size.                                          *)
(***************************************************************************)
EXTENDS Aio, FiniteSetTheorems, TLAPS

-----------------------------------------------------------------------------
(* The wakeup.  Nobody skips the signal because of a flag that is not      *)
(* about to be looked at: while notified is set a signal is there, or on   *)
(* its way, or drain is at the step that resets the flag.                  *)
Signalled ==
  \/ efd /\ edge
  \/ \E w \in Workers : wpc[w] = "signal"
  \/ cpc \in {"clear", "reset"}

WakeInv ==
  /\ wpc \in [Workers -> {"loop", "asleep", "read", "exchange", "signal", "exited"}]
  /\ notified \in {0, 1}
  /\ notified = 1 /\ cpc \notin {"joining", "freed"} => Signalled
  /\ cq \in Seq(Reads) /\ left \in Nat
  /\ ring \subseteq Reads /\ next \in Nat \ {0}
  /\ backend # "iouring" => ring = {} /\ cq = <<>>
  /\ cpc \in {"pop", "wait"} /\ cq # <<>> => efd /\ edge
  /\ cpc \in {"reaping", "callback"} => left <= Len(cq) /\ (left # Len(cq) => efd /\ edge)
  /\ NoLostWakeup

LEMMA WakeInit == Init => WakeInv
  BY DEF Init, FrontendInit, ThreadpoolInit, UringInit, WakeInv, NoLostWakeup

LEMMA WakeNext == WakeInv /\ [Next]_vars => WakeInv'
<1> SUFFICES ASSUME WakeInv, [Next]_vars PROVE WakeInv'
  OBVIOUS
<1> USE DEF WakeInv, NoLostWakeup, WakeupComing, Signalled
<1>1. CASE BlockingSubmit
  BY <1>1
  DEF BlockingSubmit, Submitting, PostCompletion, SignalEventfd, poolVars, ringVars, reapVars
<1>2. CASE TpSubmit
  BY <1>2 DEF TpSubmit, Submitting, ringVars, reapVars, wakeVars
<1>3. CASE UringSubmit
  <2>1. next \in Reads
    BY <1>3, AioAssumption DEF UringSubmit, Submitting, Reads
  <2> QED BY <1>3, <2>1 DEF UringSubmit, Submitting, poolVars, wakeVars, reapVars
<1>4. CASE SubmitRefused
  BY <1>4 DEF SubmitRefused, Submitting, poolVars, ringVars, reapVars, wakeVars
<1>5. CASE EpollWait
  BY <1>5 DEF EpollWait, poolVars, ringVars, reapVars
<1>6. CASE DrainClear
  BY <1>6 DEF DrainClear, poolVars, ringVars, reapVars
<1>7. CASE ReapBegins
  BY <1>7 DEF ReapBegins, poolVars, wakeVars
<1>8. CASE ReapEntry
  <2>1. /\ cq # <<>> /\ cq' = Tail(cq) /\ left' = left - 1 /\ left \in Nat /\ left > 0
        /\ cpc = "reaping" /\ cpc' \in {"reaping", "callback"}
    BY <1>8 DEF ReapEntry
  <2>2. cq' \in Seq(Reads) /\ Len(cq') = Len(cq) - 1 /\ left' \in Nat
    BY <2>1
  <2>3. UNCHANGED <<backend, next, ring, wpc, notified, efd, edge>>
    BY <1>8 DEF ReapEntry, poolVars, wakeVars
  <2>4. left' <= Len(cq') /\ (left' # Len(cq') => efd' /\ edge')
    <3>1. Len(cq) \in Nat /\ left <= Len(cq) /\ (left # Len(cq) => efd /\ edge)
      BY <2>1
    <3>2. left \in Nat /\ left' = left - 1 /\ Len(cq') = Len(cq) - 1 /\ UNCHANGED <<efd, edge>>
      BY Zenon, <2>1, <2>2, <2>3
    <3> QED BY ONLY <3>1, <3>2
  <2>5. Signalled' = Signalled
    BY <2>1, <2>3
  <2> QED BY Zenon, <2>1, <2>2, <2>3, <2>4, <2>5
<1>9. CASE CallbackReturns
  BY <1>9 DEF CallbackReturns, poolVars, wakeVars, reapVars
<1>10. CASE ReapEnds
  <2>1. cq # <<>> => Len(cq) # 0
    OBVIOUS
  <2> QED BY <1>10, <2>1 DEF ReapEnds, poolVars, wakeVars
<1>11. CASE DrainPop
  BY <1>11 DEF DrainPop, poolVars, ringVars, reapVars, wakeVars
<1>12. CASE DrainDone
  BY <1>12 DEF DrainDone, poolVars, ringVars, reapVars, wakeVars
<1>13. CASE DestroyStops
  BY <1>13 DEF DestroyStops, ringVars, reapVars, wakeVars
<1>14. CASE UringDiscards
  BY <1>14 DEF UringDiscards, poolVars, reapVars, wakeVars
<1>15. CASE DestroyFrees
  BY <1>15 DEF DestroyFrees, poolVars, ringVars, reapVars, wakeVars
<1>16. ASSUME NEW w \in Workers, WorkerLoop(w) PROVE WakeInv'
  BY <1>16 DEF WorkerLoop, WorkerGoto, ringVars, reapVars, wakeVars
<1>17. ASSUME NEW w \in Workers, WorkerEnqueue(w) PROVE WakeInv'
  BY <1>17 DEF WorkerEnqueue, WorkerGoto, ringVars, reapVars, wakeVars
<1>18. ASSUME NEW w \in Workers, WorkerExchange(w) PROVE WakeInv'
  BY <1>18 DEF WorkerExchange, WorkerGoto, ringVars, reapVars
<1>19. ASSUME NEW w \in Workers, WorkerSignal(w) PROVE WakeInv'
  BY <1>19 DEF WorkerSignal, WorkerGoto, SignalEventfd, ringVars, reapVars
<1>20. ASSUME NEW r \in Reads, KernelCompletes(r) PROVE WakeInv'
  <2>1. cq' \in Seq(Reads) /\ Len(cq') = Len(cq) + 1
    BY <1>20 DEF KernelCompletes
  <2> QED BY <1>20, <2>1 DEF KernelCompletes, SignalEventfd, poolVars, reapVars
<1>21. CASE UNCHANGED vars
  BY <1>21 DEF vars, poolVars, ringVars, reapVars, wakeVars
<1> QED
  BY Zenon, <1>1, <1>2, <1>3, <1>4, <1>5, <1>6, <1>7, <1>8, <1>9, <1>10, <1>11, <1>12, <1>13,
     <1>14, <1>15, <1>16, <1>17, <1>18, <1>19, <1>20, <1>21
  DEF Next, Submit, Drain, UringReap, Destroy, Worker

(* A completion never waits for a wakeup that will not come: what the      *)
(* comments of post_completion and drain say of the order of their steps.  *)
THEOREM WakeupNeverLost == Spec => []NoLostWakeup
<1>1. WakeInv => NoLostWakeup
  BY DEF WakeInv
<1> QED BY WakeInit, WakeNext, <1>1, PTL DEF Spec

-----------------------------------------------------------------------------
(* The threadpool's queue.  A worker leaves only when it is asked to stop, *)
(* and nothing is submitted after that.                                    *)
PoolInv ==
  /\ wpc \in [Workers -> {"loop", "asleep", "read", "exchange", "signal", "exited"}]
  /\ stop => cpc \in {"joining", "freed"}
  /\ \A w \in Workers : wpc[w] = "exited" => stop
  /\ backend # "threadpool" => tasks = <<>>
  /\ tasks \in Seq(Reads)
  /\ next \in Nat \ {0}
  /\ NoTaskStranded
  /\ cpc = "freed" => WorkersJoined /\ tasks = <<>>

LEMMA PoolInit == Init => PoolInv
  BY DEF Init, FrontendInit, ThreadpoolInit, UringInit, PoolInv, NoTaskStranded, WorkersJoined

LEMMA PoolNext == PoolInv /\ [Next]_vars => PoolInv'
<1> SUFFICES ASSUME PoolInv, [Next]_vars PROVE PoolInv'
  OBVIOUS
<1> USE DEF PoolInv, NoTaskStranded, WorkersJoined
<1>1. CASE BlockingSubmit
  BY <1>1 DEF BlockingSubmit, Submitting, poolVars
<1>2. CASE TpSubmit
  <2>1. cpc \notin {"joining", "freed"} /\ next \in Reads
    BY <1>2, AioAssumption DEF TpSubmit, Submitting, Reads
  <2>2. \E w \in Workers : wpc'[w] \notin {"asleep", "exited"}
    <3>1. CASE \E w \in Workers : wpc[w] = "asleep"
      BY <1>2, <3>1 DEF TpSubmit
    <3>2. CASE ~\E w \in Workers : wpc[w] = "asleep"
      BY <1>2, <2>1, <3>2, AioAssumption DEF TpSubmit
    <3> QED BY <3>1, <3>2
  <2>3. wpc' \in [Workers -> {"loop", "asleep", "read", "exchange", "signal", "exited"}]
        /\ \A w \in Workers : wpc'[w] = "exited" => wpc[w] = "exited"
    BY <1>2 DEF TpSubmit
  <2> QED BY <1>2, <2>1, <2>2, <2>3 DEF TpSubmit, Submitting
<1>3. CASE UringSubmit
  BY <1>3 DEF UringSubmit, Submitting, poolVars
<1>4. CASE SubmitRefused
  BY <1>4 DEF SubmitRefused, Submitting, poolVars
<1>5. CASE EpollWait
  BY <1>5 DEF EpollWait, poolVars
<1>6. CASE DrainClear
  BY <1>6 DEF DrainClear, poolVars
<1>7. CASE UringReap \/ DrainPop \/ DrainDone
  BY <1>7
  DEF UringReap, ReapBegins, ReapEntry, CallbackReturns, ReapEnds, DrainPop, DrainDone, poolVars
<1>8. CASE DestroyStops
  BY <1>8 DEF DestroyStops
<1>9. CASE UringDiscards
  BY <1>9 DEF UringDiscards, poolVars
<1>10. CASE DestroyFrees
  BY <1>10 DEF DestroyFrees, poolVars
<1>11. ASSUME NEW w \in Workers, WorkerLoop(w), backend = "threadpool" PROVE PoolInv'
  <2>1. CASE tasks # <<>>
    BY SMTT(30), <1>11, <2>1 DEF WorkerLoop, WorkerGoto
  <2>2. CASE tasks = <<>>
    BY <1>11, <2>2 DEF WorkerLoop, WorkerGoto
  <2> QED BY <2>1, <2>2
<1>12. ASSUME NEW w \in Workers, WorkerEnqueue(w) \/ WorkerExchange(w) \/ WorkerSignal(w),
              backend = "threadpool"
       PROVE  PoolInv'
  BY <1>12 DEF WorkerEnqueue, WorkerExchange, WorkerSignal, WorkerGoto
<1>13. ASSUME NEW r \in Reads, KernelCompletes(r) PROVE PoolInv'
  BY <1>13 DEF KernelCompletes, poolVars
<1>14. CASE UNCHANGED vars
  BY <1>14 DEF vars, poolVars
<1> QED
  BY ZenonT(30), <1>1, <1>2, <1>3, <1>4, <1>5, <1>6, <1>7, <1>8, <1>9, <1>10, <1>11, <1>12, <1>13, <1>14
  DEF Next, Submit, Drain, Destroy, Worker

(* When every worker sleeps the queue is empty, so tp_submit may signal    *)
(* the condition once per task.                                            *)
THEOREM TasksHaveAWorker == Spec => []NoTaskStranded
<1>1. PoolInv => NoTaskStranded
  BY DEF PoolInv
<1> QED BY PoolInit, PoolNext, <1>1, PTL DEF Spec

-----------------------------------------------------------------------------
(* The ring.  The entries that uring_reap goes through were all in flight  *)
(* when it loaded the tail, so there are at most RingEntries of them, and  *)
(* what the callbacks submit in the meantime is bounded by inflight.       *)
RingInv ==
  /\ next \in Nat \ {0}
  /\ (\A r \in ring : r \in Nat /\ r < next) /\ IsFiniteSet(ring)
  /\ cq \in Seq(Reads) /\ inflight \in Nat /\ left \in Nat /\ held \in Nat
  /\ cpc \in {"reaping", "callback"} => left <= Len(cq) /\ left + held <= RingEntries
  /\ cpc \notin {"reaping", "callback"} => held = 0
  /\ RingNeverOverflows
  /\ cpc = "freed" => ring = {} /\ cq = <<>>

LEMMA RingInit == Init => RingInv
  BY FS_EmptySet, AioAssumption
  DEF Init, FrontendInit, ThreadpoolInit, UringInit, RingInv, RingNeverOverflows

LEMMA RingNext == RingInv /\ [Next]_vars => RingInv'
<1> SUFFICES ASSUME RingInv, [Next]_vars PROVE RingInv'
  OBVIOUS
<1> USE DEF RingInv, RingNeverOverflows
<1>0. Cardinality(ring) \in Nat /\ Len(cq) \in Nat /\ RingEntries \in Nat
  BY FS_CardinalityType, AioAssumption
<1>1. CASE BlockingSubmit \/ TpSubmit \/ SubmitRefused
  BY SMTT(30), <1>1 DEF BlockingSubmit, TpSubmit, SubmitRefused, Submitting, ringVars, reapVars
<1>2. CASE UringSubmit
  <2>1. next \notin ring /\ ring' = ring \union {next} /\ cpc' # "freed"
    BY <1>2 DEF UringSubmit, Submitting
  <2>2. IsFiniteSet(ring') /\ Cardinality(ring') = Cardinality(ring) + 1
    BY <2>1, FS_AddElement
  <2>3. inflight' = inflight + 1 /\ inflight < RingEntries /\ UNCHANGED <<cq, left, held, cpc>>
    BY <1>2 DEF UringSubmit, reapVars
  <2>4. next' = next + 1 /\ cpc # "freed"
    BY <1>2 DEF UringSubmit, Submitting
  <2>5. /\ \A r \in ring' : r \in Nat /\ r < next'
        /\ next' \in Nat \ {0}
    BY <2>1, <2>4
  <2>6. RingNeverOverflows'
    <3>1. inflight' = Cardinality(ring') + Len(cq') + (IF cpc' = "callback" THEN 1 ELSE 0)
      BY SMTT(30), <1>0, <2>2, <2>3
    <3>2. inflight' <= RingEntries
      BY <1>0, <2>3
    <3>3. held <= RingEntries
      BY <1>0
    <3> QED BY SMTT(30), <1>0, <2>2, <2>3, <3>1, <3>2, <3>3
  <2> QED BY SMTT(30), <1>0, <2>1, <2>2, <2>3, <2>4, <2>5, <2>6
<1>3. CASE EpollWait \/ DrainClear \/ DrainPop \/ DrainDone \/ DestroyStops
  BY ZenonT(30), <1>3 DEF EpollWait, DrainClear, DrainPop, DrainDone, DestroyStops, ringVars, reapVars
<1>4. CASE UringReap
  <2>1. CASE ReapBegins
    BY <1>0, <2>1 DEF ReapBegins
  <2>2. CASE ReapEntry
    <3>1. cpc = "reaping" /\ left > 0 /\ left' = left - 1 /\ held' = held + 1
          /\ cq' = Tail(cq) /\ UNCHANGED <<next, ring>>
      BY <2>2 DEF ReapEntry
    <3>2. cq # <<>> /\ cq' \in Seq(Reads) /\ Len(cq') = Len(cq) - 1
      BY <3>1
    <3>3. \/ inflight' = inflight - 1 /\ cpc' = "reaping"
          \/ inflight' = inflight /\ cpc' = "callback"
      BY <2>2, <3>1 DEF ReapEntry
    <3> QED BY SMTT(30), <1>0, <3>1, <3>2, <3>3
  <2>3. CASE CallbackReturns
    BY SMTT(30), <1>0, <2>3 DEF CallbackReturns, reapVars
  <2>4. CASE ReapEnds
    BY <1>0, <2>4 DEF ReapEnds
  <2> QED BY ZenonT(30), <1>4, <2>1, <2>2, <2>3, <2>4 DEF UringReap
<1>5. CASE UringDiscards
  <2>1. /\ cq' = <<>> /\ inflight' = inflight - Len(cq) /\ cpc = "joining"
        /\ UNCHANGED <<next, ring, left, held, cpc>>
    BY <1>5 DEF UringDiscards, reapVars
  <2>2. inflight' = Cardinality(ring)
    BY <1>0, <2>1
  <2> QED BY <1>0, <2>1, <2>2
<1>6. CASE DestroyFrees
  <2>1. /\ inflight = 0 /\ cpc = "joining" /\ cpc' = "freed"
        /\ UNCHANGED <<next, ring, cq, inflight, left, held>>
    BY <1>6 DEF DestroyFrees, ringVars, reapVars
  <2>2. Cardinality(ring) = 0 /\ Len(cq) = 0
    BY <1>0, <2>1
  <2>3. ring = {} /\ cq = <<>>
    BY <2>2, FS_EmptySet
  <2> QED BY <1>0, <2>1, <2>3
<1>7. ASSUME NEW w \in Workers, Worker(w) PROVE RingInv'
  BY ZenonT(30), <1>7
  DEF Worker, WorkerLoop, WorkerEnqueue, WorkerExchange, WorkerSignal, ringVars, reapVars
<1>8. ASSUME NEW r \in Reads, KernelCompletes(r) PROVE RingInv'
  <2>1. /\ r \in ring /\ ring' = ring \ {r}
        /\ UNCHANGED <<cpc, next, inflight, left, held>>
    BY <1>8 DEF KernelCompletes, reapVars
  <2>2. IsFiniteSet(ring') /\ Cardinality(ring') = Cardinality(ring) - 1
    <3>1. IsFiniteSet(ring) /\ r \in ring
      BY ZenonT(30), <2>1
    <3>2. /\ IsFiniteSet(ring \ {r})
          /\ Cardinality(ring \ {r}) = IF r \in ring THEN Cardinality(ring) - 1
                                       ELSE Cardinality(ring)
      BY ONLY ZenonT(30), <3>1, FS_RemoveElement
    <3> QED BY ZenonT(30), <2>1, <3>1, <3>2
  <2>3. cq' \in Seq(Reads) /\ Len(cq') = Len(cq) + 1
    BY <1>8 DEF KernelCompletes
  <2>4. \A q \in ring' : q \in Nat /\ q < next'
    BY <2>1
  <2>5. cpc \in {"reaping", "callback"} => left' <= Len(cq')
    BY <1>0, <2>1, <2>3
  <2>6. RingNeverOverflows'
    <3>1. /\ Cardinality(ring) \in Nat /\ Len(cq) \in Nat /\ inflight \in Nat /\ held \in Nat
          /\ RingEntries \in Nat
      BY <1>0, FS_CardinalityType
    <3> QED BY SMTT(30), <1>0, <2>1, <2>2, <2>3, <3>1
  <2> QED BY SMTT(30), <1>0, <2>1, <2>2, <2>3, <2>4, <2>5, <2>6, FS_EmptySet
<1>9. CASE UNCHANGED vars
  BY <1>9 DEF vars, ringVars, reapVars
<1> QED
  BY ZenonT(30), <1>1, <1>2, <1>3, <1>4, <1>5, <1>6, <1>7, <1>8, <1>9 DEF Next, Submit, Drain, Destroy

(* u->inflight counts the reads in the kernel and in the completion ring,  *)
(* and the completion ring has room for them: no completion is ever lost.  *)
THEOREM RingHoldsItsReads == Spec => []RingNeverOverflows
<1>1. RingInv => RingNeverOverflows
  BY DEF RingInv
<1> QED BY RingInit, RingNext, <1>1, PTL DEF Spec

(* portico_aio_destroy frees the instance when its threads have been       *)
(* joined, its queue was run dry and the kernel has nothing of it.         *)
THEOREM FreedAlone == Spec => []NobodyLeftWhenFreed
<1>1. PoolInv /\ RingInv => NobodyLeftWhenFreed
  BY DEF PoolInv, RingInv, NobodyLeftWhenFreed
<1> QED BY PoolInit, PoolNext, RingInit, RingNext, <1>1, PTL DEF Spec

-----------------------------------------------------------------------------
(* Every read is in one place: the ledger `at' says in which.              *)
Waiting == {"task", "worker", "kernel", "ring", "queue"}
Places == Waiting \union {"new", "refused", "fired", "dropped"}

Here(r, p) ==
  /\ p = "new" <=> r >= next
  /\ p = "task" <=> r \in Range(tasks)
  /\ p = "worker" <=> \E w \in Workers : wread[w] = r
  /\ p = "kernel" <=> r \in ring
  /\ p = "ring" <=> r \in Range(cq)
  /\ p = "queue" <=> r \in Range(completions)
  /\ p = "fired" <=> r \in Range(fired)
  /\ p = "refused" <=> r \in refused
  /\ p = "dropped" <=> r \in dropped
Ledger(at) == at \in [Reads -> Places] /\ \A r \in Reads : Here(r, at[r])

(* And it is there once.                                                   *)
Once(s) == s \in Seq(Reads) /\ \A i, j \in DOMAIN s : s[i] = s[j] => i = j
Single ==
  /\ next \in Nat \ {0}
  /\ Once(tasks) /\ Once(cq) /\ Once(completions) /\ Once(fired)
  /\ wpc \in [Workers -> {"loop", "asleep", "read", "exchange", "signal", "exited"}]
  /\ wread \in [Workers -> Reads \union {NULL}]
  /\ \A v, w \in Workers : wread[v] = wread[w] /\ wread[v] # NULL => v = w
  /\ \A w \in Workers : wread[w] # NULL <=> wpc[w] = "read"
  /\ left \in Nat
  /\ cpc \in {"reaping", "callback"} => left <= Len(cq)

(* No read is lost or doubled on its way from submit to its end: "so the   *)
(* op is never silently lost" (portico_aio_enqueue).                       *)
ReadsAccounted == \E at \in [Reads -> Places] : Ledger(at)

(* The ways of a read.                                                     *)
Ways ==
  {<<"new", "refused">>, <<"new", "task">>, <<"new", "kernel">>, <<"new", "queue">>,
   <<"new", "fired">>, <<"task", "worker">>, <<"worker", "queue">>, <<"worker", "fired">>,
   <<"kernel", "ring">>, <<"ring", "queue">>, <<"ring", "fired">>, <<"queue", "fired">>,
   <<"ring", "dropped">>, <<"queue", "dropped">>}
Goes(at, bt) == \A r \in Reads : bt[r] # at[r] => <<at[r], bt[r]>> \in Ways

(* Queues of reads.                                                        *)
LEMMA OnceEmpty == Once(<<>>) /\ Range(<<>>) = {}
  BY DEF Once, Range

LEMMA OnceAppend ==
  ASSUME NEW s, Once(s), NEW r \in Reads, r \notin Range(s)
  PROVE  Once(Append(s, r)) /\ Range(Append(s, r)) = Range(s) \union {r}
<1>1. s \in Seq(Reads) /\ Append(s, r) \in Seq(Reads) /\ Len(s) \in Nat
      /\ Len(Append(s, r)) = Len(s) + 1 /\ DOMAIN s = 1..Len(s)
      /\ DOMAIN Append(s, r) = 1..(Len(s) + 1)
  BY DEF Once
<1>2. \A i \in 1..Len(s) : Append(s, r)[i] = s[i] /\ s[i] # r
  BY <1>1 DEF Range
<1>3. Append(s, r)[Len(s) + 1] = r
  BY <1>1
<1>4. \A i \in 1..(Len(s) + 1) : i \in 1..Len(s) \/ i = Len(s) + 1
  BY <1>1
<1>5. Once(Append(s, r))
  <2> SUFFICES ASSUME NEW i \in 1..(Len(s) + 1), NEW j \in 1..(Len(s) + 1),
                      Append(s, r)[i] = Append(s, r)[j]
               PROVE  i = j
    BY <1>1 DEF Once
  <2> QED BY Zenon, <1>1, <1>2, <1>3, <1>4 DEF Once
<1>6. Range(Append(s, r)) = Range(s) \union {r}
  <2>1. ASSUME NEW x \in Range(Append(s, r)) PROVE x \in Range(s) \union {r}
    BY Zenon, <1>1, <1>2, <1>3, <1>4, <2>1 DEF Range
  <2>2. ASSUME NEW x \in Range(s) \union {r} PROVE x \in Range(Append(s, r))
    <3>1. CASE x = r
      BY <1>1, <1>3, <3>1 DEF Range
    <3>2. CASE x \in Range(s)
      <4>1. PICK i \in 1..Len(s) : x = s[i]
        BY <1>1, <3>2 DEF Range
      <4>2. i \in 1..(Len(s) + 1) /\ Append(s, r)[i] = x
        BY <1>1, <1>2, <4>1
      <4> QED BY <1>1, <4>2 DEF Range
    <3> QED BY <2>2, <3>1, <3>2
  <2> QED BY <2>1, <2>2
<1> QED BY <1>5, <1>6

LEMMA OnceTail ==
  ASSUME NEW s, Once(s), s # <<>>
  PROVE  /\ Head(s) \in Reads /\ Head(s) \in Range(s)
         /\ Once(Tail(s)) /\ Range(Tail(s)) = Range(s) \ {Head(s)}
<1>1. /\ s \in Seq(Reads) /\ Tail(s) \in Seq(Reads) /\ Len(s) \in Nat \ {0}
      /\ Len(Tail(s)) = Len(s) - 1 /\ DOMAIN s = 1..Len(s)
      /\ DOMAIN Tail(s) = 1..(Len(s) - 1) /\ Head(s) = s[1] /\ 1 \in 1..Len(s)
  BY DEF Once
<1>2. \A i \in 1..(Len(s) - 1) : Tail(s)[i] = s[i + 1] /\ i + 1 \in 1..Len(s) /\ i + 1 # 1
  BY <1>1
<1>3. \A i \in 1..Len(s) : i = 1 \/ \E j \in 1..(Len(s) - 1) : i = j + 1
  <2> TAKE i \in 1..Len(s)
  <2>1. CASE i # 1
    <3>1. i - 1 \in 1..(Len(s) - 1) /\ i = (i - 1) + 1
      BY <1>1, <2>1
    <3> QED BY <3>1
  <2> QED BY <2>1
<1>4. Head(s) \in Reads /\ Head(s) \in Range(s)
  BY <1>1 DEF Range
<1>5. Once(Tail(s))
  <2> SUFFICES ASSUME NEW i \in 1..(Len(s) - 1), NEW j \in 1..(Len(s) - 1),
                      Tail(s)[i] = Tail(s)[j]
               PROVE  i = j
    BY <1>1 DEF Once
  <2>1. s[i + 1] = s[j + 1] /\ i + 1 \in DOMAIN s /\ j + 1 \in DOMAIN s
    BY ONLY SMTT(30), <1>1, <1>2, Tail(s)[i] = Tail(s)[j],
       i \in 1..(Len(s) - 1), j \in 1..(Len(s) - 1)
  <2>2. \A k, l \in DOMAIN s : s[k] = s[l] => k = l
    BY DEF Once
  <2>3. i + 1 = j + 1
    BY ONLY Zenon, <2>1, <2>2
  <2> QED BY <1>1, <2>3
<1>6. Range(Tail(s)) = Range(s) \ {Head(s)}
  <2>1. ASSUME NEW x \in Range(Tail(s)) PROVE x \in Range(s) /\ x # Head(s)
    <3>1. PICK i \in 1..(Len(s) - 1) : x = Tail(s)[i]
      BY <1>1 DEF Range
    <3>2. x = s[i + 1] /\ i + 1 \in 1..Len(s) /\ i + 1 # 1
      BY Zenon, <1>2, <3>1
    <3>3. x # s[1]
      BY Zenon, <1>1, <3>2 DEF Once
    <3> QED BY Zenon, <1>1, <3>2, <3>3 DEF Range
  <2>2. ASSUME NEW x \in Range(s), x # Head(s) PROVE x \in Range(Tail(s))
    <3>1. PICK i \in 1..Len(s) : x = s[i]
      BY <1>1 DEF Range
    <3>2. PICK j \in 1..(Len(s) - 1) : i = j + 1
      BY <1>1, <1>3, <2>2, <3>1
    <3> QED BY Zenon, <1>1, <1>2, <3>1, <3>2 DEF Range
  <2> QED BY <2>1, <2>2
<1> QED BY <1>4, <1>5, <1>6

(* A read that moves alone moves the ledger.                               *)
LEMMA Moved ==
  ASSUME NEW at, Ledger(at), NEW x \in Reads, NEW p \in Places, <<at[x], p>> \in Ways,
         \A r \in Reads \ {x} : Here(r, at[r])', Here(x, p)'
  PROVE  \E bt : Ledger(bt)' /\ Goes(at, bt)
<1> DEFINE bt == [at EXCEPT ![x] = p]
<1>1. /\ bt \in [Reads -> Places] /\ bt[x] = p
      /\ \A r \in Reads \ {x} : bt[r] = at[r]
  BY DEF Ledger
<1>2. \A r \in Reads : Here(r, bt[r])'
  <2> SUFFICES ASSUME NEW r \in Reads PROVE Here(r, bt[r])'
    OBVIOUS
  <2>1. CASE r = x
    BY Zenon, <1>1, <2>1
  <2>2. CASE r # x
    BY Zenon, <1>1, <2>2
  <2> QED BY <2>1, <2>2
<1>3. Goes(at, bt)
  BY Zenon, <1>1 DEF Goes
<1> HIDE DEF bt
<1> QED BY <1>1, <1>2, <1>3 DEF Ledger

(* Where nothing that the ledger looks at changes, it is still right.      *)
LEMMA Unmoved ==
  ASSUME NEW at, Ledger(at),
         UNCHANGED <<next, tasks, wread, ring, cq, completions, fired, refused, dropped>>
  PROVE  \E bt : Ledger(bt)' /\ Goes(at, bt)
<1>1. \A r \in Reads, p \in Places : Here(r, p)' = Here(r, p)
  BY DEF Here
<1>2. Ledger(at)'
  BY <1>1 DEF Ledger
<1> QED BY <1>2 DEF Goes

(* What is in a place is not in another.                                   *)
LEMMA Elsewhere ==
  ASSUME NEW at, Ledger(at), NEW r \in Reads
  PROVE  at[r] \in Places /\ Here(r, at[r])
  BY DEF Ledger

(* portico_aio_enqueue moves a read that is neither queued nor fired.      *)
LEMMA EnqueueOnce ==
  ASSUME Once(completions), Once(fired), NEW r \in Reads,
         r \notin Range(completions), r \notin Range(fired), AioEnqueue(r)
  PROVE  /\ Once(completions)' /\ Once(fired)'
         /\ \E p \in {"queue", "fired"} :
              /\ Range(completions)' = Range(completions) \union {q \in {r} : p = "queue"}
              /\ Range(fired)' = Range(fired) \union {q \in {r} : p = "fired"}
<1>1. CASE Queues(r)
  <2>1. /\ Once(completions)' /\ Once(fired)'
        /\ Range(completions)' = Range(completions) \union {q \in {r} : "queue" = "queue"}
        /\ Range(fired)' = Range(fired) \union {q \in {r} : "queue" = "fired"}
    BY SMTT(30), <1>1, OnceAppend DEF Queues, Once, Range
  <2> QED BY Zenon, <2>1
<1>2. CASE FiresHere(r)
  <2>1. /\ Once(completions)' /\ Once(fired)'
        /\ Range(completions)' = Range(completions) \union {q \in {r} : "fired" = "queue"}
        /\ Range(fired)' = Range(fired) \union {q \in {r} : "fired" = "fired"}
    BY SMTT(30), <1>2, OnceAppend DEF FiresHere, Once, Range
  <2> QED BY Zenon, <2>1
<1> QED BY <1>1, <1>2 DEF AioEnqueue

(* Every step takes each read along its way, and leaves it in one place.   *)
LEMMA SingleInit == Init => Single /\ Ledger([r \in Reads |-> "new"])
<1> SUFFICES ASSUME Init PROVE Single /\ Ledger([r \in Reads |-> "new"])
  OBVIOUS
<1>1. /\ next = 1 /\ tasks = <<>> /\ cq = <<>> /\ completions = <<>> /\ fired = <<>>
      /\ refused = {} /\ dropped = {} /\ ring = {} /\ left = 0 /\ cpc = "wait"
      /\ wpc = [w \in Workers |-> "loop"] /\ wread = [w \in Workers |-> NULL]
  BY DEF Init, FrontendInit, ThreadpoolInit, UringInit
<1>2. Single
  BY <1>1, OnceEmpty DEF Single
<1>3. \A r \in Reads : Here(r, "new")
  <2> SUFFICES ASSUME NEW r \in Reads PROVE Here(r, "new")
    OBVIOUS
  <2>1. r >= next /\ \A w \in Workers : wread[w] # r
    BY <1>1, AioAssumption DEF Reads
  <2> QED BY <1>1, <2>1, OnceEmpty DEF Here
<1> QED BY <1>2, <1>3 DEF Ledger, Places

(* portico_aio_pread: the read that is submitted is new.                   *)
LEMMA SubmitMoves ==
  ASSUME Single, NEW at, Ledger(at), Submit
  PROVE  Single' /\ \E bt : Ledger(bt)' /\ Goes(at, bt)
<1>1. next \in Reads /\ next' = next + 1
  BY AioAssumption
  DEF Submit, BlockingSubmit, TpSubmit, UringSubmit, SubmitRefused, Submitting, Single, Reads
<1>0. PICK x \in Reads : x = next
  BY <1>1
<1>2. Here(x, at[x]) /\ x >= next
  BY <1>0, Elsewhere DEF Single
<1>3. at[x] = "new"
  BY <1>2 DEF Here
<1>4. /\ x \notin Range(tasks) /\ x \notin ring
      /\ x \notin Range(completions) /\ x \notin Range(fired)
      /\ x \notin Range(cq) /\ x \notin refused /\ x \notin dropped
      /\ ~\E w \in Workers : wread[w] = x
  BY ZenonT(30), <1>2, <1>3 DEF Here
<1>5. /\ ~(x >= next')
      /\ \A r \in Reads \ {x} : r >= next' <=> r >= next
  BY <1>0, <1>1 DEF Single, Reads
<1>6. next' \in Nat \ {0}
  BY <1>1 DEF Single
<1>Stay. ASSUME \A r \in Reads \ {x} :
                  /\ r \in Range(tasks)' <=> r \in Range(tasks)
                  /\ r \in ring' <=> r \in ring
                  /\ r \in Range(completions)' <=> r \in Range(completions)
                  /\ r \in Range(fired)' <=> r \in Range(fired)
                  /\ r \in refused' <=> r \in refused,
                UNCHANGED <<wread, cq, dropped>>
         PROVE  \A r \in Reads \ {x} : Here(r, at[r])'
  <2> SUFFICES ASSUME NEW r \in Reads \ {x} PROVE Here(r, at[r])'
    OBVIOUS
  <2>1. Here(r, at[r])
    BY Elsewhere
  <2> QED BY ZenonT(30), <1>Stay, <1>5, <2>1 DEF Here
<1>7. CASE BlockingSubmit
  <2>1. AioEnqueue(x)
        /\ UNCHANGED <<tasks, wpc, wread, ring, cq, left, cpc, refused, dropped>>
    BY <1>0, <1>7 DEF BlockingSubmit, PostCompletion, poolVars, ringVars, reapVars
  <2>2. PICK p \in {"queue", "fired"} :
          /\ Range(completions)' = Range(completions) \union {q \in {x} : p = "queue"}
          /\ Range(fired)' = Range(fired) \union {q \in {x} : p = "fired"}
    BY ZenonT(30), <1>4, <2>1, EnqueueOnce DEF Single
  <2>3. Once(completions)' /\ Once(fired)'
    BY ZenonT(30), <1>4, <2>1, EnqueueOnce DEF Single
  <2>4. Single'
    BY ZenonT(30), <1>6, <2>1, <2>3 DEF Single, Once
  <2>5. Here(x, p)'
    BY ZenonT(30), <1>4, <1>5, <2>1, <2>2 DEF Here
  <2>6. \A r \in Reads \ {x} : Here(r, at[r])'
    BY ZenonT(30), <1>Stay, <2>1, <2>2
  <2>7. p \in Places /\ <<at[x], p>> \in Ways
    BY <1>3, <2>2 DEF Places, Waiting, Ways
  <2> QED BY Zenon, <2>4, <2>5, <2>6, <2>7, Moved
<1>8. CASE TpSubmit
  <2>1. tasks' = Append(tasks, x)
        /\ UNCHANGED <<wread, ring, cq, left, cpc, completions, fired, refused, dropped>>
    BY <1>0, <1>8 DEF TpSubmit, ringVars, reapVars
  <2>2. Once(tasks)' /\ Range(tasks)' = Range(tasks) \union {x}
    BY <1>4, <2>1, OnceAppend DEF Single
  <2>3. /\ wpc' \in [Workers -> {"loop", "asleep", "read", "exchange", "signal", "exited"}]
        /\ \A w \in Workers : wpc'[w] = "read" <=> wpc[w] = "read"
    <3>1. CASE wpc' = wpc
      BY <3>1 DEF Single
    <3>2. CASE \E w \in Workers : wpc[w] = "asleep" /\ wpc' = [wpc EXCEPT ![w] = "loop"]
      BY SMTT(30), <3>2 DEF Single
    <3> QED BY <1>8, <3>1, <3>2 DEF TpSubmit
  <2>4. Single'
    BY SMTT(30), <1>6, <2>1, <2>2, <2>3 DEF Single, Once
  <2>5. Here(x, "task")'
    BY SMTT(30), <1>4, <1>5, <2>1, <2>2 DEF Here
  <2>6. \A r \in Reads \ {x} : Here(r, at[r])'
    BY ZenonT(30), <1>Stay, <2>1, <2>2
  <2> QED BY <1>3, <2>4, <2>5, <2>6, Moved DEF Places, Waiting, Ways
<1>9. CASE UringSubmit
  <2>1. ring' = ring \union {x}
        /\ UNCHANGED <<tasks, wpc, wread, cq, left, cpc, completions, fired, refused, dropped>>
    BY SMTT(30), <1>0, <1>9 DEF UringSubmit, poolVars, reapVars
  <2>2. Single'
    BY <1>6, <2>1 DEF Single, Once
  <2>3. Here(x, "kernel")'
    BY <1>4, <1>5, <2>1 DEF Here
  <2>4. \A r \in Reads \ {x} : Here(r, at[r])'
    BY <1>Stay, <2>1
  <2> QED BY <1>3, <2>2, <2>3, <2>4, Moved DEF Places, Waiting, Ways
<1>10. CASE SubmitRefused
  <2>1. refused' = refused \union {x}
        /\ UNCHANGED <<tasks, wpc, wread, ring, cq, left, cpc, completions, fired, dropped>>
    BY <1>0, <1>10 DEF SubmitRefused, poolVars, ringVars, reapVars
  <2>2. Single'
    BY <1>6, <2>1 DEF Single, Once
  <2>3. Here(x, "refused")'
    BY <1>4, <1>5, <2>1 DEF Here
  <2>4. \A r \in Reads \ {x} : Here(r, at[r])'
    BY <1>Stay, <2>1
  <2> QED BY <1>3, <2>2, <2>3, <2>4, Moved DEF Places, Ways
<1> QED BY <1>7, <1>8, <1>9, <1>10 DEF Submit

(* tp_worker: a task goes to the worker that takes it, and from there to   *)
(* the queue.                                                              *)
LEMMA WorkerMoves ==
  ASSUME Single, NEW at, Ledger(at), NEW w \in Workers, Worker(w)
  PROVE  Single' /\ \E bt : Ledger(bt)' /\ Goes(at, bt)
<1>1. CASE WorkerLoop(w) /\ tasks # <<>>
  <2>1. /\ wpc[w] = "loop" /\ wpc' = [wpc EXCEPT ![w] = "read"]
        /\ wread' = [wread EXCEPT ![w] = Head(tasks)] /\ tasks' = Tail(tasks)
        /\ UNCHANGED <<next, ring, cq, left, cpc, completions, fired, refused, dropped>>
    BY <1>1 DEF WorkerLoop, WorkerGoto, ringVars, reapVars
  <2>2. PICK x \in Reads : x = Head(tasks)
    BY <1>1, OnceTail DEF Single
  <2>3. x \in Range(tasks) /\ Once(tasks)' /\ Range(tasks)' = Range(tasks) \ {x}
    BY <1>1, <2>1, <2>2, OnceTail DEF Single
  <2>4. Here(x, at[x])
    BY Elsewhere
  <2>5. at[x] = "task" /\ x # NULL
    BY <2>3, <2>4, AioAssumption DEF Here
  <2>6. /\ wread'[w] = x /\ wread[w] = NULL
        /\ \A v \in Workers \ {w} : wread'[v] = wread[v] /\ wpc'[v] = wpc[v] /\ wread[v] # x
        /\ wpc'[w] = "read"
    BY SMTT(30), <2>1, <2>2, <2>4, <2>5 DEF Single, Here
  <2>7. Single'
    <3>1. /\ wpc' \in [Workers -> {"loop", "asleep", "read", "exchange", "signal", "exited"}]
          /\ wread' \in [Workers -> Reads \union {NULL}]
      BY <2>1, <2>2 DEF Single
    <3>2. \A u, v \in Workers : wread'[u] = wread'[v] /\ wread'[u] # NULL => u = v
      BY <2>6 DEF Single
    <3>3. \A v \in Workers : wread'[v] # NULL <=> wpc'[v] = "read"
      BY <2>5, <2>6 DEF Single
    <3> QED BY ZenonT(30), <2>1, <2>3, <3>1, <3>2, <3>3 DEF Single, Once
  <2>8. Here(x, "worker")'
    BY <2>1, <2>3, <2>4, <2>5, <2>6 DEF Here
  <2>9. \A r \in Reads \ {x} : Here(r, at[r])'
    <3> SUFFICES ASSUME NEW r \in Reads \ {x} PROVE Here(r, at[r])'
      OBVIOUS
    <3>1. Here(r, at[r]) /\ r # NULL
      BY SMTT(30), Elsewhere, AioAssumption
    <3>2. (\E v \in Workers : wread'[v] = r) <=> (\E v \in Workers : wread[v] = r)
      BY ZenonT(30), <2>6, <3>1
    <3> QED BY <2>1, <2>3, <3>1, <3>2 DEF Here
  <2> QED BY <2>5, <2>7, <2>8, <2>9, Moved DEF Places, Waiting, Ways
<1>2. CASE WorkerEnqueue(w)
  <2>1. /\ wpc[w] = "read" /\ wpc' = [wpc EXCEPT ![w] = "exchange"]
        /\ wread' = [wread EXCEPT ![w] = NULL] /\ AioEnqueue(wread[w])
        /\ UNCHANGED <<next, tasks, ring, cq, left, cpc, refused, dropped>>
    BY <1>2 DEF WorkerEnqueue, WorkerGoto, ringVars, reapVars
  <2>2. PICK x \in Reads : x = wread[w]
    BY <2>1 DEF Single
  <2>3. Here(x, at[x])
    BY Elsewhere
  <2>4. at[x] = "worker" /\ x # NULL
    BY SMTT(30), <2>2, <2>3, AioAssumption DEF Here
  <2>5. x \notin Range(completions) /\ x \notin Range(fired) /\ AioEnqueue(x)
    BY ZenonT(30), <2>1, <2>2, <2>3, <2>4 DEF Here
  <2>6. PICK p \in {"queue", "fired"} :
          /\ Range(completions)' = Range(completions) \union {q \in {x} : p = "queue"}
          /\ Range(fired)' = Range(fired) \union {q \in {x} : p = "fired"}
    BY <2>5, EnqueueOnce DEF Single
  <2>7. Once(completions)' /\ Once(fired)'
    BY <2>5, EnqueueOnce DEF Single
  <2>8. /\ wread'[w] = NULL /\ wpc'[w] = "exchange"
        /\ \A v \in Workers \ {w} : wread'[v] = wread[v] /\ wpc'[v] = wpc[v] /\ wread[v] # x
    BY <2>1, <2>2, <2>4 DEF Single
  <2>9. Single'
    <3>1. /\ wpc' \in [Workers -> {"loop", "asleep", "read", "exchange", "signal", "exited"}]
          /\ wread' \in [Workers -> Reads \union {NULL}]
      BY SMTT(30), <2>1 DEF Single
    <3>2. \A u, v \in Workers : wread'[u] = wread'[v] /\ wread'[u] # NULL => u = v
      BY <2>8 DEF Single
    <3>3. \A v \in Workers : wread'[v] # NULL <=> wpc'[v] = "read"
      BY SMTT(30), <2>8 DEF Single
    <3> QED BY ZenonT(30), <2>1, <2>7, <3>1, <3>2, <3>3 DEF Single, Once
  <2>10. Here(x, p)'
    BY ZenonT(30), <2>1, <2>3, <2>4, <2>6, <2>8 DEF Here
  <2>11. \A r \in Reads \ {x} : Here(r, at[r])'
    <3> SUFFICES ASSUME NEW r \in Reads \ {x} PROVE Here(r, at[r])'
      OBVIOUS
    <3>1. Here(r, at[r]) /\ r # NULL
      BY SMTT(30), Elsewhere, AioAssumption
    <3>2. (\E v \in Workers : wread'[v] = r) <=> (\E v \in Workers : wread[v] = r)
      BY <2>2, <2>8, <3>1
    <3> QED BY ZenonT(30), <2>1, <2>6, <3>1, <3>2 DEF Here
  <2>12. p \in Places /\ <<at[x], p>> \in Ways
    BY <2>4, <2>6 DEF Places, Waiting, Ways
  <2> QED BY Zenon, <2>9, <2>10, <2>11, <2>12, Moved
<1>3. CASE WorkerLoop(w) /\ tasks = <<>>
  <2>1. /\ wpc[w] = "loop" /\ \E l \in {"exited", "asleep"} : wpc' = [wpc EXCEPT ![w] = l]
        /\ UNCHANGED <<next, tasks, wread, ring, cq, left, cpc, completions, fired, refused,
                       dropped>>
    BY SMTT(30), <1>3 DEF WorkerLoop, WorkerGoto, ringVars, reapVars
  <2>2. Single'
    BY <2>1 DEF Single, Once
  <2> QED BY <2>1, <2>2, Unmoved
<1>4. CASE WorkerExchange(w) \/ WorkerSignal(w)
  <2>1. /\ wpc[w] # "read" /\ \E l \in {"signal", "loop"} : wpc' = [wpc EXCEPT ![w] = l]
        /\ UNCHANGED <<next, tasks, wread, ring, cq, left, cpc, completions, fired, refused,
                       dropped>>
    BY <1>4 DEF WorkerExchange, WorkerSignal, WorkerGoto, ringVars, reapVars
  <2>2. Single'
    BY <2>1 DEF Single, Once
  <2> QED BY <2>1, <2>2, Unmoved
<1> QED BY <1>1, <1>2, <1>3, <1>4 DEF Worker

(* The kernel, drain and uring_reap move the read at the head.             *)
LEMMA DrainMoves ==
  ASSUME Single, NEW at, Ledger(at), ReapEntry \/ DrainPop \/ \E r \in Reads : KernelCompletes(r)
  PROVE  Single' /\ \E bt : Ledger(bt)' /\ Goes(at, bt)
<1>1. CASE ReapEntry
  <2>1. /\ cpc = "reaping" /\ cpc' \in {"reaping", "callback"} /\ left > 0 /\ left' = left - 1
        /\ AioEnqueue(Head(cq)) /\ cq' = Tail(cq)
        /\ UNCHANGED <<next, tasks, wpc, wread, ring, refused, dropped>>
    BY <1>1 DEF ReapEntry, AioEnqueue, poolVars
  <2>2. /\ cq # <<>> /\ left' \in Nat
        /\ cpc' \in {"reaping", "callback"} => left' <= Len(cq')
    BY <2>1 DEF Single, Once
  <2>3. PICK x \in Reads : x = Head(cq)
    BY <2>2, OnceTail DEF Single
  <2>4. x \in Range(cq) /\ Once(cq)' /\ Range(cq)' = Range(cq) \ {x}
    BY <2>1, <2>2, <2>3, OnceTail DEF Single
  <2>5. Here(x, at[x])
    BY Elsewhere
  <2>6. at[x] = "ring"
    BY <2>4, <2>5 DEF Here
  <2>7. x \notin Range(completions) /\ x \notin Range(fired) /\ AioEnqueue(x)
    BY SMTT(30), <2>1, <2>3, <2>5, <2>6 DEF Here
  <2>8. PICK p \in {"queue", "fired"} :
          /\ Range(completions)' = Range(completions) \union {q \in {x} : p = "queue"}
          /\ Range(fired)' = Range(fired) \union {q \in {x} : p = "fired"}
    BY <2>7, EnqueueOnce DEF Single
  <2>9. Once(completions)' /\ Once(fired)'
    BY <2>7, EnqueueOnce DEF Single
  <2>10. Single'
    BY ZenonT(30), <2>1, <2>2, <2>4, <2>9 DEF Single
  <2>11. Here(x, p)'
    BY SMTT(30), <2>1, <2>4, <2>5, <2>6, <2>8 DEF Here
  <2>12. \A r \in Reads \ {x} : Here(r, at[r])'
    BY <2>1, <2>4, <2>8, Elsewhere DEF Here
  <2>13. p \in Places /\ <<at[x], p>> \in Ways
    BY <2>6, <2>8 DEF Places, Waiting, Ways
  <2> QED BY ZenonT(30), <2>10, <2>11, <2>12, <2>13, Moved
<1>2. CASE DrainPop
  <2>1. /\ completions # <<>> /\ completions' = Tail(completions)
        /\ fired' = Append(fired, Head(completions))
        /\ UNCHANGED <<next, tasks, wpc, wread, ring, cq, left, cpc, refused, dropped>>
    BY <1>2 DEF DrainPop, poolVars, ringVars, reapVars
  <2>2. PICK x \in Reads : x = Head(completions)
    BY <2>1, OnceTail DEF Single
  <2>3. /\ x \in Range(completions) /\ Once(completions)'
        /\ Range(completions)' = Range(completions) \ {x}
    BY <2>1, <2>2, OnceTail DEF Single
  <2>4. Here(x, at[x])
    BY Elsewhere
  <2>5. at[x] = "queue" /\ x \notin Range(fired)
    BY <2>3, <2>4 DEF Here
  <2>6. Once(fired)' /\ Range(fired)' = Range(fired) \union {x}
    BY <2>1, <2>2, <2>5, OnceAppend DEF Single
  <2>7. Single'
    BY ZenonT(30), <2>1, <2>3, <2>6 DEF Single
  <2>8. Here(x, "fired")'
    BY SMTT(30), <2>1, <2>3, <2>4, <2>5, <2>6 DEF Here
  <2>9. \A r \in Reads \ {x} : Here(r, at[r])'
    BY <2>1, <2>3, <2>6, Elsewhere DEF Here
  <2> QED BY <2>5, <2>7, <2>8, <2>9, Moved DEF Places, Waiting, Ways
<1>3. ASSUME NEW x \in Reads, KernelCompletes(x)
      PROVE  Single' /\ \E bt : Ledger(bt)' /\ Goes(at, bt)
  <2>1. /\ x \in ring /\ ring' = ring \ {x} /\ cq' = Append(cq, x)
        /\ UNCHANGED <<next, tasks, wpc, wread, left, cpc, completions, fired, refused, dropped>>
    BY <1>3 DEF KernelCompletes, poolVars, reapVars
  <2>2. Here(x, at[x])
    BY Elsewhere
  <2>3. at[x] = "kernel" /\ x \notin Range(cq)
    BY <2>1, <2>2 DEF Here
  <2>4. Once(cq)' /\ Range(cq)' = Range(cq) \union {x}
    BY <2>1, <2>3, OnceAppend DEF Single
  <2>5. cpc' \in {"reaping", "callback"} => left' <= Len(cq')
    BY <2>1 DEF Single, Once
  <2>6. Single'
    BY ZenonT(30), <2>1, <2>4, <2>5 DEF Single
  <2>7. Here(x, "ring")'
    BY SMTT(30), <2>1, <2>2, <2>3, <2>4 DEF Here
  <2>8. \A r \in Reads \ {x} : Here(r, at[r])'
    BY ZenonT(30), <2>1, <2>4, Elsewhere DEF Here
  <2> QED BY <2>3, <2>6, <2>7, <2>8, Moved DEF Places, Waiting, Ways
<1> QED BY <1>1, <1>2, <1>3

(* portico_aio_destroy drops what is in the ring, and then what is queued. *)
LEMMA DestroyMoves ==
  ASSUME Single, NEW at, Ledger(at), Destroy
  PROVE  Single' /\ \E bt : Ledger(bt)' /\ Goes(at, bt)
<1>1. PICK p \in {"ring", "queue"} :
        /\ dropped' = dropped \union Range(IF p = "ring" THEN cq ELSE completions)
        /\ cq' = IF p = "ring" THEN <<>> ELSE cq
        /\ completions' = IF p = "queue" THEN <<>> ELSE completions
  BY DEF Destroy, UringDiscards, DestroyFrees, ringVars
<1>2. /\ cpc' \notin {"reaping", "callback"}
      /\ UNCHANGED <<next, tasks, wpc, wread, ring, left, fired, refused>>
  BY ZenonT(30) DEF Destroy, UringDiscards, DestroyFrees, poolVars, ringVars, reapVars
<1>3. Once(cq)' /\ Once(completions)'
  BY <1>1, OnceEmpty DEF Single
<1>4. Single'
  BY Zenon, <1>2, <1>3 DEF Single
<1> DEFINE bt == [r \in Reads |-> IF at[r] = p THEN "dropped" ELSE at[r]]
<1>5. bt \in [Reads -> Places]
  BY DEF Places, Ledger
<1>6. ASSUME NEW r \in Reads PROVE Here(r, bt[r])'
  <2>1. Here(r, at[r]) /\ bt[r] = IF at[r] = p THEN "dropped" ELSE at[r]
    BY Elsewhere
  <2>2. /\ r \in Range(cq)' <=> r \in Range(cq) /\ p # "ring"
        /\ r \in Range(completions)' <=> r \in Range(completions) /\ p # "queue"
        /\ r \in dropped' <=> r \in dropped \/ at[r] = p
    BY <1>1, <2>1, OnceEmpty DEF Here
  <2> QED BY ZenonT(30), <1>2, <2>1, <2>2 DEF Here
<1>7. Goes(at, bt)
  BY DEF Goes, Ways
<1> HIDE DEF bt
<1> QED BY <1>4, <1>5, <1>6, <1>7 DEF Ledger

LEMMA LedgerNext ==
  ASSUME Single, NEW at, Ledger(at), [Next]_vars
  PROVE  Single' /\ \E bt : Ledger(bt)' /\ Goes(at, bt)
<1>1. CASE \/ EpollWait \/ DrainClear \/ ReapBegins \/ CallbackReturns \/ ReapEnds
           \/ DrainDone \/ DestroyStops \/ UNCHANGED vars
  <2>1. UNCHANGED <<next, tasks, wread, ring, cq, completions, fired, refused, dropped>>
    BY ZenonT(30), <1>1
    DEF EpollWait, DrainClear, ReapBegins, CallbackReturns, ReapEnds, DrainDone, DestroyStops,
        vars, poolVars, ringVars, reapVars
  <2>2. /\ wpc' \in [Workers -> {"loop", "asleep", "read", "exchange", "signal", "exited"}]
        /\ \A w \in Workers : wpc'[w] = "read" <=> wpc[w] = "read"
    <3>1. CASE DestroyStops
      BY <3>1 DEF DestroyStops, Single
    <3>2. CASE UNCHANGED wpc
      BY SMTT(30), <3>2 DEF Single
    <3> QED
      BY ZenonT(30), <1>1, <3>1, <3>2
      DEF EpollWait, DrainClear, ReapBegins, CallbackReturns, ReapEnds, DrainDone, vars, poolVars
  <2>3. left' \in Nat /\ (cpc' \in {"reaping", "callback"} => left' <= Len(cq'))
    BY <1>1, <2>1
    DEF EpollWait, DrainClear, ReapBegins, CallbackReturns, ReapEnds, DrainDone, DestroyStops,
        vars, ringVars, reapVars, Single, Once
  <2>4. Single'
    BY Zenon, <2>1, <2>2, <2>3 DEF Single
  <2> QED BY SMTT(30), <2>1, <2>4, Unmoved
<1> QED
  BY <1>1, SubmitMoves, WorkerMoves, DrainMoves, DestroyMoves
  DEF Next, Drain, UringReap

-----------------------------------------------------------------------------
(* ReadService.  What a read's outcome is can be read off the ledger.      *)
LEMMA OutcomeIs ==
  ASSUME Single, NEW at, Ledger(at), NEW r \in Reads
  PROVE  Outcome(r) = IF at[r] \in Waiting THEN "pending" ELSE at[r]
<1>1. Here(r, at[r]) /\ at[r] \in Places
  BY Elsewhere
<1>2. r \in Nat /\ next \in Nat
  BY AioAssumption DEF Reads, Single
<1> DEFINE I == {i \in 1..Len(fired) : fired[i] = r}
<1>3. DOMAIN fired = 1..Len(fired)
  BY DEF Single, Once
<1>4. CASE r \in Range(fired)
  <2>1. PICK i \in 1..Len(fired) : fired[i] = r
    BY <1>3, <1>4 DEF Range
  <2>2. I = {i}
    BY <1>3, <2>1 DEF Single, Once
  <2>3. Times(r) = 1
    BY Zenon, <2>2, FS_Singleton DEF Times
  <2>4. at[r] = "fired" /\ r \notin refused /\ r \notin dropped
    BY <1>1, <1>4 DEF Here
  <2> QED BY <2>3, <2>4 DEF Outcome, Ends, Waiting
<1>5. CASE r \notin Range(fired)
  <2>1. I = {}
    BY ZenonT(30), <1>3, <1>5 DEF Range
  <2>2. Times(r) = 0
    BY <2>1, FS_EmptySet DEF Times
  <2>3. at[r] # "fired" /\ ~(r \in refused /\ r \in dropped)
    BY <1>1, <1>5 DEF Here
  <2>4. ~(Ends(r) > 1) /\ ~(Times(r) = 1)
    BY <2>2, <2>3 DEF Ends
  <2>5. CASE r \in refused
    BY Zenon, <1>1, <2>4, <2>5 DEF Outcome, Here, Waiting
  <2>6. CASE r \in dropped
    BY Zenon, <1>1, <2>3, <2>4, <2>6 DEF Outcome, Here, Waiting
  <2>7. CASE r \notin refused /\ r \notin dropped
    <3>1. Outcome(r) = IF r < next THEN "pending" ELSE "new"
      BY Zenon, <2>4, <2>7 DEF Outcome
    <3>2. r < next <=> at[r] # "new"
      BY <1>1, <1>2 DEF Here
    <3>3. at[r] # "new" => at[r] \in Waiting
      BY <1>1, <2>3, <2>7 DEF Here, Places
    <3> QED BY <3>1, <3>2, <3>3 DEF Waiting
  <2> QED BY SMTT(30), <2>5, <2>6, <2>7
<1> QED BY <1>4, <1>5

(* The same in the next state.                                             *)
Told ==
  \A at : Single /\ Ledger(at) =>
    \A r \in Reads : Outcome(r) = IF at[r] \in Waiting THEN "pending" ELSE at[r]

LEMMA ToldNext == Told /\ Told'
<1>1. Told
  BY OutcomeIs DEF Told
<1> QED BY <1>1, PTL

Booked == Single /\ ReadsAccounted

LEMMA BookedNext ==
  ASSUME Booked, [Next]_vars
  PROVE  Booked' /\ Service!ServiceNext
<1>1. PICK at : Ledger(at)
  BY DEF Booked, ReadsAccounted
<1>2. Single
  BY DEF Booked
<1>3. PICK bt : Ledger(bt)' /\ Goes(at, bt)
  BY <1>1, <1>2, LedgerNext
<1>4. Single'
  BY <1>1, <1>2, LedgerNext
<1>5. ReadsAccounted'
  BY <1>3 DEF ReadsAccounted, Ledger
<1>6. ASSUME NEW r \in Reads, Outcome(r)' # Outcome(r)
      PROVE  <<Outcome(r), Outcome(r)'>> \in Service!Moves
  <2>1. Outcome(r) = IF at[r] \in Waiting THEN "pending" ELSE at[r]
    BY <1>1, <1>2, OutcomeIs
  <2>2. Outcome(r)' = IF bt[r] \in Waiting THEN "pending" ELSE bt[r]
    BY Zenon, <1>3, <1>4, ToldNext DEF Told
  <2>3. <<at[r], bt[r]>> \in Ways
    BY <1>3, <1>6, <2>1, <2>2 DEF Goes
  <2> QED BY ZenonT(30), <1>6, <2>1, <2>2, <2>3 DEF Ways, Waiting, Service!Moves
<1>7. Service!ServiceNext
  BY <1>6 DEF Service!ServiceNext
<1> QED BY <1>4, <1>5, <1>7 DEF Booked

(* No read is lost or doubled: at every moment each read that was          *)
(* submitted is in one place, on its way or ended.                         *)
THEOREM NoReadLost == Spec => []ReadsAccounted
<1>1. Init => Booked
  BY Zenon, SingleInit DEF Booked, ReadsAccounted, Ledger
<1>2. Booked /\ [Next]_vars => Booked'
  BY BookedNext
<1>3. Booked => ReadsAccounted
  BY DEF Booked
<1> QED BY <1>1, <1>2, <1>3, PTL DEF Spec

(* portico_aio keeps the promise of ReadService with every backend, any    *)
(* number of workers and reads and every queue and ring size: a refused    *)
(* read never fires, an accepted one fires at most once, and what was      *)
(* dropped by destroy does not fire.                                       *)
THEOREM KeepsReadService == Spec => ImplementsService
<1>1. Init => Booked /\ Service!ServiceInit
  <2> SUFFICES ASSUME Init PROVE Booked /\ Service!ServiceInit
    OBVIOUS
  <2>1. Single /\ Ledger([r \in Reads |-> "new"])
    BY SingleInit
  <2>2. \A r \in Reads : Outcome(r) = "new"
    BY <2>1, OutcomeIs DEF Waiting
  <2> QED BY Zenon, <2>1, <2>2 DEF Booked, ReadsAccounted, Ledger, Service!ServiceInit
<1>2. Booked /\ [Next]_vars => Booked' /\ Service!ServiceNext
  BY BookedNext
<1> QED BY <1>1, <1>2, PTL DEF Spec, ImplementsService, Service!ServiceSpec
=============================================================================
