-------------------------------- MODULE Aio --------------------------------
(***************************************************************************)
(* Asynchronous file reads: the frontend of portico_aio (completion queue, *)
(* coalesced wakeup of the event thread, drain) on each of its backends.   *)
(* The event thread submits reads, from a request handler or from inside a *)
(* callback, and drains completions when the eventfd wakes its epoll.  The *)
(* threadpool's workers and the kernel behind io_uring run beside it.      *)
(*                                                                         *)
(* A read is a number, in the order of submission.  What it reads is left  *)
(* out: its buffer and result only travel with it.                         *)
(***************************************************************************)
EXTENDS Integers, Sequences, FiniteSets, Functions

CONSTANTS
  Backends,     (* which of "blocking", "threadpool", "iouring" to create  *)
  Workers,      (* threads of the threadpool                               *)
  QueueDepth,   (* max_depth of the threadpool, 0 = unbounded              *)
  RingEntries,  (* sq_entries of the ring                                  *)
  MaxReads,     (* bound: reads submitted                                  *)
  AllocFails,   (* whether malloc may fail                                 *)
  NULL

Reads == 1..MaxReads

ASSUME AioAssumption ==
  /\ Backends \subseteq {"blocking", "threadpool", "iouring"}
  /\ QueueDepth \in Nat
  /\ RingEntries \in Nat \ {0}
  /\ MaxReads \in Nat /\ Workers # {}
  /\ AllocFails \in BOOLEAN
  /\ NULL \notin Reads

VARIABLES
  backend,      (* cfg.backend                                             *)
  next,         (* the next read to submit                                 *)
  tasks,        (* the threadpool's queue                                  *)
  stop,         (* tp->stop                                                *)
  wpc,          (* where each worker is                                    *)
  wread,        (* the read it is working on                               *)
  ring,         (* reads the kernel is working on                          *)
  cq,           (* the completion ring                                     *)
  inflight,     (* u->inflight                                             *)
  left,         (* entries uring_reap has still to go through              *)
  held,         (* entries it consumed and has not released to the kernel  *)
  completions,  (* the frontend's completion queue                         *)
  notified,     (* the coalescing flag, 0 or 1                             *)
  efd,          (* whether the eventfd is readable                         *)
  edge,         (* whether epoll has the eventfd in its ready list         *)
  cpc,          (* where the event thread is                               *)
  fired,        (* callbacks fired, in order                               *)
  refused,      (* reads refused at submit                                 *)
  dropped       (* reads whose completion destroy discarded                *)

poolVars == <<tasks, stop, wpc, wread>>
reapVars == <<left, held>>
ringVars == <<ring, cq, inflight, reapVars>>
wakeVars == <<notified, efd, edge>>
vars == <<backend, next, poolVars, ringVars, completions, wakeVars, cpc, fired, refused,
          dropped>>

(* portico_aio_create.                                                     *)
FrontendInit ==
  /\ completions = <<>>
  /\ notified = 0
  /\ efd = FALSE

(* portico_aio_threadpool_init starts the workers on an empty queue.       *)
ThreadpoolInit ==
  /\ tasks = <<>>
  /\ stop = FALSE
  /\ wpc = [w \in Workers |-> "loop"]
  /\ wread = [w \in Workers |-> NULL]

(* portico_aio_uring_init.                                                 *)
UringInit ==
  /\ ring = {}
  /\ cq = <<>>
  /\ inflight = 0
  /\ left = 0
  /\ held = 0

(* The event thread takes the backend it is asked for, or can have, and    *)
(* adds its eventfd to its epoll.                                          *)
Init ==
  /\ backend \in Backends
  /\ FrontendInit
  /\ ThreadpoolInit
  /\ UringInit
  /\ edge = FALSE
  /\ cpc = "wait"
  /\ next = 1
  /\ fired = <<>>
  /\ refused = {}
  /\ dropped = {}

-----------------------------------------------------------------------------
(* The frontend's queue and wakeup.                                        *)

(* portico_aio_enqueue: without memory for the queue entry the callback    *)
(* fires on the spot, on the thread that is here.                          *)
Queues(r) == completions' = Append(completions, r) /\ UNCHANGED fired
FiresHere(r) == AllocFails /\ fired' = Append(fired, r) /\ UNCHANGED completions
AioEnqueue(r) == Queues(r) \/ FiresHere(r)

(* write(wakeup_fd): epoll is edge-triggered on it.                        *)
SignalEventfd == efd' = TRUE /\ edge' = TRUE

(* portico_aio_post_completion when nobody can come in between.            *)
PostCompletion(r) ==
  /\ AioEnqueue(r)
  /\ notified' = 1
  /\ IF notified = 0 THEN SignalEventfd ELSE UNCHANGED <<efd, edge>>

-----------------------------------------------------------------------------
(* portico_aio_pread, on the event thread: outside drain, or in a callback *)
(* that drain or, without memory, uring_reap has fired.                    *)
Submitting ==
  /\ cpc \in {"wait", "pop", "callback"}
  /\ next <= MaxReads
  /\ next' = next + 1

(* blocking_submit reads, and posts the completion to its own thread.      *)
BlockingSubmit ==
  /\ Submitting
  /\ backend = "blocking"
  /\ PostCompletion(next)
  /\ UNCHANGED <<backend, poolVars, ringVars, cpc, refused, dropped>>

QueueFull == QueueDepth # 0 /\ Len(tasks) >= QueueDepth

(* tp_submit: the task is queued and one sleeping worker is woken.         *)
TpSubmit ==
  /\ Submitting
  /\ backend = "threadpool"
  /\ ~QueueFull
  /\ tasks' = Append(tasks, next)
  /\ LET asleep == {w \in Workers : wpc[w] = "asleep"}
     IN  IF asleep = {}
         THEN UNCHANGED wpc
         ELSE \E w \in asleep : wpc' = [wpc EXCEPT ![w] = "loop"]
  /\ UNCHANGED <<backend, stop, wread, ringVars, completions, wakeVars, cpc, fired, refused,
                 dropped>>

(* uring_submit: the entry is published and the kernel takes it.           *)
UringSubmit ==
  /\ Submitting
  /\ backend = "iouring"
  /\ inflight < RingEntries
  /\ ring' = ring \union {next}
  /\ inflight' = inflight + 1
  /\ UNCHANGED <<backend, poolVars, cq, reapVars, completions, wakeVars, cpc, fired, refused,
                 dropped>>

(* -EAGAIN, -ENOMEM, or io_uring_enter failed and the entry is taken back. *)
SubmitRefused ==
  /\ Submitting
  /\ \/ backend = "threadpool" /\ (QueueFull \/ AllocFails)
     \/ backend = "iouring" /\ (inflight >= RingEntries \/ AllocFails)
  /\ refused' = refused \union {next}
  /\ UNCHANGED <<backend, poolVars, ringVars, completions, wakeVars, cpc, fired, dropped>>

-----------------------------------------------------------------------------
(* tp_worker.                                                              *)

WorkerGoto(w, label) == wpc' = [wpc EXCEPT ![w] = label]

(* Mutant: a stopping worker leaves its queue behind.                      *)
WorkerStopsFirst(w) ==
  /\ wpc[w] = "loop"
  /\ IF stop
     THEN WorkerGoto(w, "exited") /\ UNCHANGED <<tasks, wread>>
     ELSE IF tasks # <<>>
     THEN /\ wread' = [wread EXCEPT ![w] = Head(tasks)]
          /\ tasks' = Tail(tasks)
          /\ WorkerGoto(w, "read")
     ELSE WorkerGoto(w, "asleep") /\ UNCHANGED <<tasks, wread>>
  /\ UNCHANGED <<backend, next, stop, ringVars, completions, wakeVars, cpc, fired, refused,
                 dropped>>

(* Under tp->lock: take a task, or leave, or sleep on the condition.       *)
WorkerLoop(w) ==
  /\ wpc[w] = "loop"
  /\ IF tasks # <<>>
     THEN /\ wread' = [wread EXCEPT ![w] = Head(tasks)]
          /\ tasks' = Tail(tasks)
          /\ WorkerGoto(w, "read")
     ELSE /\ WorkerGoto(w, IF stop THEN "exited" ELSE "asleep")
          /\ UNCHANGED <<tasks, wread>>
  /\ UNCHANGED <<backend, next, stop, ringVars, completions, wakeVars, cpc, fired, refused,
                 dropped>>

(* pread, then portico_aio_post_completion in three steps: enqueue ...     *)
WorkerEnqueue(w) ==
  /\ wpc[w] = "read"
  /\ AioEnqueue(wread[w])
  /\ wread' = [wread EXCEPT ![w] = NULL]
  /\ WorkerGoto(w, "exchange")
  /\ UNCHANGED <<backend, next, tasks, stop, ringVars, wakeVars, cpc, refused, dropped>>

(* ... exchange `notified' ...                                             *)
WorkerExchange(w) ==
  /\ wpc[w] = "exchange"
  /\ notified' = 1
  /\ WorkerGoto(w, IF notified = 0 THEN "signal" ELSE "loop")
  /\ UNCHANGED <<backend, next, tasks, stop, wread, ringVars, completions, efd, edge, cpc,
                 fired, refused, dropped>>

(* ... and signal if nobody had.                                           *)
WorkerSignal(w) ==
  /\ wpc[w] = "signal"
  /\ SignalEventfd
  /\ WorkerGoto(w, "loop")
  /\ UNCHANGED <<backend, next, tasks, stop, wread, ringVars, completions, notified, cpc,
                 fired, refused, dropped>>

(* The kernel finishes any of the reads it has and signals the registered  *)
(* eventfd.                                                                *)
KernelCompletes(r) ==
  /\ r \in ring
  /\ ring' = ring \ {r}
  /\ cq' = Append(cq, r)
  /\ SignalEventfd
  /\ UNCHANGED <<backend, next, poolVars, inflight, reapVars, completions, notified, cpc,
                 fired, refused, dropped>>

-----------------------------------------------------------------------------
(* The event thread: epoll_wait and portico_aio_drain.                     *)

(* epoll reports the eventfd when it is still readable.                    *)
EpollWait ==
  /\ cpc = "wait"
  /\ edge
  /\ edge' = FALSE
  /\ cpc' = IF efd THEN "clear" ELSE "wait"
  /\ UNCHANGED <<backend, next, poolVars, ringVars, completions, notified, efd, fired,
                 refused, dropped>>

(* Mutant: the flag is reset first, then the eventfd is read.              *)
DrainResetsFirst ==
  \/ /\ cpc = "clear"
     /\ notified' = 0
     /\ cpc' = "reset"
     /\ UNCHANGED <<efd, backend, next, poolVars, ringVars, completions, edge, fired, refused,
                    dropped>>
  \/ /\ cpc = "reset"
     /\ efd' = FALSE
     /\ cpc' = "reap"
     /\ UNCHANGED <<notified, backend, next, poolVars, ringVars, completions, edge, fired,
                    refused, dropped>>

(* First read(wakeup_fd), then notified = 0.                               *)
DrainClear ==
  \/ /\ cpc = "clear"
     /\ efd' = FALSE
     /\ cpc' = "reset"
     /\ UNCHANGED <<notified, backend, next, poolVars, ringVars, completions, edge, fired,
                    refused, dropped>>
  \/ /\ cpc = "reset"
     /\ notified' = 0
     /\ cpc' = "reap"
     /\ UNCHANGED <<efd, backend, next, poolVars, ringVars, completions, edge, fired, refused,
                    dropped>>

(* uring_reap, where the backend has it, loads the tail ...                *)
ReapBegins ==
  /\ cpc = "reap"
  /\ left' = Len(cq)
  /\ cpc' = IF backend = "iouring" THEN "reaping" ELSE "pop"
  /\ UNCHANGED <<backend, next, poolVars, ring, cq, inflight, held, completions, wakeVars,
                 fired, refused, dropped>>

(* Mutant: the head does not advance past an entry that fires here.        *)
ReapEntryAgain ==
  /\ cpc = "reaping"
  /\ left > 0
  /\ \/ Queues(Head(cq)) /\ inflight' = inflight - 1 /\ UNCHANGED cpc /\ cq' = Tail(cq)
     \/ FiresHere(Head(cq)) /\ cpc' = "callback" /\ UNCHANGED <<inflight, cq>>
  /\ left' = left - 1
  /\ held' = held + 1
  /\ UNCHANGED <<backend, next, poolVars, ring, wakeVars, refused, dropped>>

(* ... enqueues each entry up to there and counts it down, after its       *)
(* callback if that fired on the spot ...                                  *)
ReapEntry ==
  /\ cpc = "reaping"
  /\ left > 0
  /\ \/ Queues(Head(cq)) /\ inflight' = inflight - 1 /\ UNCHANGED cpc
     \/ FiresHere(Head(cq)) /\ cpc' = "callback" /\ UNCHANGED inflight
  /\ cq' = Tail(cq)
  /\ left' = left - 1
  /\ held' = held + 1
  /\ UNCHANGED <<backend, next, poolVars, ring, wakeVars, refused, dropped>>

CallbackReturns ==
  /\ cpc = "callback"
  /\ inflight' = inflight - 1
  /\ cpc' = "reaping"
  /\ UNCHANGED <<backend, next, poolVars, ring, cq, reapVars, completions, wakeVars, fired,
                 refused, dropped>>

(* ... and releases the entries to the kernel.                             *)
ReapEnds ==
  /\ cpc = "reaping"
  /\ left = 0
  /\ held' = 0
  /\ cpc' = "pop"
  /\ UNCHANGED <<backend, next, poolVars, ring, cq, inflight, left, completions, wakeVars,
                 fired, refused, dropped>>

(* Pop one completion and fire it; a callback may submit again.            *)
DrainPop ==
  /\ cpc = "pop"
  /\ completions # <<>>
  /\ fired' = Append(fired, Head(completions))
  /\ completions' = Tail(completions)
  /\ UNCHANGED <<backend, next, poolVars, ringVars, wakeVars, cpc, refused, dropped>>

DrainDone ==
  /\ cpc = "pop"
  /\ completions = <<>>
  /\ cpc' = "wait"
  /\ UNCHANGED <<backend, next, poolVars, ringVars, completions, wakeVars, fired, refused,
                 dropped>>

-----------------------------------------------------------------------------
(* portico_aio_destroy, once the event thread has left its loop.           *)

(* Mutant: the sleeping workers are not woken.                             *)
DestroyStopsQuietly ==
  /\ cpc = "wait"
  /\ stop' = TRUE
  /\ cpc' = "joining"
  /\ UNCHANGED <<backend, next, tasks, wpc, wread, ringVars, completions, wakeVars, fired,
                 refused, dropped>>

(* tp_destroy asks the workers to stop; the other backends need no asking. *)
DestroyStops ==
  /\ cpc = "wait"
  /\ stop' = TRUE
  /\ wpc' = [w \in Workers |-> IF wpc[w] = "asleep" THEN "loop" ELSE wpc[w]]
  /\ cpc' = "joining"
  /\ UNCHANGED <<backend, next, tasks, wread, ringVars, completions, wakeVars, fired, refused,
                 dropped>>

(* uring_destroy discards the completions the kernel still delivers.       *)
UringDiscards ==
  /\ cpc = "joining"
  /\ cq # <<>>
  /\ dropped' = dropped \union Range(cq)
  /\ inflight' = inflight - Len(cq)
  /\ cq' = <<>>
  /\ UNCHANGED <<backend, next, poolVars, ring, reapVars, completions, wakeVars, cpc, fired,
                 refused>>

(* tp_destroy joins every worker.                                          *)
WorkersJoined == backend = "threadpool" => \A w \in Workers : wpc[w] = "exited"

(* The backend is gone and nothing is in flight: the queue is freed with   *)
(* the completions nobody drained.                                         *)
DestroyFrees ==
  /\ cpc = "joining"
  /\ WorkersJoined
  /\ inflight = 0
  /\ dropped' = dropped \union Range(completions)
  /\ completions' = <<>>
  /\ cpc' = "freed"
  /\ UNCHANGED <<backend, next, poolVars, ringVars, wakeVars, fired, refused>>

-----------------------------------------------------------------------------
Worker(w) == WorkerLoop(w) \/ WorkerEnqueue(w) \/ WorkerExchange(w) \/ WorkerSignal(w)

Submit == BlockingSubmit \/ TpSubmit \/ UringSubmit \/ SubmitRefused
UringReap == ReapBegins \/ ReapEntry \/ CallbackReturns \/ ReapEnds
Drain == EpollWait \/ DrainClear \/ UringReap \/ DrainPop \/ DrainDone
Destroy == UringDiscards \/ DestroyFrees

(* Only the backend in use has workers.                                    *)
Next ==
  \/ Submit \/ Drain \/ DestroyStops \/ Destroy
  \/ backend = "threadpool" /\ \E w \in Workers : Worker(w)
  \/ \E r \in Reads : KernelCompletes(r)

Spec == Init /\ [][Next]_vars

(* The threads make progress, the kernel finishes its reads, and destroy,  *)
(* once begun, goes on.  Nothing says that anybody submits or destroys.    *)
Fairness ==
  /\ WF_vars(Drain)
  /\ WF_vars(Destroy)
  /\ \A w \in Workers : WF_vars(backend = "threadpool" /\ Worker(w))
  /\ \A r \in Reads : WF_vars(KernelCompletes(r))

FairSpec == Spec /\ Fairness

-----------------------------------------------------------------------------
(* Properties.                                                             *)

(* A completion never waits for a wakeup that will not come: while one is  *)
(* queued and the event thread is outside drain, the eventfd is readable   *)
(* and reported, or a worker is about to signal it.  This is the claim of  *)
(* the comments in post_completion and drain on the order of their steps.  *)
WakeupComing ==
  \/ efd /\ edge
  \/ \E w \in Workers : wpc[w] = "signal" \/ (wpc[w] = "exchange" /\ notified = 0)
NoLostWakeup ==
  cpc = "wait" /\ (completions # <<>> \/ cq # <<>>) => WakeupComing

(* The ring counts what is in flight, and the completion ring, which the   *)
(* kernel makes twice as large as the submission ring, has room for all of *)
(* it beside the entries that uring_reap has not released yet: also when   *)
(* callbacks that it fires submit again.                                   *)
RingNeverOverflows ==
  /\ inflight = Cardinality(ring) + Len(cq) + (IF cpc = "callback" THEN 1 ELSE 0)
  /\ inflight <= RingEntries
  /\ Cardinality(ring) + Len(cq) + held <= 2 * RingEntries

(* No task is left asleep on: when all workers sleep the queue is empty.   *)
(* So tp_submit may signal one worker, and only when it queues.            *)
NoTaskStranded ==
  tasks # <<>> => \E w \in Workers : wpc[w] \notin {"asleep", "exited"}

(* When the instance is freed nobody is left to touch it, and every read   *)
(* that was accepted has been run: the threads were joined with an empty   *)
(* queue and the ring is idle.                                             *)
NobodyLeftWhenFreed ==
  cpc = "freed" =>
    /\ tasks = <<>> /\ ring = {} /\ cq = <<>>
    /\ WorkersJoined

(* portico_aio keeps the promise of ReadService, whatever the backend: a   *)
(* read has at most one outcome, and its callback fires at most once.      *)
Times(r) == Cardinality({i \in 1..Len(fired) : fired[i] = r})
Ends(r) ==
  Times(r) + (IF r \in refused THEN 1 ELSE 0) + (IF r \in dropped THEN 1 ELSE 0)
Outcome(r) ==
  IF Ends(r) > 1 THEN "ended twice"
  ELSE IF r \in refused THEN "refused"
  ELSE IF r \in dropped THEN "dropped"
  ELSE IF Times(r) = 1 THEN "fired"
  ELSE IF r < next THEN "pending"
  ELSE "new"
Service == INSTANCE ReadService WITH status <- [r \in Reads |-> Outcome(r)]
ImplementsService == Service!ServiceSpec

(* An accepted read has its callback fired, or the instance is destroyed:  *)
(* "a completion WILL be delivered via drain".                             *)
EveryReadEnds ==
  \A r \in Reads : Outcome(r) = "pending" ~> Outcome(r) # "pending"

(* Destroy ends: the workers run their queue dry and leave, and the ring   *)
(* falls idle.                                                             *)
DestroyEnds == cpc = "joining" ~> cpc = "freed"
=============================================================================
