-------------------------- MODULE ServerLifecycle --------------------------
(***************************************************************************)
(* Starting and stopping the server: ws_server_start, _stop, _wait and     *)
(* _destroy, called by the application's main thread, with _stop also      *)
(* called by another thread while the main one is inside _wait.  They      *)
(* create, signal, join and free the event threads and the acceptor.       *)
(*                                                                         *)
(* The tasks of the server are the event threads 0..ThreadCount-1 and the  *)
(* acceptor, task ThreadCount.  A call is a record: what was called (op),  *)
(* how far it is (step), for which thread (i), up to which one (limit),    *)
(* and how far with joining that thread (join): about to "test" its        *)
(* handle, to "enter" pthread_join, "inside" it, or to "clear" the handle. *)
(*                                                                         *)
(* Joining a thread that somebody else is joining, that was joined already *)
(* or that was never created is undefined.  What happens here is that      *)
(* pthread_join returns at once, and no caller acts on its result.         *)
(***************************************************************************)
EXTENDS Integers, FiniteSets

CONSTANTS
  ThreadCount,  (* server->thread_count                                    *)
  Main,         (* the thread that starts and destroys the server          *)
  Others,       (* threads that may call ws_server_stop                    *)
  Failures,     (* which of "init", "spawn", "epoll" may fail              *)
  MaxStarts,    (* bound: calls of ws_server_start                         *)
  NULL

Threads == 0..ThreadCount - 1
AcceptorTask == ThreadCount
Tasks == 0..ThreadCount
Callers == {Main} \union Others

ASSUME ServerAssumption ==
  /\ ThreadCount \in Nat \ {0}
  /\ Main \notin Others
  /\ Failures \subseteq {"init", "spawn", "epoll"}
  /\ MaxStarts \in Nat
  /\ NULL \notin Callers

VARIABLES
  running,   (* server->running                                            *)
  task,      (* every task: "none", "born", "loop" or "ended"              *)
  handle,    (* whether its pthread_t in the server is not 0               *)
  joiner,    (* who is inside pthread_join for it, or NULL                 *)
  reaped,    (* whether it was joined since it was created                 *)
  flag,      (* thread->running                                            *)
  res,       (* the memory and fds of an event thread: "none", "ready" or  *)
             (* "freed", or "dangling" when a failed initialisation freed  *)
             (* them and left the pointers and fds in place                *)
  starts,    (* calls of ws_server_start so far                            *)
  alive,     (* whether the server object still exists                     *)
  call,      (* the call every caller is in                                *)
  clash      (* auxiliary: two callers have joined one thread at a time    *)

taskVars == <<task, handle, joiner, reaped, clash>>
vars == <<running, taskVars, flag, res, starts, alive, call>>

Idle == [op |-> "none", step |-> "none", i |-> 0, limit |-> 0, join |-> "test"]

(* ws_server_create_internal: nothing runs, the threads are zeroed memory. *)
Init ==
  /\ running = FALSE
  /\ task = [k \in Tasks |-> "none"]
  /\ handle = [k \in Tasks |-> FALSE]
  /\ joiner = [k \in Tasks |-> NULL]
  /\ reaped = [k \in Tasks |-> FALSE]
  /\ flag = [k \in Threads |-> FALSE]
  /\ res = [k \in Threads |-> "none"]
  /\ starts = 0
  /\ alive = TRUE
  /\ call = [c \in Callers |-> Idle]
  /\ clash = FALSE

-----------------------------------------------------------------------------
(* How a call moves on.                                                    *)

In(c, step) == call[c].step = step
At(c, op, step) == call[c].op = op /\ In(c, step)
Enter(op, step, limit) == [op |-> op, step |-> step, i |-> 0, limit |-> limit,
                           join |-> "test"]
Return(c) == call' = [call EXCEPT ![c] = Idle]
AllIdle == \A c \in Callers : call[c] = Idle

(* The loop over the threads is at its end, or has one thread more to do.  *)
Step(c, next, limit) ==
  LET k == call[c]
  IN  call' = [call EXCEPT ![c] = IF k.i + 1 < k.limit
                                  THEN [k EXCEPT !.i = @ + 1, !.join = "test"]
                                  ELSE Enter(k.op, next, limit)]

(* What comes after the loops that several calls share.  Mutant: nothing   *)
(* is joined after the signals.                                            *)
AfterSignalNothing == "done"
AfterSignal == "join"
AfterJoin(c) == CASE call[c].op = "unwind" -> "flagdown"
                  [] call[c].op = "wait" -> "joinacc"
                  [] call[c].op = "destroy" -> "close"
                  [] OTHER -> "done"
AfterFree(c) == IF call[c].op = "unwind" THEN "unset" ELSE "done"

-----------------------------------------------------------------------------
(* pthread_join.                                                           *)

(* Which task a call is about to join.                                     *)
Target(c) == IF call[c].step = "joinacc" THEN AcceptorTask ELSE call[c].i
Joins(c) == call[c].step \in {"join", "joinacc", "joinclean"}

(* Mutant: the test of the handle is inverted.                             *)
WantsJoinInverted(c) == ~handle[Target(c)] \/ At(c, "unwind", "join")

(* `if (thread->thread != 0)'; the unwinding of a failed start does not    *)
(* ask.                                                                    *)
WantsJoin(c) == handle[Target(c)] \/ At(c, "unwind", "join")

Joining(c, at) == Joins(c) /\ call[c].join = at
MoveJoin(c, at) == call' = [call EXCEPT ![c].join = at]

(* The call goes on with the next thread or the next step.                 *)
AfterTask(c) ==
  LET k == call[c]
  IN  \/ /\ k.step = "join"
         /\ Step(c, AfterJoin(c), ThreadCount)
      \/ /\ k.step = "joinacc"
         /\ call' = [call EXCEPT ![c] =
                       Enter(k.op, IF k.op = "wait" THEN "flagdown" ELSE "signal", ThreadCount)]
      \/ /\ k.step = "joinclean"
         /\ call' = [call EXCEPT ![c] = [k EXCEPT !.step = "free", !.join = "test"]]

JoinTest(c) ==
  /\ Joining(c, "test")
  /\ IF WantsJoin(c) THEN MoveJoin(c, "enter") ELSE AfterTask(c)
  /\ UNCHANGED <<running, taskVars, flag, res, starts, alive>>

JoinEnter(c) ==
  /\ Joining(c, "enter")
  /\ joiner[Target(c)] = NULL
  /\ ~reaped[Target(c)] /\ task[Target(c)] # "none"
  /\ joiner' = [joiner EXCEPT ![Target(c)] = c]
  /\ MoveJoin(c, "inside")
  /\ UNCHANGED <<running, task, handle, reaped, clash, flag, res, starts, alive>>

(* There is nobody to wait for, or somebody else waits already.            *)
JoinRefused(c) ==
  /\ Joining(c, "enter")
  /\ joiner[Target(c)] # NULL \/ reaped[Target(c)] \/ task[Target(c)] = "none"
  /\ clash' = (clash \/ joiner[Target(c)] # NULL)
  /\ MoveJoin(c, "clear")
  /\ UNCHANGED <<running, task, handle, joiner, reaped, flag, res, starts, alive>>

JoinReturn(c) ==
  /\ Joining(c, "inside")
  /\ task[Target(c)] = "ended"
  /\ joiner' = [joiner EXCEPT ![Target(c)] = NULL]
  /\ reaped' = [reaped EXCEPT ![Target(c)] = TRUE]
  /\ MoveJoin(c, "clear")
  /\ UNCHANGED <<running, task, handle, clash, flag, res, starts, alive>>

(* The handle is cleared by everybody but the unwinding of a start, whose  *)
(* cleanup therefore joins the thread again.                               *)
JoinClear(c) ==
  /\ Joining(c, "clear")
  /\ handle' = [handle EXCEPT ![Target(c)] = @ /\ At(c, "unwind", "join")]
  /\ AfterTask(c)
  /\ UNCHANGED <<running, task, joiner, reaped, clash, flag, res, starts, alive>>

-----------------------------------------------------------------------------
(* ws_server_start_internal.                                               *)

StartCall ==
  /\ AllIdle /\ alive
  /\ starts < MaxStarts
  /\ ~running                         (* else WS_ERROR_PROTOCOL            *)
  /\ starts' = starts + 1
  /\ running' = TRUE
  /\ call' = [call EXCEPT ![Main] = Enter("start", "init", ThreadCount)]
  /\ UNCHANGED <<taskVars, flag, res, alive>>

(* ws_init_event_thread: fresh resources, whatever the structure held.     *)
InitThread ==
  /\ At(Main, "start", "init")
  /\ LET i == call[Main].i
     IN  /\ res' = [res EXCEPT ![i] = "ready"]
         /\ flag' = [flag EXCEPT ![i] = FALSE]
  /\ Step(Main, "spawn", ThreadCount)
  /\ UNCHANGED <<running, taskVars, starts, alive>>

(* It frees what it had allocated itself, unless it failed before that,    *)
(* and leaves the pointers; the threads before it are cleaned up.          *)
InitThreadFails ==
  /\ "init" \in Failures
  /\ At(Main, "start", "init")
  /\ LET i == call[Main].i
     IN  /\ \E r \in {res[i], "dangling"} : res' = [res EXCEPT ![i] = r]
         /\ flag' = [flag EXCEPT ![i] = FALSE]
         /\ call' = [call EXCEPT ![Main] =
                       IF i = 0 THEN Enter("unwind", "unset", 0) ELSE Enter("unwind", "flagdown", i)]
  /\ UNCHANGED <<running, taskVars, starts, alive>>

(* pthread_create for the event threads, then for the acceptor.            *)
SpawnThread(k) ==
  /\ task' = [task EXCEPT ![k] = "born"]
  /\ handle' = [handle EXCEPT ![k] = TRUE]
  /\ reaped' = [reaped EXCEPT ![k] = FALSE]
  /\ UNCHANGED <<running, joiner, clash, flag, res, starts, alive>>

Spawn ==
  /\ At(Main, "start", "spawn")
  /\ SpawnThread(call[Main].i)
  /\ Step(Main, "spawnacc", 1)

SpawnAcceptor ==
  /\ At(Main, "start", "spawnacc")
  /\ SpawnThread(AcceptorTask)
  /\ Return(Main)

(* The threads created so far are stopped and joined, and all are cleaned  *)
(* up.  The failed call may have left something in the handle.             *)
SpawnFails ==
  /\ "spawn" \in Failures
  /\ At(Main, "start", "spawn") \/ At(Main, "start", "spawnacc")
  /\ LET n == IF call[Main].step = "spawn" THEN call[Main].i ELSE ThreadCount
     IN  /\ \E h \in {handle[n], TRUE} : handle' = [handle EXCEPT ![n] = h]
         /\ call' = [call EXCEPT ![Main] = IF n = 0 THEN Enter("unwind", "flagdown", ThreadCount)
                                           ELSE Enter("unwind", "signal", n)]
  /\ UNCHANGED <<running, task, joiner, reaped, clash, flag, res, starts, alive>>

UnsetRunning ==
  /\ At(Main, "unwind", "unset")
  /\ running' = FALSE
  /\ Return(Main)
  /\ UNCHANGED <<taskVars, flag, res, starts, alive>>

-----------------------------------------------------------------------------
(* ws_server_stop_internal, ws_server_wait_internal.                       *)

(* Mutant: the acceptor is joined before running is cleared.               *)
StopCallKeepsRunning(c) ==
  /\ call[c] = Idle /\ alive /\ running
  /\ \A d \in Callers \ {c} : call[d] = Idle \/ call[d].op = "wait"
  /\ call' = [call EXCEPT ![c] = Enter("stop", "joinacc", 1)]
  /\ UNCHANGED <<running, taskVars, flag, res, starts, alive>>

(* A thread other than the main one calls it after the start, perhaps      *)
(* while the main thread waits.                                            *)
StopCall(c) ==
  /\ call[c] = Idle /\ alive /\ running
  /\ \A d \in Callers \ {c} : call[d] = Idle \/ call[d].op = "wait"
  /\ running' = FALSE
  /\ call' = [call EXCEPT ![c] = Enter("stop", "joinacc", 1)]
  /\ UNCHANGED <<taskVars, flag, res, starts, alive>>

(* thread->running = false, and a write to its wakeup eventfd; after a     *)
(* concurrent wait has closed the eventfd the write fails, which is logged. *)
Signal(c) ==
  /\ In(c, "signal")
  /\ flag' = [flag EXCEPT ![call[c].i] = FALSE]
  /\ Step(c, AfterSignal, call[c].limit)
  /\ UNCHANGED <<running, taskVars, res, starts, alive>>

WaitCall ==
  /\ call[Main] = Idle /\ alive
  /\ starts > 0
  /\ call' = [call EXCEPT ![Main] = Enter("wait", "join", ThreadCount)]
  /\ UNCHANGED <<running, taskVars, flag, res, starts, alive>>

-----------------------------------------------------------------------------
(* ws_cleanup_event_thread, by a wait, a destroy and a failed start.       *)

FlagDown(c) ==
  /\ In(c, "flagdown")
  /\ flag' = [flag EXCEPT ![call[c].i] = FALSE]
  /\ call' = [call EXCEPT ![c].step = "joinclean"]
  /\ UNCHANGED <<running, taskVars, res, starts, alive>>

(* The queue goes, with the connections still in it, then the sockets in   *)
(* the slots, the pools, the aio instance, the eventfd and the epoll.      *)
(* What is dangling is freed a second time.                                *)
Free(c) ==
  /\ In(c, "free")
  /\ LET k == call[c]
     IN  /\ res' = [res EXCEPT ![k.i] = "freed"]
         /\ call' = [call EXCEPT ![c] =
                       IF k.i + 1 < k.limit
                       THEN [k EXCEPT !.step = "flagdown", !.i = @ + 1]
                       ELSE Enter(k.op, AfterFree(c), ThreadCount)]
  /\ UNCHANGED <<running, taskVars, flag, starts, alive>>

-----------------------------------------------------------------------------
(* ws_server_destroy_internal: stops a running server first.               *)

DestroyCall ==
  /\ AllIdle /\ alive
  /\ running' = FALSE
  /\ call' = [call EXCEPT ![Main] = IF running THEN Enter("destroy", "joinacc", 1)
                                    ELSE Enter("destroy", "close", ThreadCount)]
  /\ UNCHANGED <<taskVars, flag, res, starts, alive>>

CloseListener ==
  /\ At(Main, "destroy", "close")
  /\ call' = [call EXCEPT ![Main] = Enter("destroy", "flagdown", ThreadCount)]
  /\ UNCHANGED <<running, taskVars, flag, res, starts, alive>>

Done(c) ==
  /\ In(c, "done")
  /\ alive' = (call[c].op # "destroy")
  /\ Return(c)
  /\ UNCHANGED <<running, taskVars, flag, res, starts>>

-----------------------------------------------------------------------------
(* ws_event_thread_worker and ws_acceptor_thread_worker.  What they do in  *)
(* an iteration of their loops is in ConnLifecycle; an iteration ends, as  *)
(* epoll_wait returns after 100 ms at the latest and accept does not block. *)

(* Until here the thread has not looked at its flag.                       *)
WorkerStarts(i) ==
  /\ task[i] = "born"
  /\ flag' = [flag EXCEPT ![i] = TRUE]
  /\ task' = [task EXCEPT ![i] = "loop"]
  /\ UNCHANGED <<running, handle, joiner, reaped, clash, res, starts,
                 alive, call>>

(* The loop ends when the flag is down, or epoll_wait fails.               *)
WorkerEnds(i) ==
  /\ task[i] = "loop"
  /\ ~flag[i] \/ "epoll" \in Failures
  /\ flag' = [flag EXCEPT ![i] = FALSE]
  /\ task' = [task EXCEPT ![i] = "ended"]
  /\ UNCHANGED <<running, handle, joiner, reaped, clash, res, starts,
                 alive, call>>

AcceptorStarts ==
  /\ task[AcceptorTask] = "born"
  /\ task' = [task EXCEPT ![AcceptorTask] = "loop"]
  /\ UNCHANGED <<running, handle, joiner, reaped, clash, flag, res,
                 starts, alive, call>>

AcceptorEnds ==
  /\ task[AcceptorTask] = "loop" /\ ~running
  /\ task' = [task EXCEPT ![AcceptorTask] = "ended"]
  /\ UNCHANGED <<running, handle, joiner, reaped, clash, flag, res,
                 starts, alive, call>>

-----------------------------------------------------------------------------
Starting ==
  \/ InitThread \/ InitThreadFails \/ Spawn \/ SpawnAcceptor \/ SpawnFails \/ UnsetRunning

Calling(c) ==
  \/ JoinTest(c) \/ JoinEnter(c) \/ JoinRefused(c) \/ JoinReturn(c) \/ JoinClear(c)
  \/ Signal(c) \/ FlagDown(c) \/ Free(c) \/ Done(c)
  \/ c = Main /\ (Starting \/ CloseListener)

Worker(i) == WorkerStarts(i) \/ WorkerEnds(i)
Acceptor == AcceptorStarts \/ AcceptorEnds

Next ==
  \/ StartCall \/ WaitCall \/ DestroyCall
  \/ \E c \in Callers : StopCall(c) \/ Calling(c)
  \/ \E i \in Threads : Worker(i)
  \/ Acceptor

Spec == Init /\ [][Next]_vars

(* A thread that is not blocked is scheduled, and the acceptor looks at    *)
(* running again at least every millisecond.  Nobody has to call anything, *)
(* and epoll_wait need not fail.                                           *)
FairSpec ==
  /\ Spec
  /\ \A c \in Callers : WF_vars(Calling(c))
  /\ \A i \in Threads : WF_vars(WorkerStarts(i)) /\ WF_vars(~flag[i] /\ WorkerEnds(i))
  /\ WF_vars(AcceptorStarts) /\ WF_vars(AcceptorEnds)

-----------------------------------------------------------------------------
(* Properties.                                                             *)

Runs(k) == task[k] \in {"born", "loop"}

(* The memory of an event thread outlives the thread, and the acceptor,    *)
(* which fills its queue: "The worker thread is already joined above, so   *)
(* no drain can race this."                                                *)
FreedAfterEnd ==
  \A i \in Threads : Runs(i) \/ Runs(AcceptorTask) => res[i] = "ready"

(* It does as long as no two callers have joined one thread at a time.     *)
FreedAfterEndUnlessClash == ~clash => FreedAfterEnd

(* When start has failed or stop has returned, and no call is under way,   *)
(* no thread of the server runs any more and none is left to be joined.    *)
QuietWhenStopped ==
  ~clash /\ ~running /\ AllIdle =>
    \A k \in Tasks : ~Runs(k) /\ (task[k] = "ended" => reaped[k])

(* c has just called stop or destroy, and the event threads are in their   *)
(* loops or past them.                                                     *)
StopBegins(c) ==
  /\ call[c].op \in {"stop", "destroy"}
  /\ call[c].step = "joinacc"
  /\ \A i \in Threads : task[i] \in {"loop", "ended"}

(* ws_server_stop and ws_server_destroy return, provided that the event    *)
(* threads had reached their loops when they were called: a flag that is   *)
(* down stays down, and both kinds of thread look at theirs again.         *)
StopReturns == \A c \in Callers : StopBegins(c) ~> call[c] = Idle
=============================================================================
