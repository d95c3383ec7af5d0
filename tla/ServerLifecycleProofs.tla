----------------------- MODULE ServerLifecycleProofs -----------------------
(***************************************************************************)
(* Proofs about starting and stopping the server, for any number of event  *)
(* threads, of callers of ws_server_stop and of restarts.                  *)
(*                                                                         *)
(* A task is over when it does not run and, if it ever ran, was joined.    *)
(* The argument is that every call knows which tasks are over by the point *)
(* it has reached (Past), and that no other call can create one meanwhile. *)
(***************************************************************************)
EXTENDS ServerLifecycle, TLAPS

Over(k) == ~Runs(k) /\ (task[k] = "ended" => reaped[k])

-----------------------------------------------------------------------------
(* The shape of a call.                                                    *)

CallType ==
  [op : {"none", "start", "unwind", "stop", "wait", "destroy"},
   step : {"none", "init", "spawn", "spawnacc", "signal", "join", "joinacc", "flagdown",
           "joinclean", "free", "close", "unset", "done"},
   i : Nat, limit : Nat, join : {"test", "enter", "inside", "clear"}]

StepOf(x) ==
  \/ x.op = "none" /\ x.step = "none"
  \/ x.op = "start" /\ x.step \in {"init", "spawn", "spawnacc"}
  \/ x.op = "unwind" /\ x.step \in {"signal", "join", "flagdown", "joinclean", "free", "unset"}
  \/ x.op = "stop" /\ x.step \in {"joinacc", "signal", "join", "done"}
  \/ x.op = "wait" /\ x.step \in {"join", "joinacc", "flagdown", "joinclean", "free", "done"}
  \/ x.op = "destroy" /\ x.step \in {"joinacc", "signal", "join", "close", "flagdown",
                                     "joinclean", "free", "done"}

(* The loops stay within the threads, and only those of a failed start     *)
(* stop before the last one.                                               *)
LoopFits(x) ==
  /\ x.step \in {"init", "spawn", "signal", "join", "flagdown", "joinclean", "free"} =>
       x.i < x.limit /\ x.limit =< ThreadCount
  /\ x.op # "unwind" /\ x.step \in {"init", "spawn", "signal", "join"} => x.limit = ThreadCount

Fits(x) == x \in CallType /\ StepOf(x) /\ LoopFits(x)

(* Only the main thread does more than stop, and it starts and destroys    *)
(* the server with nobody else inside it.                                  *)
Calls ==
  /\ call \in [Callers -> CallType]
  /\ \A c \in Callers : Fits(call[c])
  /\ \A c \in Others : call[c].op \in {"none", "stop"}
  /\ call[Main].op \in {"start", "unwind", "destroy"} => \A c \in Others : call[c] = Idle

(* What is known of the tasks at a point of a call.                        *)
Past(x) ==
  {k \in Tasks :
     \/ x.op = "start" /\ (x.step = "init" \/ k = AcceptorTask \/ (x.step = "spawn" /\ k >= x.i))
     \/ x.op = "unwind" /\ x.step \in {"signal", "join"} /\ k >= x.limit
     \/ x.op \in {"stop", "destroy"} /\ x.step # "joinacc" /\ k = AcceptorTask
     \/ x.op = "wait" /\ x.step = "joinacc" /\ k # AcceptorTask
     \/ x.step = "join" /\ (k < x.i \/ (k = x.i /\ x.join = "clear"))
     \/ x.step = "joinacc" /\ k = AcceptorTask /\ x.join = "clear"
     \/ x.step \in {"close", "flagdown", "joinclean", "free", "unset", "done"}}

-----------------------------------------------------------------------------
(* The invariants.                                                         *)

Types ==
  /\ task \in [Tasks -> {"none", "born", "loop", "ended"}]
  /\ handle \in [Tasks -> BOOLEAN]
  /\ reaped \in [Tasks -> BOOLEAN]
  /\ res \in [Threads -> {"none", "ready", "freed", "dangling"}]

ReapedEnded == \A k \in Tasks : reaped[k] => task[k] = "ended"

Settled ==
  /\ \A k \in Tasks : ~handle[k] => Over(k)
  /\ \A c \in Callers : \A k \in Past(call[c]) : Over(k)
  /\ ~running => \/ \E c \in Callers : call[c].op \in {"stop", "destroy"}
                 \/ \A k \in Tasks : Over(k)
  /\ call[Main].op = "start" => running /\
       \A i \in Threads : \/ call[Main].step = "init" /\ i >= call[Main].i
                          \/ res[i] = "ready"
  /\ FreedAfterEnd

Inv == Types /\ Calls /\ ReapedEnded /\ (~clash => Settled)

-----------------------------------------------------------------------------
(* A call that moves on leaves the others alone.                           *)

LEMMA IdleFits == Idle \in CallType /\ Fits(Idle) /\ Past(Idle) = {}
  BY SMT DEF Idle, Fits, CallType, StepOf, LoopFits, Past

(* Entering a call or a new loop of it.                                    *)
LEMMA EnterFits ==
  ASSUME NEW op, NEW step, NEW n \in Nat,
         op \in {"none", "start", "unwind", "stop", "wait", "destroy"},
         StepOf(Enter(op, step, n)),
         step \in {"init", "spawn", "signal", "join", "flagdown", "joinclean", "free"} =>
           0 < n /\ n =< ThreadCount,
         op # "unwind" /\ step \in {"init", "spawn", "signal", "join"} => n = ThreadCount
  PROVE  Fits(Enter(op, step, n))
  BY SMT DEF Enter, Fits, CallType, StepOf, LoopFits

(* What a caller may turn to.                                              *)
LEMMA CallTurns ==
  ASSUME Calls, NEW c \in Callers, NEW y, Fits(y), call' = [call EXCEPT ![c] = y],
         c \in Others => /\ y.op \in {"none", "stop"}
                         /\ y = Idle \/ call[Main].op \notin {"start", "unwind", "destroy"},
         c = Main /\ y.op \in {"start", "unwind", "destroy"} => \A d \in Others : call[d] = Idle
  PROVE  Calls'
<1>1. call' \in [Callers -> CallType] /\ call'[c] = y
  BY SMT DEF Calls, Fits
<1>2. \A d \in Callers \ {c} : call'[d] = call[d]
  BY SMT DEF Calls
<1>3. \A d \in Callers : Fits(call'[d])
  BY <1>1, <1>2, Zenon DEF Calls
<1>4. Main \in Callers /\ Main \notin Others /\ Others \subseteq Callers
  BY ServerAssumption, Zenon DEF Callers, ServerAssumption
<1>5. \A d \in Others : call'[d].op \in {"none", "stop"}
  BY <1>1, <1>2, <1>4, Zenon DEF Calls
<1>6. ASSUME call'[Main].op \in {"start", "unwind", "destroy"}
      PROVE  \A d \in Others : call'[d] = Idle
  <2>1. CASE c = Main
    BY <1>1, <1>2, <1>4, <1>6, <2>1, Zenon
  <2>2. CASE c # Main
    <3>1. call[Main].op \in {"start", "unwind", "destroy"}
      BY <1>2, <1>4, <1>6, <2>2, Zenon
    <3>2. c \in Others /\ y = Idle
      BY <2>2, <3>1, Zenon DEF Callers
    <3>3. QED
      BY <1>1, <1>2, <1>4, <3>1, <3>2, Zenon DEF Calls
  <2>3. QED
    BY <2>1, <2>2, Zenon
<1>7. QED
  BY <1>1, <1>3, <1>5, <1>6, Zenon DEF Calls

(* It may go on in the call it is in, or return from it.                   *)
LEMMA CallMoves ==
  ASSUME Calls, NEW c \in Callers, NEW y, Fits(y), call' = [call EXCEPT ![c] = y],
         call[c].op # "none", y.op = call[c].op \/ y = Idle
  PROVE  Calls'
<1>1. Main \notin Others
  BY ServerAssumption, Zenon DEF ServerAssumption
<1>2. Idle.op = "none"
  BY SMT DEF Idle
<1>3. y.op \in {"none", call[c].op}
  BY <1>2, Zenon
<1>4. c \in Others => /\ y.op \in {"none", "stop"}
                      /\ call[Main].op \notin {"start", "unwind", "destroy"}
  BY <1>2, <1>3, Zenon DEF Calls
<1>5. c = Main /\ y.op \in {"start", "unwind", "destroy"} => \A d \in Others : call[d] = Idle
  BY <1>3, SMT DEF Calls
<1>6. QED
  BY <1>4, <1>5, CallTurns, Zenon

(* A loop over the threads goes on or ends.                                *)
LoopMoves(c, next, n, y) ==
  /\ call' = [call EXCEPT ![c] = y]
  /\ Fits(y)
  /\ y.op = call[c].op
  /\ \/ /\ call[c].i + 1 < call[c].limit
        /\ y.step = call[c].step
        /\ y.i = call[c].i + 1
        /\ y.limit = call[c].limit
        /\ y.join = "test"
     \/ call[c].i + 1 = call[c].limit /\ y = Enter(call[c].op, next, n)

LEMMA StepMoves ==
  ASSUME Calls, NEW c \in Callers, NEW next, NEW n \in Nat, Step(c, next, n),
         call[c].step \in {"init", "spawn", "signal", "join"},
         Fits(Enter(call[c].op, next, n))
  PROVE  \E y : LoopMoves(c, next, n, y)
<1> DEFINE k == call[c]
           on == [k EXCEPT !.i = @ + 1, !.join = "test"]
<1>1. k \in CallType /\ StepOf(k) /\ LoopFits(k)
  BY Zenon DEF Calls, Fits
<1>2. CASE k.i + 1 < k.limit
  <2>1. call' = [call EXCEPT ![c] = on]
    BY <1>2, Zenon DEF Step
  <2>2. /\ on \in CallType
        /\ on.op = k.op /\ on.step = k.step /\ on.i = k.i + 1 /\ on.limit = k.limit
        /\ on.join = "test"
    <3>1. k.op \in {"none", "start", "unwind", "stop", "wait", "destroy"} /\ k.i + 1 \in Nat
      BY <1>1, SMT DEF CallType
    <3>2. on \in CallType
      BY <1>1, <3>1, Zenon DEF CallType
    <3>3. on.op = k.op /\ on.step = k.step /\ on.limit = k.limit
      BY <1>1, SMT DEF CallType
    <3>4. on.i = k.i + 1 /\ on.join = "test"
      BY <1>1, SMT DEF CallType
    <3>5. QED
      BY <3>2, <3>3, <3>4, Zenon
  <2>3. Fits(on)
    BY ZenonT(30), <1>1, <1>2, <2>2, SMT DEF Fits, StepOf, LoopFits, CallType
  <2>4. QED
    BY <1>2, <2>1, <2>2, <2>3, Zenon DEF LoopMoves
<1>3. CASE ~(k.i + 1 < k.limit)
  <2>1. k.i + 1 = k.limit
    BY <1>1, <1>3, SMT DEF LoopFits, CallType
  <2>2. call' = [call EXCEPT ![c] = Enter(k.op, next, n)]
    BY <1>3, Zenon DEF Step
  <2>3. Enter(k.op, next, n).op = k.op
    BY SMT DEF Enter
  <2>4. QED
    BY <2>1, <2>2, <2>3, Zenon DEF LoopMoves
<1>4. QED
  BY <1>2, <1>3, Zenon

(* What a join adds to what the call knows is that its target is over.     *)
LEMMA AfterTaskMoves ==
  ASSUME Calls, NEW c \in Callers, Joins(c), AfterTask(c)
  PROVE  /\ Target(c) \in Tasks
         /\ \E y : /\ call' = [call EXCEPT ![c] = y]
                   /\ Fits(y)
                   /\ y.op = call[c].op
                   /\ Past(y) \subseteq Past(call[c]) \union {Target(c)}
<1> DEFINE k == call[c]
<1>1. k \in CallType /\ StepOf(k) /\ LoopFits(k)
  BY Zenon DEF Calls, Fits
<1>2. ThreadCount \in Nat \ {0}
  BY ServerAssumption, Zenon DEF ServerAssumption
<1>3. Target(c) \in Tasks
  BY <1>1, <1>2, SMT DEF Joins, Target, AcceptorTask, Tasks, LoopFits, CallType
<1>4. CASE k.step = "join"
  <2>1. Step(c, AfterJoin(c), ThreadCount)
    BY <1>4, SMT DEF AfterTask
  <2>2. \/ k.op = "unwind" /\ AfterJoin(c) = "flagdown"
        \/ k.op = "wait" /\ AfterJoin(c) = "joinacc"
        \/ k.op = "destroy" /\ AfterJoin(c) = "close"
        \/ k.op = "stop" /\ AfterJoin(c) = "done"
    BY <1>1, <1>4, SMT DEF StepOf, AfterJoin
  <2>3. Fits(Enter(k.op, AfterJoin(c), ThreadCount))
    <3>1. StepOf(Enter(k.op, AfterJoin(c), ThreadCount))
      BY <2>2, SMT DEF Enter, StepOf
    <3>2. QED
      BY <1>2, <2>2, <3>1, EnterFits, SMT
  <2>4. PICK y : LoopMoves(c, AfterJoin(c), ThreadCount, y)
    <3>1. k.step \in {"init", "spawn", "signal", "join"} /\ ThreadCount \in Nat
      BY <1>2, <1>4, SMT
    <3>2. QED
      BY <2>1, <2>3, <3>1, StepMoves, Zenon
  <2>5. Target(c) = k.i
    BY <1>4, SMT DEF Target
  <2>6. Past(y) \subseteq Past(k) \union {k.i}
    <3>1. CASE y.step = k.step /\ y.i = k.i + 1 /\ y.limit = k.limit /\ y.join = "test"
      <4>1. y.op = k.op
        BY <2>4, Zenon DEF LoopMoves
      <4>2. QED
        BY <1>1, <1>4, <3>1, <4>1, SMT DEF Past, Tasks, CallType
    <3>2. CASE k.i + 1 = k.limit /\ y = Enter(k.op, AfterJoin(c), ThreadCount)
      <4>1. CASE k.op = "unwind"
        BY <1>1, <1>2, <1>4, <3>2, <4>1, SMT DEF Past, Tasks, CallType, Enter, LoopFits
      <4>2. CASE k.op \in {"stop", "destroy"}
        BY <1>1, <1>2, <1>4, <3>2, <4>2, SMT DEF Past, Tasks, CallType, Enter, LoopFits, AcceptorTask
      <4>3. CASE k.op = "wait"
        <5>1. y.op = "wait" /\ y.step = "joinacc" /\ y.join = "test"
          BY <2>2, <3>2, <4>3, SMT DEF Enter
        <5>2. k.limit = ThreadCount
          BY <1>1, <1>4, <4>3, SMT DEF LoopFits
        <5>3. QED
          BY <1>1, <1>2, <1>4, <3>2, <5>1, <5>2, SMT DEF Past, Tasks, CallType, AcceptorTask
      <4>4. QED
        BY <2>2, <4>1, <4>2, <4>3, Zenon
    <3>3. QED
      BY <2>4, <3>1, <3>2, Zenon DEF LoopMoves
  <2>7. QED
    BY <1>3, <1>4, <2>4, <2>5, <2>6, Zenon DEF LoopMoves
<1>5. CASE k.step = "joinacc"
  <2> DEFINE y == Enter(k.op, IF k.op = "wait" THEN "flagdown" ELSE "signal", ThreadCount)
  <2>1. call' = [call EXCEPT ![c] = y]
    BY <1>5, SMT DEF AfterTask
  <2>2. k.op \in {"wait", "stop", "destroy"}
    BY <1>1, <1>5, SMT DEF StepOf
  <2>3. Fits(y)
    <3>1. StepOf(y)
      BY <2>2, SMT DEF Enter, StepOf
    <3>2. QED
      BY <1>2, <2>2, <3>1, EnterFits, SMT
  <2>4. y.op = k.op
    BY <2>2, SMT DEF Enter
  <2>5. Past(y) \subseteq Past(k) \union {Target(c)}
    BY <1>1, <1>2, <1>5, <2>2, SMT DEF Past, Enter, Tasks, Target, AcceptorTask, CallType
  <2>6. QED
    BY <1>3, <2>1, <2>3, <2>4, <2>5, Zenon
<1>6. CASE k.step = "joinclean"
  <2> DEFINE y == [k EXCEPT !.step = "free", !.join = "test"]
  <2>1. call' = [call EXCEPT ![c] = y]
    BY <1>6, SMT DEF AfterTask
  <2>2. y \in CallType
    BY <1>1, Zenon DEF CallType
  <2>3. y.op = k.op /\ y.step = "free" /\ y.i = k.i /\ y.limit = k.limit
    BY <1>1, SMT DEF CallType
  <2>4. Fits(y)
    BY <1>1, <1>6, <2>2, <2>3, SMT DEF Fits, StepOf, LoopFits
  <2>5. Past(k) = Tasks
    BY <1>6, SMT DEF Past
  <2>6. Past(y) \subseteq Past(k) \union {Target(c)}
    BY <2>5, Zenon DEF Past
  <2>7. QED
    BY <1>3, <2>1, <2>3, <2>4, <2>6, Zenon
<1>7. QED
  BY <1>4, <1>5, <1>6, Zenon DEF Joins

-----------------------------------------------------------------------------
(* Steps that create no task and end none.  What the call goes on to know  *)
(* must hold, and memory is given back, and running cleared by anything    *)
(* but a stop, only when all tasks are over.                               *)

AllOver == \A k \in Tasks : Over(k)

Justified(c, y) ==
  /\ \A k \in Tasks : Over(k) => Over(k)'
  /\ \A k \in Tasks : ~handle'[k] => Over(k)'
  /\ \A k \in Past(y) : Over(k)'
  /\ running' \/ ~running \/ y.op \in {"stop", "destroy"} \/ AllOver'
  /\ call[c].op \in {"stop", "destroy"} => y.op = call[c].op \/ AllOver'
  /\ res' = res \/ AllOver'
  /\ y.op = "start" => running' /\
       \A i \in Threads : (y.step = "init" /\ i >= y.i) \/ res'[i] = "ready"
  /\ c # Main => call[Main].op # "start"

LEMMA StaysSettled ==
  ASSUME Calls, Settled, NEW c \in Callers, NEW y, call' = [call EXCEPT ![c] = y],
         task' = task, Justified(c, y)
  PROVE  Settled'
<1>1. call'[c] = y /\ \A d \in Callers \ {c} : call'[d] = call[d]
  BY SMT DEF Calls
<1>2. \A k \in Tasks : ~handle'[k] => Over(k)'
  BY Zenon DEF Justified
<1>3. \A d \in Callers : \A k \in Past(call[d])' : Over(k)'
  <2>1. \A k \in Past(y) : Over(k)'
    BY Zenon DEF Justified
  <2>2. \A d \in Callers \ {c} : \A k \in Past(call[d]) : Over(k)'
    <3>1. \A x : Past(x) \subseteq Tasks
      BY Zenon DEF Past
    <3>2. QED
      BY <3>1, Zenon DEF Settled, Justified
  <2>3. \A d \in Callers : Past(call[d])' = Past(call'[d])
    BY Zenon DEF Past, Tasks, AcceptorTask
  <2>4. QED
    BY <1>1, <2>1, <2>2, <2>3, Zenon
<1>4. ASSUME ~running'
      PROVE  (\E d \in Callers : call'[d].op \in {"stop", "destroy"}) \/ AllOver'
  <2>1. CASE y.op \in {"stop", "destroy"} \/ AllOver'
    BY <1>1, <2>1, Zenon
  <2>2. CASE ~(y.op \in {"stop", "destroy"} \/ AllOver')
    <3>1. ~running /\ call[c].op \notin {"stop", "destroy"}
      BY <1>4, <2>2, Zenon DEF Justified
    <3>2. ~AllOver
      BY <2>2, Zenon DEF AllOver, Justified
    <3>3. PICK d \in Callers : call[d].op \in {"stop", "destroy"}
      BY <3>1, <3>2, Zenon DEF Settled, AllOver
    <3>4. QED
      BY <1>1, <3>1, <3>3, Zenon
  <2>3. QED
    BY <2>1, <2>2, Zenon
<1>5. ASSUME call'[Main].op = "start"
      PROVE  running' /\ \A i \in Threads : \/ call'[Main].step = "init" /\ i >= call'[Main].i
                                            \/ res'[i] = "ready"
  <2>1. Main \in Callers
    BY Zenon DEF Callers
  <2>2. c = Main
    BY <1>1, <1>5, <2>1, Zenon DEF Justified
  <2>3. QED
    BY <1>1, <1>5, <2>2, Zenon DEF Justified
<1>6. FreedAfterEnd'
  <2>1. CASE AllOver'
    <3>1. \A k \in Tasks : ~Runs(k)'
      BY <2>1, Zenon DEF AllOver, Over
    <3>2. Threads \subseteq Tasks /\ AcceptorTask \in Tasks
      BY ServerAssumption, SMT DEF ServerAssumption, Threads, Tasks, AcceptorTask
    <3>3. QED
      BY <3>1, <3>2, Zenon DEF FreedAfterEnd, Threads, AcceptorTask
  <2>2. CASE res' = res
    BY <2>2, Zenon DEF Settled, FreedAfterEnd, Runs, Threads, AcceptorTask
  <2>3. QED
    BY <2>1, <2>2, Zenon DEF Justified
<1>7. QED
  BY <1>2, <1>3, <1>4, <1>5, <1>6, Zenon DEF Settled, AllOver, Tasks, Threads

-----------------------------------------------------------------------------
(* pthread_join, whatever it returns.                                      *)

LEMMA MoveJoinMoves ==
  ASSUME Calls, NEW c \in Callers, Joins(c), NEW at \in {"enter", "inside", "clear"},
         MoveJoin(c, at)
  PROVE  \E y : /\ call' = [call EXCEPT ![c] = y]
                /\ Fits(y)
                /\ y.op = call[c].op
                /\ Past(y) \subseteq Past(call[c]) \union {Target(c)}
                /\ at # "clear" => Past(y) \subseteq Past(call[c])
<1> DEFINE k == call[c]
           y == [k EXCEPT !.join = at]
<1>1. k \in CallType /\ StepOf(k) /\ LoopFits(k)
  BY Zenon DEF Calls, Fits
<1>2. call' = [call EXCEPT ![c] = y]
  BY SMT DEF MoveJoin
<1>3. y \in CallType
  BY <1>1, SMT DEF CallType
<1>4. y.op = k.op /\ y.step = k.step /\ y.i = k.i /\ y.limit = k.limit /\ y.join = at
  BY <1>1, SMT DEF CallType
<1> HIDE DEF y
<1>5. Fits(y)
  BY <1>1, <1>3, <1>4, SMT DEF Fits, StepOf, LoopFits
<1>6. Past(y) \subseteq Past(k) \union {Target(c)}
  BY <1>4, SMT DEF Past, Target
<1>7. at # "clear" => Past(y) \subseteq Past(k)
  BY <1>4, SMT DEF Past
<1>8. QED
  BY <1>2, <1>4, <1>5, <1>6, <1>7, Zenon

LEMMA JoinMove ==
  ASSUME Inv, NEW c \in Callers, Joins(c), NEW y, call' = [call EXCEPT ![c] = y], Fits(y),
         y.op = call[c].op,
         UNCHANGED <<task, running, res>>,
         reaped' \in [Tasks -> BOOLEAN],
         handle' \in [Tasks -> BOOLEAN],
         \A k \in Tasks : reaped[k] => reaped'[k],
         \A k \in Tasks : reaped'[k] => task[k] = "ended",
         clash => clash',
         ~clash' /\ Settled =>
           /\ \A k \in Past(y) : k \in Past(call[c]) \/ Over(k)'
           /\ \A k \in Tasks : handle[k] /\ ~handle'[k] => Over(k)'
  PROVE  Inv'
<1>1. call[c].op \notin {"none", "start"}
  BY SMT DEF Inv, Calls, Fits, StepOf, Joins
<1>2. Calls'
  BY <1>1, CallMoves, Zenon DEF Inv
<1>3. ASSUME ~clash'
      PROVE  Settled'
  <2>1. Settled
    BY <1>3, Zenon DEF Inv
  <2>2. \A k \in Tasks : Over(k) => Over(k)'
    BY Zenon DEF Over, Runs
  <2>3. \A k \in Tasks : ~handle'[k] => Over(k)'
    BY <1>3, <2>1, <2>2, Zenon DEF Settled
  <2>4. \A k \in Past(y) : Over(k)'
    <3>1. \A k \in Past(call[c]) : k \in Tasks /\ Over(k)
      BY <2>1, Zenon DEF Past, Settled
    <3>2. QED
      BY <1>3, <2>1, <2>2, <3>1, Zenon
  <2>5. running' \/ ~running
    BY Zenon
  <2>6. c # Main => call[Main].op # "start"
    <3>1. call[c] # Idle
      BY <1>1, SMT DEF Idle
    <3>2. QED
      BY <3>1, Zenon DEF Inv, Calls, Callers
  <2>7. y.op # "start"
    BY <1>1, SMT
  <2>8. Justified(c, y)
    BY <2>2, <2>3, <2>4, <2>5, <2>6, <2>7, Zenon DEF Justified
  <2>9. QED
    BY <2>1, <2>8, StaysSettled, Zenon DEF Inv
<1>4. ReapedEnded'
  BY Zenon DEF ReapedEnded, Tasks
<1>5. Types'
  BY Zenon DEF Types, Inv, Tasks, Threads
<1>6. QED
  BY <1>2, <1>3, <1>4, <1>5, Zenon DEF Inv

LEMMA TargetIsTask ==
  ASSUME Inv, NEW c \in Callers, Joins(c)
  PROVE  Target(c) \in Tasks
<1>1. call[c] \in CallType /\ LoopFits(call[c])
  BY Zenon DEF Inv, Calls, Fits
<1>2. QED
  BY <1>1, ServerAssumption,
     SMT DEF ServerAssumption, Joins, Target, AcceptorTask, Tasks, LoopFits, CallType

(* A join that only moves on knows its target to be over when it knows     *)
(* more than before.                                                       *)
LEMMA JoinGoesOn ==
  ASSUME Inv, NEW c \in Callers, Joins(c), NEW y, call' = [call EXCEPT ![c] = y], Fits(y),
         y.op = call[c].op,
         UNCHANGED <<task, running, res, handle, reaped>>,
         clash => clash',
         \/ Past(y) \subseteq Past(call[c])
         \/ /\ Past(y) \subseteq Past(call[c]) \union {Target(c)}
            /\ ~clash' /\ Settled => Over(Target(c))
  PROVE  Inv'
<1>1. \A k : Over(k)' <=> Over(k)
  BY Zenon DEF Over, Runs
<1>2. ~clash' /\ Settled => \A k \in Past(y) : k \in Past(call[c]) \/ Over(k)'
  BY <1>1, Zenon
<1>3. /\ reaped' \in [Tasks -> BOOLEAN]
      /\ handle' \in [Tasks -> BOOLEAN]
      /\ \A k \in Tasks : reaped[k] => reaped'[k]
      /\ \A k \in Tasks : reaped'[k] => task[k] = "ended"
      /\ \A k \in Tasks : handle[k] => handle'[k]
  BY Zenon DEF Inv, Types, ReapedEnded
<1>4. QED
  BY <1>2, <1>3, JoinMove, Zenon

LEMMA JoinTestKeeps ==
  ASSUME Inv, NEW c \in Callers, JoinTest(c)
  PROVE  Inv'
<1>1. /\ Joins(c) /\ (WantsJoin(c) => MoveJoin(c, "enter")) /\ (~WantsJoin(c) => AfterTask(c))
      /\ UNCHANGED <<task, running, res, handle, reaped, clash>>
  BY Zenon DEF JoinTest, Joining, taskVars
<1>2. clash => clash'
  BY <1>1, Zenon
<1>3. CASE WantsJoin(c)
  <2>1. "enter" \in {"enter", "inside", "clear"} /\ "enter" # "clear"
    BY SMT
  <2>2. QED
    BY <1>1, <1>2, <1>3, <2>1, MoveJoinMoves, JoinGoesOn, Zenon DEF Inv
<1>4. CASE ~WantsJoin(c)
  <2>1. Settled => Over(Target(c))
    BY <1>1, <1>4, TargetIsTask, Zenon DEF WantsJoin, Settled
  <2>2. QED
    BY <1>1, <1>2, <1>4, <2>1, AfterTaskMoves, JoinGoesOn, Zenon DEF Inv
<1>5. QED
  BY <1>3, <1>4, Zenon

LEMMA JoinEnterKeeps ==
  ASSUME Inv, NEW c \in Callers, JoinEnter(c)
  PROVE  Inv'
<1>1. /\ Joins(c) /\ MoveJoin(c, "inside")
      /\ UNCHANGED <<task, running, res, handle, reaped, clash>>
  BY Zenon DEF JoinEnter, Joining
<1>2. "inside" \in {"enter", "inside", "clear"} /\ "inside" # "clear" /\ (clash => clash')
  BY <1>1, SMT
<1>3. QED
  BY <1>1, <1>2, MoveJoinMoves, JoinGoesOn, Zenon DEF Inv

LEMMA JoinRefusedKeeps ==
  ASSUME Inv, NEW c \in Callers, JoinRefused(c)
  PROVE  Inv'
<1>1. /\ Joins(c) /\ MoveJoin(c, "clear")
      /\ joiner[Target(c)] # NULL \/ reaped[Target(c)] \/ task[Target(c)] = "none"
      /\ clash' = (clash \/ joiner[Target(c)] # NULL)
      /\ UNCHANGED <<task, running, res, handle, reaped>>
  BY Zenon DEF JoinRefused, Joining
<1>2. "clear" \in {"enter", "inside", "clear"} /\ (clash => clash')
  BY <1>1, Zenon
<1>3. ASSUME ~clash'
      PROVE  Over(Target(c))
  <2>1. task[Target(c)] = "none" \/ (task[Target(c)] = "ended" /\ reaped[Target(c)])
    BY <1>1, <1>3, TargetIsTask, Zenon DEF Inv, ReapedEnded
  <2>2. /\ task[Target(c)] \notin {"born", "loop"}
        /\ task[Target(c)] = "ended" => reaped[Target(c)]
    BY <2>1, SMT
  <2>3. QED
    BY <2>2, Zenon DEF Over, Runs
<1>4. QED
  BY <1>1, <1>2, <1>3, MoveJoinMoves, JoinGoesOn, Zenon DEF Inv

LEMMA JoinReturnKeeps ==
  ASSUME Inv, NEW c \in Callers, JoinReturn(c)
  PROVE  Inv'
<1>1. /\ Joins(c) /\ MoveJoin(c, "clear") /\ task[Target(c)] = "ended"
      /\ reaped' = [reaped EXCEPT ![Target(c)] = TRUE]
      /\ UNCHANGED <<task, running, res, handle, clash>>
  BY Zenon DEF JoinReturn, Joining
<1>2. Target(c) \in Tasks /\ reaped \in [Tasks -> BOOLEAN] /\ handle' \in [Tasks -> BOOLEAN]
  BY <1>1, TargetIsTask, Zenon DEF Inv, Types
<1>3. /\ reaped' \in [Tasks -> BOOLEAN]
      /\ reaped'[Target(c)] = TRUE
      /\ \A k \in Tasks \ {Target(c)} : reaped'[k] = reaped[k]
  BY <1>1, <1>2, Zenon
<1>4. /\ \A k \in Tasks : reaped'[k] => task[k] = "ended"
      /\ \A k \in Tasks : reaped[k] => reaped'[k]
  BY <1>1, <1>3, Zenon DEF Inv, ReapedEnded
<1>5. \A k : k = Target(c) => Over(k)'
  <2>1. task'[Target(c)] = "ended" /\ task'[Target(c)] \notin {"born", "loop"}
    BY <1>1, SMT
  <2>2. QED
    BY <1>3, <2>1, Zenon DEF Over, Runs
<1>6. "clear" \in {"enter", "inside", "clear"}
  BY Zenon
<1>7. PICK y : /\ call' = [call EXCEPT ![c] = y]
               /\ Fits(y)
               /\ y.op = call[c].op
               /\ Past(y) \subseteq Past(call[c]) \union {Target(c)}
  BY <1>1, <1>6, MoveJoinMoves, Zenon DEF Inv
<1>8. \A k \in Past(y) : k \in Past(call[c]) \/ Over(k)'
  BY <1>5, <1>7, Zenon
<1>9. (clash => clash') /\ \A k \in Tasks : handle[k] => handle'[k]
  BY <1>1, Zenon
<1>10. QED
  BY <1>1, <1>2, <1>3, <1>4, <1>7, <1>8, <1>9, JoinMove, Zenon

LEMMA JoinClearKeeps ==
  ASSUME Inv, NEW c \in Callers, JoinClear(c)
  PROVE  Inv'
<1>1. /\ Joins(c) /\ call[c].join = "clear" /\ AfterTask(c)
      /\ handle' = [handle EXCEPT ![Target(c)] = @ /\ At(c, "unwind", "join")]
      /\ UNCHANGED <<task, running, res, reaped, clash>>
  BY Zenon DEF JoinClear, Joining
<1>2. Target(c) \in Tasks /\ reaped \in [Tasks -> BOOLEAN] /\ handle \in [Tasks -> BOOLEAN]
  BY <1>1, TargetIsTask, Zenon DEF Inv, Types
<1>3. Target(c) \in Past(call[c])
  BY <1>1, <1>2, SMT DEF Joins, Past, Target
<1>4. PICK y : /\ call' = [call EXCEPT ![c] = y]
               /\ Fits(y)
               /\ y.op = call[c].op
               /\ Past(y) \subseteq Past(call[c]) \union {Target(c)}
  BY <1>1, AfterTaskMoves, Zenon DEF Inv
<1>5. \A k \in Past(y) : k \in Past(call[c])
  BY <1>3, <1>4, Zenon
<1>6. /\ handle' \in [Tasks -> BOOLEAN]
      /\ \A k \in Tasks \ {Target(c)} : handle'[k] = handle[k]
  <2>1. (handle[Target(c)] /\ At(c, "unwind", "join")) \in BOOLEAN
    BY Zenon
  <2>2. QED
    BY <1>1, <1>2, <2>1, Zenon
<1>7. Settled => \A k \in Tasks : handle[k] /\ ~handle'[k] => Over(k)'
  <2>1. \A k : Over(k)' <=> Over(k)
    BY <1>1, Zenon DEF Over, Runs
  <2>2. QED
    BY <1>3, <1>6, <2>1, Zenon DEF Settled
<1>8. /\ reaped' \in [Tasks -> BOOLEAN]
      /\ \A k \in Tasks : reaped[k] => reaped'[k]
      /\ \A k \in Tasks : reaped'[k] => task[k] = "ended"
      /\ clash => clash'
  BY <1>1, <1>2, Zenon DEF Inv, ReapedEnded
<1>9. QED
  BY <1>1, <1>4, <1>5, <1>6, <1>7, <1>8, JoinMove, Zenon

-----------------------------------------------------------------------------
(* Steps that leave tasks, handles and joins alone.                        *)

LEMMA QuietMove ==
  ASSUME Inv, NEW c \in Callers, NEW y, call' = [call EXCEPT ![c] = y], Calls',
         UNCHANGED <<task, handle, reaped, clash>>,
         res' \in [Threads -> {"none", "ready", "freed", "dangling"}],
         running' \/ ~running \/ y.op \in {"stop", "destroy"} \/ (~clash => AllOver),
         ~clash /\ Settled =>
           /\ \A k \in Past(y) : Over(k)
           /\ call[c].op \in {"stop", "destroy"} => y.op = call[c].op \/ AllOver
           /\ res' = res \/ AllOver
           /\ y.op = "start" => running' /\
                \A i \in Threads : (y.step = "init" /\ i >= y.i) \/ res'[i] = "ready",
         c # Main => call[Main].op # "start"
  PROVE  Inv'
<1>1. call'[c] = y /\ \A d \in Callers \ {c} : call'[d] = call[d]
  BY SMT DEF Inv, Calls
<1>2. Types' /\ ReapedEnded'
  BY Zenon DEF Inv, Types, ReapedEnded, Tasks, Threads
<1>3. clash' <=> clash
  BY Zenon
<1>5. ASSUME ~clash'
      PROVE  Settled'
  <2>1. ~clash /\ Settled
    BY <1>3, <1>5, Zenon DEF Inv
  <2>2. \A k : Over(k)' <=> Over(k)
    BY Zenon DEF Over, Runs
  <2>3. AllOver' <=> AllOver
    BY <2>2, Zenon DEF AllOver, Tasks
  <2>4. \A k \in Tasks : ~handle'[k] => Over(k)'
    BY <2>1, <2>2, Zenon DEF Settled
  <2>5. Justified(c, y)
    BY <2>1, <2>2, <2>3, <2>4, Zenon DEF Justified
  <2>6. QED
    BY <2>1, <2>5, StaysSettled, Zenon DEF Inv
<1>6. QED
  BY <1>2, <1>5, Zenon DEF Inv

(* A call goes on: it forgets nothing, and gives memory back when it knows *)
(* that all tasks are over.                                                *)
LEMMA GoesOn ==
  ASSUME Inv, NEW c \in Callers, NEW y, call' = [call EXCEPT ![c] = y], Fits(y),
         call[c].op # "none", y.op = call[c].op,
         UNCHANGED <<task, handle, reaped, clash, running>>,
         res' \in [Threads -> {"none", "ready", "freed", "dangling"}],
         Past(y) \subseteq Past(call[c]),
         res' = res \/ Past(call[c]) = Tasks,
         ~clash /\ Settled /\ y.op = "start" =>
           \A i \in Threads : (y.step = "init" /\ i >= y.i) \/ res'[i] = "ready"
  PROVE  Inv'
<1>1. Calls'
  BY CallMoves, Zenon DEF Inv
<1>3. c # Main => call[Main].op # "start"
  <2>1. call[c] # Idle
    BY SMT DEF Idle
  <2>2. QED
    BY <2>1, Zenon DEF Inv, Calls, Callers
<1>4. running' \/ ~running
  BY Zenon
<1>5. Settled => /\ \A k \in Past(y) : Over(k)
                 /\ res' = res \/ AllOver
  BY Zenon DEF Settled, AllOver
<1>6. Settled /\ y.op = "start" => running'
  <2>1. call[c].op = "start" => c = Main
    BY SMT DEF Inv, Calls, Callers
  <2>2. QED
    BY <2>1, Zenon DEF Settled
<1>7. QED
  BY <1>1, <1>3, <1>4, <1>5, <1>6, QuietMove, Zenon

LEMMA SignalKeeps ==
  ASSUME Inv, NEW c \in Callers, Signal(c)
  PROVE  Inv'
<1> DEFINE k == call[c]
<1>1. k \in CallType /\ StepOf(k) /\ LoopFits(k)
  BY Zenon DEF Inv, Calls, Fits
<1>2. /\ k.step = "signal" /\ Step(c, "join", k.limit)
      /\ UNCHANGED <<task, handle, reaped, clash, running>>
      /\ res' = res /\ res' \in [Threads -> {"none", "ready", "freed", "dangling"}]
  BY Zenon DEF Signal, In, AfterSignal, taskVars, Inv, Types
<1>3. /\ k.op \in {"unwind", "stop", "destroy"} /\ k.limit \in Nat
      /\ k.step \in {"init", "spawn", "signal", "join"}
  BY <1>1, <1>2, SMT DEF StepOf, CallType
<1>4. Fits(Enter(k.op, "join", k.limit))
  <2>1. StepOf(Enter(k.op, "join", k.limit))
    BY <1>3, SMT DEF Enter, StepOf
  <2>2. QED
    BY <1>1, <1>2, <1>3, <2>1, EnterFits, SMT DEF LoopFits, CallType
<1>5. PICK y : LoopMoves(c, "join", k.limit, y)
  BY <1>2, <1>3, <1>4, StepMoves, Zenon DEF Inv
<1>6. Past(y) \subseteq Past(k)
  <2>1. CASE y.step = k.step /\ y.limit = k.limit
    BY <1>2, <1>5, <2>1, SMT DEF LoopMoves, Past
  <2>2. CASE y = Enter(k.op, "join", k.limit)
    BY <1>2, <1>3, <2>2, ServerAssumption, SMT DEF ServerAssumption, Past, Enter, Tasks
  <2>3. QED
    BY <1>5, <2>1, <2>2, Zenon DEF LoopMoves
<1>7. k.op \notin {"none", "start"} /\ k.step \in {"signal", "join"}
  BY <1>2, <1>3, SMT
<1>8. QED
  BY <1>2, <1>5, <1>6, <1>7, GoesOn, Zenon DEF LoopMoves

LEMMA FlagDownKeeps ==
  ASSUME Inv, NEW c \in Callers, FlagDown(c)
  PROVE  Inv'
<1> DEFINE k == call[c]
           y == [k EXCEPT !.step = "joinclean"]
<1>1. k \in CallType /\ StepOf(k) /\ LoopFits(k)
  BY Zenon DEF Inv, Calls, Fits
<1>2. call' = [call EXCEPT ![c] = y] /\ k.step = "flagdown"
  BY SMT DEF FlagDown, In
<1>3. /\ y \in CallType
      /\ y.op = k.op /\ y.step = "joinclean" /\ y.i = k.i /\ y.limit = k.limit
  BY <1>1, SMT DEF CallType
<1>4. Fits(y)
  BY <1>1, <1>2, <1>3, SMT DEF Fits, StepOf, LoopFits
<1>5. Past(k) = Tasks /\ Past(y) \subseteq Tasks
  BY <1>2, SMT DEF Past
<1>6. k.op \notin {"none", "start"} /\ y.step \notin {"signal", "join"}
  BY <1>1, <1>2, <1>3, SMT DEF StepOf
<1>7. /\ UNCHANGED <<task, handle, reaped, clash, running>>
      /\ res' = res /\ res' \in [Threads -> {"none", "ready", "freed", "dangling"}]
  BY Zenon DEF FlagDown, taskVars, Inv, Types
<1> HIDE DEF y
<1>8. QED
  BY <1>2, <1>3, <1>4, <1>5, <1>6, <1>7, GoesOn, Zenon

LEMMA FreeKeeps ==
  ASSUME Inv, NEW c \in Callers, Free(c)
  PROVE  Inv'
<1> DEFINE k == call[c]
           on == [k EXCEPT !.step = "flagdown", !.i = @ + 1]
           off == Enter(k.op, AfterFree(c), ThreadCount)
           y == IF k.i + 1 < k.limit THEN on ELSE off
<1>1. k \in CallType /\ StepOf(k) /\ LoopFits(k)
  BY Zenon DEF Inv, Calls, Fits
<1>2. ThreadCount \in Nat \ {0}
  BY ServerAssumption, Zenon DEF ServerAssumption
<1>3. call' = [call EXCEPT ![c] = y] /\ k.step = "free"
  BY Zenon DEF Free, In
<1>4. k.op \in {"unwind", "wait", "destroy"}
  BY <1>1, <1>3, SMT DEF StepOf
<1>5. ASSUME k.i + 1 < k.limit
      PROVE  Fits(on) /\ on.op = k.op /\ on.step = "flagdown"
  <2>1. k.i + 1 \in Nat
    BY <1>1, SMT DEF CallType
  <2>2. on \in CallType
    BY <1>1, <2>1, Zenon DEF CallType
  <2>3. on.op = k.op /\ on.step = "flagdown" /\ on.i = k.i + 1 /\ on.limit = k.limit
    BY <1>1, SMT DEF CallType
  <2>4. QED
    BY <1>1, <1>3, <1>4, <1>5, <2>2, <2>3, SMT DEF Fits, StepOf, LoopFits
<1>6. Fits(off) /\ off.op = k.op /\ off.step \in {"unset", "done"}
  <2>1. StepOf(off) /\ off.op = k.op /\ off.step = AfterFree(c)
    BY <1>4, SMT DEF Enter, StepOf, AfterFree
  <2>2. AfterFree(c) \in {"unset", "done"}
    BY Zenon DEF AfterFree
  <2>3. Fits(off)
    BY <1>2, <1>4, <2>1, <2>2, EnterFits, SMT
  <2>4. QED
    BY <2>1, <2>2, <2>3, Zenon
<1>7. /\ Fits(y) /\ y.op = k.op
      /\ y.step \in {"flagdown", "unset", "done"}
  BY <1>5, <1>6, Zenon
<1>8. Past(k) = Tasks /\ Past(y) \subseteq Tasks
  BY <1>3, SMT DEF Past
<1>9. k.op \notin {"none", "start"} /\ y.step \notin {"signal", "join"}
  BY <1>4, <1>7, SMT
<1>10. UNCHANGED <<task, handle, reaped, clash, running>>
  BY Zenon DEF Free, taskVars
<1>11. res' \in [Threads -> {"none", "ready", "freed", "dangling"}]
  <2>1. res \in [Threads -> {"none", "ready", "freed", "dangling"}] /\ res' = [res EXCEPT ![k.i] = "freed"]
    BY Zenon DEF Free, Inv, Types
  <2>2. k.i \in Threads
    BY <1>1, <1>2, <1>3, SMT DEF LoopFits, CallType, Threads
  <2>3. QED
    BY <2>1, <2>2, Zenon
<1> HIDE DEF y
<1>12. QED
  BY <1>3, <1>7, <1>8, <1>9, <1>10, <1>11, GoesOn, Zenon

LEMMA CloseListenerKeeps ==
  ASSUME Inv, CloseListener
  PROVE  Inv'
<1> DEFINE k == call[Main]
           y == Enter("destroy", "flagdown", ThreadCount)
<1>1. k.op = "destroy" /\ k.step = "close" /\ call' = [call EXCEPT ![Main] = y]
  BY Zenon DEF CloseListener, At, In
<1>2. Fits(y) /\ y.op = "destroy" /\ y.step = "flagdown"
  <2>1. StepOf(y) /\ y.op = "destroy" /\ y.step = "flagdown"
    BY SMT DEF Enter, StepOf
  <2>2. QED
    BY <2>1, ServerAssumption, EnterFits, SMT DEF ServerAssumption
<1>3. Past(k) = Tasks /\ Past(y) \subseteq Tasks
  BY <1>1, SMT DEF Past
<1>4. k.op \notin {"none", "start"} /\ y.step \notin {"signal", "join"}
  BY <1>1, <1>2, SMT
<1>5. /\ UNCHANGED <<task, handle, reaped, clash, running>>
      /\ res' = res /\ res' \in [Threads -> {"none", "ready", "freed", "dangling"}]
  BY Zenon DEF CloseListener, taskVars, Inv, Types
<1>6. Main \in Callers
  BY Zenon DEF Callers
<1> HIDE DEF y
<1>7. QED
  BY <1>1, <1>2, <1>3, <1>4, <1>5, <1>6, GoesOn, Zenon

(* A call returns knowing that all tasks are over.                         *)
LEMMA ReturnKeeps ==
  ASSUME Inv, NEW c \in Callers, call[c].step \in {"done", "unset"}, Return(c),
         UNCHANGED <<taskVars, res>>
  PROVE  Inv'
<1>1. call' = [call EXCEPT ![c] = Idle] /\ Idle.op = "none"
  BY SMT DEF Return, Idle
<1>2. Past(call[c]) = Tasks
  BY SMT DEF Past
<1>3. Settled => AllOver
  BY <1>2, Zenon DEF Settled, AllOver
<1>4. call[c].op # "none"
  BY SMT DEF Inv, Calls, Fits, StepOf
<1>5. Calls'
  BY <1>1, <1>4, IdleFits, CallMoves, Zenon DEF Inv
<1>6. c # Main => call[Main].op # "start"
  <2>1. call[c] # Idle
    BY <1>1, <1>4, Zenon
  <2>2. QED
    BY <2>1, Zenon DEF Inv, Calls, Callers
<1>7. /\ UNCHANGED <<task, handle, reaped, clash>>
      /\ res' = res /\ res' \in [Threads -> {"none", "ready", "freed", "dangling"}]
  BY Zenon DEF taskVars, Inv, Types
<1>8. ~clash => AllOver
  BY <1>3, Zenon DEF Inv
<1>9. Idle.op \notin {"unwind", "start"}
  BY SMT DEF Idle
<1>10. QED
  BY <1>1, <1>5, <1>6, <1>7, <1>8, <1>9, IdleFits, QuietMove, Zenon

-----------------------------------------------------------------------------
(* Calls of the interface.                                                 *)

(* With nobody inside, a server that is not running has no tasks left.     *)
LEMMA IdleIsOver ==
  ASSUME Inv, AllIdle, ~running, ~clash
  PROVE  AllOver
<1>1. \A c \in Callers : call[c].op \notin {"stop", "destroy"}
  BY SMT DEF AllIdle, Idle
<1>2. QED
  BY <1>1, Zenon DEF Inv, Settled, AllOver

LEMMA StartCallKeeps ==
  ASSUME Inv, StartCall
  PROVE  Inv'
<1> DEFINE y == Enter("start", "init", ThreadCount)
<1>1. /\ call' = [call EXCEPT ![Main] = y] /\ running' /\ ~running /\ AllIdle
      /\ UNCHANGED <<task, handle, reaped, clash, res>>
      /\ res' \in [Threads -> {"none", "ready", "freed", "dangling"}]
  BY Zenon DEF StartCall, taskVars, Inv, Types
<1>2. StepOf(y) /\ y.op = "start" /\ y.step = "init" /\ y.i = 0
  BY SMT DEF Enter, StepOf
<1>3. Fits(y)
  BY <1>2, ServerAssumption, EnterFits, SMT DEF ServerAssumption
<1>4. Main \in Callers /\ Main \notin Others /\ Others \subseteq Callers
  BY ServerAssumption, Zenon DEF ServerAssumption, Callers
<1>5. call[Main].op = "none"
  BY <1>1, <1>4, SMT DEF AllIdle, Idle
<1>6. \A i \in Threads : i >= y.i
  BY <1>2, SMT DEF Threads
<1>7. ~clash => AllOver /\ \A k \in Past(y) : Over(k)
  BY <1>1, IdleIsOver, Zenon DEF AllOver, Past
<1>8. y.op # "unwind" /\ call[Main].op \notin {"stop", "destroy"}
  BY <1>2, <1>5, SMT
<1> HIDE DEF y
<1>9. Calls'
  BY <1>1, <1>3, <1>4, CallTurns, Zenon DEF Inv, AllIdle
<1>10. QED
  BY <1>1, <1>2, <1>4, <1>6, <1>7, <1>8, <1>9, QuietMove, Zenon

LEMMA DestroyCallKeeps ==
  ASSUME Inv, DestroyCall
  PROVE  Inv'
<1> DEFINE y == IF running THEN Enter("destroy", "joinacc", 1)
                ELSE Enter("destroy", "close", ThreadCount)
<1>1. /\ call' = [call EXCEPT ![Main] = y] /\ AllIdle
      /\ UNCHANGED <<task, handle, reaped, clash, res>>
      /\ res' \in [Threads -> {"none", "ready", "freed", "dangling"}]
  BY Zenon DEF DestroyCall, taskVars, Inv, Types
<1>2. /\ y.op = "destroy" /\ Fits(y) /\ y.join = "test"
      /\ y.step = "joinacc" \/ (y.step = "close" /\ ~running)
  <2>1. /\ Enter("destroy", "joinacc", 1).op = "destroy"
        /\ Enter("destroy", "joinacc", 1).step = "joinacc"
        /\ Enter("destroy", "joinacc", 1).join = "test"
        /\ StepOf(Enter("destroy", "joinacc", 1))
    BY SMT DEF Enter, StepOf
  <2>2. /\ Enter("destroy", "close", ThreadCount).op = "destroy"
        /\ Enter("destroy", "close", ThreadCount).step = "close"
        /\ Enter("destroy", "close", ThreadCount).join = "test"
        /\ StepOf(Enter("destroy", "close", ThreadCount))
    BY SMT DEF Enter, StepOf
  <2>3. Fits(Enter("destroy", "joinacc", 1)) /\ Fits(Enter("destroy", "close", ThreadCount))
    BY <2>1, <2>2, ServerAssumption, EnterFits, SMT DEF ServerAssumption
  <2>4. QED
    BY <2>1, <2>2, <2>3, Zenon
<1>3. Main \in Callers /\ Main \notin Others /\ Others \subseteq Callers
  BY ServerAssumption, Zenon DEF ServerAssumption, Callers
<1>4. call[Main].op = "none"
  BY <1>1, <1>3, SMT DEF AllIdle, Idle
<1> HIDE DEF y
<1>5. ~clash => \A k \in Past(y) : Over(k)
  <2>1. CASE y.step = "joinacc"
    <3>1. Past(y) = {}
      BY <1>2, <2>1, SMT DEF Past
    <3>2. QED
      BY <3>1, Zenon
  <2>2. CASE ~running
    BY <1>1, <2>2, IdleIsOver, Zenon DEF AllOver, Past
  <2>3. QED
    BY <1>2, <2>1, <2>2, Zenon
<1>6. y.op \notin {"unwind", "start"} /\ call[Main].op \notin {"stop", "destroy"}
  BY <1>2, <1>4, SMT
<1>7. Calls'
  BY <1>1, <1>2, <1>3, CallTurns, Zenon DEF Inv, AllIdle
<1>8. y.op \in {"stop", "destroy"}
  BY <1>2, Zenon
<1>9. QED
  BY <1>1, <1>3, <1>5, <1>6, <1>7, <1>8, QuietMove, Zenon

LEMMA WaitCallKeeps ==
  ASSUME Inv, WaitCall
  PROVE  Inv'
<1> DEFINE y == Enter("wait", "join", ThreadCount)
<1>1. /\ call' = [call EXCEPT ![Main] = y] /\ call[Main] = Idle
      /\ UNCHANGED <<task, handle, reaped, clash, res>>
      /\ res' \in [Threads -> {"none", "ready", "freed", "dangling"}]
      /\ running' \/ ~running
  BY Zenon DEF WaitCall, taskVars, Inv, Types
<1>2. StepOf(y) /\ y.op = "wait" /\ y.step = "join" /\ y.i = 0 /\ y.join = "test"
  BY SMT DEF Enter, StepOf
<1>3. Fits(y)
  BY <1>2, ServerAssumption, EnterFits, SMT DEF ServerAssumption
<1>4. Main \in Callers /\ Main \notin Others
  BY ServerAssumption, Zenon DEF ServerAssumption, Callers
<1>5. Past(y) = {}
  BY <1>2, ServerAssumption, SMT DEF ServerAssumption, Past, Tasks
<1>6. /\ y.op \notin {"start", "unwind", "destroy"}
      /\ call[Main].op \notin {"stop", "destroy"}
  BY <1>1, <1>2, SMT DEF Idle
<1> HIDE DEF y
<1>7. Calls'
  BY <1>1, <1>3, <1>4, <1>6, CallTurns, Zenon DEF Inv
<1>8. QED
  BY <1>1, <1>4, <1>5, <1>6, <1>7, QuietMove, Zenon

LEMMA StopCallKeeps ==
  ASSUME Inv, NEW c \in Callers, StopCall(c)
  PROVE  Inv'
<1> DEFINE y == Enter("stop", "joinacc", 1)
<1>1. /\ call' = [call EXCEPT ![c] = y] /\ call[c] = Idle
      /\ \A d \in Callers \ {c} : call[d] = Idle \/ call[d].op = "wait"
      /\ UNCHANGED <<task, handle, reaped, clash, res>>
      /\ res' \in [Threads -> {"none", "ready", "freed", "dangling"}]
  BY Zenon DEF StopCall, taskVars, Inv, Types
<1>2. StepOf(y) /\ y.op = "stop" /\ y.step = "joinacc" /\ y.join = "test"
  BY SMT DEF Enter, StepOf
<1>3. Fits(y)
  BY <1>2, EnterFits, SMT
<1>4. Main \in Callers /\ Main \notin Others
  BY ServerAssumption, Zenon DEF ServerAssumption, Callers
<1>5. Past(y) = {}
  BY <1>2, SMT DEF Past
<1>6. /\ y.op \notin {"start", "unwind", "destroy"}
      /\ call[c].op \notin {"stop", "destroy"}
      /\ c # Main => call[Main].op \notin {"start", "unwind", "destroy"}
  BY <1>1, <1>2, <1>4, SMT DEF Idle
<1>7. y.op \in {"none", "stop"} /\ y.op \in {"stop", "destroy"}
  BY <1>2, Zenon
<1> HIDE DEF y
<1>8. Calls'
  BY <1>1, <1>3, <1>4, <1>6, <1>7, CallTurns, Zenon DEF Inv
<1>9. QED
  BY <1>1, <1>4, <1>5, <1>6, <1>7, <1>8, QuietMove, Zenon

-----------------------------------------------------------------------------
(* Starting.                                                               *)

LEMMA InitThreadKeeps ==
  ASSUME Inv, InitThread
  PROVE  Inv'
<1> DEFINE k == call[Main]
<1>1. k \in CallType /\ StepOf(k) /\ LoopFits(k) /\ Main \in Callers
  BY Zenon DEF Inv, Calls, Fits, Callers
<1>2. /\ k.op = "start" /\ k.step = "init" /\ Step(Main, "spawn", ThreadCount)
      /\ res \in [Threads -> {"none", "ready", "freed", "dangling"}]
      /\ res' = [res EXCEPT ![k.i] = "ready"]
      /\ UNCHANGED <<task, handle, reaped, clash, running>>
  BY Zenon DEF InitThread, At, In, taskVars, Inv, Types
<1>3. ThreadCount \in Nat \ {0} /\ ThreadCount \in Nat
  BY ServerAssumption, SMT DEF ServerAssumption
<1>4. Fits(Enter(k.op, "spawn", ThreadCount))
  <2>1. StepOf(Enter(k.op, "spawn", ThreadCount))
    BY ZenonT(30), <1>2, SMT DEF Enter, StepOf
  <2>2. QED
    BY <1>2, <1>3, <2>1, EnterFits, SMT
<1>5. PICK y : LoopMoves(Main, "spawn", ThreadCount, y)
  BY <1>1, <1>2, <1>3, <1>4, StepMoves, Zenon DEF Inv
<1>6. k.i \in Threads /\ k.limit = ThreadCount
  BY <1>1, <1>2, SMT DEF LoopFits, CallType, Threads
<1>7. /\ res' \in [Threads -> {"none", "ready", "freed", "dangling"}]
      /\ res'[k.i] = "ready"
      /\ \A i \in Threads \ {k.i} : res'[i] = res[i]
  BY <1>2, <1>6, Zenon
<1>8. Past(k) = Tasks /\ Past(y) \subseteq Tasks
  BY <1>2, SMT DEF Past
<1>9. ASSUME Settled, NEW i \in Threads
      PROVE  (y.step = "init" /\ i >= y.i) \/ res'[i] = "ready"
  <2>1. i >= k.i \/ res[i] = "ready"
    BY <1>2, <1>9, Zenon DEF Settled
  <2>2. CASE y.step = k.step /\ y.i = k.i + 1
    <3>1. i = k.i \/ i >= y.i \/ res[i] = "ready"
      BY <1>6, <2>1, <2>2, <1>3, SMT DEF Threads
    <3>2. QED
      BY <1>2, <1>7, <2>2, <3>1, Zenon
  <2>3. CASE k.i + 1 = k.limit
    <3>1. i = k.i \/ res[i] = "ready"
      BY <1>3, <1>6, <2>1, <2>3, SMT DEF Threads
    <3>2. QED
      BY <1>7, <3>1, Zenon
  <2>4. QED
    BY <1>5, <2>2, <2>3, Zenon DEF LoopMoves
<1>10. k.op \notin {"none", "unwind"}
  BY <1>2, SMT
<1>11. QED
  BY <1>1, <1>2, <1>5, <1>7, <1>8, <1>9, <1>10, GoesOn, Zenon DEF LoopMoves

LEMMA InitThreadFailsKeeps ==
  ASSUME Inv, InitThreadFails
  PROVE  Inv'
<1> DEFINE k == call[Main]
           y == IF k.i = 0 THEN Enter("unwind", "unset", 0) ELSE Enter("unwind", "flagdown", k.i)
<1>1. k \in CallType /\ LoopFits(k) /\ Main \in Callers /\ Main \notin Others
  BY ServerAssumption, Zenon DEF ServerAssumption, Inv, Calls, Fits, Callers
<1>2. /\ k.op = "start" /\ k.step = "init" /\ call' = [call EXCEPT ![Main] = y]
      /\ res \in [Threads -> {"none", "ready", "freed", "dangling"}]
      /\ \E v \in {res[k.i], "dangling"} : res' = [res EXCEPT ![k.i] = v]
      /\ UNCHANGED <<task, handle, reaped, clash>>
      /\ running' \/ ~running
  BY Zenon DEF InitThreadFails, At, In, taskVars, Inv, Types
<1>3. k.i \in Nat /\ k.i < ThreadCount /\ k.i \in Threads
  BY <1>1, <1>2, ServerAssumption, SMT DEF ServerAssumption, LoopFits, CallType, Threads
<1>4. Fits(y) /\ y.op = "unwind" /\ y.step \in {"unset", "flagdown"}
  <2>1. /\ Enter("unwind", "unset", 0).op = "unwind"
        /\ Enter("unwind", "unset", 0).step = "unset"
        /\ StepOf(Enter("unwind", "unset", 0))
    BY SMT DEF Enter, StepOf
  <2>2. /\ Enter("unwind", "flagdown", k.i).op = "unwind"
        /\ Enter("unwind", "flagdown", k.i).step = "flagdown"
        /\ StepOf(Enter("unwind", "flagdown", k.i))
    BY SMT DEF Enter, StepOf
  <2>3. Fits(Enter("unwind", "unset", 0))
    BY <2>1, EnterFits, SMT
  <2>4. k.i # 0 => Fits(Enter("unwind", "flagdown", k.i))
    BY <1>3, <2>2, ServerAssumption, EnterFits, SMT DEF ServerAssumption
  <2>5. QED
    BY <2>1, <2>2, <2>3, <2>4, Zenon
<1> HIDE DEF y
<1>5. res' \in [Threads -> {"none", "ready", "freed", "dangling"}]
  BY <1>2, <1>3, Zenon
<1>6. Past(k) = Tasks /\ Past(y) \subseteq Tasks
  BY <1>2, SMT DEF Past
<1>7. Settled => AllOver /\ \A j \in Past(y) : Over(j)
  BY <1>1, <1>6, Zenon DEF Settled, AllOver
<1>8. Calls'
  <2>1. \A d \in Others : call[d] = Idle
    BY <1>2, Zenon DEF Inv, Calls
  <2>2. QED
    BY <1>1, <1>2, <1>4, <2>1, CallTurns, Zenon DEF Inv
<1>9. y.op # "start" /\ y.step \notin {"signal", "join"} /\ k.op \notin {"stop", "destroy"}
  BY <1>2, <1>4, SMT
<1>10. QED
  BY <1>1, <1>2, <1>5, <1>7, <1>8, <1>9, QuietMove, Zenon

(* A task is created by a start that goes on not to count on its being     *)
(* over; nobody else is inside the server.                                 *)
LEMMA SpawnMove ==
  ASSUME Inv, NEW k \in Tasks, NEW y, SpawnThread(k), call' = [call EXCEPT ![Main] = y], Fits(y),
         call[Main].op = "start", call[Main].step # "init",
         y = Idle \/ (y.op = "start" /\ y.step # "init"),
         Past(y) \subseteq Past(call[Main]) \ {k}
  PROVE  Inv'
<1>1. /\ Main \in Callers /\ Main \notin Others /\ Others \subseteq Callers
      /\ \A d \in Callers : d = Main \/ d \in Others
  BY ServerAssumption, Zenon DEF ServerAssumption, Callers
<1>2. /\ task' = [task EXCEPT ![k] = "born"]
      /\ handle' = [handle EXCEPT ![k] = TRUE]
      /\ reaped' = [reaped EXCEPT ![k] = FALSE]
      /\ UNCHANGED <<running, clash, res>>
      /\ Types
  BY Zenon DEF SpawnThread, Inv
<1>3. /\ task'[k] = "born" /\ \A j \in Tasks \ {k} : task'[j] = task[j]
      /\ handle'[k] = TRUE /\ \A j \in Tasks \ {k} : handle'[j] = handle[j]
      /\ reaped'[k] = FALSE /\ \A j \in Tasks \ {k} : reaped'[j] = reaped[j]
  BY <1>2, Zenon DEF Types
<1>4. Types'
  BY <1>2, Zenon DEF Types, Tasks, Threads
<1>5. /\ call'[Main] = y /\ \A d \in Callers \ {Main} : call'[d] = call[d]
      /\ \A d \in Others : call[d] = Idle
  <2>1. \A d \in Others : call[d] = Idle
    BY Zenon DEF Inv, Calls
  <2>2. QED
    BY <1>1, <2>1, SMT DEF Inv, Calls
<1>6. call[Main].op # "none" /\ y.op \notin {"unwind", "stop", "destroy"}
  BY SMT DEF Idle
<1>7. Calls'
  BY <1>1, <1>6, CallMoves, Zenon DEF Inv
<1>8. ReapedEnded'
  BY <1>3, Zenon DEF ReapedEnded, Inv, Tasks
<1>10. ASSUME ~clash'
       PROVE  Settled'
  <2>1. Settled
    <3>1. clash' <=> clash
      BY <1>2, Zenon
    <3>2. QED
      BY <1>10, <3>1, Zenon DEF Inv
  <2>2. \A j \in Tasks \ {k} : Over(j) => Over(j)'
    BY <1>3, Zenon DEF Over, Runs
  <2>3. \A j \in Tasks : ~handle'[j] => Over(j)'
    BY <1>3, <2>1, <2>2, Zenon DEF Settled
  <2>4. \A d \in Callers : \A j \in Past(call[d])' : Over(j)'
    <3>1. \A d \in Callers : Past(call[d])' = Past(call'[d])
      BY Zenon DEF Past, Tasks, AcceptorTask
    <3>2. \A d \in Others : Past(call'[d]) = {}
      BY <1>1, <1>5, IdleFits, Zenon
    <3>3. \A j \in Past(y) : j \in Tasks \ {k} /\ Over(j)
      <4>1. Past(call[Main]) \subseteq Tasks
        BY Zenon DEF Past
      <4>2. QED
        BY <1>1, <2>1, <4>1, Zenon DEF Settled
    <3>4. QED
      BY <1>1, <1>5, <2>2, <3>1, <3>2, <3>3, Zenon
  <2>5. running' /\ \A i \in Threads : res'[i] = "ready"
    BY <1>2, <2>1, Zenon DEF Settled
  <2>6. FreedAfterEnd'
    BY <2>5, Zenon DEF FreedAfterEnd, Threads
  <2>7. QED
    BY <2>3, <2>4, <2>5, <2>6, Zenon DEF Settled, Tasks, Threads
<1>11. QED
  BY <1>4, <1>7, <1>8, <1>10, Zenon DEF Inv

LEMMA SpawnKeeps ==
  ASSUME Inv, Spawn
  PROVE  Inv'
<1> DEFINE k == call[Main]
<1>1. k \in CallType /\ LoopFits(k) /\ Main \in Callers
  BY Zenon DEF Inv, Calls, Fits, Callers
<1>2. k.op = "start" /\ k.step = "spawn" /\ Step(Main, "spawnacc", 1) /\ SpawnThread(k.i)
  BY Zenon DEF Spawn, At, In
<1>3. /\ ThreadCount \in Nat \ {0} /\ 1 \in Nat
      /\ k.i \in Nat /\ k.i < ThreadCount /\ k.limit = ThreadCount /\ k.i \in Tasks
  BY <1>1, <1>2, ServerAssumption, SMT DEF ServerAssumption, LoopFits, CallType, Tasks
<1>4. Fits(Enter(k.op, "spawnacc", 1))
  <2>1. StepOf(Enter(k.op, "spawnacc", 1))
    BY <1>2, SMT DEF Enter, StepOf
  <2>2. QED
    BY <1>2, <2>1, EnterFits, SMT
<1>5. PICK y : LoopMoves(Main, "spawnacc", 1, y)
  BY <1>1, <1>2, <1>3, <1>4, StepMoves, Zenon DEF Inv
<1>6. y.op = "start" /\ y.step # "init" /\ Past(y) \subseteq Past(k) \ {k.i}
  <2>1. CASE y.step = k.step /\ y.i = k.i + 1
    BY <1>2, <1>3, <1>5, <2>1, SMT DEF LoopMoves, Past, Tasks, AcceptorTask
  <2>2. CASE y = Enter(k.op, "spawnacc", 1)
    BY <1>2, <1>3, <2>2, SMT DEF Past, Tasks, AcceptorTask, Enter
  <2>3. QED
    BY <1>5, <2>1, <2>2, Zenon DEF LoopMoves
<1>7. k.step # "init"
  BY <1>2, SMT
<1>8. QED
  BY <1>2, <1>3, <1>5, <1>6, <1>7, SpawnMove, Zenon DEF LoopMoves

LEMMA SpawnAcceptorKeeps ==
  ASSUME Inv, SpawnAcceptor
  PROVE  Inv'
<1>1. /\ call[Main].op = "start" /\ call[Main].step = "spawnacc" /\ SpawnThread(AcceptorTask)
      /\ call' = [call EXCEPT ![Main] = Idle]
  BY Zenon DEF SpawnAcceptor, At, In, Return
<1>2. AcceptorTask \in Tasks
  BY ServerAssumption, SMT DEF ServerAssumption, AcceptorTask, Tasks
<1>3. call[Main].step # "init"
  BY <1>1, SMT
<1>4. QED
  BY <1>1, <1>2, <1>3, IdleFits, SpawnMove, Zenon

LEMMA SpawnFailsKeeps ==
  ASSUME Inv, SpawnFails
  PROVE  Inv'
<1> DEFINE k == call[Main]
           n == IF k.step = "spawn" THEN k.i ELSE ThreadCount
           y == IF n = 0 THEN Enter("unwind", "flagdown", ThreadCount) ELSE Enter("unwind", "signal", n)
<1>1. k \in CallType /\ LoopFits(k) /\ Main \in Callers /\ Main \notin Others
  BY ServerAssumption, Zenon DEF ServerAssumption, Inv, Calls, Fits, Callers
<1>2. /\ k.op = "start" /\ k.step \in {"spawn", "spawnacc"}
      /\ call' = [call EXCEPT ![Main] = y]
      /\ \E h \in {handle[n], TRUE} : handle' = [handle EXCEPT ![n] = h]
      /\ UNCHANGED <<running, task, reaped, clash, res>>
  BY Zenon DEF SpawnFails, At, In
<1>3. ThreadCount \in Nat \ {0} /\ n \in Nat /\ n =< ThreadCount /\ n \in Tasks
  BY <1>1, <1>2, ServerAssumption, SMT DEF ServerAssumption, LoopFits, CallType, Tasks
<1>4. Past(y) \subseteq Past(k)
  <2>1. CASE k.step = "spawn"
    BY <1>2, <1>3, <2>1, SMT DEF Past, Enter, Tasks
  <2>2. CASE k.step = "spawnacc"
    <3>1. y = Enter("unwind", "signal", ThreadCount)
      BY <1>3, <2>2, SMT
    <3>2. QED
      BY <1>2, <1>3, <2>2, <3>1, SMT DEF Past, Enter, Tasks, AcceptorTask
  <2>3. QED
    BY <1>2, <2>1, <2>2, Zenon
<1>5. Fits(y) /\ y.op = "unwind"
  <2>1. /\ Enter("unwind", "flagdown", ThreadCount).op = "unwind"
        /\ StepOf(Enter("unwind", "flagdown", ThreadCount))
    BY SMT DEF Enter, StepOf
  <2>2. Enter("unwind", "signal", n).op = "unwind" /\ StepOf(Enter("unwind", "signal", n))
    BY ZenonT(30) DEF Enter, StepOf
  <2>3. Fits(Enter("unwind", "flagdown", ThreadCount))
    BY <1>3, <2>1, EnterFits, SMT
  <2>4. n # 0 => Fits(Enter("unwind", "signal", n))
    BY <1>3, <2>2, EnterFits, SMT
  <2>5. QED
    BY <2>1, <2>2, <2>3, <2>4, Zenon
<1> HIDE DEF y
<1>6. Calls'
  <2>1. \A d \in Others : call[d] = Idle
    BY <1>2, Zenon DEF Inv, Calls
  <2>2. QED
    BY <1>1, <1>2, <1>5, <2>1, CallTurns, Zenon DEF Inv
<1> HIDE DEF n
<1>7. handle' \in [Tasks -> BOOLEAN] /\ \A j \in Tasks : handle[j] => handle'[j]
  <2>1. handle \in [Tasks -> BOOLEAN]
    BY Zenon DEF Inv, Types
  <2>2. PICK h \in {handle[n], TRUE} : handle' = [handle EXCEPT ![n] = h]
    BY <1>2, Zenon
  <2>3. h \in BOOLEAN /\ (handle[n] => h)
    BY <1>3, <2>1, Zenon
  <2>4. handle'[n] = h /\ \A j \in Tasks \ {n} : handle'[j] = handle[j]
    BY <1>3, <2>1, <2>2, Zenon
  <2>5. handle' \in [Tasks -> BOOLEAN]
    BY <2>1, <2>2, <2>3, Zenon
  <2>6. QED
    BY <2>3, <2>4, <2>5, Zenon
<1>8. Types' /\ ReapedEnded'
  BY <1>2, <1>7, Zenon DEF Inv, Types, ReapedEnded, Tasks, Threads
<1>10. ASSUME ~clash'
       PROVE  Settled'
  <2>1. Settled
    <3>1. clash' <=> clash
      BY <1>2, Zenon
    <3>2. QED
      BY <1>10, <3>1, Zenon DEF Inv
  <2>2. \A j : Over(j)' <=> Over(j)
    BY <1>2, Zenon DEF Over, Runs
  <2>3. \A j \in Tasks : ~handle'[j] => Over(j)'
    BY <1>7, <2>1, <2>2, Zenon DEF Settled
  <2>4. \A j \in Past(y) : Over(j)'
    BY <1>1, <1>4, <2>1, <2>2, Zenon DEF Settled
  <2>5. running' \/ ~running
    BY <1>2, Zenon
  <2>6. y.op # "start" /\ k.op \notin {"stop", "destroy"}
    BY <1>2, <1>5, SMT
  <2>7. Justified(Main, y)
    BY <1>2, <2>2, <2>3, <2>4, <2>5, <2>6, Zenon DEF Justified
  <2>8. QED
    BY <1>1, <1>2, <2>1, <2>7, StaysSettled, Zenon DEF Inv
<1>11. QED
  BY <1>6, <1>8, <1>10, Zenon DEF Inv

-----------------------------------------------------------------------------
(* A task that runs is not over, so nobody counts on it.                   *)
LEMMA TaskMove ==
  ASSUME Inv, NEW k \in Tasks, task[k] \in {"born", "loop"}, NEW v \in {"loop", "ended"},
         task' = [task EXCEPT ![k] = v],
         UNCHANGED <<running, handle, reaped, clash, res, call>>
  PROVE  Inv'
<1>1. /\ task \in [Tasks -> {"none", "born", "loop", "ended"}]
      /\ task'[k] = v /\ \A j \in Tasks \ {k} : task'[j] = task[j]
  BY Zenon DEF Inv, Types
<1>2. v \in {"none", "born", "loop", "ended"} /\ task[k] # "ended" /\ v # "none"
  BY SMT
<1>3. Types'
  <2>1. task' \in [Tasks -> {"none", "born", "loop", "ended"}]
    BY <1>1, <1>2, Zenon
  <2>2. QED
    BY <2>1, Zenon DEF Inv, Types, Tasks, Threads
<1>4. ~reaped[k]
  BY <1>2, Zenon DEF Inv, ReapedEnded
<1>5. ReapedEnded'
  BY <1>1, <1>4, Zenon DEF Inv, ReapedEnded, Tasks
<1>6. Calls'
  BY SMT DEF Inv, Calls, Callers, CallType, Fits, StepOf, LoopFits, Idle
<1>8. ASSUME ~clash'
      PROVE  Settled'
  <2>1. Settled
    <3>1. clash' <=> clash
      BY Zenon
    <3>2. QED
      BY <1>8, <3>1, Zenon DEF Inv
  <2>2. ~Over(k) /\ \A j \in Tasks \ {k} : Over(j) => Over(j)'
    BY <1>1, Zenon DEF Over, Runs
  <2>3. \A j \in Tasks : Over(j) => Over(j)'
    BY <2>2, Zenon
  <2>4. \A j \in Tasks : ~handle'[j] => Over(j)'
    BY <2>1, <2>3, Zenon DEF Settled
  <2>5. \A d \in Callers : \A j \in Past(call[d])' : Over(j)'
    <3>1. \A d \in Callers : Past(call[d])' = Past(call'[d]) /\ call'[d] = call[d]
      BY Zenon DEF Past, Tasks, AcceptorTask
    <3>2. \A d \in Callers : Past(call[d]) \subseteq Tasks
      BY Zenon DEF Past
    <3>3. QED
      BY <2>1, <2>3, <3>1, <3>2, Zenon DEF Settled
  <2>6. ~running' => (\E d \in Callers : call'[d].op \in {"stop", "destroy"}) \/ AllOver'
    <3>1. running' <=> running
      BY Zenon
    <3>2. QED
      BY <2>1, <2>3, <3>1, Zenon DEF Settled, AllOver, Tasks
  <2>7. call'[Main].op = "start" => running' /\
          \A i \in Threads : (call'[Main].step = "init" /\ i >= call'[Main].i) \/ res'[i] = "ready"
    BY <2>1, Zenon DEF Settled
  <2>8. FreedAfterEnd'
    <3>1. \A j \in Tasks : Runs(j)' => Runs(j)
      BY <1>1, Zenon DEF Runs
    <3>2. Threads \subseteq Tasks /\ AcceptorTask \in Tasks
      BY ServerAssumption, SMT DEF ServerAssumption, Threads, Tasks, AcceptorTask
    <3>3. QED
      BY <2>1, <3>1, <3>2, Zenon DEF Settled, FreedAfterEnd, Threads, AcceptorTask
  <2>9. QED
    BY <2>4, <2>5, <2>6, <2>7, <2>8, Zenon DEF Settled, AllOver, Tasks, Threads, Callers
<1>9. QED
  BY <1>3, <1>5, <1>6, <1>8, Zenon DEF Inv

-----------------------------------------------------------------------------
LEMMA InitInv == Init => Inv
<1> SUFFICES ASSUME Init PROVE Inv
  OBVIOUS
<1>1. Types
  BY SMT DEF Init, Types
<1>2. Main \in Callers /\ Others \subseteq Callers
  BY Zenon DEF Callers
<1>3. \A c \in Callers : call[c] = Idle
  BY Zenon DEF Init
<1>4. Idle.op = "none"
  BY SMT DEF Idle
<1>5. Calls
  <2>1. call \in [Callers -> CallType]
    BY IdleFits, Zenon DEF Init
  <2>2. Idle.op \in {"none", "stop"}
    BY <1>4, Zenon
  <2>3. QED
    BY <1>2, <1>3, <2>1, <2>2, IdleFits, Zenon DEF Calls
<1>6. call[Main].op \notin {"start", "unwind"}
  BY <1>2, <1>3, SMT DEF Idle
<1>8. ReapedEnded
  BY Zenon DEF Init, ReapedEnded
<1>9. \A k \in Tasks : Over(k) /\ ~Runs(k)
  BY SMT DEF Init, Over, Runs
<1>10. Settled
  <2>1. Threads \subseteq Tasks /\ AcceptorTask \in Tasks
    BY ServerAssumption, SMT DEF ServerAssumption, Threads, Tasks, AcceptorTask
  <2>2. FreedAfterEnd
    BY <1>9, <2>1, Zenon DEF FreedAfterEnd
  <2>3. QED
    BY <1>3, <1>6, <1>9, <2>2, IdleFits, Zenon DEF Settled
<1>11. QED
  BY <1>1, <1>5, <1>8, <1>10, Zenon DEF Inv

LEMMA NextInv == Inv /\ [Next]_vars => Inv'
<1> SUFFICES ASSUME Inv, [Next]_vars PROVE Inv'
  OBVIOUS
<1>1. Main \in Callers
  BY Zenon DEF Callers
<1>2. CASE StartCall
  BY <1>2, StartCallKeeps, Zenon
<1>3. CASE WaitCall
  BY <1>3, WaitCallKeeps, Zenon
<1>4. CASE DestroyCall
  BY <1>4, DestroyCallKeeps, Zenon
<1>5. ASSUME NEW c \in Callers, StopCall(c)
      PROVE  Inv'
  BY <1>5, StopCallKeeps, Zenon
<1>6. ASSUME NEW c \in Callers, Calling(c)
      PROVE  Inv'
  <2>1. CASE JoinTest(c) \/ JoinEnter(c) \/ JoinRefused(c) \/ JoinReturn(c) \/ JoinClear(c)
    BY <2>1, JoinTestKeeps, JoinEnterKeeps, JoinRefusedKeeps, JoinReturnKeeps, JoinClearKeeps,
       Zenon
  <2>2. CASE Signal(c) \/ FlagDown(c) \/ Free(c)
    BY <2>2, SignalKeeps, FlagDownKeeps, FreeKeeps, Zenon
  <2>3. CASE Done(c)
    <3>1. call[c].step \in {"done", "unset"} /\ Return(c) /\ UNCHANGED <<taskVars, res>>
      BY <2>3, Zenon DEF Done, In
    <3>2. QED
      BY <3>1, ReturnKeeps, Zenon
  <2>4. CASE UnsetRunning
    <3>1. call[Main].step \in {"done", "unset"} /\ Return(Main) /\ UNCHANGED <<taskVars, res>>
      BY <2>4, Zenon DEF UnsetRunning, At, In
    <3>2. QED
      BY <1>1, <3>1, ReturnKeeps, Zenon
  <2>5. CASE InitThread \/ InitThreadFails \/ Spawn \/ SpawnAcceptor \/ SpawnFails
    BY <2>5, InitThreadKeeps, InitThreadFailsKeeps, SpawnKeeps, SpawnAcceptorKeeps,
       SpawnFailsKeeps, Zenon
  <2>6. CASE CloseListener
    BY <2>6, CloseListenerKeeps, Zenon
  <2>7. QED
    BY <1>6, <2>1, <2>2, <2>3, <2>4, <2>5, <2>6, Zenon DEF Calling, Starting
<1>7. ASSUME NEW i \in Threads, Worker(i)
      PROVE  Inv'
  <2>1. i \in Tasks
    BY ServerAssumption, SMT DEF ServerAssumption, Threads, Tasks
  <2>2. /\ task[i] \in {"born", "loop"}
        /\ \E v \in {"loop", "ended"} : task' = [task EXCEPT ![i] = v]
        /\ UNCHANGED <<running, handle, reaped, clash, res, call>>
    BY <1>7, Zenon DEF Worker, WorkerStarts, WorkerEnds
  <2>3. QED
    BY <2>1, <2>2, TaskMove, Zenon
<1>8. CASE Acceptor
  <2>1. AcceptorTask \in Tasks
    BY ServerAssumption, SMT DEF ServerAssumption, AcceptorTask, Tasks
  <2>2. /\ task[AcceptorTask] \in {"born", "loop"}
        /\ \E v \in {"loop", "ended"} : task' = [task EXCEPT ![AcceptorTask] = v]
        /\ UNCHANGED <<running, handle, reaped, clash, res, call>>
    BY ZenonT(30), <1>8, Zenon DEF Acceptor, AcceptorStarts, AcceptorEnds
  <2>3. QED
    BY <2>1, <2>2, TaskMove, Zenon
<1>9. CASE UNCHANGED vars
  <2>1. Types' /\ Calls'
    BY ZenonT(30), <1>9 DEF vars, taskVars, Inv, Types, Calls
  <2>2. ReapedEnded'
    BY ZenonT(30), <1>9 DEF vars, taskVars, Inv, ReapedEnded
  <2>3. ~clash' => Settled'
    BY ZenonT(30), <1>9 DEF vars, taskVars, Inv, Settled, Over, Runs, FreedAfterEnd
  <2>4. QED
    BY ZenonT(30), <2>1, <2>2, <2>3 DEF Inv
<1>10. QED
  BY <1>2, <1>3, <1>4, <1>5, <1>6, <1>7, <1>8, <1>9, Zenon DEF Next

-----------------------------------------------------------------------------
(* ws_cleanup_event_thread never frees the memory of an event thread while *)
(* the thread or the acceptor runs, as long as no two callers have joined  *)
(* one thread at a time.                                                   *)
THEOREM MemoryOutlivesThreads == Spec => []FreedAfterEndUnlessClash
<1>1. Inv => FreedAfterEndUnlessClash
  BY Zenon DEF Inv, Settled, FreedAfterEndUnlessClash
<1>2. QED
  BY InitInv, NextInv, <1>1, PTL DEF Spec

(* When ws_server_stop has returned, or ws_server_start has failed, all    *)
(* threads have ended and were joined, on the same condition.              *)
THEOREM StoppedIsQuiet == Spec => []QuietWhenStopped
<1>1. Inv => QuietWhenStopped
  BY IdleIsOver, Zenon DEF AllOver, Over, QuietWhenStopped
<1>2. QED
  BY InitInv, NextInv, <1>1, PTL DEF Spec
=============================================================================
