--------------------------- MODULE ConnLifecycle ---------------------------
(***************************************************************************)
(* The life of a connection: the acceptor thread hands an accepted socket  *)
(* to an event thread, the event thread gives it a slot of its connection  *)
(* array, registers it in its fd map, in the global fd hash and in epoll,  *)
(* and tears it down again, while application threads look connections up  *)
(* in the hash, take a reference and queue messages for them.              *)
(*                                                                         *)
(* A slot is a pair <<t, i>>: connections[i] of thread t.  One action is   *)
(* one piece of code between two points where another thread can interfere *)
(* (a close(2), which lets the kernel reuse the fd, an operation on the    *)
(* hash, the free of a slot, a change of active_connections).  The message *)
(* queue of a thread is the bounded FIFO that MpscQueue implements; that a *)
(* wakeup is never lost is shown there, so here a thread may be woken      *)
(* whenever its queue is not empty.                                        *)
(*                                                                         *)
(* The state of a connection is "pending" for WS_STATE_CONNECTING,         *)
(* _TLS_HANDSHAKE and _HTTP, which this part of the code treats alike.     *)
(***************************************************************************)
EXTENDS Integers, Sequences, FiniteSets

CONSTANTS
  ThreadCount,     (* server->thread_count                                 *)
  MaxConnections,  (* slots per thread                                     *)
  Fds,             (* the socket fds the kernel hands out                  *)
  Senders,         (* application threads                                  *)
  Ops,             (* what they call: "data", "close" (a ping changes      *)
                   (* nothing here)                                        *)
  MaxEvents,       (* thread->max_events: events per epoll_wait            *)
  QueueMax,        (* nodes of a message queue                             *)
  TimeoutMax,      (* messages processed on an epoll timeout (10)          *)
  Faults,          (* which of "tls", "hash", "epoll" may fail             *)
  MaxAccepts,      (* bound: connections accepted                          *)
  NULL

Threads == 0..ThreadCount - 1
Indices == 0..MaxConnections - 1
Slots == Threads \X Indices
Wakeup == "wakeup"  (* the event of the wakeup eventfd, no client's fd       *)

ASSUME ConnAssumption ==
  /\ ThreadCount \in Nat \ {0}
  /\ MaxConnections \in Nat \ {0}
  /\ MaxEvents \in Nat \ {0}
  /\ QueueMax \in Nat \ {0}
  /\ TimeoutMax \in Nat \ {0}
  /\ MaxAccepts \in Nat
  /\ Faults \subseteq {"tls", "hash", "epoll"}
  /\ Ops \subseteq {"data", "close"}
  /\ NULL \notin Fds
  /\ NULL \notin Slots
  /\ Wakeup \notin Fds

VARIABLES
  conn,      (* every slot: fd (NULL when wiped), state, generation and    *)
             (* ref_count                                                  *)
  free,      (* free_connection_stack of every thread                      *)
  fdmap,     (* fd_to_conn_map of every thread                             *)
  hash,      (* one bucket of the global hash, in the order of its array   *)
  active,    (* active_connections of every thread                         *)
  sockets,   (* what became of each fd: "closed" (the kernel may hand it   *)
             (* out), "accepted", "queued" for a thread, or "served"       *)
  epoll,     (* the sockets each thread's epoll watches                    *)
  queue,     (* the message queue of every thread                          *)
  tpc,       (* where each event thread is                                 *)
  batch,     (* events of this epoll_wait it has not handled               *)
  budget,    (* messages it may still process, -1 without a limit          *)
  task,      (* the connection it is setting up or tearing down, and where *)
             (* it continues                                               *)
  holding,   (* the fd the acceptor has not passed on yet, or NULL         *)
  target,    (* the thread it chose for that fd, or NULL                   *)
  accepted,  (* connection_count of the acceptor                           *)
  spc,       (* where each sender is                                       *)
  job,       (* the call it is making: operation, fd, slot                 *)
  mishaps    (* auxiliary: the set-ups that failed, by slot, and the       *)
             (* closes and removals that hit somebody else, by fd          *)

threadVars == <<tpc, batch, budget, task>>
acceptorVars == <<holding, target, accepted>>
senderVars == <<spc, job>>
vars == <<conn, free, fdmap, hash, active, sockets, epoll, queue, tpc, batch,
          budget, task, holding, target, accepted, spc, job, mishaps>>

Wiped(g) == [fd |-> NULL, st |-> "pending", gen |-> g, ref |-> 0]
NoTask == [fd |-> NULL, slot |-> NULL, back |-> "wait"]

(* ws_init_event_thread: all slots are closed and free, slot 0 on top.     *)
Init ==
  /\ conn = [s \in Slots |-> [fd |-> NULL, st |-> "closed", gen |-> 0, ref |-> 0]]
  /\ free = [t \in Threads |-> [i \in 1..MaxConnections |-> MaxConnections - i]]
  /\ fdmap = [t \in Threads |-> [f \in Fds |-> NULL]]
  /\ hash = <<>>
  /\ active = [t \in Threads |-> 0]
  /\ sockets = [f \in Fds |-> "closed"]
  /\ epoll = [t \in Threads |-> {}]
  /\ queue = [t \in Threads |-> <<>>]
  /\ tpc = [t \in Threads |-> "wait"]
  /\ batch = [t \in Threads |-> {}]
  /\ budget = [t \in Threads |-> 0]
  /\ task = [t \in Threads |-> NoTask]
  /\ holding = NULL
  /\ target = NULL
  /\ accepted = 0
  /\ spc = [x \in Senders |-> "idle"]
  /\ job = [x \in Senders |-> NULL]
  /\ mishaps = {}

-----------------------------------------------------------------------------
(* Helpers.                                                                *)

Goto(t, label) == tpc' = [tpc EXCEPT ![t] = label]

(* close(2): the kernel may hand the fd out again, and the closed socket   *)
(* leaves every epoll.                                                     *)
CloseFd(f) ==
  /\ sockets' = [sockets EXCEPT ![f] = "closed"]
  /\ epoll' = [t \in Threads |-> epoll[t] \ {f}]

(* The first entry of the bucket for f, which the linear searches find.    *)
Matches(f) == {k \in 1..Len(hash) : hash[k].fd = f}
First(f) == CHOOSE k \in Matches(f) : \A j \in Matches(f) : k <= j

(* ws_connection_hash_remove: the last entry moves into the hole.          *)
HashRemove(f) ==
  hash' = IF Matches(f) = {} THEN hash
          ELSE LET n == Len(hash)
               IN  [k \in 1..n - 1 |-> IF k = First(f) THEN hash[n] ELSE hash[k]]

(* The entry it removes, the first for f, is not that of the slot s.       *)
RemovesAnother(f, s) == Matches(f) # {} /\ hash[First(f)].slot # s

(* ws_connection_hash_insert appends to the bucket, and its failure, when  *)
(* the bucket cannot grow, is survived.                                    *)
HashInsert(f, s) ==
  \/ hash' = Append(hash, [fd |-> f, slot |-> s])
  \/ "hash" \in Faults /\ UNCHANGED hash

(* ws_register_fd, and ws_unregister_fd when s is NULL.                    *)
RegisterFd(t, f, s) == fdmap' = [fdmap EXCEPT ![t][f] = s]

(* conn->thread_id is wiped with the rest of a slot.                       *)
ThreadOf(s) == IF conn[s].fd = NULL THEN 0 ELSE s[1]
PoolIndex(s) == IF conn[s].fd = NULL THEN 0 ELSE s[2]

(* ws_mpsc_send_*: the message takes a node of the pool and is enqueued.   *)
Send(t, m) ==
  /\ Len(queue[t]) < QueueMax
  /\ queue' = [queue EXCEPT ![t] = Append(@, m)]

-----------------------------------------------------------------------------
(* The acceptor thread.                                                    *)

Accept(f) ==
  /\ holding = NULL
  /\ accepted < MaxAccepts
  /\ sockets[f] = "closed"
  /\ sockets' = [sockets EXCEPT ![f] = "accepted"]
  /\ holding' = f
  /\ accepted' = accepted + 1
  /\ UNCHANGED <<conn, free, fdmap, hash, active, epoll, queue, threadVars, target,
                 senderVars, mishaps>>

(* on_accept refused it, fcntl failed, every thread is at capacity, or no  *)
(* queue node was left.                                                    *)
RejectClient ==
  /\ holding # NULL
  /\ CloseFd(holding)
  /\ holding' = NULL
  /\ target' = NULL
  /\ UNCHANGED <<conn, free, fdmap, hash, active, queue, threadVars, accepted, senderVars,
                 mishaps>>

(* Round robin, or the next thread with capacity: any of those it can be.  *)
ChooseThread(t) ==
  /\ holding # NULL
  /\ target = NULL
  /\ active[t] < MaxConnections
  /\ target' = t
  /\ UNCHANGED <<conn, free, fdmap, hash, active, sockets, epoll, queue, threadVars,
                 holding, accepted, senderVars, mishaps>>

(* The fd is sent to the chosen thread, which may be full by now.          *)
HandOff(t) ==
  /\ holding # NULL
  /\ target = t
  /\ Send(t, [type |-> "new", fd |-> holding, slot |-> NULL, gen |-> 0])
  /\ sockets' = [sockets EXCEPT ![holding] = IF @ = "closed" THEN @ ELSE "queued"]
  /\ holding' = NULL
  /\ target' = NULL
  /\ UNCHANGED <<conn, free, fdmap, hash, active, epoll, threadVars, accepted, senderVars,
                 mishaps>>

-----------------------------------------------------------------------------
(* Application threads: ws_send_text and ws_send_binary ("data"),          *)
(* ws_close_connection ("close").                                          *)

(* Mutant: ws_connection_hash_find, which takes no reference.              *)
FindWithoutRef(x, op, f) ==
  /\ spc[x] = "idle"
  /\ Matches(f) # {}
  /\ job' = [job EXCEPT ![x] = [op |-> op, fd |-> f, slot |-> hash[First(f)].slot]]
  /\ spc' = [spc EXCEPT ![x] = IF op = "close" THEN "checked" ELSE "found"]
  /\ UNCHANGED <<conn, free, fdmap, hash, active, sockets, epoll, queue, threadVars,
                 acceptorVars, mishaps>>

(* ws_connection_hash_find_and_ref, under the lock of the bucket.          *)
FindAndRef(x, op, f) ==
  /\ spc[x] = "idle"
  /\ Matches(f) # {}
  /\ LET s == hash[First(f)].slot
     IN  /\ conn' = [conn EXCEPT ![s].ref = @ + 1]
         /\ job' = [job EXCEPT ![x] = [op |-> op, fd |-> f, slot |-> s]]
  /\ spc' = [spc EXCEPT ![x] = IF op = "close" THEN "checked" ELSE "found"]
  /\ UNCHANGED <<free, fdmap, hash, active, sockets, epoll, queue, threadVars,
                 acceptorVars, mishaps>>

(* Only an open connection is sent data.                                   *)
CheckOpen(x) ==
  /\ spc[x] = "found"
  /\ spc' = [spc EXCEPT ![x] = IF conn[job[x].slot].st = "open" THEN "checked" ELSE "unref"]
  /\ UNCHANGED <<conn, free, fdmap, hash, active, sockets, epoll, queue, threadVars,
                 acceptorVars, mishaps, job>>

(* ws_mpsc_send_*.  Only a data message carries the slot and generation to *)
(* its consumer; for the others they are auxiliary and say which           *)
(* connection the caller meant.                                            *)
Enqueue(x) ==
  /\ spc[x] = "checked"
  /\ LET s == job[x].slot
     IN  Send(ThreadOf(s),
              [type |-> job[x].op, fd |-> job[x].fd, slot |-> s, gen |-> conn[s].gen])
  /\ spc' = [spc EXCEPT ![x] = "unref"]
  /\ UNCHANGED <<conn, free, fdmap, hash, active, sockets, epoll, threadVars,
                 acceptorVars, mishaps, job>>

QueueFull(x) ==
  /\ spc[x] = "checked"
  /\ Len(queue[ThreadOf(job[x].slot)]) >= QueueMax
  /\ spc' = [spc EXCEPT ![x] = "unref"]
  /\ UNCHANGED <<conn, free, fdmap, hash, active, sockets, epoll, queue, threadVars,
                 acceptorVars, mishaps, job>>

(* ws_connection_unref; its result is not looked at here.                  *)
Unref(x) ==
  /\ spc[x] = "unref"
  /\ conn' = [conn EXCEPT ![job[x].slot].ref = @ - 1]
  /\ spc' = [spc EXCEPT ![x] = "idle"]
  /\ job' = [job EXCEPT ![x] = NULL]
  /\ UNCHANGED <<free, fdmap, hash, active, sockets, epoll, queue, threadVars,
                 acceptorVars, mishaps>>

-----------------------------------------------------------------------------
(* The event thread: waiting for events.                                   *)

(* epoll_wait reports some of what is ready: a watched socket may have     *)
(* something to say at any time.                                           *)
EpollWait(t) ==
  /\ tpc[t] = "wait"
  /\ \E E \in (SUBSET (epoll[t] \union {Wakeup})) \ {{}} :
       /\ Cardinality(E) <= MaxEvents
       /\ Wakeup \in E => queue[t] # <<>>
       /\ batch' = [batch EXCEPT ![t] = E]
  /\ Goto(t, "events")
  /\ UNCHANGED <<conn, free, fdmap, hash, active, sockets, epoll, queue, task,
                 budget, acceptorVars, mishaps, senderVars>>

(* Nothing for 100 ms: a bounded number of messages.                       *)
EpollTimeout(t) ==
  /\ tpc[t] = "wait"
  /\ queue[t] # <<>>
  /\ budget' = [budget EXCEPT ![t] = TimeoutMax]
  /\ Goto(t, "drain")
  /\ UNCHANGED <<conn, free, fdmap, hash, active, sockets, epoll, queue, batch, task,
                 acceptorVars, mishaps, senderVars>>

(* The wakeup eventfd: the whole queue is drained.                         *)
WakeupEvent(t) ==
  /\ tpc[t] = "events"
  /\ Wakeup \in batch[t]
  /\ batch' = [batch EXCEPT ![t] = @ \ {Wakeup}]
  /\ budget' = [budget EXCEPT ![t] = -1]
  /\ Goto(t, "drain")
  /\ UNCHANGED <<conn, free, fdmap, hash, active, sockets, epoll, queue, task,
                 acceptorVars, mishaps, senderVars>>

EventsDone(t) ==
  /\ tpc[t] = "events"
  /\ batch[t] = {}
  /\ Goto(t, "wait")
  /\ UNCHANGED <<conn, free, fdmap, hash, active, sockets, epoll, queue, batch, task,
                 budget, acceptorVars, mishaps, senderVars>>

DrainDone(t) ==
  /\ tpc[t] = "drain"
  /\ queue[t] = <<>> \/ budget[t] = 0
  /\ budget' = [budget EXCEPT ![t] = 0]
  /\ Goto(t, "events")
  /\ UNCHANGED <<conn, free, fdmap, hash, active, sockets, epoll, queue, batch, task,
                 acceptorVars, mishaps, senderVars>>

-----------------------------------------------------------------------------
(* The event thread: close_connection.                                     *)

(* Up to close(2).  Without a connection there is nothing more to do; the  *)
(* fd is closed all the same, whoever has it by now.                       *)
CloseConnection(t, f, back) ==
  /\ CloseFd(f)
  /\ RegisterFd(t, f, NULL)
  /\ IF fdmap[t][f] = NULL
     THEN /\ Goto(t, back)
          /\ UNCHANGED task
     ELSE /\ Goto(t, "countdown")
          /\ task' = [task EXCEPT ![t] = [fd |-> f, slot |-> fdmap[t][f], back |-> back]]
  /\ mishaps' = IF fdmap[t][f] = NULL /\ sockets[f] # "closed"
                THEN mishaps \union {<<"stale", f>>}
                ELSE mishaps
  /\ UNCHANGED <<conn, free, hash, active, queue, budget, acceptorVars, senderVars>>

(* Mutant: active_connections is left alone.                               *)
CountDownForgotten(t) ==
  /\ tpc[t] = "countdown"
  /\ Goto(t, "unhash")
  /\ UNCHANGED <<conn, free, fdmap, hash, active, sockets, epoll, queue, batch, task,
                 budget, acceptorVars, mishaps, senderVars>>

(* active_connections, before on_disconnect is called.                     *)
CountDown(t) ==
  /\ tpc[t] = "countdown"
  /\ active' = [active EXCEPT ![t] = @ - 1]
  /\ Goto(t, "unhash")
  /\ UNCHANGED <<conn, free, fdmap, hash, sockets, epoll, queue, batch, task,
                 budget, acceptorVars, mishaps, senderVars>>

(* on_disconnect has run; now the hash entry goes.                         *)
Unhash(t) ==
  /\ tpc[t] = "unhash"
  /\ HashRemove(task[t].fd)
  /\ mishaps' = IF RemovesAnother(task[t].fd, task[t].slot)
                THEN mishaps \union {<<"entry", task[t].fd>>}
                ELSE mishaps
  /\ Goto(t, "release")
  /\ UNCHANGED <<conn, free, fdmap, active, sockets, epoll, queue, batch, task, budget,
                 acceptorVars, senderVars>>

(* Mutant: the second push that process_close_message once had.            *)
UnreferencePushesTwice(t, s) ==
  IF conn[s].ref = 1
  THEN /\ conn' = [conn EXCEPT ![s] = Wiped(@.gen)]
       /\ free' = [free EXCEPT ![t] = @ \o <<PoolIndex(s), PoolIndex(s)>>]
  ELSE /\ conn' = [conn EXCEPT ![s].ref = @ - 1, ![s].st = "closed"]
       /\ free' = [free EXCEPT ![t] = Append(@, PoolIndex(s))]

(* ws_connection_unref; the last reference wipes the slot and pushes its   *)
(* pool_index, saved before the wipe, on the free stack.                   *)
Unreference(t, s) ==
  IF conn[s].ref = 1
  THEN /\ conn' = [conn EXCEPT ![s] = Wiped(@.gen)]
       /\ free' = IF Len(free[t]) < MaxConnections
                  THEN [free EXCEPT ![t] = Append(@, PoolIndex(s))]
                  ELSE free
  ELSE /\ LET c == conn[s]
          IN  conn' = [conn EXCEPT ![s] = [c EXCEPT !.ref = c.ref - 1, !.st = "closed"]]
       /\ UNCHANGED free

Release(t) ==
  /\ tpc[t] = "release"
  /\ Unreference(t, task[t].slot)
  /\ Goto(t, task[t].back)
  /\ task' = [task EXCEPT ![t] = NoTask]
  /\ UNCHANGED <<fdmap, hash, active, sockets, epoll, queue, batch, budget,
                 acceptorVars, mishaps, senderVars>>

(* Mutant: no `closed' guard, so the EPOLLHUP of the event is handled too. *)
EventClosesTwice(t, f) ==
  /\ tpc[t] = "events"
  /\ f \in batch[t]
  /\ UNCHANGED batch
  /\ CloseConnection(t, f, "events")

(* The callers of close_connection.  An event may close its connection     *)
(* once: the `closed' guard skips the rest of its flags.                   *)
EventCloses(t, f) ==
  /\ tpc[t] = "events"
  /\ f \in batch[t]
  /\ batch' = [batch EXCEPT ![t] = @ \ {f}]
  /\ CloseConnection(t, f, "events")

(* The event is handled and the connection stays, perhaps open now; an     *)
(* EPOLLOUT without a connection is ignored.  A wiped slot has no client   *)
(* whose handshake it could read.                                          *)
EventHandled(t, f) ==
  /\ tpc[t] = "events"
  /\ f \in batch[t]
  /\ batch' = [batch EXCEPT ![t] = @ \ {f}]
  /\ LET s == fdmap[t][f]
     IN  \/ UNCHANGED conn
         \/ /\ s # NULL
            /\ conn[s].st = "pending"
            /\ conn[s].fd # NULL
            /\ conn' = [conn EXCEPT ![s].st = "open"]
  /\ UNCHANGED <<free, fdmap, hash, active, sockets, epoll, queue, tpc, task,
                 budget, acceptorVars, mishaps, senderVars>>

(* reap_stale_connections: a handshake that stalled, a pong that did not   *)
(* come, a keep-alive that is idle.  A wiped slot has connect_time 0.  The *)
(* reaper runs after the events of an iteration, which is just before the  *)
(* next epoll_wait.                                                        *)
ReapConnection(t, s) ==
  /\ tpc[t] = "wait"
  /\ conn[s].fd # NULL
  /\ conn[s].st \in {"pending", "open"}
  /\ CloseConnection(t, conn[s].fd, "wait")
  /\ UNCHANGED batch

-----------------------------------------------------------------------------
(* The event thread: ws_mpsc_process_messages.                             *)

Dequeue(t, type) ==
  /\ tpc[t] = "drain"
  /\ queue[t] # <<>>
  /\ budget[t] # 0
  /\ budget' = [budget EXCEPT ![t] = IF @ > 0 THEN @ - 1 ELSE @]
  /\ Head(queue[t]).type = type
  /\ queue' = [queue EXCEPT ![t] = Tail(@)]

(* process_new_connection without a free slot.                             *)
NoFreeSlot(t) ==
  /\ Dequeue(t, "new")
  /\ free[t] = <<>>
  /\ CloseFd(Head(queue[t]).fd)
  /\ UNCHANGED <<conn, free, fdmap, hash, active, tpc, batch, task, acceptorVars,
                 mishaps, senderVars>>

PoppedSlot(t) == <<t, free[t][Len(free[t])]>>
PopFree(t) == free' = [free EXCEPT ![t] = SubSeq(@, 1, Len(@) - 1)]

(* Mutant: the early return leaves the socket open.                        *)
TlsInitFailsLeaksFd(t) ==
  /\ "tls" \in Faults
  /\ Dequeue(t, "new")
  /\ free[t] # <<>>
  /\ PopFree(t)
  /\ conn' = [conn EXCEPT ![PoppedSlot(t)] = Wiped(@.gen + 1)]
  /\ mishaps' = mishaps \union {<<"tls", PoppedSlot(t)>>}
  /\ UNCHANGED <<fdmap, hash, active, sockets, epoll, tpc, batch, task,
                 acceptorVars, senderVars>>

(* ws_tls_conn_new fails: the slot is wiped, and not pushed back.          *)
TlsInitFails(t) ==
  /\ "tls" \in Faults
  /\ Dequeue(t, "new")
  /\ free[t] # <<>>
  /\ PopFree(t)
  /\ conn' = [conn EXCEPT ![PoppedSlot(t)] = Wiped(@.gen + 1)]
  /\ mishaps' = mishaps \union {<<"tls", PoppedSlot(t)>>}
  /\ CloseFd(Head(queue[t]).fd)
  /\ UNCHANGED <<fdmap, hash, active, tpc, batch, task, acceptorVars, senderVars>>

(* The slot is initialised and registered.                                 *)
RegisterConnection(t) ==
  /\ Dequeue(t, "new")
  /\ free[t] # <<>>
  /\ PopFree(t)
  /\ LET f == Head(queue[t]).fd
         s == PoppedSlot(t)
     IN  /\ conn' = [conn EXCEPT ![s] = [fd |-> f, st |-> "pending", gen |-> @.gen + 1, ref |-> 1]]
         /\ RegisterFd(t, f, s)
         /\ HashInsert(f, s)
         /\ task' = [task EXCEPT ![t] = [fd |-> f, slot |-> s, back |-> "drain"]]
  /\ Goto(t, "adding")
  /\ UNCHANGED <<active, sockets, epoll, batch, acceptorVars, mishaps, senderVars>>

AddToEpoll(t) ==
  /\ tpc[t] = "adding"
  /\ sockets[task[t].fd] # "closed"
  /\ sockets' = [sockets EXCEPT ![task[t].fd] = "served"]
  /\ epoll' = [epoll EXCEPT ![t] = @ \union {task[t].fd}]
  /\ active' = [active EXCEPT ![t] = @ + 1]
  /\ task' = [task EXCEPT ![t] = NoTask]
  /\ Goto(t, "drain")
  /\ UNCHANGED <<conn, free, fdmap, hash, queue, batch, budget, acceptorVars,
                 mishaps, senderVars>>

(* epoll_ctl fails: the slot is wiped and the fd closed; the slot stays    *)
(* out of the free stack, and in the fd map and the hash.                  *)
AddToEpollFails(t) ==
  /\ tpc[t] = "adding"
  /\ "epoll" \in Faults \/ sockets[task[t].fd] = "closed"
  /\ conn' = [conn EXCEPT ![task[t].slot] = Wiped(@.gen)]
  /\ CloseFd(task[t].fd)
  /\ mishaps' = mishaps \union {<<"epoll", task[t].slot>>}
  /\ task' = [task EXCEPT ![t] = NoTask]
  /\ Goto(t, "drain")
  /\ UNCHANGED <<free, fdmap, hash, active, queue, batch, budget, acceptorVars, senderVars>>

(* Mutant: only the state of the slot is looked at.                        *)
CurrentByState(m) == conn[m.slot].st = "open"

(* A data message whose slot still lives the life it was queued for: it is *)
(* sent to the connection that the fd map has for its fd, or that          *)
(* connection is a slow consumer, which is marked and shut down.           *)
Current(m) == conn[m.slot].gen = m.gen /\ conn[m.slot].st = "open"

ProcessData(t) ==
  /\ Dequeue(t, "data")
  /\ LET m == Head(queue[t])
         s == fdmap[t][m.fd]
     IN  \/ UNCHANGED conn
         \/ /\ Current(m)
            /\ s # NULL
            /\ conn[s].st = "open"
            /\ conn' = [conn EXCEPT ![s].st = "closing"]
  /\ UNCHANGED <<free, fdmap, hash, active, sockets, epoll, tpc, batch, task,
                 acceptorVars, mishaps, senderVars>>

(* process_close_message: first the hash entry goes ...                    *)
ProcessClose(t) ==
  /\ Dequeue(t, "close")
  /\ LET f == Head(queue[t]).fd
     IN  IF fdmap[t][f] = NULL
         THEN UNCHANGED <<hash, epoll, tpc, task, mishaps>>
         ELSE /\ epoll' = [epoll EXCEPT ![t] = @ \ {f}]
              /\ HashRemove(f)
              /\ mishaps' = IF RemovesAnother(f, fdmap[t][f])
                            THEN mishaps \union {<<"entry", f>>}
                            ELSE mishaps
              /\ task' = [task EXCEPT ![t] = [fd |-> f, slot |-> fdmap[t][f], back |-> "drain"]]
              /\ Goto(t, "msgclose")
  /\ UNCHANGED <<conn, free, fdmap, active, sockets, batch, acceptorVars, senderVars>>

(* ... then the fd map entry and the socket ...                            *)
MsgCloseFd(t) ==
  /\ tpc[t] = "msgclose"
  /\ RegisterFd(t, task[t].fd, NULL)
  /\ CloseFd(task[t].fd)
  /\ Goto(t, "msgrelease")
  /\ UNCHANGED <<conn, free, hash, active, queue, batch, task, budget,
                 acceptorVars, mishaps, senderVars>>

(* ... then the reference, and the count at last.                          *)
MsgRelease(t) ==
  /\ tpc[t] = "msgrelease"
  /\ Unreference(t, task[t].slot)
  /\ Goto(t, "msgcount")
  /\ task' = [task EXCEPT ![t] = NoTask]
  /\ UNCHANGED <<fdmap, hash, active, sockets, epoll, queue, batch, budget,
                 acceptorVars, mishaps, senderVars>>

MsgCount(t) ==
  /\ tpc[t] = "msgcount"
  /\ active' = [active EXCEPT ![t] = @ - 1]
  /\ Goto(t, "drain")
  /\ UNCHANGED <<conn, free, fdmap, hash, sockets, epoll, queue, batch, task,
                 budget, acceptorVars, mishaps, senderVars>>

-----------------------------------------------------------------------------
Acceptor ==
  \/ \E f \in Fds : Accept(f)
  \/ RejectClient
  \/ \E t \in Threads : ChooseThread(t) \/ HandOff(t)

Sender(x) ==
  \/ \E op \in Ops, f \in Fds : FindAndRef(x, op, f)
  \/ CheckOpen(x) \/ Enqueue(x) \/ QueueFull(x) \/ Unref(x)

Closing(t) == CountDown(t) \/ Unhash(t) \/ Release(t)

Message(t) ==
  \/ NoFreeSlot(t) \/ TlsInitFails(t) \/ RegisterConnection(t)
  \/ AddToEpoll(t) \/ AddToEpollFails(t)
  \/ ProcessData(t)
  \/ ProcessClose(t) \/ MsgCloseFd(t) \/ MsgRelease(t) \/ MsgCount(t)
  \/ DrainDone(t)

Event(t) ==
  \/ WakeupEvent(t)
  \/ \E f \in Fds : EventCloses(t, f) \/ EventHandled(t, f)
  \/ EventsDone(t)

EventThread(t) ==
  \/ EpollWait(t) \/ EpollTimeout(t) \/ Event(t) \/ Message(t) \/ Closing(t)
  \/ \E i \in Indices : ReapConnection(t, <<t, i>>)

Next ==
  \/ Acceptor
  \/ \E x \in Senders : Sender(x)
  \/ \E t \in Threads : EventThread(t)

Spec == Init /\ [][Next]_vars

-----------------------------------------------------------------------------
(* Properties.                                                             *)

(* The connections a thread serves, and the fds promised to it.            *)
Served(t) == {f \in Fds : fdmap[t][f] # NULL}
NewMessages(t) == {k \in 1..Len(queue[t]) : queue[t][k].type = "new"}

(* What has not happened: epoll_ctl(ADD) never failed, which leaves a      *)
(* wiped slot in the fd map and in the hash; no thread closed an fd that   *)
(* it did not have in its map and somebody else had; no teardown removed   *)
(* the hash entry of another connection with its fd.                       *)
NoneRefused == \A s \in Slots : <<"epoll", s>> \notin mishaps
NoneStolen == \A m \in mishaps : m[1] \notin {"epoll", "stale"}
Undisturbed == \A m \in mishaps : m[1] = "tls"

(* A connection that a thread has in its fd map owns the socket of its fd: *)
(* nobody else's teardown has closed it, and the kernel has not handed the *)
(* number out to somebody else.                                            *)
SocketNotStolen ==
  NoneRefused =>
    /\ \A t \in Threads : \A f \in Served(t) :
         /\ conn[fdmap[t][f]].fd = f
         /\ sockets[f] = IF tpc[t] = "adding" /\ task[t].fd = f THEN "queued" ELSE "served"
         /\ \A u \in Threads \ {t} : fdmap[u][f] = NULL
    /\ \A t \in Threads : \A k \in NewMessages(t) : sockets[queue[t][k].fd] = "queued"
    /\ holding # NULL => sockets[holding] = "accepted"

(* No socket leaks: an open fd is held by the acceptor, promised to one    *)
(* thread by one message, or in the fd map of a thread.                    *)
SocketAccounted ==
  \A f \in Fds :
    /\ sockets[f] = "accepted" => holding = f
    /\ sockets[f] = "queued" =>
         \E t \in Threads :
           \/ \E k \in NewMessages(t) : queue[t][k].fd = f
           \/ tpc[t] = "adding" /\ task[t].fd = f
    /\ sockets[f] = "served" => \E t \in Threads : fdmap[t][f] # NULL

(* A queued send reaches the connection it was meant for or nobody: while  *)
(* its generation guard lets it through, the fd map entry through which it *)
(* is delivered is the slot the sender looked up, in the same life, or     *)
(* empty, however often fd and slot were recycled meanwhile.               *)
DataReachesItsTarget ==
  \A t \in Threads : \A k \in 1..Len(queue[t]) :
    LET m == queue[t][k]
    IN  m.type = "data" /\ Current(m) /\ fdmap[t][m.fd] # NULL =>
          fdmap[t][m.fd] = m.slot /\ conn[m.slot].gen = m.gen

(* active_connections, on which the acceptor bases its choice of a thread, *)
(* counts the connections in the fd map exactly, but for the one that is   *)
(* being added or torn down at this moment.                                *)
ActiveExact ==
  NoneRefused =>
    \A t \in Threads :
      active[t] = Cardinality(Served(t))
                  + (IF tpc[t] \in {"countdown", "msgrelease", "msgcount"} THEN 1 ELSE 0)
                  - (IF tpc[t] = "adding" THEN 1 ELSE 0)

(* The places where a thread still has the reference of the connection it  *)
(* is working on, and where the hash still has its entry.                  *)
HoldsTask(t, s) == task[t].slot = s
InUse(s) == HoldsTask(s[1], s) \/ \E f \in Fds : fdmap[s[1]][f] = s
HeldBy(s) == {x \in Senders : spc[x] # "idle" /\ job[x].slot = s}

(* ref_count is the number of references: one of the event thread while it *)
(* serves or closes the connection, one of each sender inside a call.  So  *)
(* it is neither too low, which would recycle a slot under a sender, nor   *)
(* too high.  One who finds the slot through the entry of a connection     *)
(* that is gone, whose own removal hit another entry, counts wrongly.      *)
RefCountExact ==
  Undisturbed =>
    \A s \in Slots : conn[s].ref = Cardinality(HeldBy(s)) + (IF InUse(s) THEN 1 ELSE 0)

(* Every entry of the global hash is a connection that is being served or  *)
(* closed, under its own fd: "Remove from global hash table first" in      *)
(* close_connection means that a slot which is released has no entry, and  *)
(* so nobody takes a reference to a free slot.                             *)
HashCurrent ==
  NoneRefused =>
    \A k \in 1..Len(hash) : conn[hash[k].slot].fd = hash[k].fd /\ InUse(hash[k].slot)

(* A slot that close_connection could not free because a sender held a     *)
(* reference, and whose last sender has gone: nobody frees it any more.    *)
Stranded(s) == conn[s].st = "closed" /\ conn[s].fd # NULL /\ conn[s].ref = 0

(* Every slot is in one place: once on the free stack, with nobody using   *)
(* or referencing it, or in use, or held by a sender.  It is lost to the   *)
(* thread in two ways only: ws_tls_conn_new failed, or it was closed under *)
(* a sender ("mark as closed but don't reuse yet"), which nobody undoes.   *)
SlotAccounted ==
  Undisturbed =>
    \A t \in Threads, i \in Indices :
      LET s == <<t, i>>
          onStack == {k \in 1..Len(free[t]) : free[t][k] = i}
          taken == InUse(s) \/ HeldBy(s) # {}
      IN  IF taken \/ Stranded(s) \/ <<"tls", s>> \in mishaps
          THEN onStack = {}
          ELSE Cardinality(onStack) = 1
=============================================================================
