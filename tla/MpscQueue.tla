----------------------------- MODULE MpscQueue -----------------------------
(***************************************************************************)
(* The multi-producer single-consumer queue of ws_mpsc.c, together with    *)
(* the eventfd through which its producers wake the event thread that      *)
(* consumes it (ws_event_thread_worker).                                   *)
(*                                                                         *)
(* One action is one access to memory that another thread can see: the     *)
(* exchange of tail, the store of prev->next or of head, each load of the  *)
(* consumer, the compare-and-swap that empties the queue.  The free list   *)
(* is guarded by a mutex, so a pop or a push is one action, and since the  *)
(* order of the free list decides nothing it is a set.  The statistics     *)
(* messages_sent, messages_received and pool_exhausted are left out: they  *)
(* decide nothing, and ws_mpsc_get_stats promises no consistent reading.   *)
(*                                                                         *)
(* `order' is an auxiliary variable, written and never read by the         *)
(* actions: the nodes in the order their producers exchanged tail, from    *)
(* the oldest one that the consumer has not taken.                         *)
(***************************************************************************)
EXTENDS Integers, Sequences, FiniteSets

CONSTANTS
  Nodes,       (* the preallocated node pool                               *)
  Producers,   (* the threads that send to this queue                      *)
  Messages,    (* the contents of a message                                *)
  NULL,        (* the null pointer                                         *)
  BatchMax,    (* messages per call on a wakeup (256 in the worker)        *)
  TimeoutMax   (* messages processed on an epoll timeout (10)              *)

ASSUME MpscAssumption ==
  /\ NULL \notin Nodes
  /\ NULL \notin Messages
  /\ BatchMax \in Nat \ {0}
  /\ TimeoutMax \in Nat \ {0}

VARIABLES
  free,        (* nodes on the free list                                   *)
  next,        (* node->next of every node                                 *)
  data,        (* node->data of every node                                 *)
  head, tail,  (* the two ends of the queue                                *)
  pc,          (* where each producer is in its send                       *)
  node,        (* the node each producer is sending                        *)
  prev,        (* prev_tail of each producer                               *)
  cpc,         (* where the event thread is                                *)
  chead,       (* `head' of the running dequeue                            *)
  cnext,       (* `next' of the running dequeue                            *)
  branch,      (* the branch of the event loop that runs                   *)
  processed,   (* messages processed by the running call                   *)
  eventfd,     (* the counter of the wakeup eventfd, 1 standing for any    *)
               (* value that is not zero                                   *)
  edge,        (* the edge-triggered epoll has an event for it             *)
  order        (* auxiliary: see above                                     *)

poolVars == <<free, next, data>>
prodVars == <<pc, node, prev>>
consVars == <<cpc, chead, cnext, branch, processed>>
wakeVars == <<eventfd, edge>>
vars == <<free, next, data, head, tail, pc, node, prev, cpc, chead, cnext,
          branch, processed, eventfd, edge, order>>

Init ==
  /\ free = Nodes
  /\ next = [n \in Nodes |-> NULL]
  /\ data = [n \in Nodes |-> NULL]
  /\ head = NULL
  /\ tail = NULL
  /\ pc = [p \in Producers |-> "idle"]
  /\ node = [p \in Producers |-> NULL]
  /\ prev = [p \in Producers |-> NULL]
  /\ cpc = "wait"
  /\ chead = NULL
  /\ cnext = NULL
  /\ branch = "timeout"
  /\ processed = 0
  /\ eventfd = 0
  /\ edge = FALSE
  /\ order = <<>>

-----------------------------------------------------------------------------
(* Producers: the ws_mpsc_send_* functions and their callers.              *)

(* ws_mpsc_queue_get_node: pop under the lock and initialise the node,     *)
(* which nobody else can reach now.                                        *)
GetNode(p) ==
  /\ pc[p] = "idle"
  /\ \E n \in free :
       /\ free' = free \ {n}
       /\ next' = [next EXCEPT ![n] = NULL]
       /\ data' = [data EXCEPT ![n] = NULL]
       /\ node' = [node EXCEPT ![p] = n]
  /\ pc' = [pc EXCEPT ![p] = "have"]
  /\ UNCHANGED <<head, tail, prev, consVars, wakeVars, order>>

(* ws_mpsc_queue_return_node frees the node's data and pushes the node on  *)
(* the free list.                                                          *)
ReturnNode(n) ==
  /\ data' = [data EXCEPT ![n] = NULL]
  /\ free' = free \union {n}

(* Mutant: the error path forgets the node it popped.                      *)
MallocFailsLeaksNode(p) ==
  /\ pc[p] = "have"
  /\ pc' = [pc EXCEPT ![p] = "idle"]
  /\ node' = [node EXCEPT ![p] = NULL]
  /\ UNCHANGED <<poolVars, head, tail, prev, consVars, wakeVars, order>>

(* malloc of the message failed: the sender gives its node back and        *)
(* reports an error.                                                       *)
MallocFails(p) ==
  /\ pc[p] = "have"
  /\ ReturnNode(node[p])
  /\ pc' = [pc EXCEPT ![p] = "idle"]
  /\ node' = [node EXCEPT ![p] = NULL]
  /\ UNCHANGED <<next, head, tail, prev, consVars, wakeVars, order>>

(* The message is stored in the node, and ws_mpsc_queue_enqueue makes the  *)
(* node the new tail.                                                      *)
ExchangeTail(p, m) ==
  /\ pc[p] = "have"
  /\ data' = [data EXCEPT ![node[p]] = m]
  /\ next' = [next EXCEPT ![node[p]] = NULL]
  /\ prev' = [prev EXCEPT ![p] = tail]
  /\ tail' = node[p]
  /\ order' = Append(order, node[p])
  /\ pc' = [pc EXCEPT ![p] = "link"]
  /\ UNCHANGED <<free, head, node, consVars, wakeVars>>

(* The second half of enqueue: the old tail, or head when there was none,  *)
(* is pointed at the node.                                                 *)
Link(p) ==
  /\ pc[p] = "link"
  /\ \/ /\ prev[p] # NULL
        /\ next' = [next EXCEPT ![prev[p]] = node[p]]
        /\ UNCHANGED head
     \/ /\ prev[p] = NULL
        /\ head' = node[p]
        /\ UNCHANGED next
  /\ pc' = [pc EXCEPT ![p] = "wake"]
  /\ node' = [node EXCEPT ![p] = NULL]
  /\ prev' = [prev EXCEPT ![p] = NULL]
  /\ UNCHANGED <<free, data, tail, consVars, wakeVars, order>>

(* ws_wake_thread and its copies in the acceptor and in ws_send_text and   *)
(* ws_send_binary: write the eventfd.                                      *)
WakeThread(p) ==
  /\ pc[p] = "wake"
  /\ eventfd' = 1
  /\ edge' = TRUE
  /\ pc' = [pc EXCEPT ![p] = "idle"]
  /\ UNCHANGED <<poolVars, head, tail, node, prev, consVars, order>>
-----------------------------------------------------------------------------
(* The consumer: the event loop, ws_mpsc_process_messages and              *)
(* ws_mpsc_queue_dequeue.                                                  *)

(* epoll_wait reports the wakeup eventfd.  The edge is consumed; the       *)
(* counter is still to be drained.                                         *)
EpollWakeup ==
  /\ cpc = "wait"
  /\ edge /\ eventfd = 1
  /\ edge' = FALSE
  /\ branch' = "wakeup"
  /\ cpc' = "drain"
  /\ UNCHANGED <<poolVars, head, tail, prodVars, chead, cnext, processed,
                 eventfd, order>>

(* The eventfd is read until EAGAIN, then the queue is processed.          *)
DrainEventfd ==
  /\ cpc = "drain"
  /\ eventfd' = 0
  /\ processed' = 0
  /\ cpc' = "dequeue"
  /\ UNCHANGED <<poolVars, head, tail, prodVars, chead, cnext, branch, edge,
                 order>>

(* epoll_wait returns nothing for 100 ms: one bounded call.                *)
EpollTimeout ==
  /\ cpc = "wait"
  /\ ~ (edge /\ eventfd = 1)
  /\ branch' = "timeout"
  /\ processed' = 0
  /\ cpc' = "dequeue"
  /\ UNCHANGED <<poolVars, head, tail, prodVars, chead, cnext, wakeVars,
                 order>>

(* Mutant: one bounded batch per wakeup.                                   *)
ReturnAfterOneBatch(n) ==
  /\ cpc' = "wait"
  /\ processed' = 0

(* ws_mpsc_process_messages returns n: the wakeup branch calls it again    *)
(* until it returns 0, the timeout branch calls it once.                   *)
ReturnFromProcess(n) ==
  IF branch = "wakeup" /\ n > 0
  THEN /\ cpc' = "dequeue"
       /\ processed' = 0
  ELSE /\ cpc' = "wait"
       /\ processed' = 0

(* `head' is NULL: the queue is empty.                                     *)
DequeueEmpty ==
  /\ cpc = "dequeue"
  /\ head = NULL
  /\ ReturnFromProcess(processed)
  /\ UNCHANGED <<poolVars, head, tail, prodVars, chead, cnext, branch, wakeVars,
                 order>>

LoadHead ==
  /\ cpc = "dequeue"
  /\ head # NULL
  /\ chead' = head
  /\ cpc' = "next"
  /\ UNCHANGED <<poolVars, head, tail, prodVars, cnext, branch, processed,
                 wakeVars, order>>

LoadNext ==
  /\ cpc = "next"
  /\ cnext' = next[chead]
  /\ cpc' = IF next[chead] = NULL THEN "tail" ELSE "advance"
  /\ UNCHANGED <<poolVars, head, tail, prodVars, chead, branch, processed,
                 wakeVars, order>>

LoadTail ==
  /\ cpc = "tail"
  /\ cpc' = IF tail # chead THEN "spin" ELSE "clear"
  /\ UNCHANGED <<poolVars, head, tail, prodVars, chead, cnext, branch, processed,
                 wakeVars, order>>

(* The loop that waits for the producer behind `head' to publish its link. *)
SpinForLink ==
  /\ cpc = "spin"
  /\ next[chead] # NULL
  /\ cnext' = next[chead]
  /\ cpc' = "advance"
  /\ UNCHANGED <<poolVars, head, tail, prodVars, chead, branch, processed,
                 wakeVars, order>>

(* There is a successor: head moves to it and the old head is returned.    *)
Advance ==
  /\ cpc = "advance"
  /\ head' = cnext
  /\ order' = Tail(order)
  /\ cpc' = "got"
  /\ UNCHANGED <<poolVars, tail, prodVars, chead, cnext, branch, processed,
                 wakeVars>>

ClearHead ==
  /\ cpc = "clear"
  /\ head' = NULL
  /\ cpc' = "cas"
  /\ UNCHANGED <<poolVars, tail, prodVars, chead, cnext, branch, processed,
                 wakeVars, order>>

(* Mutant: a failed compare-and-swap leaves head NULL, the loss that the   *)
(* comment in ws_mpsc_queue_dequeue tells of.                              *)
SwapTailForgetsHead ==
  /\ cpc = "cas"
  /\ tail' = IF tail = chead THEN NULL ELSE tail
  /\ order' = Tail(order)
  /\ cpc' = "got"
  /\ UNCHANGED <<poolVars, head, prodVars, chead, cnext, branch, processed,
                 wakeVars>>

(* Mutant: the failed compare-and-swap returns nothing and starts over     *)
(* from the cleared head.                                                  *)
SwapTailGivesUp ==
  /\ cpc = "cas"
  /\ \/ /\ tail = chead
        /\ tail' = NULL
              /\ order' = Tail(order)
        /\ cpc' = "got"
     \/ /\ tail # chead
        /\ cpc' = "dequeue"
        /\ UNCHANGED <<tail, order>>
  /\ UNCHANGED <<poolVars, head, prodVars, chead, cnext, branch, processed,
                 wakeVars>>

(* The compare-and-swap of tail from `head' to NULL: it fails when a       *)
(* producer exchanged tail meanwhile.                                      *)
SwapTail ==
  /\ cpc = "cas"
  /\ \/ /\ tail = chead
        /\ tail' = NULL
              /\ order' = Tail(order)
        /\ cpc' = "got"
     \/ /\ tail # chead
        /\ cpc' = "republish"
        /\ UNCHANGED <<tail, order>>
  /\ UNCHANGED <<poolVars, head, prodVars, chead, cnext, branch, processed,
                 wakeVars>>

(* Mutant: the newest node becomes the head, not the one behind `head'.    *)
RepublishTail ==
  /\ cpc = "republish"
  /\ head' = tail
  /\ order' = Tail(order)
  /\ cpc' = "got"
  /\ UNCHANGED <<poolVars, tail, prodVars, chead, cnext, branch, processed,
                 wakeVars>>

(* Wait for that producer's link and make its node the new head.           *)
Republish ==
  /\ cpc = "republish"
  /\ next[chead] # NULL
  /\ head' = next[chead]
  /\ order' = Tail(order)
  /\ cpc' = "got"
  /\ UNCHANGED <<poolVars, tail, prodVars, chead, cnext, branch, processed,
                 wakeVars>>

(* The message is handled, and its node returned.                          *)
HandleMessage ==
  /\ cpc = "got"
  /\ ReturnNode(chead)
  /\ chead' = NULL
  /\ cnext' = NULL
  /\ IF processed + 1 < (IF branch = "wakeup" THEN BatchMax ELSE TimeoutMax)
     THEN /\ processed' = processed + 1
          /\ cpc' = "dequeue"
     ELSE ReturnFromProcess(processed + 1)
  /\ UNCHANGED <<next, head, tail, prodVars, branch, wakeVars, order>>

-----------------------------------------------------------------------------
Producer(p) ==
  \/ GetNode(p)
  \/ MallocFails(p)
  \/ \E m \in Messages : ExchangeTail(p, m)
  \/ Link(p)
  \/ WakeThread(p)

ConsumerStep ==
  \/ EpollWakeup
  \/ DrainEventfd
  \/ DequeueEmpty
  \/ LoadHead
  \/ LoadNext
  \/ LoadTail
  \/ SpinForLink
  \/ Advance
  \/ ClearHead
  \/ SwapTail
  \/ Republish
  \/ HandleMessage

Next == (\E p \in Producers : Producer(p)) \/ ConsumerStep \/ EpollTimeout

Spec == Init /\ [][Next]_vars
-----------------------------------------------------------------------------
(* Properties.                                                             *)

ProducerPc == {"idle", "have", "link", "wake"}
ConsumerPc == {"wait", "drain", "dequeue", "next", "tail", "spin", "advance",
               "clear", "cas", "republish", "got"}

(* Every variable has its type, and no call of ws_mpsc_process_messages    *)
(* processes more than its max_messages.                                   *)
TypeOK ==
  /\ free \subseteq Nodes
  /\ next \in [Nodes -> Nodes \union {NULL}]
  /\ data \in [Nodes -> Messages \union {NULL}]
  /\ head \in Nodes \union {NULL}
  /\ tail \in Nodes \union {NULL}
  /\ pc \in [Producers -> ProducerPc]
  /\ node \in [Producers -> Nodes \union {NULL}]
  /\ prev \in [Producers -> Nodes \union {NULL}]
  /\ cpc \in ConsumerPc
  /\ chead \in Nodes \union {NULL}
  /\ cnext \in Nodes \union {NULL}
  /\ branch \in {"wakeup", "timeout"}
  /\ processed \in Nat
  /\ processed < BatchMax \/ processed < TimeoutMax
  /\ eventfd \in 0..1
  /\ edge \in BOOLEAN
  /\ order \in Seq(Nodes)

Queued(n) == \E i \in 1..Len(order) : order[i] = n
Holds(p, n) == pc[p] = "have" /\ node[p] = n
Handled(n) == cpc = "got" /\ chead = n
Linking(p, n) == pc[p] = "link" /\ node[p] = n

(* The life of a node: it is on the free list, or held by one producer     *)
(* (get_node), or queued once (enqueue), or held by the consumer           *)
(* (dequeue) - never in two of these places, which would let two threads   *)
(* write one message, and never in none of them, which would shrink the    *)
(* preallocated pool for good.                                             *)
NodeConserved ==
  /\ \A i, j \in 1..Len(order) : order[i] = order[j] => i = j
  /\ \A n \in Nodes, p, q \in Producers : Holds(p, n) /\ Holds(q, n) => p = q
  /\ \A n \in Nodes :
       \/ /\ n \in free /\ ~ Queued(n) /\ ~ Handled(n)
          /\ \A p \in Producers : ~ Holds(p, n)
       \/ /\ Queued(n) /\ n \notin free /\ ~ Handled(n)
          /\ \A p \in Producers : ~ Holds(p, n)
       \/ /\ Handled(n) /\ n \notin free /\ ~ Queued(n)
          /\ \A p \in Producers : ~ Holds(p, n)
       \/ /\ \E p \in Producers : Holds(p, n)
          /\ n \notin free /\ ~ Queued(n) /\ ~ Handled(n)

(* The links of the queue: every queued node is reached from its           *)
(* predecessor, or from head when it is the first, except while the        *)
(* producer that exchanged tail for it has not stored that link yet        *)
(* (enqueue), or while the consumer is between clearing head and           *)
(* republishing it (dequeue).  A node is therefore never unreachable       *)
(* with nobody left to link it - the loss that the comment in              *)
(* ws_mpsc_queue_dequeue tells of.                                         *)
ChainIntact ==
  /\ tail = IF order = <<>> THEN NULL ELSE order[Len(order)]
  /\ order = <<>> => head = NULL
  /\ order # <<>> =>
       \/ head = order[1]
       \/ head = NULL /\ \E p \in Producers : Linking(p, order[1])
       \/ head = NULL /\ cpc \in {"cas", "republish"} /\ chead = order[1]
  /\ \A i \in 1..Len(order) - 1 :
       \/ next[order[i]] = order[i + 1]
       \/ /\ next[order[i]] = NULL
          /\ \E p \in Producers : Linking(p, order[i + 1]) /\ prev[p] = order[i]

(* The event thread never sleeps in epoll_wait on a queue that holds a     *)
(* message unless a wakeup is pending or the sender of a message is still  *)
(* on its way to write the eventfd: the whole-queue drain on a wakeup      *)
(* leaves nothing behind, and the 100 ms timeout is not needed for it.     *)
NoLostWakeup ==
  cpc = "wait" /\ order # <<>> =>
    \/ edge /\ eventfd = 1
    \/ \E p \in Producers : pc[p] \in {"link", "wake"}

(* The queue is a bounded FIFO: exchanging tail puts a message, and the    *)
(* message the consumer ends up with is always the oldest one, complete.   *)
Fifo == INSTANCE MessageFifo WITH
  Capacity <- Cardinality(Nodes),
  fifo <- [i \in 1..Len(order) |-> data[order[i]]],
  taken <- IF cpc = "got" THEN data[chead] ELSE NULL

ImplementsFifo == Fifo!FifoSpec

-----------------------------------------------------------------------------
(* Fairness: a thread that is inside a send or awake keeps running.        *)
(* Nothing obliges a thread to send, and the epoll timeout is not assumed  *)
(* to happen: wakeups alone must suffice.                                  *)
FinishSend(p) ==
  \/ \E m \in Messages : ExchangeTail(p, m)
  \/ Link(p)
  \/ WakeThread(p)

Fairness ==
  /\ \A p \in Producers : WF_vars(FinishSend(p))
  /\ WF_vars(ConsumerStep)

FairSpec == Spec /\ Fairness

(* Every message that was sent is processed: a queued node leaves the      *)
(* queue, whatever the other producers do and without the help of the      *)
(* epoll timeout.                                                          *)
EveryMessageTaken == \A n \in Nodes : Queued(n) ~> ~ Queued(n)
=============================================================================
