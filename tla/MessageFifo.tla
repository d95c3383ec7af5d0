---------------------------- MODULE MessageFifo ----------------------------
(***************************************************************************)
(* What the per-thread message queue of portico promises its users: a      *)
(* bounded first-in first-out queue.  Any thread may put a message while   *)
(* there is room; the one consumer takes the oldest message, holds it      *)
(* while it is being processed, and is then done with it.  MpscQueue, the  *)
(* model of ws_mpsc.c, is shown to implement this module.                  *)
(***************************************************************************)
EXTENDS Naturals, Sequences

CONSTANTS
  Messages,   (* what a message can say                                    *)
  Capacity,   (* the number of messages the queue and its consumer hold    *)
  NULL        (* "the consumer holds no message"                           *)

VARIABLES
  fifo,       (* the messages put and not yet taken, oldest first          *)
  taken       (* the message the consumer is processing, or NULL           *)

fifoVars == <<fifo, taken>>

FifoInit ==
  /\ fifo = <<>>
  /\ taken = NULL

Put(m) ==
  /\ Len(fifo) < Capacity
  /\ fifo' = Append(fifo, m)
  /\ UNCHANGED taken

Take ==
  /\ fifo # <<>>
  /\ taken = NULL
  /\ taken' = Head(fifo)
  /\ fifo' = Tail(fifo)

Done ==
  /\ taken # NULL
  /\ taken' = NULL
  /\ UNCHANGED fifo

FifoNext == (\E m \in Messages : Put(m)) \/ Take \/ Done

FifoSpec == FifoInit /\ [][FifoNext]_fifoVars
=============================================================================
