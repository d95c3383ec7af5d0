---------------------------- MODULE MCMpscQueue ----------------------------
(***************************************************************************)
(* MpscQueue on a small instance: three nodes, so that the pool runs dry   *)
(* and nodes are reused, two producers racing, two different messages.     *)
(***************************************************************************)
EXTENDS MpscQueue
=============================================================================
