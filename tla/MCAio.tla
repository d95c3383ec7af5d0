------------------------------- MODULE MCAio -------------------------------
(***************************************************************************)
(* Instances of Aio: all three backends in one state space, and reads      *)
(* enough to fill the queue and the ring and to have one refused.          *)
(***************************************************************************)
EXTENDS Aio
=============================================================================
