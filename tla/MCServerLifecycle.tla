------------------------- MODULE MCServerLifecycle -------------------------
(***************************************************************************)
(* An instance of ServerLifecycle: two event threads, a main thread and    *)
(* another one that may stop the server while the main thread waits.       *)
(***************************************************************************)
EXTENDS ServerLifecycle
=============================================================================
