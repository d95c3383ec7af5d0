-------------------------- MODULE MCConnLifecycle --------------------------
(***************************************************************************)
(* Instances of ConnLifecycle.  The fds and the senders are interchangeable *)
(* model values: no action compares them but for equality, and every fd    *)
(* falls into the one bucket of the hash that is modelled.                 *)
(***************************************************************************)
EXTENDS ConnLifecycle, TLC

Symmetry == Permutations(Fds) \union Permutations(Senders)
=============================================================================
