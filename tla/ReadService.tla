----------------------------- MODULE ReadService -----------------------------
(***************************************************************************)
(* What portico_aio promises its caller, read by read: one that is refused *)
(* never has its callback fired; one that is accepted has it fired once,   *)
(* unless the instance is destroyed first, which drops it.                 *)
(***************************************************************************)
CONSTANT Reads

VARIABLE status   (* what became of each read                              *)

Moves == {<<"new", "refused">>, <<"new", "pending">>, <<"pending", "fired">>,
          <<"pending", "dropped">>,
          <<"new", "fired">>   (* no memory to queue the completion        *)}

ServiceInit == status = [r \in Reads |-> "new"]

ServiceNext ==
  /\ \A r \in Reads : status'[r] # status[r] => <<status[r], status'[r]>> \in Moves
  /\ DOMAIN status' = Reads

ServiceSpec == ServiceInit /\ [][ServiceNext]_status
=============================================================================
