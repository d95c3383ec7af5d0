------------------------------ MODULE HotSwap ------------------------------
(***************************************************************************)
(* A table that is replaced while it is read: the Host router.  Handlers   *)
(* load the current table and use it until they return.  A reload          *)
(* publishes a new table with one atomic exchange, frees the table that    *)
(* the reload before it retired, and retires the one it replaced.  Nobody  *)
(* counts readers: a table gets the grace of one reload.                   *)
(*                                                                         *)
(* A table is the number of the exchange that published it, 0 is NULL.     *)
(* The TLS context groups of the server are swapped in the same way;       *)
(* TlsGroups is shown to implement this module.                            *)
(***************************************************************************)
EXTENDS Integers

CONSTANTS
  Readers,   (* handlers that may run at a time                            *)
  First,     (* 0: there is no table at first, 1: there is one             *)
  MaxTables  (* bound: tables published                                    *)

VARIABLES
  current,   (* the live table                                             *)
  retired,   (* the one it replaced                                        *)
  swaps,     (* tables published so far                                    *)
  freed,     (* how often each table was freed                             *)
  writer,    (* the reload under way: its step and the table it replaced   *)
  reading,   (* the table each handler has loaded, 0 for none              *)
  closed     (* whether the owner was destroyed                            *)

vars == <<current, retired, swaps, freed, writer, reading, closed>>

Tables == 1..MaxTables
Resting == [step |-> "idle", old |-> 0]

(* free(NULL) does nothing.                                                *)
Frees(t) == freed' = [k \in Tables |-> freed[k] + (IF k = t THEN 1 ELSE 0)]

(* portico_router_create.                                                  *)
Init ==
  /\ current = First
  /\ retired = 0
  /\ swaps = First
  /\ freed = [t \in Tables |-> 0]
  /\ writer = Resting
  /\ reading = [r \in Readers |-> 0]
  /\ closed = FALSE

(* portico_router_set: a new table is made and published ...               *)
Publish ==
  /\ writer = Resting /\ ~closed
  /\ swaps < MaxTables
  /\ swaps' = swaps + 1
  /\ current' = swaps + 1
  /\ writer' = [step |-> "free", old |-> current]
  /\ UNCHANGED <<retired, freed, reading, closed>>

(* ... the table retired by the set before is freed ...                    *)
FreeRetired ==
  /\ writer.step = "free"
  /\ Frees(retired)
  /\ writer' = [writer EXCEPT !.step = "retire"]
  /\ UNCHANGED <<current, retired, swaps, reading, closed>>

(* ... and the replaced one is kept for the set after.                     *)
Retire ==
  /\ writer.step = "retire"
  /\ retired' = writer.old
  /\ writer' = Resting
  /\ UNCHANGED <<current, swaps, freed, reading, closed>>

(* portico_router_handle loads the table; without one it answers 503.      *)
Load(r) ==
  /\ reading[r] = 0 /\ ~closed
  /\ current # 0
  /\ reading' = [reading EXCEPT ![r] = current]
  /\ UNCHANGED <<current, retired, swaps, freed, writer, closed>>

(* portico_res_vhost has returned.                                         *)
Finish(r) ==
  /\ reading[r] # 0
  /\ reading' = [reading EXCEPT ![r] = 0]
  /\ UNCHANGED <<current, retired, swaps, freed, writer, closed>>

(* portico_router_destroy: the server's threads have ended, and with them  *)
(* the handlers.                                                           *)
Destroy ==
  /\ writer = Resting /\ ~closed
  /\ reading' = [r \in Readers |-> 0]
  /\ freed' = [t \in Tables |-> freed[t] + (IF t \in {current, retired} THEN 1 ELSE 0)]
  /\ closed' = TRUE
  /\ UNCHANGED <<current, retired, swaps, writer>>

(* The process ends and another one starts.                                *)
Restart ==
  /\ current' = First
  /\ retired' = 0
  /\ swaps' = First
  /\ freed' = [t \in Tables |-> 0]
  /\ writer' = Resting
  /\ reading' = [r \in Readers |-> 0]
  /\ closed' = FALSE

Next ==
  \/ Restart
  \/ Publish \/ FreeRetired \/ Retire \/ Destroy
  \/ \E r \in Readers : Load(r) \/ Finish(r)

Spec == Init /\ [][Next]_vars

-----------------------------------------------------------------------------
(* Properties.                                                             *)

(* A table is taken from a handler that still uses it only when two tables *)
(* were published after the one it loaded: one reload never does it.       *)
GraceOfOneSwap ==
  \A r \in Readers : reading[r] # 0 /\ freed[reading[r]] > 0 => swaps >= reading[r] + 2

(* Every published table is current, retired, in the hands of the reload   *)
(* that replaces it, or was freed once; so none leaks and none is freed    *)
(* twice.                                                                  *)
TablesAccounted ==
  \A t \in 1..swaps :
    freed[t] = IF ~closed /\ t \in {current, retired, writer.old}
                  /\ ~(writer.step = "retire" /\ t = retired)
               THEN 0 ELSE 1
=============================================================================
