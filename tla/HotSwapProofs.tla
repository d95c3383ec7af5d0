--------------------------- MODULE HotSwapProofs ----------------------------
(***************************************************************************)
(* Proofs about HotSwap, for any number of handlers and reloads.           *)
(***************************************************************************)
EXTENDS HotSwap, TLAPS

(* What is asked of the constants: the table there is at first, if any, is *)
(* one of those that are counted.                                          *)
Sensible == First \in {0, 1} /\ MaxTables \in Nat \ {0}

TypeOK ==
  /\ current \in 0..MaxTables /\ retired \in 0..MaxTables
  /\ swaps \in 0..MaxTables
  /\ freed \in [Tables -> Nat]
  /\ writer \in [step : {"idle", "free", "retire"}, old : 0..MaxTables]
  /\ reading \in [Readers -> 0..MaxTables]
  /\ closed \in BOOLEAN

(* What every reload keeps.  The live table is the newest; the one in the  *)
(* hands of the writer and the retired one are the two before it; and the  *)
(* older ones are the ones that were freed.                                *)
Held ==
  IF writer.step = "idle" THEN {current, retired}
  ELSE IF writer.step = "free" THEN {current, retired, writer.old}
  ELSE {current, writer.old}

Chained ==
  /\ current = swaps
  /\ writer.step = "idle" => writer.old = 0
  /\ closed => writer.step = "idle"
  /\ writer.step = "idle" =>
       retired = IF swaps > 0 THEN swaps - 1 ELSE 0
  /\ writer.step # "idle" =>
       /\ swaps > 0
       /\ writer.old = swaps - 1
       /\ retired = IF swaps > 1 THEN swaps - 2 ELSE 0

FreedOnce ==
  \A t \in Tables :
    freed[t] = IF t <= swaps /\ (closed \/ t \notin Held) THEN 1 ELSE 0

ReadersBehind == \A r \in Readers : reading[r] <= swaps

ClosedQuiet == closed => \A r \in Readers : reading[r] = 0

Inv == TypeOK /\ Chained /\ FreedOnce /\ ReadersBehind /\ ClosedQuiet

-----------------------------------------------------------------------------
LEMMA InitInv == Sensible /\ Init => Inv
<1> SUFFICES ASSUME Sensible, Init PROVE Inv
  OBVIOUS
<1> USE DEF Sensible, Init, Resting
<1>1. TypeOK
  <2>1. First \in 0..MaxTables /\ 0 \in 0..MaxTables
    OBVIOUS
  <2>2. [t \in Tables |-> 0] \in [Tables -> Nat]
    OBVIOUS
  <2>3. [r \in Readers |-> 0] \in [Readers -> 0..MaxTables]
    OBVIOUS
  <2> QED BY Zenon, <2>1, <2>2, <2>3 DEF TypeOK
<1>2. Chained
  BY DEF Chained
<1>3. FreedOnce
  BY DEF FreedOnce, Held, Tables
<1>4. ReadersBehind /\ ClosedQuiet
  BY DEF ReadersBehind, ClosedQuiet
<1> QED BY <1>1, <1>2, <1>3, <1>4 DEF Inv

LEMMA NextInv == Sensible /\ Inv /\ [Next]_vars => Inv'
<1> SUFFICES ASSUME Sensible, Inv, [Next]_vars PROVE Inv'
  OBVIOUS
<1> USE DEF Sensible
<1>1. CASE Restart
  <2> USE <1>1 DEF Restart, Resting
  <2>1. TypeOK'
    <3>1. First \in 0..MaxTables /\ 0 \in 0..MaxTables
      OBVIOUS
    <3>2. [t \in Tables |-> 0] \in [Tables -> Nat]
      OBVIOUS
    <3>3. [r \in Readers |-> 0] \in [Readers -> 0..MaxTables]
      OBVIOUS
    <3> QED BY Zenon, <3>1, <3>2, <3>3 DEF TypeOK
  <2>2. Chained'
    BY DEF Chained
  <2>3. FreedOnce'
    BY DEF FreedOnce, Held, Tables
  <2>4. ReadersBehind' /\ ClosedQuiet'
    BY DEF ReadersBehind, ClosedQuiet
  <2> QED BY <2>1, <2>2, <2>3, <2>4 DEF Inv
<1>2. CASE Publish
  <2> USE <1>2 DEF Publish, Inv
  <2>1. TypeOK'
    BY DEF TypeOK, Tables, Resting
  <2>2. Chained'
    BY DEF TypeOK, Chained, Resting
  <2>3. FreedOnce'
    BY DEF TypeOK, Chained, FreedOnce, Held, Tables, Resting
  <2>4. ReadersBehind' /\ ClosedQuiet'
    BY DEF TypeOK, ReadersBehind, ClosedQuiet
  <2> QED BY <2>1, <2>2, <2>3, <2>4
<1>3. CASE FreeRetired
  <2> USE <1>3 DEF FreeRetired, Inv
  <2>1. TypeOK'
    BY DEF TypeOK, Tables, Frees
  <2>2. Chained'
    BY DEF TypeOK, Chained
  <2>3. FreedOnce'
    BY DEF TypeOK, Chained, FreedOnce, Held, Tables, Frees
  <2>4. ReadersBehind' /\ ClosedQuiet'
    BY DEF TypeOK, ReadersBehind, ClosedQuiet
  <2> QED BY <2>1, <2>2, <2>3, <2>4
<1>4. CASE Retire
  <2> USE <1>4 DEF Retire, Inv
  <2>1. TypeOK'
    BY DEF TypeOK, Tables, Resting
  <2>2. Chained'
    BY DEF TypeOK, Chained, Resting
  <2>3. FreedOnce'
    BY DEF TypeOK, Chained, FreedOnce, Held, Tables, Resting
  <2>4. ReadersBehind' /\ ClosedQuiet'
    BY DEF TypeOK, ReadersBehind, ClosedQuiet
  <2> QED BY <2>1, <2>2, <2>3, <2>4
<1>5. CASE Destroy
  <2> USE <1>5 DEF Destroy, Inv
  <2>1. TypeOK'
    BY DEF TypeOK, Tables, Resting
  <2>2. Chained'
    BY DEF TypeOK, Chained, Resting
  <2>3. FreedOnce'
    BY DEF TypeOK, Chained, FreedOnce, Held, Tables, Resting
  <2>4. ReadersBehind' /\ ClosedQuiet'
    BY DEF TypeOK, ReadersBehind, ClosedQuiet
  <2> QED BY <2>1, <2>2, <2>3, <2>4
<1>6. ASSUME NEW r \in Readers, Load(r) \/ Finish(r) PROVE Inv'
  <2> USE <1>6 DEF Load, Finish, Inv
  <2>1. TypeOK'
    BY DEF TypeOK
  <2>2. Chained' /\ FreedOnce'
    BY DEF Chained, FreedOnce, Held
  <2>3. ReadersBehind' /\ ClosedQuiet'
    BY DEF TypeOK, Chained, ReadersBehind, ClosedQuiet
  <2> QED BY <2>1, <2>2, <2>3
<1>7. CASE UNCHANGED vars
  BY <1>7, SMT DEF vars, Inv, TypeOK, Chained, FreedOnce, ReadersBehind, ClosedQuiet, Held
<1> QED BY <1>1, <1>2, <1>3, <1>4, <1>5, <1>6, <1>7 DEF Next

(* The inductive invariant holds in every behaviour of the swap.           *)
THEOREM Invariance == ASSUME Sensible PROVE Spec => []Inv
<1>1. Init => Inv
  BY InitInv
<1>2. Inv /\ [Next]_vars => Inv'
  BY NextInv
<1> QED BY <1>1, <1>2, PTL DEF Spec

(* A handler loses the table it uses only when two tables were published   *)
(* after it: portico_router_set frees the table retired by the set before. *)
THEOREM OneSwapIsSafe == ASSUME Sensible PROVE Spec => []GraceOfOneSwap
<1>1. Inv => GraceOfOneSwap
  BY SMTT(30) DEF Sensible, Inv, TypeOK, Chained, FreedOnce, ReadersBehind, ClosedQuiet,
     Held, GraceOfOneSwap, Tables
<1> QED BY Invariance, <1>1, PTL

(* No table leaks and none is freed twice, portico_router_destroy included. *)
THEOREM NoTableLeaks == ASSUME Sensible PROVE Spec => []TablesAccounted
<1>1. Inv => TablesAccounted
  BY DEF Sensible, Inv, TypeOK, Chained, FreedOnce, Held, TablesAccounted, Tables
<1> QED BY Invariance, <1>1, PTL
=============================================================================
