-------------------------------- MODULE Utf8 --------------------------------
(***************************************************************************)
(* ws_utf8.c: the automaton that decides whether a text message or a close *)
(* reason is UTF-8.  A byte belongs to one of 12 classes (ByteClass); the  *)
(* states are the multiples of 12 the C table is indexed by, 0 is          *)
(* UTF8_ACCEPT and 12 is UTF8_REJECT.                                      *)
(***************************************************************************)
EXTENDS Integers, Sequences

Accept == 0
Reject == 12

(* The first 256 entries of utf8d.                                         *)
ByteClass(b) ==
  CASE b \in 0..127                  -> 0
    [] b \in 128..143                -> 1
    [] b \in 144..159                -> 9
    [] b \in 160..191                -> 7
    [] b \in {192, 193} \cup 245..255 -> 8
    [] b \in 194..223                -> 2
    [] b = 224                       -> 10
    [] b \in 225..236 \cup {238, 239} -> 3
    [] b = 237                       -> 4
    [] b = 240                       -> 11
    [] b \in 241..243                -> 6
    [] b = 244                       -> 5

(* The other 108: in each state, the classes that lead somewhere else than *)
(* to Reject.                                                              *)
Transition(state, class) ==
  CASE state = 0  /\ class = 0             -> 0
    [] state = 0  /\ class = 2             -> 24
    [] state = 0  /\ class = 3             -> 36
    [] state = 0  /\ class = 4             -> 60
    [] state = 0  /\ class = 5             -> 96
    [] state = 0  /\ class = 6             -> 84
    [] state = 0  /\ class = 10            -> 48
    [] state = 0  /\ class = 11            -> 72
    [] state = 24 /\ class \in {1, 7, 9}   -> 0
    [] state = 36 /\ class \in {1, 7, 9}   -> 24
    [] state = 48 /\ class = 7             -> 24
    [] state = 60 /\ class \in {1, 9}      -> 24
    [] state = 72 /\ class \in {7, 9}      -> 36
    [] state = 84 /\ class \in {1, 7, 9}   -> 36
    [] state = 96 /\ class = 1             -> 36
    [] OTHER                               -> Reject

(* ws_utf8_valid: Reject has no way out, so the early return needs no case *)
(* of its own.                                                             *)
Utf8Valid(s) ==
  LET state[i \in 0..Len(s)] ==
        IF i = 0 THEN Accept ELSE Transition(state[i - 1], ByteClass(s[i]))
  IN  state[Len(s)] = Accept

=============================================================================
