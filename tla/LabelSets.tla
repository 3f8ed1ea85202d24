------------------------------ MODULE LabelSets ------------------------------
(***************************************************************************)
(* The label names and values that the goroutines of the series phase have *)
(* decoded: the strings each of them wants to intern.                      *)
(***************************************************************************)
CONSTANTS
  Workers,    \* the goroutines of the series phase
  Strings,    \* the non-empty names and values
  Wanted,     \* what each goroutine's series consist of
  None

ASSUME LabelAssumption ==
  /\ Wanted \in [Workers -> SUBSET Strings]
  /\ None \notin Workers
=============================================================================
