---------------------------- MODULE MCDefinitions ----------------------------
(* Three alerts, three attempts (the least with two different pauses), and  *)
(* pages of two.                                                            *)
EXTENDS Definitions

MCIds == <<"a", "b", "c">>
=============================================================================
