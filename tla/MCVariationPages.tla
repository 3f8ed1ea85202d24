-------------------------- MODULE MCVariationPages --------------------------
(* Two days of up to seven rows in pages of two.                            *)
EXTENDS VariationPages

CONSTANTS mon, tue

MCDays == {mon, tue}
=============================================================================
