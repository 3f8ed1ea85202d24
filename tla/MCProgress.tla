----------------------------- MODULE MCProgress -----------------------------
(* Three goroutines whose series share label names and some values, and a   *)
(* bar so coarse that two counts have the same percentage.                  *)
EXTENDS Progress

CONSTANTS w1, w2, w3, job, code

MCWorkers == {w1, w2, w3}
MCStrings == {job, code}
MCWanted == [w \in MCWorkers |-> IF w = w3 THEN {job} ELSE MCStrings]
=============================================================================
