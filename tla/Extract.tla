------------------------------ MODULE Extract -------------------------------
(***************************************************************************)
(* ExtractFromJSON: which strings of a definition's JSON are read as       *)
(* PromQL.  A JSON value is a record with a "kind"; an object is the       *)
(* sequence of its members' values, its keys are never read.  A text is    *)
(* what the walk and the parser can tell of it: its length, whether it     *)
(* holds one of {}()[], whether PromQL parses it, and the selectors it     *)
(* would have a PromQL server evaluate.                                    *)
(***************************************************************************)
EXTENDS Integers, Sequences

CONSTANTS
  Values,     \* the JSON values of the tenant, with all that is inside them
  DepthOf     \* how deep each of them is

MaxDepth == 10000   \* deeper than this encoding/json reads no value

\* What is inside a value is less deep.
ASSUME ValueAssumption ==
  /\ DepthOf \in [Values -> 0..MaxDepth]
  /\ \A v \in Values : v.kind \in {"object", "array"} =>
       \A i \in DOMAIN v.items :
         v.items[i] \in Values /\ DepthOf[v.items[i]] < DepthOf[v]

StringOf(t) == [kind |-> "string", text |-> t]
ObjectOf(vs) == [kind |-> "object", items |-> vs]
ArrayOf(vs) == [kind |-> "array", items |-> vs]
Scalar == [kind |-> "scalar"]       \* a number, a truth value or null

\* The parser's selectors; a text it rejects has none, without a trace.
ExtractFromPromQL(t) == IF t.parses THEN t.selectors ELSE {}

IsCandidate(t) == t.length >= 3 /\ t.bracketed

\* Fault: the values of an array are not descended into.
ExtractSkippingArrays(v) ==
  LET walk[x \in Values] ==
        IF x.kind = "object" THEN UNION {walk[x.items[i]] : i \in DOMAIN x.items}
        ELSE IF x.kind = "string" /\ IsCandidate(x.text) THEN ExtractFromPromQL(x.text)
        ELSE {}
  IN  walk[v]

ExtractFromJSON(v) ==
  LET walk[x \in Values] ==
        IF x.kind \in {"object", "array"} THEN UNION {walk[x.items[i]] : i \in DOMAIN x.items}
        ELSE IF x.kind = "string" /\ IsCandidate(x.text) THEN ExtractFromPromQL(x.text)
        ELSE {}
  IN  walk[v]

-----------------------------------------------------------------------------
\* For reference: everything inside a value, found level by level.
Inside(vs) ==
  UNION {{v.items[i] : i \in DOMAIN v.items} :
           v \in {v \in vs : v.kind \in {"object", "array"}}}

TextsIn(v) ==
  LET within[n \in 0..DepthOf[v]] ==
        IF n = 0 THEN {v} ELSE within[n - 1] \cup Inside(within[n - 1])
  IN  {x.text : x \in {x \in within[DepthOf[v]] : x.kind = "string"}}
=============================================================================
