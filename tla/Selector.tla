------------------------------ MODULE Selector ------------------------------
(***************************************************************************)
(* PromQL vector selectors and the catalog series they pick, as the        *)
(* package promqlextract sees them.  A series is its label set, a function *)
(* from label names to values that has "__name__" in its domain: the       *)
(* canonical text that keys the program's maps determines it.  A selector  *)
(* is what the PromQL parser returns: a name ("" for {...} alone) and a    *)
(* set of matchers.  A matcher holds the set of values its pattern accepts *)
(* and whether it accepts those or all others.                             *)
(***************************************************************************)
EXTENDS FiniteSets

NameLabel == "__name__"

\* Matcher types of the Prometheus parser: =, !=, =~ and !~.
Equal     == "="
NotEqual  == "!="
Regexp    == "=~"
NotRegexp == "!~"

\* A missing label reads as the empty value.
LabelValue(lbls, n) == IF n \in DOMAIN lbls THEN lbls[n] ELSE ""

Accepts(m, v) == (v \in m.values) <=> (m.type \in {Equal, Regexp})

\* The matchers {__name__="..."} of a selector.
NameMatchers(vs) == {m \in vs.matchers : m.label = NameLabel /\ m.type = Equal}

\* The name written before the braces, else that of an equality on __name__,
\* else none.
MetricName(vs) ==
  IF vs.name # "" THEN vs.name
  ELSE IF NameMatchers(vs) = {} THEN ""
  ELSE LET m == CHOOSE m \in NameMatchers(vs) : TRUE
       IN  CHOOSE v \in m.values : TRUE

MatchesSeries(vs, lbls) ==
  /\ MetricName(vs) # ""
  /\ LabelValue(lbls, NameLabel) = MetricName(vs)
  /\ \A m \in vs.matchers : Accepts(m, LabelValue(lbls, m.label))

-----------------------------------------------------------------------------
\* PromQL's own meaning, for reference: every matcher accepts its label's
\* value.  The parser turns a name before the braces into such a matcher.
Selects(vs, lbls) == \A m \in vs.matchers : Accepts(m, LabelValue(lbls, m.label))

\* Selectors as the parser builds them.
Parsed(vs) ==
  /\ \A m \in vs.matchers : m.type \in {Equal, NotEqual} => \E v \in m.values : m.values = {v}
  /\ vs.name # "" =>
       [label |-> NameLabel, type |-> Equal, values |-> {vs.name}] \in vs.matchers
=============================================================================
