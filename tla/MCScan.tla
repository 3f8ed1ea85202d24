------------------------------- MODULE MCScan -------------------------------
(* A tenant with one selector of each kind Run tells apart.                 *)
EXTENDS ScanBodies, Presentation, TLC

CONSTANTS panel, board, draft, alarm, target, stray

Label(n, v) == n :> v
Lbls(m, more) == (NameLabel :> m) @@ more

Match(n, t, vs) == [label |-> n, type |-> t, values |-> vs]

\* name{matchers}, as the parser returns it
Named(m, ms) ==
  [name |-> m, matchers |-> ms \cup {Match(NameLabel, Equal, {m})}]

Braces(ms) == [name |-> "", matchers |-> ms]

MCMetrics == {"up", "http", "bulk"}

\* http fills the limit of two exactly, bulk exceeds it.
MCSeriesOf ==
  [m \in MCMetrics |->
     CASE m = "up"   -> {Lbls("up", Label("job", "a"))}
       [] m = "http" -> {Lbls("http", Label("job", "a")),
                         Lbls("http", Label("job", "b") @@ Label("code", "200"))}
       [] m = "bulk" -> {Lbls("bulk", Label("shard", i)) : i \in {"1", "2", "3"}}]

MCDefinitions == {panel, board, draft, alarm, target, stray}

MCKindOf ==
  [d \in MCDefinitions |->
     CASE d \in {panel, board, draft} -> "dashboard"
       [] d = alarm -> "alert"
       [] d \in {target, stray} -> "slo"]

MCIdentified == MCDefinitions \ {draft, stray}

Query(sels) == StringOf([length |-> 9, bracketed |-> TRUE, parses |-> TRUE, selectors |-> sels])
Bare(m) == StringOf([length |-> 9, bracketed |-> FALSE, parses |-> TRUE, selectors |-> {Named(m, {})}])
Templated(sels) == StringOf([length |-> 9, bracketed |-> TRUE, parses |-> FALSE, selectors |-> sels])
Title == StringOf([length |-> 2, bracketed |-> FALSE, parses |-> FALSE, selectors |-> {}])

\* Queries at several depths, one of them a bare name, one with a variable.
MCBodyOf ==
  [d \in MCDefinitions |->
     CASE d = panel  -> ObjectOf(<<Title, ArrayOf(<<
                          ObjectOf(<<Query({Named("http", {Match("code", Equal, {""})})})>>),
                          ObjectOf(<<Scalar, Query({Named("cx_usage", {})})>>)>>)>>)
       [] d = board  -> ArrayOf(<<
                          Query({Braces({Match(NameLabel, Regexp, {"up", "http"})})}),
                          Bare("bulk"),
                          Templated({Named("up", {})})>>)
       [] d = draft  -> Query({Named("up", {})})
       [] d = stray  -> Query({Named("up", {})})
       [] d = alarm  -> ObjectOf(<<Scalar, ArrayOf(<<
                          Query({Braces({Match(NameLabel, Equal, {"up"}),
                                         Match("job", NotEqual, {"b"})}),
                                 Named("gone", {})}),
                          Query({Named("http", {Match("job", Equal, {"z"})})})>>)>>)
       [] d = target -> ObjectOf(<<
                          Query({Named("http", {Match("job", NotRegexp, {"b", "c"})})}),
                          ObjectOf(<<Query({Named("bulk", {Match("shard", Regexp, {"1", "2"})})})>>)>>)]

\* The bodies with all that is inside them, four levels down at most.
MCValues ==
  LET bodies == {MCBodyOf[d] : d \in MCDefinitions}
      level[n \in 0..4] == IF n = 0 THEN bodies ELSE level[n - 1] \cup Inside(level[n - 1])
  IN  level[4]

RECURSIVE Depth(_)

\* At least as much as each item and one more.
Depth(v) ==
  IF Inside({v}) = {} THEN 0 ELSE 1 + Max({Depth(x) : x \in Inside({v})})

MCDepthOf == [v \in MCValues |-> Depth(v)]

MCSelectorsOf == [d \in MCDefinitions |-> ExtractFromJSON(MCBodyOf[d])]

MCDashboards == {panel, board, draft}

MCInternal == {"cx_usage"}
=============================================================================
