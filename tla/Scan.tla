-------------------------------- MODULE Scan --------------------------------
(***************************************************************************)
(* scan.Run from the first fetch to the used and unused lists: it reads    *)
(* the dashboards, alerts and SLOs, lists the metric names, runs the       *)
(* series phase (SeriesCatalog, which SeriesFetch implements), correlates  *)
(* the selectors it read with the catalog and partitions the catalog.      *)
(* External is the tenant: the definitions it holds and which request      *)
(* fails.                                                                  *)
(***************************************************************************)
EXTENDS SeriesSource, OtelPlan, Warnings

CONSTANTS
  Definitions,    \* the tenant's dashboards, alerts and SLOs
  KindOf,         \* which of Kinds each of them is
  SelectorsOf,    \* the selectors extracted from each of them
  Identified,     \* the definitions whose "id" is not empty
  Catalogued,     \* the dashboards that the tenant's catalog lists
  Internal        \* the metric names that start with "cx_"

Kinds == {"dashboard", "alert", "slo"}

ASSUME ScanAssumption ==
  /\ KindOf \in [Definitions -> Kinds]
  /\ Identified \subseteq Definitions
  /\ Internal \cap Metrics = {}
  /\ "" \notin Internal
  /\ \A d \in Definitions : \A vs \in SelectorsOf[d] : Parsed(vs)
  /\ \A m \in Metrics : \A s \in SeriesOf[m] : NameLabel \in DOMAIN s /\ s[NameLabel] = m

OfKind(k) == {d \in Definitions : KindOf[d] = k}

CatalogWorks == Catalogued = OfKind("dashboard")

\* "cx dashboards catalog" is broken on some tenants and answers [] there.
ASSUME CatalogAssumption == CatalogWorks \/ (CliMode /\ Catalogued = {})

VARIABLES
  skip,          \* the kinds left out by --skip-dashboards and its siblings
  phase,         \* which part of Run is next
  todo,          \* the definitions the current loop has not visited
  read,          \* the keys of the resources map
  warnings,      \* the warning set
  usage,         \* usageBySeries: the definitions that use each series
  nameless,      \* noMetricName
  absent,        \* metricAbsent
  unmatched,     \* noLabelMatch
  used, unused,  \* the two lists of the report
  catalog, failures, truncatedCount, settled, verdict   \* the series phase

fetchVars == <<catalog, failures, truncatedCount, settled, verdict>>
issues    == <<nameless, absent, unmatched>>
lists     == <<used, unused>>
vars      == <<skip, phase, todo, read, warnings, usage, issues, lists, fetchVars>>

Fetch == INSTANCE SeriesCatalog

\* What the report says about its own coverage.
WarningTexts == {w.text : w \in {List(warnings)[i] : i \in DOMAIN warnings}}
SkippedKindsWarned == {k \in Kinds : <<"skipped", k>> \in WarningTexts}
FailedMetrics == {f.metric : f \in failures}

\* What a failed dashboard fetch ends in: the server refuses, or the
\* connection does.  The first line of the latter's error quotes the URL, and
\* the cx client puts the id first into every error.
Causes == {"refused", "transport"}

FirstLine(d, cause) ==
  IF CliMode \/ cause = "transport" THEN <<cause, d>> ELSE <<cause>>

FetchFailed == "dashboard fetch failed"

Unread == {d \in Definitions : EntriesFor(warnings, FetchFailed, d) # {}}

Init ==
  /\ skip \in SUBSET Kinds
  /\ phase = "dashboards"
  /\ todo = {}
  /\ read = {}
  /\ warnings = <<>>
  /\ usage = <<>>
  /\ nameless = {}
  /\ absent = {}
  /\ unmatched = {}
  /\ used = {}
  /\ unused = {}
  /\ Fetch!Init

Enter(from, to) == phase = from /\ phase' = to

-----------------------------------------------------------------------------
\* Reading the definitions.

SkipDashboards ==
  /\ Enter("dashboards", "alerts")
  /\ "dashboard" \in skip
  /\ warnings' = Add(warnings, <<"skipped", "dashboard">>)
  /\ UNCHANGED <<skip, todo, read, usage, issues, lists, fetchVars>>

ListDashboards ==
  /\ Enter("dashboards", "dashboard")
  /\ "dashboard" \notin skip
  /\ todo' = Catalogued
  /\ UNCHANGED <<skip, read, warnings, usage, issues, lists, fetchVars>>

PassUnidentified(d) ==
  /\ phase = "dashboard"
  /\ d \in todo \ Identified
  /\ todo' = todo \ {d}
  /\ UNCHANGED <<skip, phase, read, warnings, usage, issues, lists, fetchVars>>

ReadDashboard(d) ==
  /\ phase = "dashboard"
  /\ d \in todo \cap Identified
  /\ todo' = todo \ {d}
  /\ read' = read \cup {d}
  /\ UNCHANGED <<skip, phase, warnings, usage, issues, lists, fetchVars>>

\* Fault: the failed fetch leaves no warning.
MissSilently(d) ==
  /\ phase = "dashboard"
  /\ d \in todo \cap Identified
  /\ todo' = todo \ {d}
  /\ UNCHANGED <<skip, phase, read, warnings, usage, issues, lists, fetchVars>>

\* The failed fetch is noted and the loop goes on.
MissDashboard(d) ==
  /\ phase = "dashboard"
  /\ d \in todo \cap Identified
  /\ todo' = todo \ {d}
  /\ \E cause \in Causes :
       warnings' = AddFor(warnings, FetchFailed, "dashboard", d, FirstLine(d, cause))
  /\ UNCHANGED <<skip, phase, read, usage, issues, lists, fetchVars>>

\* Fault: the loop waits until as many were fetched as the catalog lists.
DashboardsCounted ==
  /\ Enter("dashboard", "alerts")
  /\ Cardinality(read \cup Unread) = Cardinality(Catalogued)
  /\ UNCHANGED <<skip, todo, read, warnings, usage, issues, lists, fetchVars>>

DashboardsDone ==
  /\ Enter("dashboard", "alerts")
  /\ todo = {}
  /\ UNCHANGED <<skip, todo, read, warnings, usage, issues, lists, fetchVars>>

WarnSkipped(kind) ==
  warnings' =
    IF kind \notin skip THEN warnings
    ELSE LET ws == Add(warnings, <<"skipped", kind>>)
         IN  IF kind = "slo" /\ skip = Kinds THEN Add(ws, <<"all skipped">>) ELSE ws

\* Alerts, then SLOs: all of them or none, and those without an id are dropped.
ReadAll(kind, from, to) ==
  /\ Enter(from, to)
  /\ read' = IF kind \in skip THEN read ELSE read \cup (OfKind(kind) \cap Identified)
  /\ WarnSkipped(kind)
  /\ UNCHANGED <<skip, todo, usage, issues, lists, fetchVars>>

ReadAlerts == ReadAll("alert", "alerts", "slos")

ReadSLOs == ReadAll("slo", "slos", "names")

\* The metric names arrive; internal ones are left out, which gives Metrics.
ListNames ==
  /\ Enter("names", "series")
  /\ UNCHANGED <<skip, todo, read, warnings, usage, issues, lists, fetchVars>>

\* A request Run cannot do without fails.
FetchAborts ==
  /\ \/ phase = "dashboards" /\ "dashboard" \notin skip
     \/ phase = "alerts" /\ "alert" \notin skip
     \/ phase = "slos" /\ "slo" \notin skip
     \/ phase = "names"
  /\ phase' = "aborted"
  /\ UNCHANGED <<skip, todo, read, warnings, usage, issues, lists, fetchVars>>

-----------------------------------------------------------------------------
\* The series phase, and what follows its verdict.

FetchSeries ==
  /\ phase = "series"
  /\ Fetch!Next
  /\ UNCHANGED <<skip, phase, todo, read, warnings, usage, issues, lists>>

SeriesAbort ==
  /\ Enter("series", "aborted")
  /\ verdict = "abort"
  /\ UNCHANGED <<skip, todo, read, warnings, usage, issues, lists, fetchVars>>

SeriesDone ==
  /\ Enter("series", "correlate")
  /\ verdict = "report"
  /\ todo' = read
  /\ usage' = [s \in catalog |-> {}]
  /\ warnings' = IF failures = {} THEN warnings
                 ELSE Add(warnings, <<"metrics skipped", Cardinality(failures)>>)
  /\ UNCHANGED <<skip, read, issues, lists, fetchVars>>

Candidates(vs) == SeriesNamed(catalog, MetricName(vs))

\* The selectors of d by what the loop does with them.
Nameless(d)  == {vs \in SelectorsOf[d] : MetricName(vs) = ""}
Looked(d)    == {vs \in SelectorsOf[d] : MetricName(vs) \notin Internal \cup {""}}
Absent(d)    == {vs \in Looked(d) : Candidates(vs) = {}}
Matched(d)   == {vs \in Looked(d) : \E s \in Candidates(vs) : MatchesSeries(vs, s)}
\* Fault: a selector whose metric is absent falls through to the match loop.
UnmatchedOrAbsent(d) == Looked(d) \ Matched(d)

Unmatched(d) == Looked(d) \ (Absent(d) \cup Matched(d))

\* Fault: a series' usage starts afresh for each resource.
CorrelateAfresh(d) ==
  /\ phase = "correlate"
  /\ d \in todo
  /\ todo' = todo \ {d}
  /\ usage' = [s \in catalog |->
                 IF \E vs \in Looked(d) : s \in Candidates(vs) /\ MatchesSeries(vs, s)
                   THEN {d}
                   ELSE usage[s]]
  /\ nameless' = nameless \cup ({d} \X Nameless(d))
  /\ absent' = absent \cup ({d} \X Absent(d))
  /\ unmatched' = unmatched \cup ({d} \X Unmatched(d))
  /\ UNCHANGED <<skip, phase, read, warnings, lists, fetchVars>>

\* One resource of the map, whose order is random.
Correlate(d) ==
  /\ phase = "correlate"
  /\ d \in todo
  /\ todo' = todo \ {d}
  /\ usage' = [s \in catalog |->
                 IF \E vs \in Looked(d) : s \in Candidates(vs) /\ MatchesSeries(vs, s)
                   THEN usage[s] \cup {d}
                   ELSE usage[s]]
  /\ nameless' = nameless \cup ({d} \X Nameless(d))
  /\ absent' = absent \cup ({d} \X Absent(d))
  /\ unmatched' = unmatched \cup ({d} \X Unmatched(d))
  /\ UNCHANGED <<skip, phase, read, warnings, lists, fetchVars>>

Classify ==
  /\ Enter("correlate", "done")
  /\ todo = {}
  /\ used' = {s \in catalog : usage[s] # {}}
  /\ unused' = {s \in catalog : usage[s] = {}}
  /\ UNCHANGED <<skip, todo, read, warnings, usage, issues, fetchVars>>

Advance ==
  \/ SkipDashboards \/ ListDashboards \/ DashboardsDone
  \/ \E d \in Definitions :
       PassUnidentified(d) \/ ReadDashboard(d) \/ MissDashboard(d) \/ Correlate(d)
  \/ ReadAlerts \/ ReadSLOs \/ ListNames \/ FetchAborts
  \/ FetchSeries \/ SeriesAbort \/ SeriesDone
  \/ Classify

Over == phase \in {"done", "aborted"} /\ UNCHANGED vars

Next == Advance \/ Over

Spec == Init /\ [][Next]_vars

\* Each request is bounded by a timeout and Run goes on after each of its
\* steps; the series phase ends (SeriesFetch, Terminates).
FairSpec == Spec /\ WF_vars(Advance)

-----------------------------------------------------------------------------
Done == phase = "done"

Drops  == DropMetricNames(used, unused)
Strips == StripStatements(used, unused)

\* No definition of the set makes the report wrong in silence: a series that
\* it selects is called unused only when the report says why that could be
\* wrong.  The kind was skipped, the dashboard could not be fetched, or the
\* selector has no metric name.
Explains(D) ==
  \A s \in unused : \A d \in D : \A vs \in SelectorsOf[d] :
    Selects(vs, s) => \/ KindOf[d] \in SkippedKindsWarned
                      \/ d \in Unread
                      \/ <<d, vs>> \in nameless

\* client.go: dropping a definition "would silently promote a used metric to
\* unused, the one answer the tool must not get wrong".  Here, none of the
\* tenant's definitions is dropped silently.
FalseUnusedIsExplained == Done => Explains(Identified)

\* A series is called used only for a selector that selects it, and its
\* usage names exactly the definitions that do, whatever the loop's order.
UsageIsExact ==
  Done =>
    /\ used \cup unused = catalog
    /\ \A s \in catalog :
         usage[s] = {d \in read : \E vs \in SelectorsOf[d] :
                       MetricName(vs) # "" /\ Selects(vs, s)}
    /\ \A s \in used : usage[s] # {}

\* README, "series_fetch_failures": a metric whose series could not be read is
\* in neither list and in no processor of the fragment.
UnknownIsNotUnused ==
  Done =>
    \A m \in FailedMetrics :
      /\ SeriesNamed(used \cup unused, m) = {}
      /\ m \notin Drops
      /\ \A st \in Strips : st.metric # m

\* The metrics the server could answer for in full.
Complete == {m \in Metrics : RowSets(m) = {SeriesOf[m]}}

\* Dropping a metric takes no series from a query the scan read and named,
\* also none that another scan would have found.
DropsAreSafe ==
  Done =>
    \A m \in Drops \cap Complete :
      \A s \in SeriesOf[m] : \A d \in read : \A vs \in SelectorsOf[d] :
        Selects(vs, s) => <<d, vs>> \in nameless

\* Of a metric the server could answer for in full, a stripped label is on no
\* series that a query the scan read and named selects, so those series keep
\* their identity.
StripsKeepUsedSeries ==
  Done =>
    \A st \in Strips : st.metric \in Complete =>
      \A s \in SeriesOf[st.metric] : st.key \in DOMAIN s =>
        \A d \in read : \A vs \in SelectorsOf[d] :
          Selects(vs, s) => <<d, vs>> \in nameless

\* Every selector that was read is accounted for once: it is internal, in one
\* of the three issue lists, or behind a used series.
SelectorsAccounted ==
  Done =>
    \A d \in read : \A vs \in SelectorsOf[d] :
      LET fates == <<MetricName(vs) \in Internal, <<d, vs>> \in nameless,
                     <<d, vs>> \in absent, <<d, vs>> \in unmatched,
                     \E s \in used : MatchesSeries(vs, s)>>
      IN  Cardinality({i \in 1..5 : fates[i]}) = 1

\* What was skipped, by choice or for lack of series, is said; each of the
\* dashboards D that could not be read is counted by exactly one entry, and no
\* entry counts another.
Accounts(D) ==
  /\ SkippedKindsWarned = skip
  /\ FailedMetrics # {} <=>
       <<"metrics skipped", Cardinality(FailedMetrics)>> \in WarningTexts
  /\ Unread = IF "dashboard" \in skip THEN {} ELSE (D \cap Identified) \ read
  /\ \A d \in Unread : Cardinality(EntriesFor(warnings, FetchFailed, d)) = 1
  /\ \A i \in DOMAIN warnings :
       LET w == List(warnings)[i]
       IN  w.named + w.more = Cardinality({d \in Unread :
                                             i \in EntriesFor(warnings, FetchFailed, d)})

\* The warnings of a report account for every gap in what Run read, down to
\* each of the tenant's dashboards.
GapsAreWarned == Done => Accounts(OfKind("dashboard"))

\* Whatever fails, the scan comes to a report or an error.
ScanEnds == <>(phase \in {"done", "aborted"})
=============================================================================
