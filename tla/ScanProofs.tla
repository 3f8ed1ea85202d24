----------------------------- MODULE ScanProofs -----------------------------
(***************************************************************************)
(* What the lists of a report mean, for every tenant: any definitions,     *)
(* selectors and series, any failures.  The catalog holds series of        *)
(* answered metrics only (Fetched); the loop over the resources leaves in  *)
(* usage and in the issue lists exactly what the resources it has visited  *)
(* say of the catalog (Correlated); what was not read is in the warnings,  *)
(* once (Reading, Warned), and what was cut is counted (CutsCounted).  The *)
(* rest follows, up to the PDF and down to the strings of the JSON.        *)
(***************************************************************************)
EXTENDS Presentation, ScanBodies, Sums

\* A selector of the definition has a metric name and selects the series.
Uses(d, s) == \E vs \in SelectorsOf[d] : MetricName(vs) # "" /\ Selects(vs, s)

\* What is in the catalog came with a metric that is settled and has not
\* failed, and an answered metric is there as far as its answer went.
Fetched ==
  /\ settled \subseteq Metrics
  /\ FailedMetrics \subseteq settled
  /\ \A s \in catalog : \E m \in settled \ FailedMetrics : s \in SeriesOf[m]
  /\ \A m \in settled \ FailedMetrics : \E rows \in RowSets(m) : rows \subseteq catalog
  /\ verdict = "report" => settled = Metrics

\* What the resources visited so far have left behind.
UsageSoFar ==
  /\ DOMAIN usage = catalog
  /\ \A s \in catalog : usage[s] = {d \in read \ todo : Uses(d, s)}

IssuesSoFar ==
  \A d \in read : \A vs \in SelectorsOf[d] :
    /\ <<d, vs>> \in nameless <=> d \notin todo /\ vs \in Nameless(d)
    /\ <<d, vs>> \in absent <=> d \notin todo /\ vs \in Absent(d)
    /\ <<d, vs>> \in unmatched <=> d \notin todo /\ vs \in Unmatched(d)

NoIssues == nameless = {} /\ absent = {} /\ unmatched = {}

Partitioned ==
  /\ todo = {}
  /\ used = {s \in catalog : usage[s] # {}}
  /\ unused = {s \in catalog : usage[s] = {}}

Correlated ==
  /\ read \subseteq Identified
  /\ phase \notin {"correlate", "done"} => NoIssues
  /\ phase \in {"correlate", "done"} =>
       verdict = "report" /\ todo \subseteq read /\ UsageSoFar /\ IssuesSoFar
  /\ phase = "done" => Partitioned

-----------------------------------------------------------------------------
\* The matchers of a selector that has a metric name pin that name, wherever
\* the program took it from.
LEMMA NamePinned ==
  ASSUME NEW vs, Parsed(vs), MetricName(vs) # "", NEW s, Selects(vs, s)
  PROVE  LabelValue(s, NameLabel) = MetricName(vs)
<1>1. CASE vs.name # ""
  <2>1. [label |-> NameLabel, type |-> Equal, values |-> {vs.name}] \in vs.matchers
    BY <1>1 DEF Parsed
  <2>2. Accepts([label |-> NameLabel, type |-> Equal, values |-> {vs.name}], LabelValue(s, NameLabel))
    BY <2>1 DEF Selects
  <2> QED
    BY <1>1, <2>2 DEF Accepts, MetricName, Equal
<1>2. CASE vs.name = ""
  <2>1. NameMatchers(vs) # {}
    BY <1>2 DEF MetricName
  <2> DEFINE m == CHOOSE m \in NameMatchers(vs) : TRUE
  <2>2. m \in vs.matchers /\ m.label = NameLabel /\ m.type = Equal
    BY <2>1 DEF NameMatchers
  <2>3. PICK v \in m.values : m.values = {v}
    BY <2>2 DEF Parsed
  <2>4. MetricName(vs) = v
    BY <1>2, <2>1, <2>3 DEF MetricName
  <2>5. LabelValue(s, NameLabel) \in m.values
    BY <2>2 DEF Selects, Accepts, Equal
  <2> QED
    BY <2>3, <2>4, <2>5
<1> QED
  BY <1>1, <1>2

\* So MatchesSeries is PromQL's own meaning for selectors with a name.
LEMMA MatchIsSelect ==
  ASSUME NEW vs, Parsed(vs), NEW s
  PROVE  MatchesSeries(vs, s) <=> MetricName(vs) # "" /\ Selects(vs, s)
  BY NamePinned DEF MatchesSeries, Selects

\* A series of a metric carries the metric's name.
LEMMA SeriesAreNamed ==
  \A m \in Metrics : \A s \in SeriesOf[m] : LabelValue(s, NameLabel) = m
  BY ScanAssumption DEF LabelValue

\* An answer holds series of its own metric.
LEMMA RowsAreSeries == \A m \in Metrics : \A rows \in RowSets(m) : rows \subseteq SeriesOf[m]
  BY DEF RowSets

\* What is in the catalog belongs to the metric it is named after.
LEMMA CatalogIsNamed ==
  ASSUME Fetched, NEW s \in catalog
  PROVE  LabelValue(s, NameLabel) \in Metrics \ FailedMetrics /\ s \in SeriesOf[LabelValue(s, NameLabel)]
  BY SeriesAreNamed DEF Fetched

\* The loop looks among the series of the selector's name, and leaves out
\* internal names; that loses nothing of the catalog.
LEMMA LookedUpIsUse ==
  ASSUME Fetched, NEW d \in Definitions, NEW s \in catalog
  PROVE  (\E vs \in Looked(d) : s \in Candidates(vs) /\ MatchesSeries(vs, s)) <=> Uses(d, s)
<1>1. LabelValue(s, NameLabel) \notin Internal
  BY CatalogIsNamed, ScanAssumption
<1>2. \A vs \in SelectorsOf[d] : MatchesSeries(vs, s) <=> MetricName(vs) # "" /\ Selects(vs, s)
  BY MatchIsSelect, ScanAssumption
<1>3. \A vs \in SelectorsOf[d] :
        MatchesSeries(vs, s) => LabelValue(s, NameLabel) = MetricName(vs) /\ vs \in Looked(d)
  BY <1>1 DEF MatchesSeries, Looked
<1>4. \A vs \in SelectorsOf[d] : MatchesSeries(vs, s) => s \in Candidates(vs)
  BY <1>3 DEF Candidates, SeriesNamed
<1> QED
  BY <1>2, <1>3, <1>4 DEF Uses, Looked

-----------------------------------------------------------------------------
\* The instance of the series phase counts as this module does.
LEMMA SameCardinality == \A S : Fetch!Cardinality(S) = Cardinality(S)
  BY DEF Fetch!Cardinality, Cardinality

\* The steps of the series phase.
LEMMA FetchStep == Fetched /\ Fetch!Next => Fetched'
<1> SUFFICES ASSUME Fetched, Fetch!Next PROVE Fetched'
  OBVIOUS
<1>1. ASSUME NEW m \in Metrics, Fetch!Absorb(m) PROVE Fetched'
  <2>1. PICK rows \in RowSets(m) : catalog' = catalog \cup rows
    BY <1>1, SameCardinality DEF Fetch!Absorb, Fetch!RowSets, RowSets
  <2>2. settled' = settled \cup {m} /\ FailedMetrics' = FailedMetrics /\ m \notin settled /\ verdict' = "pending"
    BY <1>1 DEF Fetch!Absorb, FailedMetrics
  <2>3. rows \subseteq SeriesOf[m] /\ m \notin FailedMetrics
    BY <2>2, RowsAreSeries DEF Fetched
  <2>4. \A n \in Metrics : RowSets(n)' = RowSets(n)
    BY DEF RowSets
  <2>5. \A s \in catalog' : \E n \in (settled \ FailedMetrics)' : s \in SeriesOf[n]
    BY <2>1, <2>2, <2>3 DEF Fetched
  <2>6. \A n \in (settled \ FailedMetrics)' : \E r \in RowSets(n) : r \subseteq catalog'
    BY <2>1, <2>2 DEF Fetched
  <2> QED
    BY <2>2, <2>4, <2>5, <2>6 DEF Fetched
<1>2. ASSUME NEW m \in Metrics, Fetch!Fail(m) PROVE Fetched'
  <2>1. /\ settled' = settled \cup {m} /\ m \notin settled
        /\ catalog' = catalog /\ verdict' = "pending"
    BY <1>2 DEF Fetch!Fail
  <2>0. PICK c \in Fetch!Categories : failures' = failures \cup {[metric |-> m, category |-> c]}
    BY <1>2 DEF Fetch!Fail
  <2>2. FailedMetrics' = FailedMetrics \cup {m}
    <3> DEFINE f == [metric |-> m, category |-> c]
    <3>1. f.metric = m
      OBVIOUS
    <3> HIDE DEF f
    <3> QED
      BY <2>0, <3>1, Zenon DEF FailedMetrics, f
  <2>3. \A n \in Metrics : RowSets(n)' = RowSets(n)
    BY DEF RowSets
  <2>4. (settled \ FailedMetrics)' = settled \ FailedMetrics
    BY <2>1, <2>2 DEF Fetched
  <2> QED
    BY <2>1, <2>2, <2>3, <2>4 DEF Fetched
<1>3. ASSUME Fetch!Report \/ Fetch!Abort PROVE Fetched'
  <2>1. /\ settled' = settled /\ catalog' = catalog /\ FailedMetrics' = FailedMetrics
        /\ verdict' = "report" => settled = Metrics
    BY <1>3 DEF Fetch!Report, Fetch!Abort, FailedMetrics
  <2>2. \A n \in Metrics : RowSets(n)' = RowSets(n)
    BY DEF RowSets
  <2> QED
    BY <2>1, <2>2 DEF Fetched
<1> QED
  BY <1>1, <1>2, <1>3 DEF Fetch!Next

\* Outside of it nothing of the series phase changes.
LEMMA FetchedStays == Fetched /\ UNCHANGED fetchVars => Fetched'
<1> SUFFICES ASSUME Fetched, UNCHANGED fetchVars PROVE Fetched'
  OBVIOUS
<1>1. FailedMetrics' = FailedMetrics /\ \A n \in Metrics : RowSets(n)' = RowSets(n)
  BY DEF fetchVars, FailedMetrics, RowSets
<1> QED
  BY <1>1 DEF fetchVars, Fetched

\* What the loop says of a resource depends on the catalog only.
LEMMA FatesStay ==
  ASSUME catalog' = catalog
  PROVE  \A d \in Definitions : /\ Nameless(d)' = Nameless(d)
                                /\ Absent(d)' = Absent(d)
                                /\ Unmatched(d)' = Unmatched(d)
  BY DEF Nameless, Absent, Unmatched, Looked, Matched, Candidates, SeriesNamed

\* Before the correlation.
LEMMA EarlyStep ==
  ASSUME Correlated, phase \notin {"correlate", "done"}, phase' \notin {"correlate", "done"},
         UNCHANGED issues, read' \subseteq Identified
  PROVE  Correlated'
  BY DEF Correlated, NoIssues, issues

\* The correlation starts from a catalog nothing has been counted in.
LEMMA SeriesDoneStep == Correlated /\ Fetched /\ SeriesDone => Correlated'
<1> SUFFICES ASSUME Correlated, Fetched, SeriesDone PROVE Correlated'
  OBVIOUS
<1>1. /\ phase = "series" /\ phase' = "correlate" /\ verdict = "report" /\ todo' = read
      /\ usage' = [s \in catalog |-> {}]
      /\ read' = read /\ catalog' = catalog /\ verdict' = verdict
      /\ nameless' = nameless /\ absent' = absent /\ unmatched' = unmatched
  BY DEF SeriesDone, Enter, fetchVars, issues
<1>2. NoIssues'
  BY <1>1 DEF Correlated, NoIssues
<1>3. UsageSoFar' /\ IssuesSoFar'
  BY <1>1, <1>2 DEF UsageSoFar, IssuesSoFar, NoIssues
<1> QED
  BY <1>1, <1>3 DEF Correlated

\* One resource: the usage and the issues it adds, and no others.
LEMMA CorrelateStep ==
  ASSUME Correlated, Fetched, NEW d \in Definitions, Correlate(d)
  PROVE  Correlated'
<1>1. /\ phase = "correlate" /\ phase' = phase /\ d \in todo /\ todo' = todo \ {d}
      /\ read' = read /\ catalog' = catalog /\ verdict' = verdict
      /\ nameless' = nameless \cup ({d} \X Nameless(d))
      /\ absent' = absent \cup ({d} \X Absent(d))
      /\ unmatched' = unmatched \cup ({d} \X Unmatched(d))
  BY DEF Correlate, fetchVars
<1>2. usage' = [s \in catalog |-> IF Uses(d, s) THEN usage[s] \cup {d} ELSE usage[s]]
  BY LookedUpIsUse DEF Correlate
<1>3. d \in read /\ read \ todo' = (read \ todo) \cup {d}
  BY <1>1 DEF Correlated
<1>4. UsageSoFar /\ IssuesSoFar /\ verdict = "report" /\ todo' \subseteq read /\ read \subseteq Identified
  BY <1>1 DEF Correlated
<1>5. UsageSoFar'
  BY <1>1, <1>2, <1>3, <1>4 DEF UsageSoFar
<1>6. \A e \in read : Nameless(e)' = Nameless(e) /\ Absent(e)' = Absent(e) /\ Unmatched(e)' = Unmatched(e)
  BY <1>1, <1>4, FatesStay, ScanAssumption
<1>7. \A e \in read : \A vs \in SelectorsOf[e] :
        /\ <<e, vs>> \in nameless' <=> e \notin todo' /\ vs \in Nameless(e)
        /\ <<e, vs>> \in absent' <=> e \notin todo' /\ vs \in Absent(e)
        /\ <<e, vs>> \in unmatched' <=> e \notin todo' /\ vs \in Unmatched(e)
  BY <1>1, <1>4 DEF IssuesSoFar
<1>8. IssuesSoFar'
  <2> SUFFICES ASSUME NEW e \in read, NEW vs \in SelectorsOf[e]
               PROVE  /\ <<e, vs>> \in nameless' <=> e \notin todo' /\ vs \in Nameless(e)'
                      /\ <<e, vs>> \in absent' <=> e \notin todo' /\ vs \in Absent(e)'
                      /\ <<e, vs>> \in unmatched' <=> e \notin todo' /\ vs \in Unmatched(e)'
    BY <1>1 DEF IssuesSoFar
  <2> QED
    BY <1>6, <1>7
<1> QED
  BY <1>1, <1>4, <1>5, <1>8 DEF Correlated

\* When no resource is left, used and unused are what usage says.
LEMMA ClassifyStep == Correlated /\ Classify => Correlated'
<1> SUFFICES ASSUME Correlated, Classify PROVE Correlated'
  OBVIOUS
<1>1. /\ phase = "correlate" /\ phase' = "done" /\ todo = {} /\ todo' = todo
      /\ used' = {s \in catalog : usage[s] # {}}
      /\ unused' = {s \in catalog : usage[s] = {}}
      /\ read' = read /\ catalog' = catalog /\ verdict' = verdict /\ usage' = usage
      /\ nameless' = nameless /\ absent' = absent /\ unmatched' = unmatched
  BY DEF Classify, Enter, fetchVars, issues
<1>2. UsageSoFar' /\ Partitioned'
  BY <1>1 DEF Correlated, UsageSoFar, Partitioned
<1>3. \A e \in read : Nameless(e)' = Nameless(e) /\ Absent(e)' = Absent(e) /\ Unmatched(e)' = Unmatched(e)
  BY <1>1, FatesStay, ScanAssumption DEF Correlated
<1>4. IssuesSoFar'
  BY <1>1, <1>3 DEF Correlated, IssuesSoFar
<1> QED
  BY <1>1, <1>2, <1>4 DEF Correlated

\* Every step of the scan keeps the catalog and the correlation in order,
LEMMA ScanStep == Fetched /\ Correlated /\ [Next]_vars => Fetched' /\ Correlated'
<1> SUFFICES ASSUME Fetched, Correlated, [Next]_vars PROVE Fetched' /\ Correlated'
  OBVIOUS
<1> USE DEF Enter
<1>1. CASE SkipDashboards \/ ListDashboards \/ DashboardsDone \/ ListNames \/ FetchAborts \/ SeriesAbort
  <2>1. /\ phase \notin {"correlate", "done"} /\ phase' \notin {"correlate", "done"}
        /\ UNCHANGED issues /\ UNCHANGED fetchVars /\ read' = read
    BY <1>1 DEF SkipDashboards, ListDashboards, DashboardsDone, ListNames, FetchAborts, SeriesAbort
  <2> QED
    BY <2>1, EarlyStep, FetchedStays DEF Correlated
<1>2. ASSUME NEW d \in Definitions, PassUnidentified(d) \/ ReadDashboard(d) \/ MissDashboard(d)
      PROVE  Fetched' /\ Correlated'
  <2>1. phase = "dashboard" /\ phase' = phase /\ UNCHANGED issues /\ UNCHANGED fetchVars
    BY <1>2 DEF PassUnidentified, ReadDashboard, MissDashboard
  <2>2. read' = read \/ (d \in Identified /\ read' = read \cup {d})
    BY <1>2 DEF PassUnidentified, ReadDashboard, MissDashboard
  <2> QED
    BY <2>1, <2>2, EarlyStep, FetchedStays DEF Correlated
<1>3. CASE ReadAlerts \/ ReadSLOs
  <2>1. /\ phase \notin {"correlate", "done"} /\ phase' \notin {"correlate", "done"}
        /\ UNCHANGED issues /\ UNCHANGED fetchVars
        /\ \E k \in Kinds : read' = IF k \in skip THEN read ELSE read \cup (OfKind(k) \cap Identified)
    BY <1>3 DEF ReadAlerts, ReadSLOs, ReadAll, Kinds
  <2> QED
    BY <2>1, EarlyStep, FetchedStays DEF Correlated
<1>4. CASE FetchSeries
  <2>1. phase = "series" /\ phase' = phase /\ UNCHANGED issues /\ read' = read
    BY <1>4 DEF FetchSeries
  <2> QED
    BY <1>4, <2>1, EarlyStep, FetchStep DEF Correlated, FetchSeries
<1>5. CASE SeriesDone
  BY <1>5, SeriesDoneStep, FetchedStays DEF SeriesDone
<1>6. ASSUME NEW d \in Definitions, Correlate(d) PROVE Fetched' /\ Correlated'
  BY <1>6, CorrelateStep, FetchedStays DEF Correlate
<1>7. CASE Classify
  BY <1>7, ClassifyStep, FetchedStays DEF Classify
<1>8. CASE UNCHANGED vars
  <2>1. \A d \in read : Nameless(d)' = Nameless(d) /\ Absent(d)' = Absent(d) /\ Unmatched(d)' = Unmatched(d)
    BY <1>8, FatesStay, ScanAssumption DEF Correlated, vars, fetchVars
  <2>2. NoIssues' = NoIssues /\ UsageSoFar' = UsageSoFar /\ Partitioned' = Partitioned
    BY <1>8 DEF vars, issues, lists, fetchVars, NoIssues, UsageSoFar, Partitioned
  <2>3. IssuesSoFar' <=> IssuesSoFar
    BY <1>8, <2>1 DEF vars, issues, IssuesSoFar
  <2> QED
    BY <1>8, <2>2, <2>3, FetchedStays DEF vars, fetchVars, Correlated
<1> QED
  BY <1>1, <1>2, <1>3, <1>4, <1>5, <1>6, <1>7, <1>8 DEF Next, Advance, Over

\* so they are in order at all times.
LEMMA ScanHolds == Spec => [](Fetched /\ Correlated)
<1>1. Init => Fetched /\ Correlated
  BY DEF Init, Fetch!Init, Fetched, FailedMetrics, Correlated, NoIssues
<1> QED
  BY <1>1, ScanStep, PTL DEF Spec

\* The scan leaves the results of the series phase alone, before it and after
\* it: its behaviours, seen through them, are behaviours of SeriesCatalog, which
\* SeriesFetch implements.
THEOREM PhaseIsCatalog == Spec => Fetch!Spec
<1>1. Init => Fetch!Init
  BY DEF Init
<1>2. ASSUME [Next]_vars PROVE [Fetch!Next]_fetchVars
  <2>1. CASE FetchSeries
    BY <2>1 DEF FetchSeries
  <2>2. CASE \/ SkipDashboards \/ ListDashboards \/ DashboardsDone \/ ReadAlerts \/ ReadSLOs
             \/ ListNames \/ FetchAborts \/ SeriesAbort \/ SeriesDone \/ Classify
    BY <2>2 DEF SkipDashboards, ListDashboards, DashboardsDone, ReadAlerts, ReadSLOs, ReadAll,
                ListNames, FetchAborts, SeriesAbort, SeriesDone, Classify
  <2>3. ASSUME NEW d \in Definitions,
               PassUnidentified(d) \/ ReadDashboard(d) \/ MissDashboard(d) \/ Correlate(d)
        PROVE  UNCHANGED fetchVars
    BY <2>3 DEF PassUnidentified, ReadDashboard, MissDashboard, Correlate
  <2>4. CASE UNCHANGED vars
    BY <2>4 DEF vars
  <2> QED
    BY <1>2, <2>1, <2>2, <2>3, <2>4 DEF Next, Advance, Over
<1> QED
  BY <1>1, <1>2, PTL DEF Spec, Fetch!Spec, Fetch!vars, fetchVars

-----------------------------------------------------------------------------
Scanned == Fetched /\ Correlated /\ Done

\* A finished scan, in the terms of the properties.
LEMMA DoneMeans ==
  ASSUME Scanned
  PROVE  /\ used \cup unused = catalog
         /\ read \subseteq Definitions
         /\ \A s \in catalog : usage[s] = {d \in read : Uses(d, s)}
         /\ \A s \in catalog : s \in used <=> \E d \in read : Uses(d, s)
         /\ \A s \in catalog : s \in unused <=> s \notin used
         /\ \A d \in read : \A vs \in SelectorsOf[d] :
              /\ <<d, vs>> \in nameless <=> vs \in Nameless(d)
              /\ <<d, vs>> \in absent <=> vs \in Absent(d)
              /\ <<d, vs>> \in unmatched <=> vs \in Unmatched(d)
<1> USE DEF Scanned, Correlated, Done, Partitioned
<1>1. todo = {} /\ used = {s \in catalog : usage[s] # {}} /\ unused = {s \in catalog : usage[s] = {}}
  OBVIOUS
<1>2. \A s \in catalog : usage[s] = {d \in read : Uses(d, s)}
  BY <1>1 DEF UsageSoFar
<1>3. read \subseteq Definitions
  BY ScanAssumption
<1>4. \A s \in catalog : s \in used <=> \E d \in read : Uses(d, s)
  BY <1>1, <1>2
<1> QED
  BY <1>1, <1>2, <1>3, <1>4 DEF IssuesSoFar

\* A metric that was answered in full is in the lists with all its series, or
\* its fetch failed and it is in no list.
LEMMA CompleteMeans ==
  ASSUME Scanned, NEW m \in Complete, SeriesNamed(catalog, m) # {}
  PROVE  SeriesOf[m] \subseteq catalog
<1>1. m \in Metrics /\ RowSets(m) = {SeriesOf[m]}
  BY DEF Complete
<1>2. PICK s \in catalog : LabelValue(s, NameLabel) = m
  BY DEF SeriesNamed
<1>3. m \in settled \ FailedMetrics
  BY <1>2, CatalogIsNamed DEF Scanned, Correlated, Done, Fetched
<1> QED
  BY <1>1, <1>3 DEF Scanned, Fetched

\* What selects an unused series of the catalog has no metric name.
LEMMA UnusedIsUnnamed ==
  ASSUME Scanned, NEW s \in unused, NEW d \in read, NEW vs \in SelectorsOf[d], Selects(vs, s)
  PROVE  <<d, vs>> \in nameless
<1>1. s \in catalog /\ s \notin used
  BY DoneMeans
<1>2. ~Uses(d, s)
  BY <1>1, DoneMeans
<1> QED
  BY <1>2, DoneMeans DEF Uses, Nameless

\* The usage of a series names the resources that select it, in whatever
\* order the loop came to them.
THEOREM UsageExact == Spec => []UsageIsExact
<1>1. Fetched /\ Correlated => UsageIsExact
  <2> SUFFICES ASSUME Scanned PROVE UsageIsExact
    BY DEF Scanned, UsageIsExact
  <2> QED
    BY DoneMeans DEF UsageIsExact, Uses
<1> QED
  BY <1>1, ScanHolds, PTL

\* A metric whose series could not be read is neither used nor unused, and
\* the collector fragment leaves it alone.
THEOREM UnknownLeftAlone == Spec => []UnknownIsNotUnused
<1>1. Fetched /\ Correlated => UnknownIsNotUnused
  <2> SUFFICES ASSUME Scanned, NEW m \in FailedMetrics
               PROVE  /\ SeriesNamed(used \cup unused, m) = {}
                      /\ m \notin Drops
                      /\ \A st \in Strips : st.metric # m
    BY DEF Scanned, UnknownIsNotUnused
  <2>1. \A s \in used \cup unused : LabelValue(s, NameLabel) # m
    BY DoneMeans, CatalogIsNamed DEF Scanned
  <2>2. m \notin MetricNamesOf(unused)
    BY <2>1 DEF MetricNamesOf
  <2>3. ASSUME NEW st \in Strips PROVE st.metric # m
    <3>1. PICK n \in MetricNamesOf(unused) : \E k : st = [metric |-> n, key |-> k]
      BY DEF Strips, StripStatements
    <3> QED
      BY <2>2, <3>1
  <2> QED
    BY <2>1, <2>2, <2>3 DEF SeriesNamed, Drops, DropMetricNames
<1> QED
  BY <1>1, ScanHolds, PTL

\* Dropping a metric that was answered in full takes no series from a query.
THEOREM DropsSafe == Spec => []DropsAreSafe
<1>1. Fetched /\ Correlated => DropsAreSafe
  <2> SUFFICES ASSUME Scanned, NEW m \in Drops \cap Complete, NEW s \in SeriesOf[m],
                      NEW d \in read, NEW vs \in SelectorsOf[d], Selects(vs, s)
               PROVE  <<d, vs>> \in nameless
    BY DEF Scanned, DropsAreSafe
  <2>1. m \in MetricNamesOf(unused) /\ SeriesNamed(used, m) = {}
    BY DEF Drops, DropMetricNames
  <2>2. SeriesNamed(catalog, m) # {}
    BY <2>1, DoneMeans DEF MetricNamesOf, SeriesNamed
  <2>3. s \in catalog
    BY <2>2, CompleteMeans
  <2>4. LabelValue(s, NameLabel) = m
    BY SeriesAreNamed DEF Complete
  <2>5. s \in unused
    BY <2>1, <2>3, <2>4, DoneMeans DEF SeriesNamed
  <2> QED
    BY <2>5, UnusedIsUnnamed
<1> QED
  BY <1>1, ScanHolds, PTL

\* A stripped label is on no series that a query selects.
THEOREM StripsSafe == Spec => []StripsKeepUsedSeries
<1>1. Fetched /\ Correlated => StripsKeepUsedSeries
  <2> SUFFICES ASSUME Scanned, NEW st \in Strips, st.metric \in Complete,
                      NEW s \in SeriesOf[st.metric], st.key \in DOMAIN s,
                      NEW d \in read, NEW vs \in SelectorsOf[d], Selects(vs, s)
               PROVE  <<d, vs>> \in nameless
    BY DEF Scanned, StripsKeepUsedSeries
  <2>1. PICK m \in MetricNamesOf(unused) :
          \E k \in LabelKeys(SeriesNamed(unused, m)) \ LabelKeys(SeriesNamed(used, m)) :
            st = [metric |-> m, key |-> k]
    BY DEF Strips, StripStatements
  <2>2. st.metric = m /\ st.key \notin LabelKeys(SeriesNamed(used, m))
    BY <2>1
  <2>3. SeriesNamed(catalog, m) # {}
    BY DoneMeans DEF MetricNamesOf, SeriesNamed
  <2>4. s \in catalog /\ LabelValue(s, NameLabel) = m
    BY <2>2, <2>3, CompleteMeans, SeriesAreNamed DEF Complete
  <2>5. s \notin used
    BY <2>2, <2>4 DEF LabelKeys, SeriesNamed
  <2> QED
    BY <2>4, <2>5, DoneMeans, UnusedIsUnnamed
<1> QED
  BY <1>1, ScanHolds, PTL

\* Every selector that was read has exactly one fate.
THEOREM SelectorsHaveOneFate == Spec => []SelectorsAccounted
<1>1. Fetched /\ Correlated => SelectorsAccounted
  <2> SUFFICES ASSUME Scanned, NEW d \in read, NEW vs \in SelectorsOf[d]
               PROVE  LET fates == <<MetricName(vs) \in Internal, <<d, vs>> \in nameless,
                                     <<d, vs>> \in absent, <<d, vs>> \in unmatched,
                                     \E s \in used : MatchesSeries(vs, s)>>
                      IN  Cardinality({i \in 1..5 : fates[i]}) = 1
    BY DEF Scanned, SelectorsAccounted
  <2> DEFINE fates == <<MetricName(vs) \in Internal, <<d, vs>> \in nameless,
                        <<d, vs>> \in absent, <<d, vs>> \in unmatched,
                        \E s \in used : MatchesSeries(vs, s)>>
  <2>1. d \in Definitions /\ Parsed(vs)
    BY DoneMeans, ScanAssumption
  <2>2. \A s \in catalog : MatchesSeries(vs, s) => s \in used
    BY <2>1, DoneMeans, MatchIsSelect DEF Uses
  <2>3. (\E s \in used : MatchesSeries(vs, s)) <=> vs \in Matched(d)
    <3>1. ASSUME NEW s \in used, MatchesSeries(vs, s) PROVE vs \in Matched(d)
      <4>1. s \in catalog /\ LabelValue(s, NameLabel) = MetricName(vs)
        BY <3>1, DoneMeans DEF MatchesSeries
      <4>2. MetricName(vs) \notin Internal \cup {""}
        BY <3>1, <4>1, CatalogIsNamed, ScanAssumption DEF Scanned, MatchesSeries
      <4> QED
        BY <3>1, <4>1, <4>2 DEF Matched, Looked, Candidates, SeriesNamed
    <3>2. ASSUME vs \in Matched(d) PROVE \E s \in used : MatchesSeries(vs, s)
      BY <2>2, <3>2 DEF Matched, Candidates, SeriesNamed
    <3> QED
      BY <3>1, <3>2
  <2>4. \E i \in 1..5 : {j \in 1..5 : fates[j]} = {i}
    <3>0. /\ fates[1] <=> MetricName(vs) \in Internal
          /\ fates[2] <=> <<d, vs>> \in nameless
          /\ fates[3] <=> <<d, vs>> \in absent
          /\ fates[4] <=> <<d, vs>> \in unmatched
          /\ fates[5] <=> \E s \in used : MatchesSeries(vs, s)
      OBVIOUS
    <3> HIDE DEF fates
    <3>1. /\ <<d, vs>> \in nameless <=> vs \in Nameless(d)
          /\ <<d, vs>> \in absent <=> vs \in Absent(d)
          /\ <<d, vs>> \in unmatched <=> vs \in Unmatched(d)
      BY DoneMeans
    <3>2. "" \notin Internal /\ Matched(d) \subseteq Looked(d) /\ Matched(d) \cap Absent(d) = {}
      BY ScanAssumption DEF Matched, Absent
    <3>3. CASE MetricName(vs) \in Internal
      <4>1. /\ MetricName(vs) \in Internal
            /\ ~(<<d, vs>> \in nameless)
            /\ ~(<<d, vs>> \in absent)
            /\ ~(<<d, vs>> \in unmatched)
            /\ ~(\E s \in used : MatchesSeries(vs, s))
        BY <2>3, <3>1, <3>2, <3>3 DEF Nameless, Absent, Unmatched, Looked
      <4>2. fates[1] /\ ~fates[2] /\ ~fates[3] /\ ~fates[4] /\ ~fates[5]
        BY <3>0, <4>1, Zenon
      <4> QED BY <4>2
    <3>4. CASE MetricName(vs) = ""
      <4>1. /\ ~(MetricName(vs) \in Internal)
            /\ <<d, vs>> \in nameless
            /\ ~(<<d, vs>> \in absent)
            /\ ~(<<d, vs>> \in unmatched)
            /\ ~(\E s \in used : MatchesSeries(vs, s))
        BY <2>3, <3>1, <3>2, <3>4 DEF Nameless, Absent, Unmatched, Looked
      <4>2. ~fates[1] /\ fates[2] /\ ~fates[3] /\ ~fates[4] /\ ~fates[5]
        BY <3>0, <4>1, Zenon
      <4> QED BY <4>2
    <3>5. CASE vs \in Absent(d)
      <4>1. /\ ~(MetricName(vs) \in Internal)
            /\ ~(<<d, vs>> \in nameless)
            /\ <<d, vs>> \in absent
            /\ ~(<<d, vs>> \in unmatched)
            /\ ~(\E s \in used : MatchesSeries(vs, s))
        BY <2>3, <3>1, <3>2, <3>5 DEF Nameless, Absent, Unmatched, Looked
      <4>2. ~fates[1] /\ ~fates[2] /\ fates[3] /\ ~fates[4] /\ ~fates[5]
        BY <3>0, <4>1, Zenon
      <4> QED BY <4>2
    <3>6. CASE vs \in Unmatched(d)
      <4>1. /\ ~(MetricName(vs) \in Internal)
            /\ ~(<<d, vs>> \in nameless)
            /\ ~(<<d, vs>> \in absent)
            /\ <<d, vs>> \in unmatched
            /\ ~(\E s \in used : MatchesSeries(vs, s))
        BY <2>3, <3>1, <3>2, <3>6 DEF Nameless, Absent, Unmatched, Looked
      <4>2. ~fates[1] /\ ~fates[2] /\ ~fates[3] /\ fates[4] /\ ~fates[5]
        BY <3>0, <4>1, Zenon
      <4> QED BY <4>2
    <3>7. CASE vs \in Matched(d)
      <4>1. /\ ~(MetricName(vs) \in Internal)
            /\ ~(<<d, vs>> \in nameless)
            /\ ~(<<d, vs>> \in absent)
            /\ ~(<<d, vs>> \in unmatched)
            /\ (\E s \in used : MatchesSeries(vs, s))
        BY <2>3, <3>1, <3>2, <3>7 DEF Nameless, Absent, Unmatched, Looked
      <4>2. ~fates[1] /\ ~fates[2] /\ ~fates[3] /\ ~fates[4] /\ fates[5]
        BY <3>0, <4>1, Zenon
      <4> QED BY <4>2
    <3> QED
      BY <3>3, <3>4, <3>5, <3>6, <3>7 DEF Unmatched, Looked
  <2> QED
    BY <2>4, FS_Singleton
<1> QED
  BY <1>1, ScanHolds, PTL

-----------------------------------------------------------------------------
\* The warnings only grow: an entry is never lost, and a folded one is still
\* about all its subjects.
Formed(ws) == \E K : ws \in Seq([key : K, subjects : Seq(Definitions)])

Keys(ws) == {ws[i].key : i \in DOMAIN ws}

About(ws, d) == EntriesFor(ws, FetchFailed, d) # {}

Grows(ws, more) ==
  /\ Formed(more)
  /\ Keys(ws) \subseteq Keys(more)
  /\ \A d \in Definitions : About(ws, d) => About(more, d)

\* A sequence over a set is one over every larger set.
LEMMA WiderSeq ==
  ASSUME NEW A, NEW B, A \subseteq B, NEW s \in Seq(A)
  PROVE  s \in Seq(B)
<1>1. \A i \in 1..Len(s) : s[i] \in B
  OBVIOUS
<1> QED
  BY <1>1

\* An entry at the end takes no subject from an earlier one.
LEMMA AppendGrows ==
  ASSUME NEW ws, Formed(ws), NEW k, NEW subjects \in Seq(Definitions)
  PROVE  LET more == Append(ws, [key |-> k, subjects |-> subjects])
         IN  /\ Grows(ws, more)
             /\ k \in Keys(more)
             /\ \A d : k[1] = FetchFailed /\ subjects = <<d>> => About(more, d)
<1> DEFINE e == [key |-> k, subjects |-> subjects]
           more == Append(ws, e)
<1>1. PICK K : ws \in Seq([key : K, subjects : Seq(Definitions)])
  BY DEF Formed
<1> DEFINE E == [key : K \cup {k}, subjects : Seq(Definitions)]
<1>2. e \in E
  OBVIOUS
<1>3. ws \in Seq(E)
  <2>1. [key : K, subjects : Seq(Definitions)] \subseteq E
    OBVIOUS
  <2> HIDE DEF E
  <2> QED
    BY <1>1, <2>1, WiderSeq
<1> HIDE DEF e, E
<1>4. /\ more \in Seq(E) /\ Len(more) = Len(ws) + 1 /\ more[Len(ws) + 1] = e
      /\ \A i \in 1..Len(ws) : more[i] = ws[i]
      /\ DOMAIN ws = 1..Len(ws) /\ DOMAIN more = 1..(Len(ws) + 1) /\ Len(ws) \in Nat
  BY <1>2, <1>3
<1> HIDE DEF more
<1>5. Formed(more)
  BY <1>4 DEF Formed, E
<1>6. \A i \in DOMAIN ws : i \in DOMAIN more /\ more[i] = ws[i]
  BY <1>4
<1>7. Keys(ws) \subseteq Keys(more)
  BY <1>6 DEF Keys
<1>8. \A d \in Definitions : About(ws, d) => About(more, d)
  BY <1>6 DEF About, EntriesFor
<1>9. k \in Keys(more)
  BY <1>4 DEF Keys, e
<1>10. ASSUME NEW d, k[1] = FetchFailed, subjects = <<d>> PROVE About(more, d)
  <2> DEFINE last == more[Len(ws) + 1]
  <2>1. last.key = k /\ last.subjects = <<d>>
    BY <1>4, <1>10 DEF e
  <2>2. last.subjects # <<>> /\ \E j \in DOMAIN last.subjects : last.subjects[j] = d
    BY <2>1
  <2>3. Len(ws) + 1 \in DOMAIN more
    BY <1>4
  <2> QED
    BY <1>10, <2>1, <2>2, <2>3, Zenon DEF About, EntriesFor
<1> QED
  BY <1>5, <1>7, <1>8, <1>9, <1>10 DEF Grows, e, more

\* Add takes no subject from an entry.
LEMMA AddGrows ==
  ASSUME NEW ws, Formed(ws), NEW text
  PROVE  Grows(ws, Add(ws, text)) /\ text \in Keys(Add(ws, text))
<1>1. <<>> \in Seq(Definitions)
  OBVIOUS
<1> QED
  BY <1>1, AppendGrows DEF Add

\* Folding a failure into an entry, or starting one for it.
LEMMA AddForGrows ==
  ASSUME NEW ws, Formed(ws), NEW noun, NEW d \in Definitions, NEW line
  PROVE  LET more == AddFor(ws, FetchFailed, noun, d, line)
         IN  Grows(ws, more) /\ About(more, d)
<1> DEFINE key == Key(FetchFailed, noun, line)
           more == AddFor(ws, FetchFailed, noun, d, line)
<1>0. key[1] = FetchFailed
  BY DEF Key
<1> HIDE DEF key
<1>1. CASE \E i \in DOMAIN ws : ws[i].key = key
  <2>1. PICK K : ws \in Seq([key : K, subjects : Seq(Definitions)])
    BY DEF Formed
  <2> DEFINE E == [key : K, subjects : Seq(Definitions)]
  <2>2. ws \in Seq(E)
    BY <2>1
  <2>3. \A x \in E : [x EXCEPT !.subjects = Append(@, d)] \in E
    OBVIOUS
  <2>4. more = [i \in DOMAIN ws |->
                  IF ws[i].key = key THEN [ws[i] EXCEPT !.subjects = Append(@, d)] ELSE ws[i]]
    BY <1>1 DEF AddFor, key
  <2>5. /\ \A x \in E : LET y == [x EXCEPT !.subjects = Append(@, d)]
                        IN  /\ y.key = x.key /\ y.subjects # <<>>
                            /\ \E j \in DOMAIN y.subjects : y.subjects[j] = d
                            /\ \A j \in DOMAIN x.subjects :
                                 j \in DOMAIN y.subjects /\ y.subjects[j] = x.subjects[j]
    OBVIOUS
  <2> HIDE DEF E, more
  <2>6. DOMAIN ws = 1..Len(ws) /\ Len(ws) \in Nat /\ \A i \in DOMAIN ws : ws[i] \in E
    BY <2>2
  <2>7. more \in Seq(E) /\ DOMAIN more = DOMAIN ws
    BY <2>3, <2>4, <2>6
  <2>8. \A i \in DOMAIN ws :
          /\ more[i].key = ws[i].key
          /\ ws[i].subjects # <<>> => more[i].subjects # <<>>
          /\ \A x : (\E j \in DOMAIN ws[i].subjects : ws[i].subjects[j] = x)
                  => \E j \in DOMAIN more[i].subjects : more[i].subjects[j] = x
    BY <2>4, <2>5, <2>6
  <2>9. PICK i \in DOMAIN ws : ws[i].key = key
    BY <1>1
  <2>10. /\ more[i].subjects # <<>> /\ more[i].key[1] = FetchFailed
         /\ \E j \in DOMAIN more[i].subjects : more[i].subjects[j] = d
    BY <1>0, <2>4, <2>5, <2>6, <2>9
  <2>11. Formed(more)
    BY <2>7 DEF Formed, E
  <2>12. Keys(ws) \subseteq Keys(more)
    BY <2>7, <2>8 DEF Keys
  <2>13. \A x \in Definitions : About(ws, x) => About(more, x)
    BY <2>7, <2>8 DEF About, EntriesFor
  <2>14. About(more, d)
    BY <2>7, <2>10 DEF About, EntriesFor
  <2> QED
    BY <2>11, <2>12, <2>13, <2>14 DEF Grows, more
<1>2. CASE ~\E i \in DOMAIN ws : ws[i].key = key
  <2>1. more = Append(ws, [key |-> key, subjects |-> <<d>>])
    BY <1>2 DEF AddFor, key
  <2>2. <<d>> \in Seq(Definitions)
    OBVIOUS
  <2> HIDE DEF more
  <2> QED
    BY <1>0, <2>1, <2>2, AppendGrows DEF more
<1> QED
  BY <1>1, <1>2

-----------------------------------------------------------------------------
\* The reading of a kind of definitions is over, or that of one dashboard.
Passed(d) ==
  \/ KindOf[d] = "dashboard" /\ phase = "dashboard" /\ d \notin todo
  \/ KindOf[d] = "dashboard" /\ phase = "alerts"
  \/ KindOf[d] \in {"dashboard", "alert"} /\ phase = "slos"
  \/ phase \in {"names", "series", "correlate", "done"}

Explained(d) ==
  d \in read \/ <<"skipped", KindOf[d]>> \in Keys(warnings) \/ About(warnings, d)

\* The definitions Run gets to know of: a dashboard only from the catalog.
Known == {d \in Identified : KindOf[d] = "dashboard" => d \in Catalogued}

\* What was passed was read, or a warning says that it was not.
Reading == Formed(warnings) /\ \A d \in Known : Passed(d) => Explained(d)

\* A definition that was explained stays so while warnings only grow.
LEMMA ExplainedStays ==
  ASSUME read \subseteq read', Grows(warnings, warnings') \/ warnings' = warnings
  PROVE  \A d \in Known : Explained(d) => Explained(d)'
  BY ScanAssumption DEF Grows, Explained, Known

\* Growing is reflexive
LEMMA SameGrows == ASSUME NEW ws, Formed(ws) PROVE Grows(ws, ws)
  BY DEF Grows

\* and transitive.
LEMMA GrowsOn ==
  ASSUME NEW a, NEW b, NEW c, Grows(a, b), Grows(b, c)
  PROVE  Grows(a, c)
  BY DEF Grows

\* Alerts and SLOs are read whole, or their warning is added.
LEMMA ReadAllExplains ==
  ASSUME Reading, NEW kind \in Kinds, WarnSkipped(kind),
         read' = IF kind \in skip THEN read ELSE read \cup (OfKind(kind) \cap Identified)
  PROVE  /\ Grows(warnings, warnings')
         /\ \A d \in Known : KindOf[d] = kind => Explained(d)'
<1>1. CASE kind \notin skip
  <2>1. warnings' = warnings /\ read' = read \cup (OfKind(kind) \cap Identified)
    BY <1>1 DEF WarnSkipped
  <2> QED
    BY <2>1, SameGrows, ScanAssumption DEF Reading, Explained, OfKind, Known
<1>2. CASE kind \in skip
  <2> DEFINE ws == Add(warnings, <<"skipped", kind>>)
  <2>1. Grows(warnings, ws) /\ <<"skipped", kind>> \in Keys(ws) /\ Formed(ws)
    BY AddGrows DEF Reading, Grows
  <2> HIDE DEF ws
  <2>2. warnings' = ws \/ warnings' = Add(ws, <<"all skipped">>)
    BY <1>2 DEF WarnSkipped, ws
  <2>3. Grows(ws, warnings')
    BY <2>1, <2>2, AddGrows, SameGrows
  <2>4. Grows(warnings, warnings')
    BY <2>1, <2>3, GrowsOn
  <2>5. <<"skipped", kind>> \in Keys(warnings')
    BY <2>1, <2>3 DEF Grows
  <2> QED
    BY <2>4, <2>5 DEF Explained
<1> QED
  BY <1>1, <1>2

\* Every step keeps every passed definition read or explained.
LEMMA ReadingStep == Reading /\ [Next]_vars => Reading'
<1> SUFFICES ASSUME Reading, [Next]_vars PROVE Reading'
  OBVIOUS
<1> USE DEF Enter
<1>0. ASSUME Grows(warnings, warnings') \/ warnings' = warnings, read \subseteq read',
             \A d \in Known : Passed(d)' => Passed(d) \/ Explained(d)'
      PROVE  Reading'
  BY <1>0, ExplainedStays DEF Reading, Grows
<1>1. CASE SkipDashboards
  <2>1. /\ phase = "dashboards" /\ phase' = "alerts" /\ read' = read
        /\ warnings' = Add(warnings, <<"skipped", "dashboard">>)
    BY <1>1 DEF SkipDashboards
  <2>2. Grows(warnings, warnings') /\ <<"skipped", "dashboard">> \in Keys(warnings')
    BY <2>1, AddGrows DEF Reading
  <2>3. \A d \in Known : Passed(d)' => Explained(d)'
    BY <2>1, <2>2 DEF Passed, Explained
  <2> QED
    BY <1>0, <2>1, <2>2, <2>3
<1>2. CASE ListDashboards
  <2>1. \A d \in Known : ~Passed(d)'
    BY <1>2, ScanAssumption DEF ListDashboards, Passed, Known
  <2> QED
    BY <1>0, <1>2, <2>1 DEF ListDashboards
<1>3. ASSUME NEW d \in Definitions, PassUnidentified(d) \/ ReadDashboard(d) PROVE Reading'
  <2>1. /\ phase = "dashboard" /\ phase' = phase /\ warnings' = warnings
        /\ todo' = todo \ {d} /\ read \subseteq read'
        /\ d \in Identified => d \in read'
    BY <1>3 DEF PassUnidentified, ReadDashboard
  <2>2. \A e \in Known : Passed(e)' => Passed(e) \/ Explained(e)'
    BY <2>1 DEF Passed, Explained, Known
  <2> QED
    BY <1>0, <2>1, <2>2
<1>4. ASSUME NEW d \in Definitions, MissDashboard(d) PROVE Reading'
  <2>1. PICK cause \in Causes :
          warnings' = AddFor(warnings, FetchFailed, "dashboard", d, FirstLine(d, cause))
    BY <1>4 DEF MissDashboard
  <2>2. Grows(warnings, warnings') /\ About(warnings', d)
    BY <2>1, AddForGrows DEF Reading
  <2>3. phase = "dashboard" /\ phase' = phase /\ todo' = todo \ {d} /\ read' = read
    BY <1>4 DEF MissDashboard
  <2>4. \A e \in Known : Passed(e)' => Passed(e) \/ Explained(e)'
    BY <2>2, <2>3 DEF Passed, Explained
  <2> QED
    BY <1>0, <2>2, <2>3, <2>4
<1>5. CASE DashboardsDone
  <2>1. \A d \in Known : Passed(d)' => Passed(d)
    BY <1>5 DEF DashboardsDone, Passed
  <2> QED
    BY <1>0, <1>5, <2>1 DEF DashboardsDone
<1>6. CASE ReadAlerts
  <2>1. /\ phase = "alerts" /\ phase' = "slos" /\ WarnSkipped("alert") /\ "alert" \in Kinds
        /\ read' = IF "alert" \in skip THEN read ELSE read \cup (OfKind("alert") \cap Identified)
    BY <1>6 DEF ReadAlerts, ReadAll, Kinds
  <2>2. Grows(warnings, warnings') /\ \A d \in Known : KindOf[d] = "alert" => Explained(d)'
    BY <2>1, ReadAllExplains
  <2>3. \A d \in Known : Passed(d)' => Passed(d) \/ KindOf[d] = "alert"
    BY <2>1 DEF Passed
  <2> QED
    BY <1>0, <2>1, <2>2, <2>3
<1>7. CASE ReadSLOs
  <2>1. /\ phase = "slos" /\ phase' = "names" /\ WarnSkipped("slo") /\ "slo" \in Kinds
        /\ read' = IF "slo" \in skip THEN read ELSE read \cup (OfKind("slo") \cap Identified)
    BY <1>7 DEF ReadSLOs, ReadAll, Kinds
  <2>2. Grows(warnings, warnings') /\ \A d \in Known : KindOf[d] = "slo" => Explained(d)'
    BY <2>1, ReadAllExplains
  <2>3. \A d \in Known : Passed(d)' => Passed(d) \/ KindOf[d] = "slo"
    BY <2>1, ScanAssumption DEF Passed, Kinds, Known
  <2> QED
    BY <1>0, <2>1, <2>2, <2>3
<1>8. CASE ListNames \/ FetchAborts \/ SeriesAbort \/ FetchSeries \/ Classify
  <2>1. warnings' = warnings /\ read' = read
    BY <1>8 DEF ListNames, FetchAborts, SeriesAbort, FetchSeries, Classify
  <2>2. \/ phase = "names" /\ phase' = "series"
        \/ phase' = "aborted"
        \/ phase = "series" /\ phase' = phase
        \/ phase = "correlate" /\ phase' = "done"
    BY <1>8 DEF ListNames, FetchAborts, SeriesAbort, FetchSeries, Classify
  <2>3. \A d \in Known : Passed(d)' => Passed(d)
    BY <2>2 DEF Passed
  <2> QED
    BY <1>0, <2>1, <2>3
<1>9. CASE SeriesDone
  <2>1. Grows(warnings, warnings') \/ warnings' = warnings
    BY <1>9, AddGrows DEF SeriesDone, Reading
  <2>2. \A d \in Known : Passed(d)' => Passed(d)
    BY <1>9 DEF SeriesDone, Passed
  <2> QED
    BY <1>0, <1>9, <2>1, <2>2 DEF SeriesDone
<1>10. ASSUME NEW d \in Definitions, Correlate(d) PROVE Reading'
  <2>1. \A e \in Known : Passed(e)' => Passed(e)
    BY <1>10 DEF Correlate, Passed
  <2> QED
    BY <1>0, <1>10, <2>1 DEF Correlate
<1>11. CASE UNCHANGED vars
  BY <1>0, <1>11 DEF vars, Passed
<1> QED
  BY <1>1, <1>2, <1>3, <1>4, <1>5, <1>6, <1>7, <1>8, <1>9, <1>10, <1>11 DEF Next, Advance, Over

\* At all times what was passed was read or is explained.
LEMMA ReadingHolds == Spec => []Reading
<1>1. Init => Reading
  <2> SUFFICES ASSUME Init PROVE Reading
    OBVIOUS
  <2>1. <<>> \in Seq([key : {}, subjects : Seq(Definitions)])
    OBVIOUS
  <2>2. Formed(warnings)
    BY <2>1 DEF Init, Formed
  <2> QED
    BY <2>2 DEF Init, Reading, Passed
<1> QED
  BY <1>1, ReadingStep, PTL DEF Spec

\* What no catalog keeps from Run: for every tenant and both sources, a series
\* that one of the alerts, the SLOs or the dashboards the catalog lists selects
\* is called unused only when the report itself says why that may be false.
THEOREM KnownUnusedExplained == Spec => [](Done => Explains(Known))
<1>1. Reading /\ Fetched /\ Correlated => (Done => Explains(Known))
  <2> SUFFICES ASSUME Reading, Scanned, NEW s \in unused, NEW d \in Known,
                      NEW vs \in SelectorsOf[d], Selects(vs, s)
               PROVE  \/ KindOf[d] \in SkippedKindsWarned
                      \/ d \in Unread
                      \/ <<d, vs>> \in nameless
    BY DEF Scanned, Explains
  <2>0. d \in Identified
    BY DEF Known
  <2>1. Explained(d)
    BY DEF Reading, Passed, Scanned, Done
  <2>2. CASE d \in read
    BY <2>2, UnusedIsUnnamed
  <2>3. CASE <<"skipped", KindOf[d]>> \in Keys(warnings)
    <3>1. <<"skipped", KindOf[d]>> \in WarningTexts
      <4>1. PICK i \in DOMAIN warnings : warnings[i].key = <<"skipped", KindOf[d]>>
        BY <2>3 DEF Keys
      <4>2. List(warnings)[i] = Render(warnings[i])
        BY DEF List
      <4>3. List(warnings)[i].text = warnings[i].key
        BY <4>2 DEF Render
      <4> QED
        BY <4>1, <4>3, Zenon DEF WarningTexts
    <3>2. KindOf[d] \in Kinds
      BY <2>0, ScanAssumption
    <3> QED
      BY <3>1, <3>2 DEF SkippedKindsWarned
  <2>4. CASE About(warnings, d)
    BY <2>0, <2>4, ScanAssumption DEF About, Unread
  <2> QED
    BY <2>1, <2>2, <2>3, <2>4 DEF Explained
<1> QED
  BY <1>1, ReadingHolds, ScanHolds, PTL

\* Over the API the catalog is the tenant's.
LEMMA ApiListsAll == ~CliMode => CatalogWorks
BY CatalogAssumption

\* A catalog that works leaves nothing unknown.
LEMMA AllKnown == CatalogWorks => Known = Identified
BY ScanAssumption DEF CatalogWorks, Known, OfKind

\* The answer "the tool must not get wrong", for every tenant whose catalog
\* command works, and so for every tenant over the API: a series that one of
\* its definitions selects is called unused only when the report itself says
\* why that may be false, whatever is skipped and whatever cannot be read.
THEOREM FalseUnusedExplained == Spec => [](CatalogWorks => FalseUnusedIsExplained)
<1>1. (Done => Explains(Known)) => (CatalogWorks => FalseUnusedIsExplained)
  BY AllKnown DEF FalseUnusedIsExplained
<1> QED
  BY <1>1, KnownUnusedExplained, PTL

-----------------------------------------------------------------------------
\* Warnings about dashboards, and only those, have subjects, and no dashboard
\* is named twice, in one entry or in two.
Counted(ws) ==
  \A i \in DOMAIN ws : ws[i].subjects # <<>> <=> ws[i].key[1] = FetchFailed

KeysApart(ws) ==
  \A i, j \in DOMAIN ws : ws[i].key = ws[j].key => i = j \/ ws[i].key[1] # FetchFailed

SubjectsApart(ws) ==
  \A i, j \in DOMAIN ws : \A a \in DOMAIN ws[i].subjects, b \in DOMAIN ws[j].subjects :
    ws[i].subjects[a] = ws[j].subjects[b] => i = j /\ a = b

Kept(ws) == Formed(ws) /\ Counted(ws) /\ KeysApart(ws) /\ SubjectsApart(ws)

\* The keys so far that begin with a word.
Said(word) == {k \in Keys(warnings) : k[1] = word}

PassedKinds ==
  CASE phase = "dashboards" -> {}
    [] phase \in {"dashboard", "alerts"} -> {"dashboard"}
    [] phase = "slos" -> {"dashboard", "alert"}
    [] OTHER -> Kinds

SkipsSaid ==
  /\ skip \subseteq Kinds
  /\ phase = "dashboard" => "dashboard" \notin skip
  /\ phase # "aborted" =>
       /\ Said("skipped") = {<<"skipped", k>> : k \in skip \cap PassedKinds}
       /\ Said("metrics skipped") =
            IF phase \in {"correlate", "done"} /\ failures # {}
              THEN {<<"metrics skipped", Cardinality(failures)>>} ELSE {}

\* The dashboards with a warning are the ones that were tried and not read.
MissesSaid ==
  /\ Kept(warnings)
  /\ phase = "dashboards" => read = {}
  /\ phase = "dashboard" => todo \subseteq Catalogued \ read
  /\ \A d \in Definitions : About(warnings, d) =>
       /\ d \in (Catalogued \cap Identified) \ read
       /\ "dashboard" \notin skip
       /\ phase # "dashboards"
       /\ phase = "dashboard" => d \notin todo

\* A metric fails once.
FailsOnce == \A f, g \in failures : f.metric = g.metric => f = g

Warned == SkipsSaid /\ MissesSaid /\ FailsOnce

-----------------------------------------------------------------------------
\* The a-th subject of the i-th entry is x.
Tells(ws, i, a, x) ==
  i \in DOMAIN ws /\ a \in DOMAIN ws[i].subjects /\ ws[i].subjects[a] = x

\* Being about a definition is having it as a subject somewhere.
LEMMA AboutTells ==
  ASSUME NEW ws, Kept(ws)
  PROVE  /\ \A d, i : i \in EntriesFor(ws, FetchFailed, d) <=> \E a : Tells(ws, i, a, d)
         /\ \A d : About(ws, d) <=> \E i, a : Tells(ws, i, a, d)
<1>1. \A i \in DOMAIN ws : (\E a \in DOMAIN ws[i].subjects : TRUE) => ws[i].subjects # <<>>
  OBVIOUS
<1>2. Counted(ws)
  BY DEF Kept
<1> QED BY <1>1, <1>2 DEF Counted, EntriesFor, About, Tells

\* A subject has one place in the warnings.
LEMMA ToldOnce ==
  ASSUME NEW ws, Kept(ws), NEW x, NEW i, NEW a, Tells(ws, i, a, x),
         NEW j, NEW b, Tells(ws, j, b, x)
  PROVE  i = j /\ a = b
BY DEF Kept, SubjectsApart, Tells

\* A sequence and what is appended to it, position by position.
LEMMA Appended ==
  ASSUME NEW ws, Formed(ws), NEW e, e \in [key : {e.key}, subjects : Seq(Definitions)],
         NEW more, more = Append(ws, e)
  PROVE  /\ Formed(more)
         /\ Len(ws) \in Nat /\ DOMAIN ws = 1..Len(ws) /\ DOMAIN more = 1..(Len(ws) + 1)
         /\ \A i \in DOMAIN ws : more[i] = ws[i]
         /\ more[Len(ws) + 1] = e
<1>1. PICK K : ws \in Seq([key : K, subjects : Seq(Definitions)])
  BY DEF Formed
<1> DEFINE E == [key : K \cup {e.key}, subjects : Seq(Definitions)]
<1>2. e \in E
  OBVIOUS
<1>3. ws \in Seq(E)
  <2>1. [key : K, subjects : Seq(Definitions)] \subseteq E
    OBVIOUS
  <2> HIDE DEF E
  <2> QED BY <1>1, <2>1, WiderSeq
<1> HIDE DEF E
<1>5. /\ more \in Seq(E) /\ more[Len(ws) + 1] = e
      /\ \A i \in 1..Len(ws) : more[i] = ws[i]
      /\ DOMAIN ws = 1..Len(ws) /\ DOMAIN more = 1..(Len(ws) + 1) /\ Len(ws) \in Nat
  BY <1>2, <1>3
<1>6. Formed(more)
  BY <1>5 DEF Formed, E
<1> QED BY <1>2, <1>5, <1>6

\* more is ws and an entry at the end.
Entered(ws, more, key, subjects) ==
  /\ Formed(more)
  /\ Len(ws) \in Nat /\ DOMAIN ws = 1..Len(ws) /\ DOMAIN more = 1..(Len(ws) + 1)
  /\ \A i \in DOMAIN ws : more[i] = ws[i]
  /\ more[Len(ws) + 1].key = key /\ more[Len(ws) + 1].subjects = subjects

\* Appending an entry with subjects
LEMMA Enters ==
  ASSUME NEW ws, Formed(ws), NEW key, NEW subjects, subjects \in Seq(Definitions)
  PROVE  Entered(ws, Append(ws, [key |-> key, subjects |-> subjects]), key, subjects)
<1> DEFINE e == [key |-> key, subjects |-> subjects]
           more == Append(ws, e)
<1>1. e \in [key : {e.key}, subjects : Seq(Definitions)] /\ e.key = key /\ e.subjects = subjects
  OBVIOUS
<1> HIDE DEF e
<1>3. /\ Formed(more)
      /\ Len(ws) \in Nat /\ DOMAIN ws = 1..Len(ws) /\ DOMAIN more = 1..(Len(ws) + 1)
      /\ \A i \in DOMAIN ws : more[i] = ws[i]
      /\ more[Len(ws) + 1] = e
  BY <1>1, Appended
<1>4. Entered(ws, more, key, subjects)
  BY <1>1, <1>3 DEF Entered
<1> QED BY <1>4 DEF e

\* and adding one without a subject put it at the end.
LEMMA EntersAlone ==
  ASSUME NEW ws, Formed(ws), NEW text
  PROVE  Entered(ws, Add(ws, text), text, <<>>)
<1>1. <<>> \in Seq(Definitions)
  OBVIOUS
<1>2. Entered(ws, Append(ws, [key |-> text, subjects |-> <<>>]), text, <<>>)
  BY ONLY <1>1, Formed(ws), Enters
<1> QED BY <1>2 DEF Add

\* A warning of its own adds its key and is about no dashboard.
LEMMA AddKeeps ==
  ASSUME NEW ws, Kept(ws), NEW text, text[1] # FetchFailed, NEW more, more = Add(ws, text)
  PROVE  /\ Kept(more)
         /\ Keys(more) = Keys(ws) \cup {text}
         /\ \A d : About(more, d) <=> About(ws, d)
<1> DEFINE last == Len(ws) + 1
<1>0. Formed(ws)
  BY DEF Kept
<1>1. /\ Formed(more)
      /\ Len(ws) \in Nat /\ DOMAIN ws = 1..Len(ws) /\ DOMAIN more = 1..last
      /\ \A i \in DOMAIN ws : more[i] = ws[i]
      /\ more[last].key = text /\ more[last].subjects = <<>>
  BY <1>0, EntersAlone DEF Entered
<1>2. DOMAIN more = DOMAIN ws \cup {last} /\ last \notin DOMAIN ws
  BY <1>1
<1> HIDE DEF last
<1>3. Keys(more) = Keys(ws) \cup {text}
  <2>1. {more[i].key : i \in DOMAIN ws} = Keys(ws)
    BY <1>1 DEF Keys
  <2>2. Keys(more) = {more[i].key : i \in DOMAIN ws} \cup {more[last].key}
    BY <1>2 DEF Keys
  <2> QED BY <1>1, <2>1, <2>2
<1>4. \A i, a, x : Tells(more, i, a, x) <=> Tells(ws, i, a, x)
  <2>1. DOMAIN more[last].subjects = {}
    BY <1>1
  <2> QED BY <1>1, <1>2, <2>1 DEF Tells
<1>5. Counted(more)
  BY <1>1, <1>2 DEF Kept, Counted
<1>6. KeysApart(more)
  <2>1. KeysApart(ws)
    BY DEF Kept
  <2> SUFFICES ASSUME NEW i \in DOMAIN more, NEW j \in DOMAIN more,
                      more[i].key = more[j].key, more[i].key[1] = FetchFailed
               PROVE  i = j
    BY DEF KeysApart
  <2>2. i # last /\ j # last
    BY <1>1
  <2> QED BY <1>1, <1>2, <2>1, <2>2 DEF KeysApart
<1>7. SubjectsApart(more)
  <2> SUFFICES ASSUME NEW i \in DOMAIN more, NEW j \in DOMAIN more,
                      NEW a \in DOMAIN more[i].subjects, NEW b \in DOMAIN more[j].subjects,
                      more[i].subjects[a] = more[j].subjects[b]
               PROVE  i = j /\ a = b
    BY DEF SubjectsApart
  <2>1. Tells(more, i, a, more[i].subjects[a]) /\ Tells(more, j, b, more[i].subjects[a])
    BY DEF Tells
  <2> QED BY <1>4, <2>1, ToldOnce
<1>8. Kept(more)
  BY <1>1, <1>5, <1>6, <1>7 DEF Kept
<1> QED BY <1>3, <1>4, <1>8, AboutTells

\* more tells what ws tells and, at one place, of d.
TellsAlso(ws, more, i0, a0, d) ==
  \A i, a, x : Tells(more, i, a, x) <=> Tells(ws, i, a, x) \/ (i = i0 /\ a = a0 /\ x = d)

\* It is enough to know where a new subject is told.
LEMMA TellsOneMore ==
  ASSUME NEW ws, Kept(ws), NEW d, ~About(ws, d),
         NEW more, Formed(more), Counted(more), KeysApart(more), NEW i0, NEW a0,
         TellsAlso(ws, more, i0, a0, d)
  PROVE  Kept(more) /\ \A x : About(more, x) <=> About(ws, x) \/ x = d
<1>1. \A i, a : ~Tells(ws, i, a, d)
  BY AboutTells
<1>2. \A i, a, j, b, x : Tells(more, i, a, x) /\ Tells(more, j, b, x) => i = j /\ a = b
  BY <1>1, ToldOnce DEF TellsAlso
<1>3. SubjectsApart(more)
  <2> SUFFICES ASSUME NEW i \in DOMAIN more, NEW j \in DOMAIN more,
                      NEW a \in DOMAIN more[i].subjects, NEW b \in DOMAIN more[j].subjects,
                      more[i].subjects[a] = more[j].subjects[b]
               PROVE  i = j /\ a = b
    BY DEF SubjectsApart
  <2>1. Tells(more, i, a, more[i].subjects[a]) /\ Tells(more, j, b, more[i].subjects[a])
    BY DEF Tells
  <2> QED BY <1>2, <2>1
<1>4. Kept(more)
  BY <1>3 DEF Kept
<1>5. Tells(more, i0, a0, d)
  BY DEF TellsAlso
<1>6. \A x : About(more, x) <=> About(ws, x) \/ x = d
  BY <1>4, <1>5, AboutTells DEF TellsAlso
<1> QED BY <1>4, <1>6

\* An entry with one subject more.
LEMMA SubjectAppended ==
  ASSUME NEW K, NEW E, E = [key : K, subjects : Seq(Definitions)], NEW x \in E,
         NEW d \in Definitions, NEW y, y = [x EXCEPT !.subjects = Append(@, d)]
  PROVE  /\ y \in E /\ y.key = x.key /\ y.subjects # <<>>
         /\ Len(x.subjects) + 1 \notin DOMAIN x.subjects
         /\ DOMAIN y.subjects = DOMAIN x.subjects \cup {Len(x.subjects) + 1}
         /\ y.subjects[Len(x.subjects) + 1] = d
         /\ \A j \in DOMAIN x.subjects : y.subjects[j] = x.subjects[j]
<1>1. y \in E /\ y.key = x.key /\ y.subjects = Append(x.subjects, d) /\ x.subjects \in Seq(Definitions)
  OBVIOUS
<1> DEFINE s == x.subjects
           t == Append(s, d)
<1>2. s \in Seq(Definitions)
  BY <1>1
<1> HIDE DEF s
<1>3. /\ t # <<>> /\ Len(s) + 1 \notin DOMAIN s /\ DOMAIN t = DOMAIN s \cup {Len(s) + 1}
      /\ t[Len(s) + 1] = d /\ \A j \in DOMAIN s : t[j] = s[j]
  BY <1>2
<1> QED BY <1>1, <1>3 DEF s

\* A failure is told of once, in the entry it is folded into or in its own.
LEMMA AddForKeeps ==
  ASSUME NEW ws, Kept(ws), NEW noun, NEW d \in Definitions, ~About(ws, d), NEW line,
         NEW more, more = AddFor(ws, FetchFailed, noun, d, line)
  PROVE  /\ Kept(more)
         /\ Keys(more) = Keys(ws) \cup {Key(FetchFailed, noun, line)}
         /\ \A x : About(more, x) <=> About(ws, x) \/ x = d
<1> DEFINE key == Key(FetchFailed, noun, line)
<1>0. key[1] = FetchFailed
  BY DEF Key
<1> HIDE DEF key
<1>1. \A i, a : ~Tells(ws, i, a, d)
  BY AboutTells
<1>2. Formed(ws)
  BY DEF Kept
<1>4. CASE \E i \in DOMAIN ws : ws[i].key = key
  <2>1. PICK K : ws \in Seq([key : K, subjects : Seq(Definitions)])
    BY <1>2 DEF Formed
  <2> DEFINE E == [key : K, subjects : Seq(Definitions)]
  <2>2. ws \in Seq(E)
    BY <2>1
  <2>3. \A x \in E : [x EXCEPT !.subjects = Append(@, d)] \in E
    OBVIOUS
  <2>4. more = [i \in DOMAIN ws |->
                  IF ws[i].key = key THEN [ws[i] EXCEPT !.subjects = Append(@, d)] ELSE ws[i]]
    BY <1>4 DEF AddFor, key
  <2> HIDE DEF E
  <2>6. DOMAIN ws = 1..Len(ws) /\ Len(ws) \in Nat /\ \A i \in DOMAIN ws : ws[i] \in E
    BY <2>2
  <2>7. more \in Seq(E) /\ DOMAIN more = DOMAIN ws
    BY <2>3, <2>4, <2>6
  <2>8. PICK i0 \in DOMAIN ws : ws[i0].key = key
    BY <1>4
  <2>9. \A i \in DOMAIN ws : ws[i].key = key <=> i = i0
    BY <1>0, <2>8 DEF Kept, KeysApart
  <2>10. \A i \in DOMAIN ws : i # i0 => more[i] = ws[i]
    BY <2>4, <2>9
  <2> DEFINE a0 == Len(ws[i0].subjects) + 1
  <2>11. /\ more[i0].key = key /\ more[i0].subjects # <<>>
         /\ a0 \notin DOMAIN ws[i0].subjects
         /\ DOMAIN more[i0].subjects = DOMAIN ws[i0].subjects \cup {a0}
         /\ more[i0].subjects[a0] = d
         /\ \A a \in DOMAIN ws[i0].subjects : more[i0].subjects[a] = ws[i0].subjects[a]
    <3>1. more[i0] = [ws[i0] EXCEPT !.subjects = Append(@, d)] /\ ws[i0] \in E
      BY <2>4, <2>6, <2>8
    <3> QED BY <2>8, <3>1, SubjectAppended DEF E
  <2> HIDE DEF a0
  <2>12. Formed(more)
    BY <2>7 DEF Formed, E
  <2>13. Keys(more) = Keys(ws) \cup {key}
    <3>1. \A i \in DOMAIN ws : more[i].key = ws[i].key
      BY <2>8, <2>10, <2>11
    <3>2. Keys(more) = Keys(ws)
      BY <2>7, <3>1 DEF Keys
    <3> QED BY <2>8, <3>2 DEF Keys
  <2>14. Counted(more)
    BY <1>0, <2>7, <2>10, <2>11 DEF Kept, Counted
  <2>15. KeysApart(more)
    BY <2>7, <2>8, <2>10, <2>11 DEF Kept, KeysApart
  <2>16. TellsAlso(ws, more, i0, a0, d)
    BY <2>7, <2>8, <2>10, <2>11 DEF Tells, TellsAlso
  <2>17. Kept(more) /\ \A x : About(more, x) <=> About(ws, x) \/ x = d
    BY <2>12, <2>14, <2>15, <2>16, TellsOneMore
  <2> QED BY <2>13, <2>17 DEF key
<1>5. CASE ~\E i \in DOMAIN ws : ws[i].key = key
  <2> DEFINE last == Len(ws) + 1
  <2> DEFINE e == [key |-> key, subjects |-> <<d>>]
  <2>1. more = Append(ws, e)
    BY <1>5 DEF AddFor, key
  <2>1a. e \in [key : {e.key}, subjects : Seq(Definitions)] /\ e.key = key /\ e.subjects = <<d>>
    OBVIOUS
  <2> HIDE DEF e
  <2>2. /\ Formed(more)
        /\ Len(ws) \in Nat /\ DOMAIN ws = 1..Len(ws) /\ DOMAIN more = 1..last
        /\ \A i \in DOMAIN ws : more[i] = ws[i]
        /\ more[last] = e
    BY <1>2, <2>1, <2>1a, Appended
  <2>3. DOMAIN more = DOMAIN ws \cup {last} /\ last \notin DOMAIN ws
    BY <2>2
  <2> HIDE DEF last
  <2>4. Keys(more) = Keys(ws) \cup {key}
    <3>1. {more[i].key : i \in DOMAIN ws} = Keys(ws)
      BY <2>2 DEF Keys
    <3>2. Keys(more) = {more[i].key : i \in DOMAIN ws} \cup {more[last].key}
      BY <2>3 DEF Keys
    <3> QED BY <2>1a, <2>2, <3>1, <3>2
  <2>5. more[last].subjects # <<>> /\ DOMAIN more[last].subjects = {1} /\ more[last].subjects[1] = d
        /\ more[last].key = key
    BY <2>1a, <2>2
  <2>6. Counted(more)
    BY <1>0, <2>2, <2>3, <2>5 DEF Kept, Counted
  <2>7. KeysApart(more)
    <3>1. KeysApart(ws)
      BY DEF Kept
    <3> SUFFICES ASSUME NEW i \in DOMAIN more, NEW j \in DOMAIN more, more[i].key = more[j].key
                 PROVE  i = j \/ more[i].key[1] # FetchFailed
      BY DEF KeysApart
    <3>2. i = last <=> j = last
      BY <1>5, <2>2, <2>3, <2>5
    <3> QED BY <2>2, <2>3, <3>1, <3>2 DEF KeysApart
  <2>8. TellsAlso(ws, more, last, 1, d)
    BY <2>2, <2>3, <2>5 DEF Tells, TellsAlso
  <2>9. Kept(more) /\ \A x : About(more, x) <=> About(ws, x) \/ x = d
    BY <2>2, <2>6, <2>7, <2>8, TellsOneMore
  <2> QED BY <2>4, <2>9 DEF key
<1> QED BY <1>4, <1>5

-----------------------------------------------------------------------------
\* A new text is said under its first word, and only there.
LEMMA SaidGrows ==
  ASSUME NEW text, Keys(warnings') = Keys(warnings) \cup {text}
  PROVE  \A word : Said(word)' = IF text[1] = word THEN Said(word) \cup {text} ELSE Said(word)
<1>1. Keys(warnings)' = Keys(warnings')
  BY DEF Keys
<1> QED BY <1>1 DEF Said

\* As long as the warnings are the same, so is what they say.
LEMMA SaidStays == warnings' = warnings => \A word : Said(word)' = Said(word)
  BY DEF Said, Keys

\* What is not about the warnings of dashboards leaves them be.
LEMMA MissesStay ==
  ASSUME MissesSaid, Kept(warnings'), \A d : About(warnings', d) <=> About(warnings, d),
         \A d \in read' \ read : d \notin Catalogued,
         phase # "dashboard", phase' \notin {"dashboards", "dashboard"}, skip' = skip
  PROVE  MissesSaid'
<1>1. Kept(warnings)' /\ \A d : About(warnings, d)' <=> About(warnings, d)
  BY DEF Kept, Formed, Counted, KeysApart, SubjectsApart, About, EntriesFor
<1> QED BY <1>1 DEF MissesSaid

\* What is known of the warnings is known of equal warnings.
LEMMA SameWarnings ==
  Kept(warnings) /\ warnings' = warnings =>
    Kept(warnings)' /\ \A x : About(warnings, x)' <=> About(warnings, x)
<1>1. Kept(warnings)' <=> Kept(warnings')
  BY DEF Kept, Formed, Counted, KeysApart, SubjectsApart
<1>2. \A x : About(warnings, x)' <=> About(warnings', x)
  BY DEF About, EntriesFor
<1> QED BY <1>1, <1>2

\* Adding that a kind was skipped.
LEMMA SkipAdded ==
  ASSUME SkipsSaid, NEW k \in skip \cap Kinds, skip' = skip,
         Keys(warnings') = Keys(warnings) \cup {<<"skipped", k>>},
         phase \notin {"aborted", "correlate", "done"},
         phase' \notin {"aborted", "correlate", "done", "dashboard"},
         PassedKinds' = PassedKinds \cup {k}
  PROVE  SkipsSaid'
<1>1. /\ Said("skipped")' = Said("skipped") \cup {<<"skipped", k>>}
      /\ Said("metrics skipped")' = Said("metrics skipped")
  BY SaidGrows
<1> QED BY <1>1 DEF SkipsSaid

\* Reading the alerts, or the SLOs, says so exactly if they are skipped.
LEMMA ReadAllWarns ==
  ASSUME Warned, NEW kind \in {"alert", "slo"}, NEW from, NEW to, ReadAll(kind, from, to),
         from \in {"alerts", "slos"}, to \in {"slos", "names"},
         PassedKinds' = PassedKinds \cup {kind}
  PROVE  Warned'
<1>0. /\ phase = from /\ phase' = to /\ skip' = skip /\ failures' = failures
      /\ read' = IF kind \in skip THEN read ELSE read \cup (OfKind(kind) \cap Identified)
  BY DEF ReadAll, Enter, fetchVars
<1>1. FailsOnce'
  BY <1>0 DEF Warned, FailsOnce
<1>2. \A d \in read' \ read : d \notin Catalogued
  BY <1>0, CatalogAssumption DEF CatalogWorks, OfKind
<1>3. Kept(warnings)
  BY DEF Warned, MissesSaid
<1>4. CASE kind \notin skip
  <2>1. warnings' = warnings
    BY <1>4 DEF ReadAll, WarnSkipped
  <2>2. MissesSaid'
    BY <1>0, <1>2, <1>3, <2>1, MissesStay DEF Warned
  <2>3. SkipsSaid'
    BY <1>0, <1>4, <2>1, SaidStays DEF Warned, SkipsSaid
  <2> QED BY <1>1, <2>2, <2>3 DEF Warned
<1>5. CASE kind \in skip
  <2> DEFINE text == <<"skipped", kind>>
             ws == Add(warnings, text)
  <2>1. text[1] = "skipped" /\ "skipped" # FetchFailed
    BY DEF FetchFailed
  <2> HIDE DEF text
  <2>2. Kept(ws) /\ Keys(ws) = Keys(warnings) \cup {text} /\ \A d : About(ws, d) <=> About(warnings, d)
    BY <1>3, <2>1, AddKeeps
  <2>3. warnings' = ws \/ warnings' = Add(ws, <<"all skipped">>)
    BY <1>5 DEF ReadAll, WarnSkipped, text
  <2> HIDE DEF ws
  <2>4. CASE warnings' = ws
    <3>1. MissesSaid'
      BY <1>0, <1>2, <2>2, <2>4, MissesStay DEF Warned
    <3>2. SkipsSaid'
      BY <1>0, <1>5, <2>2, <2>4, SkipAdded DEF Warned, Kinds, text
    <3> QED BY <1>1, <3>1, <3>2 DEF Warned
  <2>5. CASE warnings' = Add(ws, <<"all skipped">>)
    <3> DEFINE all == <<"all skipped">>
    <3>1. all[1] = "all skipped" /\ "all skipped" # FetchFailed
      BY DEF FetchFailed
    <3> HIDE DEF all
    <3>2. /\ Kept(warnings') /\ Keys(warnings') = Keys(ws) \cup {all}
          /\ \A d : About(warnings', d) <=> About(ws, d)
      BY <2>2, <2>5, <3>1, AddKeeps DEF all
    <3>3. MissesSaid'
      BY <1>0, <1>2, <2>2, <3>2, MissesStay DEF Warned
    <3>4. Keys(warnings)' = (Keys(warnings) \cup {text}) \cup {all}
      BY <2>2, <3>2 DEF Keys
    <3>5. /\ Said("skipped")' = Said("skipped") \cup {text}
          /\ Said("metrics skipped")' = Said("metrics skipped")
      BY <2>1, <3>1, <3>4 DEF Said
    <3>6. SkipsSaid'
      BY <1>0, <1>5, <3>5 DEF Warned, SkipsSaid, text
    <3> QED BY <1>1, <3>3, <3>6 DEF Warned
  <2> QED BY <2>3, <2>4, <2>5
<1> QED BY <1>4, <1>5

\* A failed dashboard is now warned about, and only now.
LEMMA MissWarns ==
  ASSUME Warned, NEW d \in Definitions, MissDashboard(d)
  PROVE  Warned'
<1>1. /\ phase = "dashboard" /\ phase' = phase /\ skip' = skip /\ failures' = failures
      /\ read' = read /\ d \in todo \cap Identified /\ todo' = todo \ {d}
  BY DEF MissDashboard, fetchVars
<1>2. PICK cause \in Causes :
        warnings' = AddFor(warnings, FetchFailed, "dashboard", d, FirstLine(d, cause))
  BY DEF MissDashboard
<1> DEFINE key == Key(FetchFailed, "dashboard", FirstLine(d, cause))
<1>3. Kept(warnings) /\ ~About(warnings, d)
  BY <1>1 DEF Warned, MissesSaid
<1>4. /\ Kept(warnings') /\ Keys(warnings') = Keys(warnings) \cup {key}
      /\ \A x : About(warnings', x) <=> About(warnings, x) \/ x = d
  BY <1>2, <1>3, AddForKeeps
<1>5. key[1] # "skipped" /\ key[1] # "metrics skipped"
  BY DEF Key, FetchFailed
<1> HIDE DEF key
<1>6. Said("skipped")' = Said("skipped") /\ Said("metrics skipped")' = Said("metrics skipped")
  BY <1>4, <1>5, SaidGrows
<1>7. SkipsSaid'
  BY <1>1, <1>6 DEF Warned, SkipsSaid, PassedKinds
<1>8. Kept(warnings)' /\ \A x : About(warnings, x)' <=> About(warnings, x) \/ x = d
  BY <1>4 DEF Kept, Formed, Counted, KeysApart, SubjectsApart, About, EntriesFor
<1>9. MissesSaid'
  <2>1. d \in (Catalogued \cap Identified) \ read /\ "dashboard" \notin skip
    BY <1>1 DEF Warned, MissesSaid, SkipsSaid
  <2>2. todo' \subseteq Catalogued \ read
    BY <1>1 DEF Warned, MissesSaid
  <2>3. ASSUME NEW x \in Definitions, About(warnings, x)
        PROVE  x \in (Catalogued \cap Identified) \ read /\ x \notin todo
    BY <1>1, <2>3 DEF Warned, MissesSaid
  <2> QED BY <1>1, <1>8, <2>1, <2>2, <2>3 DEF MissesSaid
<1>10. FailsOnce'
  BY <1>1 DEF Warned, FailsOnce
<1> QED BY <1>7, <1>9, <1>10 DEF Warned

\* The dashboards that are left are the ones not visited.
LEMMA VisitWarns ==
  ASSUME Warned, NEW d \in Definitions, PassUnidentified(d) \/ ReadDashboard(d)
  PROVE  Warned'
<1>1. /\ phase = "dashboard" /\ phase' = phase /\ skip' = skip /\ failures' = failures
      /\ warnings' = warnings /\ d \in todo /\ todo' = todo \ {d} /\ read' \subseteq read \cup {d}
  BY DEF PassUnidentified, ReadDashboard, fetchVars
<1>2. SkipsSaid' /\ FailsOnce'
  BY <1>1, SaidStays DEF Warned, SkipsSaid, PassedKinds, FailsOnce
<1>3. Kept(warnings)' /\ \A x : About(warnings, x)' <=> About(warnings, x)
  BY <1>1, SameWarnings DEF Warned, MissesSaid
<1>4. MissesSaid'
  BY <1>1, <1>3 DEF Warned, MissesSaid
<1> QED BY <1>2, <1>4 DEF Warned

\* A metric that fails had not failed before.
LEMMA FetchFailsOnce == Fetched /\ FailsOnce /\ Fetch!Next => FailsOnce'
<1> SUFFICES ASSUME Fetched, FailsOnce, Fetch!Next PROVE FailsOnce'
  OBVIOUS
<1>1. ASSUME NEW m \in Metrics, Fetch!Fail(m) PROVE FailsOnce'
  <2>1. m \notin settled
    BY <1>1 DEF Fetch!Fail
  <2>2. PICK c \in Fetch!Categories : failures' = failures \cup {[metric |-> m, category |-> c]}
    BY <1>1 DEF Fetch!Fail
  <2>3. \A f \in failures : f.metric # m
    BY <2>1 DEF Fetched, FailedMetrics
  <2> QED BY <2>2, <2>3 DEF FailsOnce
<1>2. ASSUME NEW m \in Metrics, Fetch!Absorb(m) PROVE FailsOnce'
  BY <1>2 DEF Fetch!Absorb, FailsOnce
<1>3. CASE Fetch!Report \/ Fetch!Abort
  BY <1>3 DEF Fetch!Report, Fetch!Abort, FailsOnce
<1> QED BY <1>1, <1>2, <1>3 DEF Fetch!Next

\* Every step keeps the warnings and the gaps in agreement,
LEMMA WarnedStep == Fetched /\ Warned /\ [Next]_vars => Warned'
<1> SUFFICES ASSUME Fetched, Warned, [Next]_vars PROVE Warned'
  OBVIOUS
<1> USE DEF Enter
<1>0. ASSUME warnings' = warnings, skip' = skip, failures' = failures, read' = read,
             \/ phase' = "aborted"
             \/ phase' = phase /\ (todo' = todo \/ phase = "correlate")
             \/ phase = "dashboard" /\ phase' = "alerts"
             \/ phase = "names" /\ phase' = "series"
             \/ phase = "correlate" /\ phase' = "done"
      PROVE  Warned'
  <2>1. /\ Said("skipped")' = Said("skipped") /\ Said("metrics skipped")' = Said("metrics skipped")
        /\ Cardinality(failures)' = Cardinality(failures)
    BY <1>0, SaidStays
  <2>2. phase' = "aborted" \/ PassedKinds' = PassedKinds
    BY <1>0 DEF PassedKinds
  <2>3. SkipsSaid'
    BY <1>0, <2>1, <2>2 DEF Warned, SkipsSaid
  <2>4. Kept(warnings)' /\ \A x : About(warnings, x)' <=> About(warnings, x)
    BY <1>0, SameWarnings DEF Warned, MissesSaid
  <2>6. MissesSaid'
    BY <1>0, <2>4 DEF Warned, MissesSaid
  <2>7. FailsOnce'
    BY <1>0 DEF Warned, FailsOnce
  <2> QED BY <2>3, <2>6, <2>7 DEF Warned
<1>1. CASE SkipDashboards
  <2>1. /\ phase = "dashboards" /\ phase' = "alerts" /\ read' = read /\ skip' = skip
        /\ failures' = failures /\ "dashboard" \in skip
        /\ warnings' = Add(warnings, <<"skipped", "dashboard">>)
    BY <1>1 DEF SkipDashboards, fetchVars
  <2> DEFINE text == <<"skipped", "dashboard">>
  <2>2. text[1] # FetchFailed
    BY DEF FetchFailed
  <2>3. warnings' = Add(warnings, text) /\ Kept(warnings)
    BY <2>1 DEF Warned, MissesSaid
  <2> HIDE DEF text
  <2>4. /\ Kept(warnings') /\ Keys(warnings') = Keys(warnings) \cup {text}
        /\ \A d : About(warnings', d) <=> About(warnings, d)
    BY <2>2, <2>3, AddKeeps
  <2>5. MissesSaid'
    BY <2>1, <2>4, MissesStay DEF Warned
  <2>6. PassedKinds' = PassedKinds \cup {"dashboard"}
    BY <2>1 DEF PassedKinds
  <2>7. SkipsSaid'
    BY <2>1, <2>4, <2>6, SkipAdded DEF Warned, Kinds, text
  <2>8. FailsOnce'
    BY <2>1 DEF Warned, FailsOnce
  <2> QED BY <2>5, <2>7, <2>8 DEF Warned
<1>2. CASE ListDashboards
  <2>1. /\ phase = "dashboards" /\ phase' = "dashboard" /\ read' = read /\ skip' = skip
        /\ failures' = failures /\ "dashboard" \notin skip /\ warnings' = warnings
        /\ todo' = Catalogued
    BY <1>2 DEF ListDashboards, fetchVars
  <2>2. skip \cap PassedKinds = {} /\ skip' \cap PassedKinds' = {}
    BY <2>1 DEF PassedKinds
  <2>3. Said("skipped")' = Said("skipped") /\ Said("metrics skipped")' = Said("metrics skipped")
    BY <2>1, SaidStays
  <2>4. SkipsSaid'
    BY <2>1, <2>2, <2>3 DEF Warned, SkipsSaid
  <2>5. Kept(warnings)' /\ \A x : About(warnings, x)' <=> About(warnings, x)
    BY <2>1, SameWarnings DEF Warned, MissesSaid
  <2>7. MissesSaid'
    BY <2>1, <2>5 DEF Warned, MissesSaid
  <2>8. FailsOnce'
    BY <2>1 DEF Warned, FailsOnce
  <2> QED BY <2>4, <2>7, <2>8 DEF Warned
<1>3. ASSUME NEW d \in Definitions, PassUnidentified(d) \/ ReadDashboard(d) PROVE Warned'
  BY <1>3, VisitWarns
<1>4. ASSUME NEW d \in Definitions, MissDashboard(d) PROVE Warned'
  BY <1>4, MissWarns
<1>5. CASE DashboardsDone
  BY <1>0, <1>5 DEF DashboardsDone, fetchVars
<1>6. CASE ReadAlerts
  <2>1. PassedKinds' = PassedKinds \cup {"alert"}
    BY <1>6 DEF ReadAlerts, ReadAll, PassedKinds
  <2> QED BY <1>6, <2>1, ReadAllWarns DEF ReadAlerts
<1>7. CASE ReadSLOs
  <2>1. PassedKinds' = PassedKinds \cup {"slo"}
    BY <1>7 DEF ReadSLOs, ReadAll, PassedKinds, Kinds
  <2> QED BY <1>7, <2>1, ReadAllWarns DEF ReadSLOs
<1>8. CASE ListNames \/ FetchAborts \/ SeriesAbort \/ Classify
  <2>1. warnings' = warnings /\ read' = read /\ skip' = skip /\ failures' = failures
    BY <1>8 DEF ListNames, FetchAborts, SeriesAbort, Classify, fetchVars
  <2>2. \/ phase = "names" /\ phase' = "series"
        \/ phase' = "aborted"
        \/ phase = "correlate" /\ phase' = "done"
    BY <1>8 DEF ListNames, FetchAborts, SeriesAbort, Classify
  <2> QED BY <1>0, <2>1, <2>2
<1>9. CASE FetchSeries
  <2>1. /\ phase = "series" /\ phase' = phase /\ warnings' = warnings /\ read' = read
        /\ skip' = skip /\ todo' = todo
    BY <1>9 DEF FetchSeries
  <2>2. FailsOnce'
    BY <1>9, FetchFailsOnce DEF FetchSeries, Warned
  <2>3. SkipsSaid'
    BY <2>1, SaidStays DEF Warned, SkipsSaid, PassedKinds
  <2>4. Kept(warnings)' /\ \A x : About(warnings, x)' <=> About(warnings, x)
    BY <2>1, SameWarnings DEF Warned, MissesSaid
  <2>6. MissesSaid'
    BY <2>1, <2>4 DEF Warned, MissesSaid
  <2> QED BY <2>2, <2>3, <2>6 DEF Warned
<1>10. CASE SeriesDone
  <2>1. /\ phase = "series" /\ phase' = "correlate" /\ read' = read /\ skip' = skip
        /\ failures' = failures /\ FailsOnce'
        /\ warnings' = IF failures = {} THEN warnings
                       ELSE Add(warnings, <<"metrics skipped", Cardinality(failures)>>)
    BY <1>10 DEF SeriesDone, fetchVars, Warned, FailsOnce
  <2>2. PassedKinds' = PassedKinds /\ Kept(warnings)
    BY <2>1 DEF PassedKinds, Warned, MissesSaid
  <2>3. CASE failures = {}
    <3>1. SkipsSaid'
      BY <2>1, <2>2, <2>3, SaidStays DEF Warned, SkipsSaid
    <3>2. MissesSaid'
      BY <2>1, <2>2, <2>3, MissesStay DEF Warned
    <3> QED BY <2>1, <3>1, <3>2 DEF Warned
  <2>4. CASE failures # {}
    <3> DEFINE text == <<"metrics skipped", Cardinality(failures)>>
    <3>1. text[1] = "metrics skipped" /\ "metrics skipped" # FetchFailed
      BY DEF FetchFailed
    <3>2. warnings' = Add(warnings, text)
      BY <2>1, <2>4
    <3> HIDE DEF text
    <3>3. /\ Kept(warnings') /\ Keys(warnings') = Keys(warnings) \cup {text}
          /\ \A d : About(warnings', d) <=> About(warnings, d)
      BY <2>2, <3>1, <3>2, AddKeeps
    <3>4. MissesSaid'
      BY <2>1, <3>3, MissesStay DEF Warned
    <3>5. /\ Said("skipped")' = Said("skipped")
          /\ Said("metrics skipped")' = Said("metrics skipped") \cup {text}
      BY <3>1, <3>3, SaidGrows
    <3>6. text = <<"metrics skipped", Cardinality(failures)>> /\ Cardinality(failures)' = Cardinality(failures)
      BY <2>1 DEF text
    <3>7. SkipsSaid'
      BY <2>1, <2>2, <2>4, <3>5, <3>6 DEF Warned, SkipsSaid
    <3> QED BY <2>1, <3>4, <3>7 DEF Warned
  <2> QED BY <2>3, <2>4
<1>11. ASSUME NEW d \in Definitions, Correlate(d) PROVE Warned'
  BY <1>0, <1>11 DEF Correlate, fetchVars
<1>12. CASE UNCHANGED vars
  BY <1>0, <1>12 DEF vars, fetchVars
<1> QED
  BY <1>1, <1>2, <1>3, <1>4, <1>5, <1>6, <1>7, <1>8, <1>9, <1>10, <1>11, <1>12 DEF Next, Advance, Over

\* so they agree at all times.
LEMMA WarnedHolds == Spec => []Warned
<1>1. Init => Warned
  <2> SUFFICES ASSUME Init PROVE Warned
    OBVIOUS
  <2>1. warnings = <<>> /\ phase = "dashboards" /\ read = {} /\ skip \subseteq Kinds /\ failures = {}
    BY DEF Init, Fetch!Init
  <2>2. DOMAIN warnings = {}
    BY <2>1
  <2>3. Formed(warnings)
    <3>1. <<>> \in Seq([key : {}, subjects : Seq(Definitions)])
      OBVIOUS
    <3> QED BY <2>1, <3>1 DEF Formed
  <2>4. Kept(warnings)
    BY <2>2, <2>3 DEF Kept, Counted, KeysApart, SubjectsApart
  <2>5. Keys(warnings) = {} /\ \A d : ~About(warnings, d)
    BY <2>2 DEF Keys, About, EntriesFor
  <2>6. Said("skipped") = {} /\ Said("metrics skipped") = {} /\ PassedKinds = {}
    BY <2>1, <2>5 DEF Said, PassedKinds
  <2> QED BY <2>1, <2>4, <2>5, <2>6 DEF Warned, SkipsSaid, MissesSaid, FailsOnce
<1> QED
  BY <1>1, WarnedStep, ScanHolds, PTL DEF Spec

\* The texts of the list are the keys of the entries.
LEMMA TextsAreKeys == WarningTexts = Keys(warnings)
<1>1. \A i \in DOMAIN warnings : List(warnings)[i].text = warnings[i].key
  <2> TAKE i \in DOMAIN warnings
  <2>1. List(warnings)[i] = Render(warnings[i])
    BY DEF List
  <2> QED BY <2>1 DEF Render
<1>2. WarningTexts = {List(warnings)[i].text : i \in DOMAIN warnings}
  BY Zenon DEF WarningTexts
<1> QED BY <1>1, <1>2 DEF Keys

\* As many failures as failed metrics.
LEMMA FailuresCounted ==
  ASSUME FailsOnce, Fetched
  PROVE  IsFiniteSet(failures) /\ Cardinality(FailedMetrics) = Cardinality(failures)
<1>1. IsFiniteSet(FailedMetrics)
  BY SeriesAssumption, FS_Subset DEF Fetched
<1> DEFINE h == [m \in FailedMetrics |-> CHOOSE f \in failures : f.metric = m]
           g == [f \in failures |-> f.metric]
<1>2. \A m \in FailedMetrics : h[m] \in failures /\ h[m].metric = m
  BY DEF FailedMetrics
<1>3. \A f \in failures : f.metric \in FailedMetrics /\ h[f.metric] = f
  <2>1. \A f \in failures : f.metric \in FailedMetrics
    BY DEF FailedMetrics
  <2> QED BY <1>2, <2>1 DEF FailsOnce
<1> HIDE DEF h
<1>4. failures = {h[m] : m \in FailedMetrics}
  BY <1>2, <1>3
<1>5. IsFiniteSet(failures)
  BY <1>1, <1>4, FiniteImage
<1>6. FailedMetrics = {g[f] : f \in failures} /\ \A x, y \in failures : g[x] = g[y] => x = y
  BY DEF FailedMetrics, FailsOnce
<1> HIDE DEF g
<1> QED BY <1>5, <1>6, FiniteImage

\* An entry names and counts its subjects, and they are different ones.
LEMMA EntryCounts ==
  ASSUME Warned, NEW i \in DOMAIN warnings
  PROVE  LET w == List(warnings)[i]
         IN  w.named + w.more = Cardinality({d \in Unread : i \in EntriesFor(warnings, FetchFailed, d)})
<1>0. Kept(warnings)
  BY DEF Warned, MissesSaid
<1> DEFINE s == warnings[i].subjects
           D == {d \in Unread : i \in EntriesFor(warnings, FetchFailed, d)}
<1>1. PICK K : warnings \in Seq([key : K, subjects : Seq(Definitions)])
  BY <1>0 DEF Kept, Formed
<1>2. s \in Seq(Definitions)
  <2> DEFINE E == [key : K, subjects : Seq(Definitions)]
  <2>1. warnings[i] \in E
    <3> HIDE DEF E
    <3>1. warnings \in Seq(E)
      BY <1>1 DEF E
    <3> QED BY <3>1
  <2> QED BY <2>1
<1>3. Len(s) \in Nat /\ DOMAIN s = 1..Len(s) /\ \A a \in 1..Len(s) : s[a] \in Definitions
  BY <1>2
<1>4. \A d : i \in EntriesFor(warnings, FetchFailed, d) <=> \E a \in 1..Len(s) : s[a] = d
  BY <1>0, <1>3, AboutTells DEF Tells
<1>5. D = {s[a] : a \in 1..Len(s)}
  BY <1>3, <1>4 DEF Unread
<1>6. \A a, b \in 1..Len(s) : s[a] = s[b] => a = b
  BY <1>0, <1>3 DEF Kept, SubjectsApart
<1>7. IsFiniteSet(1..Len(s)) /\ Cardinality(1..Len(s)) = Len(s)
  BY <1>3, FS_Interval
<1> HIDE DEF D
<1>8. Cardinality(D) = Len(s)
  <2> HIDE DEF s
  <2> QED BY <1>5, <1>6, <1>7, FiniteImage
<1>9. List(warnings)[i].named + List(warnings)[i].more = Len(s)
  <2>1. List(warnings)[i] = Render(warnings[i])
    BY DEF List
  <2> DEFINE n == Len(s)
             shown == IF n > FoldedShown THEN FoldedShown ELSE n
  <2>2. n \in Nat
    BY <1>3
  <2> HIDE DEF n
  <2>3. shown + (n - shown) = n
    BY <2>2, WarningsAssumption
  <2> HIDE DEF shown
  <2>4. Render(warnings[i]) = [text |-> warnings[i].key, named |-> shown, more |-> n - shown, detailed |-> n = 1]
    BY DEF Render, shown, n
  <2> QED BY <2>1, <2>3, <2>4 DEF n
<1> QED BY <1>8, <1>9 DEF D

\* The warnings of a report account for every gap in what the catalog listed,
\* for every tenant and both sources, whatever fails: which kinds were skipped,
\* how many metrics failed, and each listed dashboard that could not be read, in
\* one entry only.
THEOREM KnownGapsWarned == Spec => [](Done => Accounts(Catalogued))
<1>1. Warned /\ Reading /\ Fetched /\ Correlated => (Done => Accounts(Catalogued))
  <2> SUFFICES ASSUME Warned, Reading, Fetched, Correlated, Done
               PROVE  Accounts(Catalogued)
    OBVIOUS
  <2>0. phase = "done" /\ Kept(warnings) /\ PassedKinds = Kinds
    BY DEF Done, Warned, MissesSaid, PassedKinds
  <2>1. SkippedKindsWarned = skip
    <3>1. \A k \in Kinds : <<"skipped", k>> \in Keys(warnings) <=> <<"skipped", k>> \in Said("skipped")
      BY DEF Said
    <3>2. Said("skipped") = {<<"skipped", k>> : k \in skip \cap Kinds} /\ skip \subseteq Kinds
      BY <2>0 DEF Warned, SkipsSaid
    <3>3. \A k : <<"skipped", k>> \in {<<"skipped", j>> : j \in skip \cap Kinds} <=> k \in skip \cap Kinds
      OBVIOUS
    <3> QED BY <3>1, <3>2, <3>3, TextsAreKeys DEF SkippedKindsWarned
  <2>2. FailedMetrics # {} <=> <<"metrics skipped", Cardinality(FailedMetrics)>> \in WarningTexts
    <3>1. FailedMetrics # {} <=> failures # {}
      BY DEF FailedMetrics
    <3>2. Cardinality(FailedMetrics) = Cardinality(failures)
      BY FailuresCounted DEF Warned
    <3>3. Said("metrics skipped") =
            IF failures # {} THEN {<<"metrics skipped", Cardinality(failures)>>} ELSE {}
      BY <2>0 DEF Warned, SkipsSaid
    <3>4. \A n : <<"metrics skipped", n>> \in Keys(warnings) <=> <<"metrics skipped", n>> \in Said("metrics skipped")
      BY DEF Said
    <3> DEFINE text == <<"metrics skipped", Cardinality(FailedMetrics)>>
    <3>5. text \in Keys(warnings) <=> text \in Said("metrics skipped")
      BY <3>4
    <3>6. Said("metrics skipped") = IF failures # {} THEN {text} ELSE {}
      BY <3>2, <3>3
    <3> HIDE DEF text
    <3>7. FailedMetrics # {} <=> text \in WarningTexts
      BY <3>1, <3>5, <3>6, TextsAreKeys
    <3> QED BY <3>7 DEF text
  <2>3. Unread = {d \in Definitions : About(warnings, d)}
    BY DEF Unread, About
  <2>4. Unread = IF "dashboard" \in skip THEN {} ELSE (Catalogued \cap Identified) \ read
    <3>1. CASE "dashboard" \in skip
      BY <2>3, <3>1 DEF Warned, MissesSaid
    <3>2. CASE "dashboard" \notin skip
      <4>1. Unread \subseteq (Catalogued \cap Identified) \ read
        BY <2>3 DEF Warned, MissesSaid
      <4>2. ASSUME NEW d \in (Catalogued \cap Identified) \ read PROVE d \in Unread
        <5>1. KindOf[d] = "dashboard" /\ d \in Definitions
          BY CatalogAssumption DEF CatalogWorks, OfKind
        <5>2. Explained(d)
          BY <2>0 DEF Reading, Passed, Known
        <5>3. <<"skipped", "dashboard">> \notin Keys(warnings)
          BY <2>1, <3>2, TextsAreKeys DEF SkippedKindsWarned, Kinds
        <5> QED BY <2>3, <5>1, <5>2, <5>3 DEF Explained
      <4> QED BY <3>2, <4>1, <4>2
    <3> QED BY <3>1, <3>2
  <2>5. \A d \in Unread : Cardinality(EntriesFor(warnings, FetchFailed, d)) = 1
    <3> TAKE d \in Unread
    <3>1. PICK i : i \in EntriesFor(warnings, FetchFailed, d)
      BY DEF Unread
    <3>2. \A j \in EntriesFor(warnings, FetchFailed, d) : j = i
      BY <2>0, <3>1, AboutTells, ToldOnce
    <3>3. EntriesFor(warnings, FetchFailed, d) = {i}
      BY <3>1, <3>2
    <3> QED BY <3>3, FS_Singleton
  <2> QED BY <2>1, <2>2, <2>4, <2>5, EntryCounts DEF Accounts
<1> QED
  BY <1>1, WarnedHolds, ReadingHolds, ScanHolds, PTL

\* So they account for every dashboard of a tenant whose catalog command works,
\* and of every tenant over the API.
THEOREM GapsWarned == Spec => [](CatalogWorks => GapsAreWarned)
<1>1. (Done => Accounts(Catalogued)) => (CatalogWorks => GapsAreWarned)
  BY DEF GapsAreWarned, CatalogWorks
<1> QED
  BY <1>1, KnownGapsWarned, PTL

-----------------------------------------------------------------------------
\* The metrics that were answered and whose series are not all there.
CutMetrics == {m \in settled \ FailedMetrics : SeriesNamed(catalog, m) # SeriesOf[m]}

CutsCounted == truncatedCount \in Nat /\ Cardinality(CutMetrics) <= truncatedCount

\* Finitely many metrics are cut.
LEMMA CutsFinite == Fetched => IsFiniteSet(CutMetrics)
BY SeriesAssumption, FS_Subset DEF Fetched, CutMetrics

\* An answer adds the series of its own metric only.
LEMMA OthersKeepTheirs ==
  ASSUME NEW m \in Metrics, NEW rows, rows \subseteq SeriesOf[m], catalog' = catalog \cup rows
  PROVE  /\ \A n : n # m => SeriesNamed(catalog, n)' = SeriesNamed(catalog, n)
         /\ SeriesNamed(catalog, m)' = SeriesNamed(catalog, m) \cup rows
BY SeriesAreNamed DEF SeriesNamed

\* What the full answer of a metric leaves out makes it count as capped.
LEMMA CutIsFull ==
  ASSUME NEW m \in Metrics, NEW rows \in RowSets(m), rows # SeriesOf[m]
  PROVE  Fetch!Full(rows)
BY SameCardinality, SeriesAssumption DEF RowSets, Fetch!Full

\* A step of the series phase cuts no more metrics than it counts,
LEMMA CutStep == Fetched /\ CutsCounted /\ Fetch!Next => CutsCounted'
<1> SUFFICES ASSUME Fetched, CutsCounted, Fetch!Next PROVE CutsCounted'
  OBVIOUS
<1>0. IsFiniteSet(CutMetrics) /\ Cardinality(CutMetrics) \in Nat
  BY CutsFinite, FS_CardinalityType
<1>1. ASSUME NEW m \in Metrics, Fetch!Absorb(m) PROVE CutsCounted'
  <2>1. PICK rows \in RowSets(m) :
          /\ catalog' = catalog \cup rows
          /\ truncatedCount' = truncatedCount + (IF Fetch!Full(rows) THEN 1 ELSE 0)
    BY <1>1, SameCardinality DEF Fetch!Absorb, Fetch!RowSets, RowSets
  <2>2. settled' = settled \cup {m} /\ FailedMetrics' = FailedMetrics /\ m \notin settled
    BY <1>1 DEF Fetch!Absorb, FailedMetrics
  <2>3. rows \subseteq SeriesOf[m]
    BY RowsAreSeries
  <2>4. /\ \A n : n # m => SeriesNamed(catalog, n)' = SeriesNamed(catalog, n)
        /\ SeriesNamed(catalog, m)' = SeriesNamed(catalog, m) \cup rows
    BY <2>1, <2>3, OthersKeepTheirs
  <2>5. CutMetrics' \subseteq CutMetrics \cup {m}
    BY <2>2, <2>4 DEF CutMetrics
  <2>6. CASE rows = SeriesOf[m]
    <3>1. SeriesNamed(catalog, m) \subseteq SeriesOf[m]
      BY CatalogIsNamed DEF SeriesNamed
    <3>2. m \notin CutMetrics'
      BY <2>4, <2>6, <3>1 DEF CutMetrics
    <3>3. CutMetrics' \subseteq CutMetrics
      BY <2>5, <3>2
    <3>4. Cardinality(CutMetrics') <= Cardinality(CutMetrics) /\ Cardinality(CutMetrics') \in Nat
      BY <1>0, <3>3, FS_Subset, FS_CardinalityType
    <3> QED BY <1>0, <2>1, <3>4 DEF CutsCounted
  <2>7. CASE rows # SeriesOf[m]
    <3>1. truncatedCount' = truncatedCount + 1
      BY <2>1, <2>7, CutIsFull
    <3>2. IsFiniteSet(CutMetrics \cup {m}) /\ Cardinality(CutMetrics \cup {m}) <= Cardinality(CutMetrics) + 1
      BY <1>0, FS_AddElement
    <3>3. Cardinality(CutMetrics') <= Cardinality(CutMetrics \cup {m}) /\ Cardinality(CutMetrics') \in Nat
      BY <2>5, <3>2, FS_Subset, FS_CardinalityType
    <3>4. Cardinality(CutMetrics \cup {m}) \in Nat
      BY <3>2, FS_CardinalityType
    <3> QED BY <1>0, <3>1, <3>2, <3>3, <3>4 DEF CutsCounted
  <2> QED BY <2>6, <2>7
<1>2. ASSUME NEW m \in Metrics, Fetch!Fail(m) PROVE CutsCounted'
  <2>1. /\ settled' = settled \cup {m} /\ catalog' = catalog /\ truncatedCount' = truncatedCount
    BY <1>2 DEF Fetch!Fail
  <2>2. PICK c \in Fetch!Categories : failures' = failures \cup {[metric |-> m, category |-> c]}
    BY <1>2 DEF Fetch!Fail
  <2>3. m \in FailedMetrics' /\ FailedMetrics \subseteq FailedMetrics'
    <3> DEFINE f == [metric |-> m, category |-> c]
    <3>1. f.metric = m /\ f \in failures' /\ failures \subseteq failures'
      BY <2>2
    <3> HIDE DEF f
    <3> QED BY <3>1, Zenon DEF FailedMetrics
  <2>4. CutMetrics' \subseteq CutMetrics
    BY <2>1, <2>3 DEF CutMetrics, SeriesNamed
  <2>5. Cardinality(CutMetrics') <= Cardinality(CutMetrics) /\ Cardinality(CutMetrics') \in Nat
    BY <1>0, <2>4, FS_Subset, FS_CardinalityType
  <2> QED BY <1>0, <2>1, <2>5 DEF CutsCounted
<1>3. CASE Fetch!Report \/ Fetch!Abort
  <2>1. CutMetrics' = CutMetrics /\ truncatedCount' = truncatedCount
    BY <1>3 DEF Fetch!Report, Fetch!Abort, CutMetrics, FailedMetrics, SeriesNamed
  <2> QED BY <2>1 DEF CutsCounted
<1> QED BY <1>1, <1>2, <1>3 DEF Fetch!Next

\* so the truncation counter bounds the metrics that are cut.
LEMMA CutsHold == Spec => []CutsCounted
<1>1. Init => CutsCounted
  BY FS_EmptySet DEF Init, Fetch!Init, CutsCounted, CutMetrics
<1>2. Fetched /\ CutsCounted /\ [Next]_vars => CutsCounted'
  <2> SUFFICES ASSUME Fetched, CutsCounted, [Next]_vars PROVE CutsCounted'
    OBVIOUS
  <2>1. CASE FetchSeries
    BY <2>1, CutStep DEF FetchSeries
  <2>2. CASE UNCHANGED fetchVars
    <3>1. CutMetrics' = CutMetrics /\ truncatedCount' = truncatedCount
      BY <2>2 DEF fetchVars, CutMetrics, FailedMetrics, SeriesNamed
    <3> QED BY <3>1 DEF CutsCounted
  <2>3. FetchSeries \/ UNCHANGED fetchVars
    BY DEF Next, Advance, Over, vars, SkipDashboards, ListDashboards, DashboardsDone,
           PassUnidentified, ReadDashboard, MissDashboard, Correlate, ReadAlerts, ReadSLOs, ReadAll,
           ListNames, FetchAborts, SeriesAbort, SeriesDone, Classify
  <2> QED BY <2>1, <2>2, <2>3
<1> QED
  BY <1>1, <1>2, ScanHolds, PTL DEF Spec

-----------------------------------------------------------------------------
\* A finite set has a subset of every size up to its own.
LEMMA SubsetOfSize ==
  ASSUME NEW S, IsFiniteSet(S), NEW n \in Nat, n <= Cardinality(S)
  PROVE  \E T \in SUBSET S : Cardinality(T) = n
<1> DEFINE N == Cardinality(S)
<1>1. N \in Nat /\ \E f : ExistsBijection(1..N, S)
  BY FS_CardinalityType, FS_CountingElements
<1>2. PICK f : f \in Bijection(1..N, S)
  BY FS_CardinalityType DEF ExistsBijection
<1>3. \A i \in 1..N : f[i] \in S
  BY <1>2 DEF Bijection, Injection
<1>4. \A i, j \in 1..N : f[i] = f[j] => i = j
  BY <1>2 DEF Bijection, Injection, IsInjective
<1> DEFINE T == {f[i] : i \in 1..n}
<1>5. 1..n \subseteq 1..N
  BY <1>1
<1>6. IsFiniteSet(1..n) /\ Cardinality(1..n) = n
  BY FS_Interval
<1>7. \A i, j \in 1..n : f[i] = f[j] => i = j
  BY <1>4, <1>5
<1>8. T \in SUBSET S
  BY <1>3, <1>5
<1> HIDE DEF N
<1>9. Cardinality(T) = n
  BY <1>6, <1>7, FiniteImage
<1> QED BY <1>8, <1>9

\* A section's lines and the count of the rest make up the list.
LEMMA SectionTells ==
  ASSUME NEW S, IsFiniteSet(S)
  PROVE  Told(Section(S)) = Cardinality(S)
<1> DEFINE n == IF Cardinality(S) > PdfTopRows THEN PdfTopRows ELSE Cardinality(S)
<1>1. Cardinality(S) \in Nat /\ n \in Nat /\ n <= Cardinality(S)
  BY FS_CardinalityType, PresentationAssumption
<1>2. \E T \in SUBSET S : Cardinality(T) = n
  BY <1>1, SubsetOfSize
<1>3. Cardinality(FirstLines(S)) = n
  BY <1>2 DEF FirstLines
<1> HIDE DEF n
<1> QED BY <1>1, <1>3 DEF Told, Section

\* The breakdown by category adds up to the failures.
LEMMA BreakdownAddsUp ==
  ASSUME IsFiniteSet(failures)
  PROVE  SumFunction(FailureCounts) = Cardinality(failures)
<1> DEFINE K == {f.category : f \in failures}
           class == [f \in failures |-> f.category]
           one == [f \in failures |-> 1]
           part == [c \in K |-> {f \in failures : f.category = c}]
<1>1. K = {class[f] : f \in failures} /\ \A f \in failures : class[f] \in K
  OBVIOUS
<1>2. IsFiniteSet(K)
  <2> HIDE DEF K, class
  <2> QED BY <1>1, FiniteImage
<1>3. \A c \in K : part[c] = {f \in failures : class[f] = c}
  OBVIOUS
<1>4. \A c \in K : FailureCounts[c] = SumFunctionOnSet(one, part[c])
  <2> TAKE c \in K
  <2>1. part[c] \subseteq failures /\ FailureCounts[c] = Cardinality(part[c])
    BY DEF FailureCounts
  <2>2. IsFiniteSet(part[c]) /\ \A f \in part[c] : one[f] = 1
    BY <2>1, FS_Subset
  <2>3. SumFunctionOnSet(one, part[c]) = 1 * Cardinality(part[c])
    <3> HIDE DEF one, part
    <3> QED BY <2>2, SumConstant
  <2>4. Cardinality(part[c]) \in Nat
    BY <2>2, FS_CardinalityType
  <2> QED BY <2>1, <2>3, <2>4
<1>5. \A f \in failures : one[f] = 1
  OBVIOUS
<1>6. DOMAIN FailureCounts = K
  BY DEF FailureCounts
<1> HIDE DEF K, class, one, part
<1>7. SumFunctionOnSet(FailureCounts, K) = SumFunctionOnSet(one, failures)
  BY <1>1, <1>2, <1>3, <1>4, <1>5, SumByClass
<1>8. SumFunctionOnSet(one, failures) = 1 * Cardinality(failures)
  BY <1>5, SumConstant
<1>9. Cardinality(failures) \in Nat
  BY FS_CardinalityType
<1> QED BY <1>6, <1>7, <1>8, <1>9 DEF SumFunction

\* What the settings and the fragment say, also when they say it by leaving
\* something out.
Number(n) == IF n \in DOMAIN Settings THEN Settings[n] ELSE 0
Task(p) == IF p \in DOMAIN Fragment THEN Fragment[p] ELSE {}
Stripped == {st.metric : st \in Strips}

\* The settings print a counter, or leave it out when it is nothing.
LEMMA NumbersAre ==
  ASSUME truncatedCount \in Nat, Cardinality(failures) \in Nat
  PROVE  Number("skipped") = Cardinality(failures) /\ Number("capped") = truncatedCount
<1> DEFINE numbers == [dashboards |-> Cardinality(read \cap OfKind("dashboard")),
                  alerts |-> IF "alert" \in skip THEN 0 ELSE Cardinality(OfKind("alert")),
                  slos |-> IF "slo" \in skip THEN 0 ELSE Cardinality(OfKind("slo")),
                  capped |-> truncatedCount,
                  skipped |-> Cardinality(failures)]
           always == {"dashboards", "alerts", "slos"}
           printed == always \cup {n \in DOMAIN numbers : numbers[n] > 0}
<1>1. Settings = [n \in printed |-> numbers[n]]
  BY DEF Settings
<1>2. numbers["skipped"] = Cardinality(failures) /\ numbers["capped"] = truncatedCount
      /\ "skipped" \in DOMAIN numbers /\ "capped" \in DOMAIN numbers
  OBVIOUS
<1>3. /\ "skipped" \in printed <=> numbers["skipped"] > 0
      /\ "capped" \in printed <=> numbers["capped"] > 0
  BY <1>2
<1> HIDE DEF numbers, printed
<1> QED BY <1>1, <1>2, <1>3 DEF Number

\* The fragment has a processor, or leaves it out when it has nothing to do.
LEMMA TasksAre ==
  /\ Task("drop") = Drops /\ Task("strip") = Strips
  /\ PlanIsEmpty <=> DOMAIN Fragment = {}
BY DEF Task, Fragment, PlanIsEmpty

\* The plans are made of the names of unused series, the scanned metrics.
LEMMA PlansAre ==
  ASSUME Scanned
  PROVE  LET names == {s[NameLabel] : s \in unused}
         IN  /\ IsFiniteSet(names) /\ names \subseteq Metrics
             /\ Drops \subseteq names /\ Stripped \subseteq names
             /\ Drops \cap Stripped = {}
<1> DEFINE names == {s[NameLabel] : s \in unused}
<1>1. \A s \in unused : s \in catalog
  BY DoneMeans
<1>2. \A s \in unused : NameLabel \in DOMAIN s /\ s[NameLabel] \in Metrics
  <2> TAKE s \in unused
  <2>1. Fetched /\ s \in catalog
    BY <1>1 DEF Scanned
  <2>2. LabelValue(s, NameLabel) \in Metrics /\ s \in SeriesOf[LabelValue(s, NameLabel)]
    BY <2>1, CatalogIsNamed
  <2> QED BY <2>2, ScanAssumption
<1>3. \A s \in unused : LabelValue(s, NameLabel) = s[NameLabel]
  BY <1>2 DEF LabelValue
<1>4. names \subseteq Metrics /\ IsFiniteSet(names)
  BY <1>2, SeriesAssumption, FS_Subset
<1>5. MetricNamesOf(unused) \subseteq names
  BY <1>3 DEF MetricNamesOf
<1>6. Drops \subseteq MetricNamesOf(unused)
  BY DEF Drops, DropMetricNames
<1>7. Stripped \subseteq MetricNamesOf(unused) \ Drops
  <2> SUFFICES ASSUME NEW st \in Strips PROVE st.metric \in MetricNamesOf(unused) \ Drops
    BY DEF Stripped
  <2>1. PICK m \in MetricNamesOf(unused) \ Drops : \E k : st = [metric |-> m, key |-> k]
    BY DEF Strips, StripStatements, Drops
  <2> QED BY <2>1
<1> QED BY <1>4, <1>5, <1>6, <1>7

\* Fragment, settings and sections of the PDF account for all there is, for
\* every tenant, however many lines a section has.
THEOREM PdfAccounts == Spec => []PdfAccountsForAll
<1>1. Warned /\ Fetched /\ Correlated /\ CutsCounted /\ UnknownIsNotUnused => PdfAccountsForAll
  <2> SUFFICES ASSUME Warned, Scanned, CutsCounted, UnknownIsNotUnused
               PROVE  PdfAccountsForAll
    BY DEF PdfAccountsForAll, Scanned
  <2> DEFINE names == {s[NameLabel] : s \in unused}
             incomplete == {m \in Metrics : SeriesNamed(catalog, m) # SeriesOf[m]}
  <2>0. Fetched /\ settled = Metrics /\ Done
    BY DEF Scanned, Correlated, Fetched, Done
  <2>1. /\ IsFiniteSet(failures) /\ Cardinality(FailedMetrics) = Cardinality(failures)
        /\ Cardinality(failures) \in Nat /\ IsFiniteSet(FailedMetrics)
    BY <2>0, FailuresCounted, FS_CardinalityType, SeriesAssumption, FS_Subset DEF Warned, Fetched
  <2>2. truncatedCount \in Nat /\ Cardinality(CutMetrics) <= truncatedCount
    BY DEF CutsCounted
  <2>3. Number("skipped") = Cardinality(failures) /\ Number("capped") = truncatedCount
    BY <2>1, <2>2, NumbersAre
  <2>4. Cardinality(incomplete) <= Number("skipped") + Number("capped")
    <3>1. incomplete \subseteq FailedMetrics \cup CutMetrics
      BY <2>0 DEF CutMetrics
    <3>2. IsFiniteSet(CutMetrics)
      BY <2>0, CutsFinite
    <3>3. IsFiniteSet(FailedMetrics \cup CutMetrics) /\ IsFiniteSet(FailedMetrics \cap CutMetrics)
      BY <2>1, <3>2, FS_Union, FS_Intersection
    <3>4. Cardinality(FailedMetrics \cup CutMetrics)
            = Cardinality(FailedMetrics) + Cardinality(CutMetrics) - Cardinality(FailedMetrics \cap CutMetrics)
      BY <2>1, <3>2, FS_Union
    <3>5. Cardinality(incomplete) <= Cardinality(FailedMetrics \cup CutMetrics)
      BY <3>1, <3>3, FS_Subset
    <3>6. Cardinality(FailedMetrics \cap CutMetrics) \in Nat /\ Cardinality(CutMetrics) \in Nat
          /\ IsFiniteSet(incomplete) /\ Cardinality(incomplete) \in Nat
          /\ Cardinality(FailedMetrics \cup CutMetrics) \in Nat
      BY <3>1, <3>2, <3>3, FS_Subset, FS_CardinalityType
    <3> HIDE DEF incomplete
    <3> QED BY <2>1, <2>2, <2>3, <3>4, <3>5, <3>6
  <2>5. Told(ExcludedSection) = Number("skipped")
    BY <2>1, <2>3, SectionTells DEF ExcludedSection
  <2>6. Number("skipped") = SumFunction(FailureCounts)
    BY <2>1, <2>3, BreakdownAddsUp
  <2>7. /\ IsFiniteSet(names)
        /\ Drops \subseteq names /\ Stripped \subseteq names /\ Drops \cap Stripped = {}
    BY PlansAre
  <2>8. IsFiniteSet(Drops) /\ IsFiniteSet(Stripped)
    BY <2>7, FS_Subset
  <2>9. Told(DropSection) = Cardinality(Drops)
    BY <2>8, SectionTells DEF DropSection
  <2>10. Told(StripSection) = Cardinality(Stripped)
    <3>1. DOMAIN KeysByMetric = Stripped
      BY DEF KeysByMetric, Stripped
    <3> QED BY <2>8, <3>1, SectionTells DEF StripSection
  <2>11. Told(TopUnusedSection) >= Told(DropSection) + Told(StripSection)
    <3>1. Told(TopUnusedSection) = Cardinality(names)
      BY <2>7, SectionTells DEF TopUnusedSection
    <3>2. Cardinality(Drops \cup Stripped) = Cardinality(Drops) + Cardinality(Stripped)
      <4>1. /\ Cardinality(Drops \cup Stripped)
                 = Cardinality(Drops) + Cardinality(Stripped) - Cardinality(Drops \cap Stripped)
            /\ Cardinality(Drops \cap Stripped) = 0
        BY <2>7, <2>8, FS_Union, FS_EmptySet
      <4> QED BY <2>8, <4>1, FS_CardinalityType
    <3>3. Cardinality(Drops \cup Stripped) <= Cardinality(names)
          /\ Cardinality(Drops \cup Stripped) \in Nat /\ Cardinality(names) \in Nat
      BY <2>7, FS_Subset, FS_CardinalityType
    <3> QED BY <2>9, <2>10, <3>1, <3>2, <3>3
  <2>12. FailedMetrics \cap (Drops \cup Stripped) = {}
    <3>1. \A m \in FailedMetrics : m \notin Drops /\ \A st \in Strips : st.metric # m
      BY <2>0 DEF UnknownIsNotUnused
    <3> QED BY <3>1 DEF Stripped
  <2>13. Task("drop") = Drops /\ Task("strip") = Strips /\ (PlanIsEmpty <=> DOMAIN Fragment = {})
    BY TasksAre
  <2> HIDE DEF names, incomplete
  <2>14. /\ Cardinality(incomplete) <= Number("skipped") + Number("capped")
         /\ Told(ExcludedSection) = Number("skipped")
         /\ Number("skipped") = SumFunction(FailureCounts)
         /\ Told(DropSection) = Cardinality(Task("drop"))
         /\ Told(StripSection) = Cardinality({st.metric : st \in Task("strip")})
         /\ Told(TopUnusedSection) >= Told(DropSection) + Told(StripSection)
         /\ PlanIsEmpty <=> DOMAIN Fragment = {}
         /\ FailedMetrics \cap (Task("drop") \cup {st.metric : st \in Task("strip")}) = {}
         /\ Task("drop") \cap {st.metric : st \in Task("strip")} = {}
    BY <2>4, <2>5, <2>6, <2>7, <2>9, <2>10, <2>11, <2>12, <2>13 DEF Stripped
  <2> QED BY <2>14, Zenon DEF PdfAccountsForAll, Number, Task, incomplete
<1> QED
  BY <1>1, WarnedHolds, CutsHold, UnknownLeftAlone, ScanHolds, PTL

-----------------------------------------------------------------------------
\* What the walk does at one value, when f is what it does inside; and what
\* makes f the walk over some values.
Walked(f, x) ==
  IF x.kind \in {"object", "array"} THEN UNION {f[x.items[i]] : i \in DOMAIN x.items}
  ELSE IF x.kind = "string" /\ IsCandidate(x.text) THEN ExtractFromPromQL(x.text)
  ELSE {}

Walks(f, S) ==
  f = [x \in S |->
        IF x.kind \in {"object", "array"} THEN UNION {f[x.items[i]] : i \in DOMAIN x.items}
        ELSE IF x.kind = "string" /\ IsCandidate(x.text) THEN ExtractFromPromQL(x.text)
        ELSE {}]

\* The two are one.
LEMMA WalksAs ==
  ASSUME NEW f, NEW S
  PROVE  Walks(f, S) <=> f = [x \in S |-> Walked(f, x)]
  BY DEF Walks, Walked

\* ExtractFromJSON is the walk over all values.
LEMMA ExtractIs ==
  ASSUME NEW v
  PROVE  ExtractFromJSON(v) = (CHOOSE f : Walks(f, Values))[v]
  BY DEF ExtractFromJSON, Walks

Shallow(n) == {x \in Values : DepthOf[x] < n}

\* The walk over shallow values goes on to the next depth.
LEMMA WalkDeeper ==
  ASSUME NEW n \in Nat, NEW f, Walks(f, Shallow(n))
  PROVE  \E g : Walks(g, Shallow(n + 1))
  <1> DEFINE g == [x \in Shallow(n + 1) |-> Walked(f, x)]
  <1>1. ASSUME NEW x \in Shallow(n + 1), x.kind \in {"object", "array"}, NEW i \in DOMAIN x.items
        PROVE  x.items[i] \in Shallow(n) /\ x.items[i] \in Shallow(n + 1)
    <2>1. /\ x.items[i] \in Values /\ DepthOf[x.items[i]] < DepthOf[x]
          /\ DepthOf[x] < n + 1
      BY <1>1, ValueAssumption DEF Shallow
    <2>2. DepthOf[x.items[i]] \in Nat /\ DepthOf[x] \in Nat
      BY <2>1, <1>1, ValueAssumption DEF Shallow
    <2>3. DepthOf[x.items[i]] < n /\ DepthOf[x.items[i]] < n + 1
      BY <2>1, <2>2
    <2> QED BY <2>1, <2>3 DEF Shallow
  <1>2. \A y \in Shallow(n) : f[y] = Walked(f, y)
    BY WalksAs
  <1>3. \A y \in Shallow(n) : y \in Shallow(n + 1) => g[y] = f[y]
    BY <1>2
  <1>4. ASSUME NEW x \in Shallow(n + 1) PROVE Walked(g, x) = Walked(f, x)
    <2> HIDE DEF g
    <2>1. CASE x.kind \in {"object", "array"}
      <3>1. \A i \in DOMAIN x.items : g[x.items[i]] = f[x.items[i]]
        BY <1>1, <1>3, <2>1
      <3>2. UNION {g[x.items[i]] : i \in DOMAIN x.items} = UNION {f[x.items[i]] : i \in DOMAIN x.items}
        BY <3>1
      <3> QED BY <2>1, <3>2 DEF Walked
    <2>2. CASE x.kind \notin {"object", "array"}
      BY <2>2 DEF Walked
    <2> QED BY <2>1, <2>2
  <1>5. Walks(g, Shallow(n + 1))
    BY <1>4, WalksAs
  <1> QED BY <1>5

\* So there is a walk over all values.
LEMMA WalkExists == \E f : Walks(f, Values)
  <1> DEFINE N == MaxDepth + 1
             B == {n \in 0..N : ~\E f : Walks(f, Shallow(n))}
  <1>1. N \in Nat
    BY DEF MaxDepth
  <1>2. Shallow(N) = Values
    <2>1. \A x \in Values : DepthOf[x] \in 0..MaxDepth
      BY ValueAssumption
    <2>2. MaxDepth \in Nat
      BY DEF MaxDepth
    <2>3. \A k \in 0..MaxDepth : k < MaxDepth + 1
      BY <2>2
    <2>4. \A x \in Values : DepthOf[x] < MaxDepth + 1
      BY <2>1, <2>3
    <2> QED BY <2>4 DEF Shallow
  <1>3. B = {}
    <2> SUFFICES ASSUME B # {} PROVE FALSE OBVIOUS
    <2>1. PICK n \in B : \A k \in B : n <= k
      <3>1. B \in SUBSET (0..N) OBVIOUS
      <3> HIDE DEF B, N
      <3> QED BY <1>1, <3>1, LeastNumber
    <2>2. n # 0
      <3> SUFFICES ASSUME n = 0 PROVE FALSE OBVIOUS
      <3>1. Shallow(n) = {}
        <4>1. \A x \in Values : DepthOf[x] \in Nat
          BY ValueAssumption
        <4> QED BY <4>1 DEF Shallow
      <3>2. Walks([x \in {} |-> {}], Shallow(n))
        BY <3>1 DEF Walks
      <3> QED BY <2>1, <3>2
    <2>3. n - 1 \in Nat /\ n - 1 \in 0..N /\ ~(n <= n - 1) /\ (n - 1) + 1 = n
      BY <1>1, <2>1, <2>2
    <2>4. \E f : Walks(f, Shallow(n - 1))
      BY <2>1, <2>3
    <2>5. \E f : Walks(f, Shallow((n - 1) + 1))
      BY <2>3, <2>4, WalkDeeper
    <2> QED BY <2>1, <2>3, <2>5
  <1>4. N \in 0..N
    BY <1>1
  <1> QED BY <1>2, <1>3, <1>4

\* What the walk finds in a value.
LEMMA ExtractSteps ==
  ASSUME NEW x \in Values
  PROVE  ExtractFromJSON(x) =
           IF x.kind \in {"object", "array"}
           THEN UNION {ExtractFromJSON(x.items[i]) : i \in DOMAIN x.items}
           ELSE IF x.kind = "string" /\ IsCandidate(x.text) THEN ExtractFromPromQL(x.text)
           ELSE {}
  <1> DEFINE f == CHOOSE f : Walks(f, Values)
  <1>1. Walks(f, Values)
    BY WalkExists
  <1>2. \A v : ExtractFromJSON(v) = f[v]
    BY ExtractIs
  <1> HIDE DEF f
  <1>3. f[x] = Walked(f, x)
    BY <1>1, WalksAs
  <1> QED BY <1>2, <1>3 DEF Walked

-----------------------------------------------------------------------------
\* What makes f the levels of v, down to n.
Levels(f, v, n) ==
  f = [k \in 0..n |-> IF k = 0 THEN {v} ELSE f[k - 1] \cup Inside(f[k - 1])]

\* There are levels, however deep.
LEMMA LevelsExist ==
  ASSUME NEW v, NEW N \in Nat
  PROVE  \E f : Levels(f, v, N)
  <1> DEFINE B == {n \in 0..N : ~\E f : Levels(f, v, n)}
  <1>1. B = {}
    <2> SUFFICES ASSUME B # {} PROVE FALSE OBVIOUS
    <2>1. PICK n \in B : \A k \in B : n <= k
      <3>1. B \in SUBSET (0..N) OBVIOUS
      <3> HIDE DEF B
      <3> QED BY <3>1, LeastNumber
    <2>2. n # 0
      <3> SUFFICES ASSUME n = 0 PROVE FALSE OBVIOUS
      <3>1. Levels([k \in 0..0 |-> {v}], v, 0)
        BY DEF Levels
      <3> QED BY <2>1, <3>1
    <2>3. n - 1 \in 0..N /\ ~(n <= n - 1) /\ n \in Nat
      BY <2>1, <2>2
    <2>4. PICK f : Levels(f, v, n - 1)
      BY <2>1, <2>3
    <2> DEFINE g == [k \in 0..n |-> IF k < n THEN f[k] ELSE f[n - 1] \cup Inside(f[n - 1])]
    <2>5. \A k \in 0..(n - 1) : f[k] = IF k = 0 THEN {v} ELSE f[k - 1] \cup Inside(f[k - 1])
      BY <2>4 DEF Levels
    <2>6. ASSUME NEW k \in 0..n
          PROVE  g[k] = IF k = 0 THEN {v} ELSE g[k - 1] \cup Inside(g[k - 1])
      <3>1. CASE k < n
        <4>1. k \in 0..(n - 1) /\ (k # 0 => k - 1 \in 0..n /\ k - 1 < n)
          BY <2>3, <3>1
        <4> QED BY <2>5, <3>1, <4>1
      <3>2. CASE k = n
        <4>1. k - 1 \in 0..n /\ k - 1 < n /\ k # 0
          BY <2>2, <2>3, <3>2
        <4> QED BY <3>2, <4>1
      <3> QED BY <2>3, <3>1, <3>2
    <2>7. Levels(g, v, n)
      BY <2>6 DEF Levels
    <2> QED BY <2>1, <2>7
  <1>2. N \in 0..N
    OBVIOUS
  <1> QED BY <1>1, <1>2

\* What is found in a value on any level is found in the whole.
LEMMA LevelsAreWalked ==
  ASSUME NEW v \in Values, NEW N \in Nat, NEW f, Levels(f, v, N)
  PROVE  \A n \in 0..N : \A x \in f[n] :
           x \in Values /\ ExtractFromJSON(x) \subseteq ExtractFromJSON(v)
  <1> DEFINE B == {n \in 0..N : ~(\A x \in f[n] :
                     x \in Values /\ ExtractFromJSON(x) \subseteq ExtractFromJSON(v))}
  <1>1. B = {}
    <2> SUFFICES ASSUME B # {} PROVE FALSE OBVIOUS
    <2>1. PICK n \in B : \A k \in B : n <= k
      <3>1. B \in SUBSET (0..N) OBVIOUS
      <3> HIDE DEF B
      <3> QED BY <3>1, LeastNumber
    <2>2. f[n] = IF n = 0 THEN {v} ELSE f[n - 1] \cup Inside(f[n - 1])
      BY <2>1 DEF Levels
    <2>3. n # 0
      BY <2>1, <2>2
    <2>4. n - 1 \in 0..N /\ ~(n <= n - 1)
      BY <2>1, <2>3
    <2>5. \A x \in f[n - 1] :
            x \in Values /\ ExtractFromJSON(x) \subseteq ExtractFromJSON(v)
      BY <2>1, <2>4
    <2>6. PICK y \in f[n] : ~(y \in Values /\ ExtractFromJSON(y) \subseteq ExtractFromJSON(v))
      BY <2>1
    <2>7. y \in Inside(f[n - 1])
      BY <2>2, <2>3, <2>5, <2>6
    <2>8. PICK x \in f[n - 1] : x.kind \in {"object", "array"} /\ \E i \in DOMAIN x.items : y = x.items[i]
      BY <2>7 DEF Inside
    <2>9. PICK i \in DOMAIN x.items : y = x.items[i]
      BY <2>8
    <2>10. y \in Values
      BY <2>5, <2>8, <2>9, ValueAssumption
    <2>11. ExtractFromJSON(x) = UNION {ExtractFromJSON(x.items[j]) : j \in DOMAIN x.items}
      BY <2>5, <2>8, ExtractSteps
    <2>12. ExtractFromJSON(y) \subseteq ExtractFromJSON(x)
      BY <2>9, <2>11
    <2> QED BY <2>5, <2>6, <2>10, <2>12
  <1> QED BY <1>1

\* The selectors of a text inside a value are extracted from the value.
LEMMA TextFound ==
  ASSUME NEW v \in Values, NEW t \in TextsIn(v), IsCandidate(t), t.parses
  PROVE  t.selectors \subseteq ExtractFromJSON(v)
  <1> DEFINE N == DepthOf[v]
             f == CHOOSE f : Levels(f, v, N)
  <1>1. N \in Nat
    BY ValueAssumption
  <1>2. Levels(f, v, N)
    <2> HIDE DEF N
    <2> QED BY <1>1, LevelsExist
  <1>3. TextsIn(v) = {x.text : x \in {x \in f[N] : x.kind = "string"}}
    BY DEF TextsIn, Levels
  <1> HIDE DEF f, N
  <1>4. PICK x \in f[N] : x.kind = "string" /\ t = x.text
    BY <1>3
  <1>5. N \in 0..N
    BY <1>1
  <1>6. x \in Values /\ ExtractFromJSON(x) \subseteq ExtractFromJSON(v)
    BY <1>1, <1>2, <1>4, <1>5, LevelsAreWalked
  <1>7. ExtractFromJSON(x) = ExtractFromPromQL(t)
    BY <1>4, <1>6, ExtractSteps
  <1> QED BY <1>6, <1>7 DEF ExtractFromPromQL

\* client.go's "the one answer the tool must not get wrong", for every JSON a
\* tenant may hold: each text of a definition that was read, however deep,
\* that looks like a query and parses as one keeps what it selects out of the
\* unused list, or is listed as nameless.
THEOREM CandidatesAreRead == Spec => []CandidatesCount
  <1>1. Fetched /\ Correlated => CandidatesCount
    <2> SUFFICES ASSUME Scanned, NEW d \in read, NEW t \in TextsIn(BodyOf[d]),
                        IsCandidate(t), t.parses,
                        NEW s \in unused, NEW vs \in t.selectors, Selects(vs, s)
                 PROVE  <<d, vs>> \in nameless
      BY DEF CandidatesCount, Counts, Scanned
    <2>1. d \in Definitions
      BY ScanAssumption DEF Scanned, Correlated, Fetched
    <2>2. BodyOf[d] \in Values /\ SelectorsOf[d] = ExtractFromJSON(BodyOf[d])
      BY <2>1, BodyAssumption
    <2>3. t.selectors \subseteq ExtractFromJSON(BodyOf[d])
      BY <2>2, TextFound
    <2>4. vs \in SelectorsOf[d]
      BY <2>2, <2>3
    <2> QED BY <2>4, UnusedIsUnnamed
  <1> QED BY <1>1, ScanHolds, PTL
=============================================================================
