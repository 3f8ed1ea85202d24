---------------------------- MODULE Presentation ----------------------------
(***************************************************************************)
(* What readers of a scan are told: the collector fragment of otel.go, the *)
(* settings and the sections of the PDF, each of which stops after so many *)
(* lines and counts the rest.  Each is made from the report on its own.    *)
(* Which lines come first is left open.                                    *)
(***************************************************************************)
EXTENDS Scan, FiniteSetsExt

CONSTANT PdfTopRows     \* pdfTopRows, 25 in the code

ASSUME PresentationAssumption == PdfTopRows \in Nat \ {0}

\* The processors of the fragment: those with nothing to do are left out.
Fragment ==
  LET task == [drop |-> Drops, strip |-> Strips]
  IN  [p \in {p \in {"drop", "strip"} : task[p] # {}} |-> task[p]]

\* The first lines of a list.
FirstLines(S) ==
  CHOOSE T \in SUBSET S :
    Cardinality(T) = IF Cardinality(S) > PdfTopRows THEN PdfTopRows ELSE Cardinality(S)

\* Fault: the first line that is left out is not counted.
SectionShort(S) ==
  LET rest == Cardinality(S) - PdfTopRows
  IN  [lines |-> FirstLines(S), more |-> IF rest > 1 THEN rest - 1 ELSE 0]

Section(S) ==
  [lines |-> FirstLines(S), more |-> Cardinality(S) - Cardinality(FirstLines(S))]

\* SeriesFetchFailureCounts.
FailureCounts ==
  [c \in {f.category : f \in failures} |->
     Cardinality({f \in failures : f.category = c})]

\* The settings; a row that would say none is not printed.
Settings ==
  LET numbers == [dashboards |-> Cardinality(read \cap OfKind("dashboard")),
                  alerts |-> IF "alert" \in skip THEN 0 ELSE Cardinality(OfKind("alert")),
                  slos |-> IF "slo" \in skip THEN 0 ELSE Cardinality(OfKind("slo")),
                  capped |-> truncatedCount,
                  skipped |-> Cardinality(failures)]
      always == {"dashboards", "alerts", "slos"}
  IN  [n \in always \cup {n \in DOMAIN numbers : numbers[n] > 0} |-> numbers[n]]

ExcludedSection == Section(FailedMetrics)

TopUnusedSection == Section({s[NameLabel] : s \in unused})

PlanIsEmpty == Drops = {} /\ Strips = {}

DropSection == Section(Drops)

\* The statements are listed by metric.
KeysByMetric ==
  [m \in {st.metric : st \in Strips} |-> {st.key : st \in {st \in Strips : st.metric = m}}]

StripSection == Section(DOMAIN KeysByMetric)

-----------------------------------------------------------------------------
Told(section) == Cardinality(section.lines) + section.more

\* Fragment, settings and sections are made separately and cut short, and yet
\* a reader of the PDF can count on them: the numbers of skipped and of capped
\* metrics cover every metric with series the scan has not seen; a list and
\* the count of what it leaves out add up to what the fragment does, to the
\* number of the settings and to its breakdown; and no metric is in two of
\* the three plans, being excluded, dropped and stripped.
PdfAccountsForAll ==
  Done =>
    LET number(n) == IF n \in DOMAIN Settings THEN Settings[n] ELSE 0
        task(p) == IF p \in DOMAIN Fragment THEN Fragment[p] ELSE {}
        stripped == {st.metric : st \in task("strip")}
    IN  /\ Cardinality({m \in Metrics : SeriesNamed(catalog, m) # SeriesOf[m]})
             <= number("skipped") + number("capped")
        /\ Told(ExcludedSection) = number("skipped")
        /\ number("skipped") = SumFunction(FailureCounts)
        /\ Told(DropSection) = Cardinality(task("drop"))
        /\ Told(StripSection) = Cardinality(stripped)
        /\ Told(TopUnusedSection) >= Told(DropSection) + Told(StripSection)
        /\ PlanIsEmpty <=> DOMAIN Fragment = {}
        /\ FailedMetrics \cap (task("drop") \cup stripped) = {}
        /\ task("drop") \cap stripped = {}
=============================================================================
