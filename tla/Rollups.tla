------------------------------ MODULE Rollups -------------------------------
(***************************************************************************)
(* From billed rows to the sums a reader sees: FetchVariationUnits adds    *)
(* the rows of a metric up by label names, EnrichCatalog divides them, and *)
(* the report adds the parts up again, by metric for its tables and, with  *)
(* the collector fragment's plan, for the savings on the PDF's first page. *)
(***************************************************************************)
EXTENDS Enrich, OtelPlan

CONSTANTS
  Catalog,    \* the series of the scan
  Used,       \* those that something uses
  Billed      \* the rows the service has of each metric, one per day and
              \* variation, with the label names as it spells them

\* A metric name has no parentheses, so none is the name RowName makes up.
ASSUME RollupAssumption ==
  /\ IsFiniteSet(Catalog)
  /\ Used \subseteq Catalog
  /\ \A s \in Catalog : LabelValue(s, NameLabel) # "(unknown)"
  /\ "(unknown)" \notin Metrics
  /\ DOMAIN Billed = Metrics
  /\ \A m \in Metrics : IsFiniteSet(Billed[m])
  /\ \A m \in Metrics : \A r \in Billed[m] : r.units \in Nat

Unused == Catalog \ Used

\* seriesKeysByMetric and variationKeyFromCatalogLabels.
SeriesByMetric == [m \in Metrics |-> SeriesNamed(Catalog, m)]
NamesBySeries == [s \in Catalog |-> DOMAIN s]

\* Fault: the value that comes with a label name stays part of the key.
KeyWithValues(row) ==
  {NameLabel} \cup {IF "value" \in DOMAIN l THEN l.value ELSE l.name : l \in row.labels}

\* A label is spelled with its value or without.
VariationKey(row) == {NameLabel} \cup {l.name : l \in row.labels}

\* The sum of the units of rows.
UnitsIn(rows) == SumFunction([r \in rows |-> r.units])

UnitsByVariation(rows) ==
  [key \in {VariationKey(r) : r \in rows} |->
     UnitsIn({r \in rows : VariationKey(r) = key})]

UnitsByMetric == [m \in Metrics |-> UnitsByVariation(Billed[m])]

\* What EnrichCatalog divides, and among which series.
ASSUME EnrichedAssumption ==
  /\ SeriesOf = SeriesByMetric
  /\ LabelsOf = NamesBySeries
  /\ UnitsOf = UnitsByMetric

\* unitUsageOf: a series nothing was attributed to counts as nothing.
UnitsOfSeries(s) == IF s \in DOMAIN bySeries THEN bySeries[s].units ELSE 0

UnitsOfAll(series) == SumFunction([s \in series |-> UnitsOfSeries(s)])

RowName(m) == IF m = "" THEN "(unknown)" ELSE m

\* unusedRowsFromSeries.
CostRows ==
  {[series |-> s, metric |-> LabelValue(s, NameLabel),
    present |-> s \in DOMAIN bySeries,
    units |-> UnitsOfSeries(s),
    split |-> IF s \in DOMAIN bySeries /\ bySeries[s].split > 1
                THEN bySeries[s].split ELSE 0] : s \in Unused}

\* AggregateUnusedByMetric: what a row is not billed for it does not add.
UnusedByMetric ==
  {LET rows == {r \in CostRows : RowName(r.metric) = name}
       billed == {r \in rows : r.present}
   IN  [metric |-> name,
        unused |-> Cardinality(rows),
        withBilling |-> Cardinality(billed),
        units |-> UnitsIn(billed)] :
     name \in {RowName(r.metric) : r \in CostRows}}

\* Fault: only the unused series are looked at.
UnusedAsAll ==
  {[metric |-> r.metric, count |-> r.unused, units |-> r.units] : r \in UnusedByMetric}

\* AggregateAllByMetric.
AllByMetric ==
  {LET named == {s \in Used \cup Unused : RowName(LabelValue(s, NameLabel)) = name}
   IN  [metric |-> name, count |-> Cardinality(named), units |-> UnitsOfAll(named)] :
     name \in {RowName(LabelValue(s, NameLabel)) : s \in Used \cup Unused}}

\* The numbers of writePDFHeadline, which has only the rows by metric and
\* the plan.
Headline ==
  LET drops == {r \in UnusedByMetric : r.metric \in DropMetricNames(Used, Unused)}
  IN  [units |-> UnitsIn(UnusedByMetric),
       dropSeries |-> SumFunction([r \in drops |-> r.unused]),
       dropUnits |-> UnitsIn(drops),
       dropped |-> Cardinality(DropMetricNames(Used, Unused))]
-----------------------------------------------------------------------------
\* What was billed of the metric under exactly the label names that some of
\* its series have.
Attributable(m) ==
  UnitsIn({r \in Billed[m] : \E s \in SeriesOf[m] :
                                DOMAIN s = {NameLabel} \cup {l.name : l \in r.labels}})

\* A result attributes what was billed, but for less than one unit per
\* series that the divisions lose, and nothing to a metric whose lookup
\* failed; however it was spelled, split and added up again.
TotalsAddUp ==
  verdict = "result" =>
    \A row \in AllByMetric :
      row.metric \in Metrics =>
        IF row.metric \in failures THEN row.units = 0
        ELSE /\ row.units <= Attributable(row.metric)
             /\ Attributable(row.metric) - row.units < row.count

\* The tables, the fragment and the first page of the PDF were added up by
\* different code from different lists: what is dropped is all there is of
\* its metrics, what is unused is the rest of what is used, and the savings
\* shown are what the dropped metrics cost in the table of all metrics.
SavingsAgree ==
  LET gone == {r \in AllByMetric : r.metric \in DropMetricNames(Used, Unused)}
  IN  /\ UnitsIn(AllByMetric) = Headline.units + UnitsOfAll(Used)
      /\ Headline.dropUnits = UnitsIn(gone)
      /\ Headline.dropSeries = SumFunction([r \in gone |-> r.count])
      /\ Headline.dropped = Cardinality(gone)
=============================================================================
