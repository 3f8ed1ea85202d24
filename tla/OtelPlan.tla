------------------------------ MODULE OtelPlan ------------------------------
(***************************************************************************)
(* The collector fragment of report/otel.go, from the used and the unused  *)
(* series of a scan: metrics to drop, and labels to strip from metrics     *)
(* that keep some series.                                                  *)
(***************************************************************************)
EXTENDS Selector

SeriesNamed(series, m) == {s \in series : LabelValue(s, NameLabel) = m}

\* The metric names aggregateMetricLabels groups by; a series without a name
\* is passed over.
MetricNamesOf(series) == {LabelValue(s, NameLabel) : s \in series} \ {""}

\* The label keys found on any of the series.
LabelKeys(series) == UNION {DOMAIN s : s \in series}

\* Fault: one unused series is enough.
DropAnyUnused(used, unused) == MetricNamesOf(unused)

\* Every catalog series of the metric is unused.
DropMetricNames(used, unused) ==
  {m \in MetricNamesOf(unused) : SeriesNamed(used, m) = {}}

\* Fault: the labels of used series are not spared.
StripAllLabels(used, unused) ==
  UNION {{[metric |-> m, key |-> k] :
            k \in LabelKeys(SeriesNamed(unused, m)) \ {NameLabel}} :
         m \in MetricNamesOf(unused) \ DropMetricNames(used, unused)}

\* Keys of a still used metric that no used series of it carries.
StripStatements(used, unused) ==
  UNION {{[metric |-> m, key |-> k] :
            k \in (LabelKeys(SeriesNamed(unused, m)) \ LabelKeys(SeriesNamed(used, m)))
                  \ {NameLabel}} :
         m \in MetricNamesOf(unused) \ DropMetricNames(used, unused)}
=============================================================================
