------------------------------ MODULE MCEnrich ------------------------------
(* A metric that keeps a used series, with two unused that share its        *)
(* variation and one of a wider label set that is not billed; a metric that *)
(* is wholly unused, billed under two spellings of the same label names;    *)
(* and two metrics without series, one of them billed.                      *)
EXTENDS Rollups, TLC

MCMetrics == {"reqs", "mem", "gone", "lost"}

Named(metric, job) == NameLabel :> metric @@ "job" :> job

MCUsed == {Named("reqs", "a")}
MCCatalog ==
  MCUsed \cup {Named("reqs", "b"), Named("reqs", "c"),
               Named("reqs", "a") @@ "pod" :> "p",
               Named("mem", "a"), Named("mem", "b")}

Row(day, units, labels) == [day |-> day, units |-> units, labels |-> labels]

MCBilled ==
  [m \in MCMetrics |->
     CASE m = "reqs" -> {Row(1, 3, {[name |-> "job"]}), Row(2, 2, {[name |-> "job"]}),
                         Row(2, 4, {[name |-> "zone"]})}
       [] m = "mem" -> {Row(1, 2, {[name |-> "job", value |-> "a"]}),
                        Row(2, 1, {[name |-> "job"]})}
       [] m = "lost" -> {Row(1, 6, {})}
       [] OTHER -> {}]

MCSeriesOf == SeriesByMetric
MCLabelsOf == NamesBySeries
MCUnitsOf == UnitsByMetric
=============================================================================
