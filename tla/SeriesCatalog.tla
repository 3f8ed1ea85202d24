---------------------------- MODULE SeriesCatalog ----------------------------
(***************************************************************************)
(* What the series phase of a scan promises (scan.Run, the errgroup and    *)
(* the decision that follows it), without its goroutines: every metric     *)
(* name is settled exactly once, either by its series entering the catalog *)
(* or by an entry in the list of failed fetches, and the phase ends in a   *)
(* report only when every metric is settled and at most half of them       *)
(* failed.  SeriesFetch implements this specification; Scan is built on    *)
(* it.                                                                     *)
(***************************************************************************)
EXTENDS SeriesSource

VARIABLES
  catalog,         \* the series found so far
  failures,        \* the metrics whose fetch failed, with the category
  truncatedCount,  \* how many answers were as long as the limit
  settled,         \* the metrics that are done with
  verdict          \* "pending", then "report" or "abort"

vars == <<catalog, failures, truncatedCount, settled, verdict>>

FailedMetrics == {f.metric : f \in failures}

TooManyFailures == 2 * Cardinality(failures) > Cardinality(Metrics)

Init ==
  /\ catalog = {}
  /\ failures = {}
  /\ truncatedCount = 0
  /\ settled = {}
  /\ verdict = "pending"

Absorb(m) ==
  /\ verdict = "pending"
  /\ m \notin settled
  /\ \E rows \in RowSets(m) :
       /\ catalog' = catalog \cup rows
       /\ truncatedCount' = truncatedCount + (IF Full(rows) THEN 1 ELSE 0)
  /\ settled' = settled \cup {m}
  /\ UNCHANGED <<failures, verdict>>

\* Fault: what a failed fetch received before it failed is kept.
FailKeepingRows(m) ==
  /\ verdict = "pending"
  /\ m \notin settled
  /\ \E c \in Categories :
       failures' = failures \cup {[metric |-> m, category |-> c]}
  /\ \E rows \in RowSets(m) : catalog' = catalog \cup rows
  /\ settled' = settled \cup {m}
  /\ UNCHANGED <<truncatedCount, verdict>>

Fail(m) ==
  /\ verdict = "pending"
  /\ m \notin settled
  /\ \E c \in Categories :
       failures' = failures \cup {[metric |-> m, category |-> c]}
  /\ settled' = settled \cup {m}
  /\ UNCHANGED <<catalog, truncatedCount, verdict>>

Report ==
  /\ verdict = "pending"
  /\ settled = Metrics
  /\ ~TooManyFailures
  /\ verdict' = "report"
  /\ UNCHANGED <<catalog, failures, truncatedCount, settled>>

\* A rejected request, a cancelled caller, or too many failures.
Abort ==
  /\ verdict = "pending"
  /\ verdict' = "abort"
  /\ UNCHANGED <<catalog, failures, truncatedCount, settled>>

Next ==
  \/ \E m \in Metrics : Absorb(m) \/ Fail(m)
  \/ Report
  \/ Abort

Spec == Init /\ [][Next]_vars
=============================================================================
