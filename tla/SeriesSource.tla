---------------------------- MODULE SeriesSource ----------------------------
(***************************************************************************)
(* What a scan.Source may answer when asked for one metric's series, and   *)
(* how the two sources, the HTTP API client and the cx command line, turn  *)
(* that answer into rows or a typed error.  External is only the server:   *)
(* it is modelled by the answers the two clients handle.                   *)
(***************************************************************************)
EXTENDS Integers, FiniteSets

CONSTANTS
  Metrics,     \* the metric names of the window, internal ones left out
  SeriesOf,    \* the series the server holds for each metric in the window
  Limit,       \* SeriesLimitPerMetric
  CliMode      \* the source is the cx CLI rather than the HTTP API

\* A series carries its metric's name as a label, so no two metrics share one.
ASSUME SeriesAssumption ==
  /\ IsFiniteSet(Metrics)
  /\ \A m \in Metrics : IsFiniteSet(SeriesOf[m])
  /\ \A m, n \in Metrics : m # n => SeriesOf[m] \cap SeriesOf[n] = {}
  /\ Limit \in Nat \ {0}
  /\ CliMode \in BOOLEAN

Series == UNION {SeriesOf[m] : m \in Metrics}

\* How a request can end: rows, the series analysis cap, a client timeout, a
\* 408 or 504, a 5xx or 429, a 4xx that rejects the request, a connection
\* that fails, a body that does not decode, and a cancelled context.
Answers == {"rows", "cap", "timeout", "gateway", "server", "rejected",
            "network", "malformed", "cancelled"}

ErrorTypes == {"limit", "timeout", "status", "rejected", "plain"}

Categories == {"series_analysis_cap", "timeout", "server_error", "transport"}

\* `dead` is whether the request's context is done when the source looks at
\* it: neither source then calls the failure the metric's own.
ApiError(a, dead) ==
  CASE a = "cap"                             -> "limit"
    [] a \in {"timeout", "gateway"} /\ ~dead -> "timeout"
    [] a \in {"gateway", "server"}           -> "status"
    [] a = "rejected"                        -> "rejected"
    [] OTHER                                 -> "plain"

\* Whatever made the cx command fail becomes the analysis cap.
CliError(a, dead) == IF dead \/ a = "malformed" THEN "plain" ELSE "limit"

SourceError(a, dead) == IF CliMode THEN CliError(a, dead) ELSE ApiError(a, dead)

\* The rows of a successful answer: every series of the metric, or any Limit
\* of them when the server has more.  The cx query has no limit.
RowSets(m) ==
  IF CliMode \/ Cardinality(SeriesOf[m]) <= Limit
    THEN {SeriesOf[m]}
    ELSE {s \in SUBSET SeriesOf[m] : Cardinality(s) = Limit}

\* Fault: the comparison with the limit is off by one.
FullBeyondLimit(s) == ~CliMode /\ Cardinality(s) > Limit

\* An answer that fills the limit may have been cut; the CLI never says so.
Full(s) == ~CliMode /\ Cardinality(s) >= Limit
=============================================================================
