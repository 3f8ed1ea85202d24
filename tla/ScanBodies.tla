----------------------------- MODULE ScanBodies -----------------------------
(***************************************************************************)
(* A scan whose definitions are JSON: the selectors Scan correlates are    *)
(* the ones ExtractFromJSON finds, and the properties are about what the   *)
(* definitions would query.                                                *)
(***************************************************************************)
EXTENDS Scan, Extract

CONSTANT BodyOf     \* the JSON of each definition

ASSUME BodyAssumption ==
  /\ BodyOf \in [Definitions -> Values]
  /\ \A d \in Definitions : SelectorsOf[d] = ExtractFromJSON(BodyOf[d])

\* The series of a query that a reader of the JSON would find keeps out of the
\* unused list, or the query has no metric name and the report lists it.
Counts(d, t) ==
  \A s \in unused : \A vs \in t.selectors : Selects(vs, s) => <<d, vs>> \in nameless

\* Every text of a definition that is read, however deep, and that looks like
\* a query and parses as one, counts.
CandidatesCount ==
  Done => \A d \in read : \A t \in TextsIn(BodyOf[d]) :
            IsCandidate(t) /\ t.parses => Counts(d, t)

\* client.go: leaving out a place a metric might be used "would silently
\* promote a used metric to unused, the one answer the tool must not get
\* wrong".  A text that is a query counts, whatever its characters.
QueriesCount ==
  Done => \A d \in read : \A t \in TextsIn(BodyOf[d]) : t.parses => Counts(d, t)
=============================================================================
