------------------------------- MODULE Enrich -------------------------------
(***************************************************************************)
(* EnrichCatalog: one goroutine per metric name, at most Tokens of them    *)
(* past the semaphore, fetches the billed variations of its metric and     *)
(* divides the units of each among the catalog series that carry exactly   *)
(* its label names.  The fetch is one step here; VariationPages is its     *)
(* loop.  Units stand for the integer figures, whose division rounds down. *)
(***************************************************************************)
EXTENDS Integers, FiniteSets, FiniteSetsExt

CONSTANTS
  Metrics,
  Tokens,     \* workers; the code takes 4 for none
  SeriesOf,   \* the catalog series of each metric, none if its fetch failed
  LabelsOf,   \* the label names of each series
  UnitsOf,    \* what was billed of each metric, by label names
  None

ASSUME EnrichAssumption ==
  /\ IsFiniteSet(Metrics)
  /\ Tokens \in Nat \ {0}
  /\ DOMAIN SeriesOf = Metrics
  /\ \A m \in Metrics : IsFiniteSet(SeriesOf[m])
  /\ \A m, n \in Metrics : m # n => SeriesOf[m] \cap SeriesOf[n] = {}
  /\ None \notin {"own", "cancelled"}

VARIABLES
  pc,         \* where each metric's goroutine is
  cause,      \* of the error its fetch ended with
  tokens,     \* taken from the semaphore
  attempted,
  failures,   \* the metrics noted as failed, with the cause
  bySeries,   \* what each series got, with the number of parts
  groupErr,   \* a goroutine returned an error
  callerDone, \* the caller's context is done
  verdict     \* "none", "result" or "error"

results == <<attempted, failures, bySeries>>
vars == <<pc, cause, tokens, results, groupErr, callerDone, verdict>>

\* The group's context is done with the caller's or by the first error.
GroupDone == callerDone \/ groupErr

Group(m, labels) == {s \in SeriesOf[m] : LabelsOf[s] = labels}

Part(units, n) == IF n <= 1 THEN units ELSE units \div n

Places == {"wait", "hold", "fetch", "failed", "note", "merge", "ended"}

Init ==
  /\ pc = [m \in Metrics |-> "wait"]
  /\ cause = [m \in Metrics |-> None]
  /\ tokens = 0
  /\ attempted = 0
  /\ failures = {}
  /\ bySeries = <<>>
  /\ groupErr = FALSE
  /\ callerDone = FALSE
  /\ verdict = "none"

Goto(m, place) == pc' = [pc EXCEPT ![m] = place]

\* Return past the semaphore: the deferred receive frees the token.
Leave(m) == Goto(m, "ended") /\ tokens' = tokens - 1

Acquire(m) ==
  /\ pc[m] = "wait"
  /\ tokens < Tokens
  /\ tokens' = tokens + 1
  /\ Goto(m, "hold")
  /\ UNCHANGED <<cause, results, groupErr, callerDone, verdict>>

GiveUp(m) ==
  /\ pc[m] = "wait"
  /\ GroupDone
  /\ groupErr' = TRUE
  /\ Goto(m, "ended")
  /\ UNCHANGED <<cause, tokens, results, callerDone, verdict>>

\* Fault: a metric without series counts as attempted.
SkipCounted(m) ==
  /\ pc[m] = "hold"
  /\ SeriesOf[m] = {}
  /\ Leave(m)
  /\ attempted' = attempted + 1
  /\ UNCHANGED <<cause, failures, bySeries, groupErr, callerDone, verdict>>

\* Fault: the early return comes before the deferred receive.
SkipKeeping(m) ==
  /\ pc[m] = "hold"
  /\ SeriesOf[m] = {}
  /\ Goto(m, "ended")
  /\ UNCHANGED <<cause, tokens, results, groupErr, callerDone, verdict>>

Skip(m) ==
  /\ pc[m] = "hold"
  /\ SeriesOf[m] = {}
  /\ Leave(m)
  /\ UNCHANGED <<cause, results, groupErr, callerDone, verdict>>

Attempt(m) ==
  /\ pc[m] = "hold"
  /\ SeriesOf[m] # {}
  /\ attempted' = attempted + 1
  /\ Goto(m, "fetch")
  /\ UNCHANGED <<cause, tokens, failures, bySeries, groupErr, callerDone, verdict>>

Receive(m) ==
  /\ pc[m] = "fetch"
  /\ Goto(m, "merge")
  /\ UNCHANGED <<cause, tokens, results, groupErr, callerDone, verdict>>

ReceiveError(m, why) ==
  /\ pc[m] = "fetch"
  /\ why = "cancelled" => GroupDone
  /\ cause' = [cause EXCEPT ![m] = why]
  /\ Goto(m, "failed")
  /\ UNCHANGED <<tokens, results, groupErr, callerDone, verdict>>

StopForCaller(m) ==
  /\ pc[m] = "failed"
  /\ callerDone
  /\ groupErr' = TRUE
  /\ Leave(m)
  /\ UNCHANGED <<cause, results, callerDone, verdict>>

\* Fault: nobody asks.
BlameAlways(m) ==
  /\ pc[m] = "failed"
  /\ Goto(m, "note")
  /\ UNCHANGED <<cause, tokens, results, groupErr, callerDone, verdict>>

\* The caller's context was not done when it was asked.
Blame(m) ==
  /\ pc[m] = "failed"
  /\ ~callerDone
  /\ Goto(m, "note")
  /\ UNCHANGED <<cause, tokens, results, groupErr, callerDone, verdict>>

Note(m) ==
  /\ pc[m] = "note"
  /\ failures' = failures \cup {m}
  /\ Leave(m)
  /\ UNCHANGED <<cause, attempted, bySeries, groupErr, callerDone, verdict>>

\* The series that carry exactly the label names of a billed variation.
Billable(m) == {s \in SeriesOf[m] : LabelsOf[s] \in DOMAIN UnitsOf[m]}

\* What one of them gets of the variation that has its label names.
Share(m, s) ==
  LET labels == LabelsOf[s]
      n == Cardinality(Group(m, labels))
  IN  [units |-> Part(UnitsOf[m][labels], n), split |-> n]

Merge(m) ==
  /\ pc[m] = "merge"
  /\ bySeries' = [s \in DOMAIN bySeries \cup Billable(m) |->
                    IF s \in Billable(m) THEN Share(m, s) ELSE bySeries[s]]
  /\ Leave(m)
  /\ UNCHANGED <<cause, attempted, failures, groupErr, callerDone, verdict>>

Work(m) ==
  \/ Acquire(m) \/ GiveUp(m) \/ Skip(m) \/ Attempt(m) \/ Receive(m)
  \/ (\E why \in {"own", "cancelled"} : ReceiveError(m, why))
  \/ StopForCaller(m) \/ Blame(m) \/ Note(m) \/ Merge(m)

Return ==
  /\ verdict = "none"
  /\ \A m \in Metrics : pc[m] = "ended"
  /\ verdict' = IF groupErr THEN "error" ELSE "result"
  /\ UNCHANGED <<pc, cause, tokens, results, groupErr, callerDone>>

Cancel ==
  /\ ~callerDone
  /\ callerDone' = TRUE
  /\ UNCHANGED <<pc, cause, tokens, results, groupErr, verdict>>

Over == verdict # "none" /\ UNCHANGED vars

Next == (\E m \in Metrics : Work(m)) \/ Return \/ Cancel \/ Over

Spec == Init /\ [][Next]_vars

\* Goroutines are scheduled, and a request ends with a reply or an error.
\* Nothing is assumed of who gets a free token.
FairSpec == Spec /\ (\A m \in Metrics : WF_vars(Work(m))) /\ WF_vars(Return)
-----------------------------------------------------------------------------
\* The coverage is a fraction of the metrics that could have been billed: a
\* result has attempted each metric with series, and each is a failure or
\* has the parts of all its series that were billed, whoever merged when.
AttemptsAddUp ==
  verdict = "result" =>
    LET tried == {m \in Metrics : SeriesOf[m] # {}}
    IN  /\ attempted = Cardinality(tried)
        /\ failures \subseteq tried
        /\ \A m \in tried :
             SeriesOf[m] \cap DOMAIN bySeries = IF m \in failures THEN {} ELSE Billable(m)

\* A lookup that only a cancellation stopped never counts against a metric,
\* so it never lowers the coverage of a result.
CancellationNotBlamed ==
  verdict = "result" => \A m \in failures : cause[m] = "own"

\* EnrichCatalog returns.
EnrichEnds == <>(verdict # "none")
=============================================================================
