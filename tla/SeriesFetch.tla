----------------------------- MODULE SeriesFetch -----------------------------
(***************************************************************************)
(* The parallel series phase of scan.Run: one goroutine per metric name    *)
(* under an errgroup, at most Workers of them past the semaphore, each     *)
(* fetching its metric's series and merging the outcome under the mutex.   *)
(* A rejected request fails the group and cancels its context; any other   *)
(* failure is noted and the metric skipped.  After the group's Wait the    *)
(* phase reports, or aborts when more than half of the metrics failed.     *)
(*                                                                         *)
(* The steps of a goroutine are those another one can tell apart: the      *)
(* semaphore, the answer, the test of the caller's context, the mutex, the *)
(* deferred release and, after the function returned, the errgroup.        *)
(***************************************************************************)
EXTENDS SeriesSource

CONSTANTS
  Workers,           \* opt.Workers, after its default
  CallerMayCancel    \* whether the caller's context can be cancelled

ASSUME WorkersAssumption ==
  /\ Workers \in Nat \ {0}
  /\ CallerMayCancel \in BOOLEAN

VARIABLES
  pc,              \* where each metric's goroutine is
  answer,          \* how its request ended ("none" before that)
  err,             \* the type of error the source made of that
  rows,            \* the series it received
  result,          \* the error its function returns, or "nil"
  slots,           \* tokens in the semaphore channel
  callerDone,      \* ctx.Err() # nil
  cancelled,       \* gctx.Err() # nil
  groupErr,        \* the first error the errgroup kept
  catalog,         \* catalogSeries
  failures,        \* seriesFetchFailures
  truncatedCount,
  verdict          \* "pending", then what Run does after the phase

local  == <<answer, err, rows, result>>
shared == <<catalog, failures, truncatedCount>>
group  == <<callerDone, cancelled, groupErr>>
vars   == <<pc, local, slots, group, shared, verdict>>

Places == {"waiting", "fetching", "failed", "note", "absorb", "leaving",
           "exiting", "done"}

\* The places where a goroutine holds a token of the semaphore.
Holding == {"fetching", "failed", "note", "absorb", "leaving"}

Holders == {m \in Metrics : pc[m] \in Holding}

Failure == [metric : Metrics, category : Categories]

\* Fault: a rejected request is skipped like any other failure.
AlwaysSkippable(e) == TRUE

\* classifySeriesFetchFailure: only a rejected request is not skipped.
Skippable(e) == e # "rejected"

Category(e) ==
  CASE e = "limit"   -> "series_analysis_cap"
    [] e = "timeout" -> "timeout"
    [] e = "status"  -> "server_error"
    [] OTHER         -> "transport"

FailedMetrics == {f.metric : f \in failures}

\* Fault: the failures are compared with all metrics, not with half of them.
HalfForgotten == Cardinality(failures) > Cardinality(Metrics)

TooManyFailures == 2 * Cardinality(failures) > Cardinality(Metrics)

-----------------------------------------------------------------------------
Init ==
  /\ pc = [m \in Metrics |-> "waiting"]
  /\ answer = [m \in Metrics |-> "none"]
  /\ err = [m \in Metrics |-> "none"]
  /\ rows = [m \in Metrics |-> {}]
  /\ result = [m \in Metrics |-> "nil"]
  /\ slots = 0
  /\ callerDone = FALSE
  /\ cancelled = FALSE
  /\ groupErr = "nil"
  /\ catalog = {}
  /\ failures = {}
  /\ truncatedCount = 0
  /\ verdict = "pending"

Goto(m, from, to) == pc[m] = from /\ pc' = [pc EXCEPT ![m] = to]

\* case sem <- struct{}{}
Acquire(m) ==
  /\ Goto(m, "waiting", "fetching")
  /\ slots < Workers
  /\ slots' = slots + 1
  /\ UNCHANGED <<local, group, shared, verdict>>

\* case <-gctx.Done(): no token is held, so nothing is released.
GiveUp(m) ==
  /\ Goto(m, "waiting", "exiting")
  /\ cancelled
  /\ result' = [result EXCEPT ![m] = "cancelled"]
  /\ UNCHANGED <<answer, err, rows, slots, group, shared, verdict>>

ReceiveRows(m) ==
  /\ Goto(m, "fetching", "absorb")
  /\ \E s \in RowSets(m) : rows' = [rows EXCEPT ![m] = s]
  /\ answer' = [answer EXCEPT ![m] = "rows"]
  /\ UNCHANGED <<err, result, slots, group, shared, verdict>>

ReceiveError(m) ==
  /\ Goto(m, "fetching", "failed")
  /\ \E a \in Answers \ {"rows"} :
       /\ a = "cancelled" => cancelled
       /\ answer' = [answer EXCEPT ![m] = a]
       /\ err' = [err EXCEPT ![m] = SourceError(a, cancelled)]
  /\ UNCHANGED <<rows, result, slots, group, shared, verdict>>

\* if ctx.Err() != nil { return ctx.Err() }
StopForCaller(m) ==
  /\ Goto(m, "failed", "leaving")
  /\ callerDone
  /\ result' = [result EXCEPT ![m] = "cancelled"]
  /\ UNCHANGED <<answer, err, rows, slots, group, shared, verdict>>

\* Fault: the goroutine cancels the group itself, before its error is kept.
RejectCancelling(m) ==
  /\ Goto(m, "failed", "leaving")
  /\ ~callerDone
  /\ ~Skippable(err[m])
  /\ result' = [result EXCEPT ![m] = err[m]]
  /\ cancelled' = TRUE
  /\ UNCHANGED <<answer, err, rows, slots, callerDone, groupErr, shared, verdict>>

\* if !skip { return err }
Reject(m) ==
  /\ Goto(m, "failed", "leaving")
  /\ ~callerDone
  /\ ~Skippable(err[m])
  /\ result' = [result EXCEPT ![m] = err[m]]
  /\ UNCHANGED <<answer, err, rows, slots, group, shared, verdict>>

\* Fault: the caller's context is not looked at.
SkipWithoutCheck(m) ==
  /\ Goto(m, "failed", "note")
  /\ Skippable(err[m])
  /\ UNCHANGED <<local, slots, group, shared, verdict>>

Skip(m) ==
  /\ Goto(m, "failed", "note")
  /\ ~callerDone
  /\ Skippable(err[m])
  /\ UNCHANGED <<local, slots, group, shared, verdict>>

\* Fault: the append is lost.
NoteLost(m) ==
  /\ Goto(m, "note", "leaving")
  /\ UNCHANGED <<local, slots, group, shared, verdict>>

Note(m) ==
  /\ Goto(m, "note", "leaving")
  /\ failures' = failures \cup {[metric |-> m, category |-> Category(err[m])]}
  /\ UNCHANGED <<local, slots, group, catalog, truncatedCount, verdict>>

Absorb(m) ==
  /\ Goto(m, "absorb", "leaving")
  /\ catalog' = catalog \cup rows[m]
  /\ truncatedCount' = truncatedCount + (IF Full(rows[m]) THEN 1 ELSE 0)
  /\ UNCHANGED <<local, slots, group, failures, verdict>>

\* Fault: the token is kept when the fetch failed.
ReleaseOnSuccess(m) ==
  /\ Goto(m, "leaving", "exiting")
  /\ slots' = IF answer[m] = "rows" THEN slots - 1 ELSE slots
  /\ UNCHANGED <<local, group, shared, verdict>>

\* The deferred receive runs before the errgroup sees the returned error.
Release(m) ==
  /\ Goto(m, "leaving", "exiting")
  /\ slots' = slots - 1
  /\ UNCHANGED <<local, group, shared, verdict>>

\* errgroup: the first non-nil error is kept, then the context cancelled.
Exit(m) ==
  /\ Goto(m, "exiting", "done")
  /\ groupErr' = IF groupErr = "nil" THEN result[m] ELSE groupErr
  /\ cancelled' = (cancelled \/ result[m] # "nil")
  /\ UNCHANGED <<local, slots, callerDone, shared, verdict>>

\* The group's context is derived from the caller's.
CallerCancels ==
  /\ CallerMayCancel
  /\ ~callerDone
  /\ verdict = "pending"
  /\ callerDone' = TRUE
  /\ cancelled' = TRUE
  /\ UNCHANGED <<pc, local, slots, groupErr, shared, verdict>>

\* g.Wait(), then the test of the failure fraction.
Decide ==
  /\ verdict = "pending"
  /\ \A m \in Metrics : pc[m] = "done"
  /\ verdict' = IF groupErr # "nil" \/ TooManyFailures THEN "abort" ELSE "report"
  /\ UNCHANGED <<pc, local, slots, group, shared>>

Worker(m) ==
  \/ Acquire(m) \/ GiveUp(m)
  \/ ReceiveRows(m) \/ ReceiveError(m)
  \/ StopForCaller(m) \/ Reject(m) \/ Skip(m)
  \/ Note(m) \/ Absorb(m)
  \/ Release(m) \/ Exit(m)

\* Run has moved on: the only way for the phase to be over.
Over == verdict # "pending" /\ UNCHANGED vars

Next ==
  \/ \E m \in Metrics : Worker(m)
  \/ CallerCancels
  \/ Decide
  \/ Over

Spec == Init /\ [][Next]_vars

\* The Go scheduler runs every runnable goroutine, the HTTP client and the cx
\* invocation have timeouts, and the goroutine in Wait wakes up.
Fairness == (\A m \in Metrics : WF_vars(Worker(m))) /\ WF_vars(Decide)

FairSpec == Spec /\ Fairness
-----------------------------------------------------------------------------
TypeOK ==
  /\ pc \in [Metrics -> Places]
  /\ answer \in [Metrics -> Answers \cup {"none"}]
  /\ err \in [Metrics -> ErrorTypes \cup {"none"}]
  /\ rows \in [Metrics -> SUBSET Series]
  /\ result \in [Metrics -> {"nil", "rejected", "cancelled"}]
  /\ slots \in 0..Workers
  /\ callerDone \in BOOLEAN
  /\ cancelled \in BOOLEAN
  /\ groupErr \in {"nil", "rejected", "cancelled"}
  /\ catalog \subseteq Series
  /\ failures \subseteq Failure
  /\ truncatedCount \in Nat
  /\ verdict \in {"pending", "report", "abort"}

\* The semaphore counts exactly the goroutines past it: no path out of the
\* function, skip, abort or success, keeps a token or gives one back twice.
SlotsMatchHolders == slots = Cardinality(Holders)

\* The group fails with the error that caused the stop: a goroutine that only
\* saw the derived cancellation never wins over the rejection behind it.
RootCauseKept == groupErr = "cancelled" => callerDone

\* No metric is listed as failed in a report because of a cancellation: the
\* caller's is returned instead, and one the group caused ends in an abort.
FailureIsOwn ==
  verdict = "report" => \A m \in FailedMetrics : answer[m] # "cancelled"

\* In a report each metric is settled in one way: its rows are all in the
\* catalog, or it is listed as failed and has no series in the catalog.
SettledOnce ==
  verdict = "report" =>
    \A m \in Metrics :
      \/ m \notin FailedMetrics /\ answer[m] = "rows" /\ rows[m] \subseteq catalog
      \/ m \in FailedMetrics /\ answer[m] # "rows" /\ SeriesOf[m] \cap catalog = {}

\* The two counters the report publishes bound what the catalog lacks: every
\* metric with a series missing is a listed failure or a counted truncation.
GapsAreCounted ==
  verdict = "report" =>
    Cardinality({m \in Metrics : ~(SeriesOf[m] \subseteq catalog)})
      <= Cardinality(failures) + truncatedCount

\* A report is made only when at least half of the metrics are known.
HalfIsKnown ==
  verdict = "report" => 2 * Cardinality(FailedMetrics) <= Cardinality(Metrics)

\* README, "Two things still fail the run": a status that rejects the request
\* fails the run, whichever goroutine met it and whatever the others did.
RejectionFailsRun ==
  verdict = "report" => \A m \in Metrics : answer[m] # "rejected"

\* After Wait the phase's results are read without the mutex: from the
\* verdict on, no goroutine may still write them.
QuietAfterWait == [][verdict # "pending" => UNCHANGED shared]_vars

\* The phase ends, whatever the server answers and whoever cancels.
Terminates == <>(verdict # "pending")

\* Settled: merged or noted, with no error to return.
Settled ==
  {m \in Metrics : pc[m] \in {"leaving", "exiting", "done"} /\ result[m] = "nil"}

Catalog == INSTANCE SeriesCatalog WITH settled <- Settled

\* The goroutines implement the phase that settles metrics one at a time.
ImplementsCatalog == Catalog!Spec
=============================================================================
