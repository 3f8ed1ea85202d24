------------------------------ MODULE Progress ------------------------------
(***************************************************************************)
(* What a goroutine of the series phase does with an answer, and the       *)
(* status line it reports to: it interns the labels (Intern), merges its   *)
(* series or notes its failure under the mutex, and only then, without it, *)
(* adds to the counter and has the line draw the number it got.  One that  *)
(* is cancelled or rejected leaves without any of this.  Run waits for all *)
(* goroutines and either sets another text or, when one left or too many   *)
(* failed, returns; it clears the line on its way out.  On a terminal the  *)
(* line is overwritten; elsewhere every draw that is not throttled adds a  *)
(* line to a log.                                                          *)
(***************************************************************************)
EXTENDS LabelSets, Integers, Sequences, FiniteSets

CONSTANT Scale  \* what a full bar counts to, 100 in the code

ASSUME ProgressAssumption ==
  /\ Scale \in Nat \ {0}
  /\ IsFiniteSet(Workers)

VARIABLES
  table, held, missed,   \* the string table
  stage,        \* where each goroutine is
  noted,        \* those whose failure is on the list
  done,         \* the number the counter gave it
  metricsDone,  \* the counter
  interactive,  \* is the writer a terminal?
  lastPct,      \* the last percentage that was logged, -1 before the first
  log,          \* the bars that were logged
  screen,       \* what the terminal shows: a bar, a text or nothing
  run           \* "fetch", then "correlate", then "returned"

internVars == <<table, held, missed>>
lineVars   == <<lastPct, log, screen>>
vars == <<internVars, stage, noted, done, metricsDone, interactive, lineVars, run>>

Table == INSTANCE Intern

Total == Cardinality(Workers)

\* The floating-point quotient may be a hair below a whole percentage, and is
\* truncated.
Percentages(n) ==
  IF n = 0 THEN {0}
  ELSE IF n = Total THEN {Scale}
  ELSE {(Scale * n) \div Total, (Scale * n - 1) \div Total}

-----------------------------------------------------------------------------
\* The status line; each call holds its mutex.

Set(text) ==
  /\ screen' = IF interactive THEN text ELSE screen
  /\ UNCHANGED <<lastPct, log>>

\* Without a terminal: a line when the percentage is another, and at the end.
Bar(n) ==
  IF interactive
    THEN screen' = <<"bar", n>> /\ UNCHANGED <<lastPct, log>>
  ELSE \E pct \in Percentages(n) :
         IF pct = lastPct /\ n # Total
           THEN UNCHANGED lineVars
         ELSE /\ lastPct' = pct
              /\ log' = Append(log, n)
              /\ UNCHANGED screen

Clear ==
  /\ screen' = IF interactive THEN <<>> ELSE screen
  /\ UNCHANGED <<lastPct, log>>

-----------------------------------------------------------------------------
\* The first bar is empty; a log leaves it out if the last bar of the
\* dashboards was at 0 percent.
Init ==
  /\ Table!Init
  /\ stage = [w \in Workers |-> "fetch"]
  /\ noted = {}
  /\ done = [w \in Workers |-> 0]
  /\ metricsDone = 0
  /\ interactive \in BOOLEAN
  /\ lastPct = IF interactive THEN -1 ELSE 0
  /\ log \in IF interactive THEN {<<>>} ELSE IF Total = 0 THEN {<<0>>} ELSE {<<>>, <<0>>}
  /\ screen = IF interactive THEN <<"bar", 0>> ELSE <<>>
  /\ run = "fetch"

Goto(w, to) == stage' = [stage EXCEPT ![w] = to]

Answered(w) ==
  /\ stage[w] = "fetch"
  /\ Goto(w, "intern")
  /\ UNCHANGED <<internVars, noted, done, metricsDone, interactive, lineVars, run>>

\* The fetch failed in a way that skips the metric.
Note(w) ==
  /\ stage[w] = "fetch"
  /\ noted' = noted \cup {w}
  /\ Goto(w, "count")
  /\ UNCHANGED <<internVars, done, metricsDone, interactive, lineVars, run>>

\* Cancelled while it waits for a token or for the answer, or rejected.  Which
\* fetches end so, SeriesFetch says; here any may.
Leave(w) ==
  /\ stage[w] = "fetch"
  /\ Goto(w, "left")
  /\ UNCHANGED <<internVars, noted, done, metricsDone, interactive, lineVars, run>>

InternLabels(w) ==
  /\ stage[w] = "intern"
  /\ Table!Call(w)
  /\ UNCHANGED <<stage, noted, done, metricsDone, interactive, lineVars, run>>

\* The critical section that merges; what it writes is SeriesFetch's.
Merge(w) ==
  /\ stage[w] = "intern"
  /\ \A s \in Wanted[w] : held[w][s] # None
  /\ Goto(w, "count")
  /\ UNCHANGED <<internVars, noted, done, metricsDone, interactive, lineVars, run>>

\* Fault: the counter is read again when the bar is drawn.
CountForAll(w) ==
  /\ stage[w] = "count"
  /\ metricsDone' = metricsDone + 1
  /\ done' = [v \in Workers |-> IF v = w \/ stage[v] = "draw" THEN metricsDone' ELSE done[v]]
  /\ Goto(w, "draw")
  /\ UNCHANGED <<internVars, noted, interactive, lineVars, run>>

Count(w) ==
  /\ stage[w] = "count"
  /\ metricsDone' = metricsDone + 1
  /\ done' = [done EXCEPT ![w] = metricsDone']
  /\ Goto(w, "draw")
  /\ UNCHANGED <<internVars, noted, interactive, lineVars, run>>

Draw(w) ==
  /\ stage[w] = "draw"
  /\ Bar(done[w])
  /\ Goto(w, "over")
  /\ UNCHANGED <<internVars, noted, done, metricsDone, interactive, run>>

NobodyLeft == \A w \in Workers : stage[w] # "left"

\* Fault: Run waits for the counter, which a goroutine that leaves never moves.
WaitedByCount == metricsDone = Total

Waited == \A w \in Workers : stage[w] \in {"over", "left"}

TooManyFailed == 2 * Cardinality(noted) > Total

Correlate ==
  /\ run = "fetch"
  /\ Waited
  /\ NobodyLeft /\ ~TooManyFailed
  /\ Set(<<"correlating">>)
  /\ run' = "correlate"
  /\ UNCHANGED <<internVars, stage, noted, done, metricsDone, interactive>>

\* Run returns an error, and the deferred Done clears the line.
Abort ==
  /\ run = "fetch"
  /\ Waited
  /\ ~NobodyLeft \/ TooManyFailed
  /\ Clear
  /\ run' = "returned"
  /\ UNCHANGED <<internVars, stage, noted, done, metricsDone, interactive>>

Return ==
  /\ run = "correlate"
  /\ Clear
  /\ run' = "returned"
  /\ UNCHANGED <<internVars, stage, noted, done, metricsDone, interactive>>

Step(w) ==
  \/ Answered(w) \/ Note(w) \/ Leave(w)
  \/ InternLabels(w) \/ Merge(w) \/ Count(w) \/ Draw(w)

Over == run = "returned" /\ UNCHANGED vars

Next == (\E w \in Workers : Step(w)) \/ Correlate \/ Abort \/ Return \/ Over

Spec == Init /\ [][Next]_vars

\* A fetch is bounded by a timeout, the locks are held for a few instructions
\* and the scheduler is fair.
FairSpec ==
  Spec /\ (\A w \in Workers : WF_vars(Step(w))) /\ WF_vars(Correlate \/ Abort \/ Return)

-----------------------------------------------------------------------------
\* Whoever interns a string, at any time, holds the table's copy of it.
OneCopy == Table!OneCopy

\* However late the goroutines draw, with a number that is no longer the
\* latest, and outside the mutex: a log has no count twice, shows the phase
\* complete only when every metric was counted, and has shown it when Run goes
\* on unless a goroutine left; on a terminal nobody draws over what Run has set
\* since, the text of the next phase and then, also after an error, the clear
\* line.
LineIsTrue ==
  IF interactive
    THEN /\ run = "correlate" => screen = <<"correlating">>
         /\ run = "returned" => screen = <<>>
    ELSE LET complete == \E i \in DOMAIN log : log[i] = Total
         IN  /\ \A i, j \in DOMAIN log : log[i] = log[j] => i = j
             /\ complete => \A w \in Workers : stage[w] \in {"draw", "over"}
             /\ run # "fetch" /\ NobodyLeft => complete

\* Whoever leaves or fails, and whoever waits for whose copy of a string, the
\* phase is over for every goroutine and Run returns.
WorkEnds == <>(run = "returned")
=============================================================================
