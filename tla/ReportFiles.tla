----------------------------- MODULE ReportFiles -----------------------------
(***************************************************************************)
(* What becomes of the billing figures of a run: Run decides which warning *)
(* to give, Report decides, from its own metadata, whether cost may be     *)
(* shown, and Write puts the files into a directory that earlier runs may  *)
(* have used.  The lookups themselves are EnrichCatalog's; a run is its    *)
(* outcome.                                                                *)
(***************************************************************************)
EXTENDS Integers, Sequences

CONSTANTS
  Coverages,  \* pairs: the lookups a run may attempt, those that succeed
  MaxRuns,    \* bound: runs into the same directory
  NoFile

ASSUME ReportAssumption ==
  /\ Coverages \subseteq {c \in Nat \X Nat : c[2] <= c[1]}
  /\ MaxRuns \in Nat

VARIABLES
  run,        \* the number of this run
  billing,    \* its options and the outcome of its lookups
  warned,     \* the warnings about cost its report carries
  step,       \* the file Write is at
  stream,     \* ... "none", "open", or "full" when all of it is written
  lost,       \* the buffered writer of the open file has met an error
  written,    \* the names Write will return
  dir,        \* the run that made each file, and how far it got
  status      \* "scan", "write", "ok" or "error"

report == <<run, billing, warned>>
file == <<step, stream, lost>>
vars == <<report, file, written, dir, status>>

Names ==
  <<"summary.json", "unused_series.json", "unused_by_cost.json",
    "unused_by_cost.csv", "unused_by_metric.json", "unused_by_metric.csv",
    "all_by_metric.csv", "otel_processors.yaml", "report.pdf">>

\* The writers: may a row fail to encode, and is the error of Close seen?  A
\* float that is no number has no JSON; the CSV writers defer Close unseen,
\* and the PDF library does not promise to look.
WriteSummaryJSON == [encodes |-> TRUE, checksClose |-> TRUE]
WriteJSONArrayFile == [encodes |-> TRUE, checksClose |-> TRUE]
WriteUnusedByCostCSV == [encodes |-> FALSE, checksClose |-> FALSE]
WriteUnusedByMetricCSV == [encodes |-> FALSE, checksClose |-> FALSE]
WriteAllByMetricCSV == [encodes |-> FALSE, checksClose |-> FALSE]
WriteOTELUnusedProcessorsYAML == [encodes |-> FALSE, checksClose |-> TRUE]
WritePDFReport == [encodes |-> FALSE, checksClose |-> FALSE]

Writers ==
  <<WriteSummaryJSON, WriteJSONArrayFile, WriteJSONArrayFile,
    WriteUnusedByCostCSV, WriteJSONArrayFile, WriteUnusedByMetricCSV,
    WriteAllByMetricCSV, WriteOTELUnusedProcessorsYAML, WritePDFReport>>

CostFiles == {"unused_by_cost.json", "unused_by_cost.csv"}

Unasked ==
  [asked |-> FALSE, allowPartial |-> FALSE, attempted |-> 0, succeeded |-> 0,
   billed |-> FALSE]

\* Without --billing both callers pass no client and no window.  A lookup
\* that fails as a whole, or a window that cannot be, attempts nothing.
Outcomes ==
  {[asked |-> TRUE, allowPartial |-> partial, attempted |-> c[1],
    succeeded |-> c[2], billed |-> billed /\ c[2] > 0] :
     partial \in BOOLEAN, c \in Coverages, billed \in BOOLEAN}
  \cup
  {[Unasked EXCEPT !.allowPartial = partial] : partial \in BOOLEAN}

\* BillingCoverageThreshold: nine of ten.
Covered(b) == 10 * b.succeeded >= 9 * b.attempted

\* Fault: coverage is looked at before whether there is any figure at all.
GateByCoverage(b) ==
  IF ~b.asked THEN {"off"}
  ELSE IF Covered(b) THEN {}
  ELSE IF b.allowPartial THEN {"lower bound"}
  ELSE IF ~b.billed THEN {"no usable data"}
  ELSE {"withheld"}

Gate(b) ==
  IF ~b.asked THEN {"off"}
  ELSE IF ~b.billed THEN {"no usable data"}
  ELSE IF Covered(b) THEN {}
  ELSE IF b.allowPartial THEN {"lower bound"}
  ELSE {"withheld"}

PartialAccepted == "lower bound" \in warned

\* Fault: one successful lookup is enough.
SufficientIfAny == PartialAccepted \/ billing.succeeded > 0

CoverageSufficient ==
  PartialAccepted \/ billing.attempted = 0 \/ Covered(billing)

CostReportable == billing.billed /\ CoverageSufficient

Writes(name) == name \in CostFiles => CostReportable

Name == Names[step]

Writer == Writers[step]

Init ==
  /\ run = 0
  /\ billing = Unasked
  /\ warned = {}
  /\ step = 1
  /\ stream = "none"
  /\ lost = FALSE
  /\ written = <<>>
  /\ dir = [i \in 1..Len(Names) |-> NoFile]
  /\ status = "scan"

Scan ==
  /\ status = "scan"
  /\ run < MaxRuns
  /\ run' = run + 1
  /\ billing' \in Outcomes
  /\ warned' = Gate(billing')
  /\ step' = 1
  /\ stream' = "none"
  /\ lost' = FALSE
  /\ written' = <<>>
  /\ status' = "write"
  /\ UNCHANGED dir

\* Creating a file truncates what an earlier run left under its name.
Create ==
  /\ status = "write"
  /\ stream = "none"
  /\ Writes(Name)
  /\ stream' = "open"
  /\ dir' = [dir EXCEPT ![step] = [run |-> run, got |-> "cut"]]
  /\ UNCHANGED <<report, step, lost, written, status>>

\* The system takes no more bytes.  Rows go on into the buffer, whose error
\* nobody asks for until the next checked write.
LoseBytes ==
  /\ stream = "open"
  /\ ~lost
  /\ lost' = TRUE
  /\ UNCHANGED <<report, step, stream, written, dir, status>>

\* Fault: the last write and the flush are not asked for their error.
FlushUnasked ==
  /\ stream = "open"
  /\ stream' = "full"
  /\ dir' = [dir EXCEPT ![step].got = IF lost THEN "cut" ELSE "flushed"]
  /\ UNCHANGED <<report, step, lost, written, status>>

\* The checked write or Flush that ends the file finds no error, so none
\* was met before: the error of the buffer is kept until then.
Flush ==
  /\ stream = "open"
  /\ ~lost
  /\ stream' = "full"
  /\ dir' = [dir EXCEPT ![step].got = "flushed"]
  /\ UNCHANGED <<report, step, lost, written, status>>

Advance ==
  /\ step' = IF step = Len(Names) THEN step ELSE step + 1
  /\ status' = IF step = Len(Names) THEN "ok" ELSE "write"

Leave ==
  /\ stream' = "none"
  /\ lost' = FALSE

Close ==
  /\ stream = "full"
  /\ dir' = [dir EXCEPT ![step].got = "closed"]
  /\ written' = Append(written, Name)
  /\ Leave
  /\ Advance
  /\ UNCHANGED report

\* Closing fails, and the writer has deferred it without a look.
CloseUnseen ==
  /\ stream = "full"
  /\ ~Writer.checksClose
  /\ written' = Append(written, Name)
  /\ Leave
  /\ Advance
  /\ UNCHANGED <<report, dir>>

Withhold ==
  /\ status = "write"
  /\ stream = "none"
  /\ ~Writes(Name)
  /\ Advance
  /\ UNCHANGED <<report, stream, lost, written, dir>>

\* Write returns the error and no names.  A process that dies leaves the
\* same files.
BreakOff ==
  /\ status' = "error"
  /\ Leave
  /\ written' = <<>>
  /\ UNCHANGED <<report, step, dir>>

\* The directory or the file cannot be made.
CreateFails ==
  /\ status = "write"
  /\ stream = "none"
  /\ Writes(Name)
  /\ BreakOff

EncodeFails == stream = "open" /\ Writer.encodes /\ BreakOff

\* A checked write, or Flush, returns the error the buffer has kept.
WriteFails == stream = "open" /\ lost /\ BreakOff

CloseFails == stream = "full" /\ Writer.checksClose /\ BreakOff

WriteStep ==
  \/ Create \/ LoseBytes \/ Flush \/ Close \/ CloseUnseen \/ Withhold
  \/ CreateFails \/ EncodeFails \/ WriteFails \/ CloseFails

\* The process ends, or the job's goroutine: all but the files is gone.
End ==
  /\ status \in {"ok", "error"}
  /\ status' = "scan"
  /\ billing' = Unasked
  /\ warned' = {}
  /\ step' = 1
  /\ written' = <<>>
  /\ UNCHANGED <<run, stream, lost, dir>>

Over == status = "scan" /\ run = MaxRuns /\ UNCHANGED vars

Next == Scan \/ WriteStep \/ End \/ Over

Spec == Init /\ [][Next]_vars
-----------------------------------------------------------------------------
\* The two kinds of cost cells in the PDF: those that go through costCell ...
CostCell ==
  IF CostReportable THEN "figure"
  ELSE IF billing.billed THEN "withheld"
  ELSE IF billing.asked THEN "unavailable"
  ELSE "not collected"

\* ... and the rows of the top unused metrics, which do not.
TopUnusedCell == IF billing.billed THEN "figure" ELSE "zero"

Listed == {written[i] : i \in DOMAIN written}

\* A caller that is told of a file finds all of it, made by this run, and
\* closed if its writer looks, whatever an earlier run, finished or not, had
\* left in the directory and whichever write met the error; and it is told
\* of every file but those that are withheld.
ListedIsWhole ==
  status = "ok" =>
    \A i \in 1..Len(Names) :
      IF Names[i] \in Listed
        THEN /\ dir[i].run = run
             /\ dir[i].got \in
                  (IF Writers[i].checksClose THEN {"closed"} ELSE {"flushed", "closed"})
        ELSE Names[i] \in CostFiles

\* Files ranked by cost come from nine of ten lookups, or from a user who
\* accepted fewer and is told that the figures are a lower bound.
CostIsCovered ==
  status = "ok" /\ CostFiles \cap Listed # {} =>
    \/ Covered(billing) /\ billing.succeeded > 0
    \/ billing.allowPartial /\ "lower bound" \in warned

\* What the PDF's settings, and the last lines on stderr, say of the coverage.
CoverageNote ==
  IF billing.attempted = 0 THEN "none"
  ELSE IF PartialAccepted /\ ~Covered(billing) THEN "understated"
  ELSE IF ~CoverageSufficient THEN "below"
  ELSE "figure"

Notice ==
  IF billing.attempted = 0 THEN "none"
  ELSE IF PartialAccepted THEN "lower bound"
  ELSE IF ~CoverageSufficient THEN "withheld"
  ELSE "figure"

\* Run, Report, the PDF and the command decide separately, from different
\* numbers: the reason the PDF gives for a missing figure is the one the
\* warnings give, figures that lack a lookup in ten are called a lower bound by
\* all of them, and figures there are, are withheld by all of them or by none.
\* Where there are none, stderr goes by the coverage alone: it may say
\* "withheld" when the warnings and the PDF's cells say that there is no data.
ReasonsAgree ==
  status # "scan" =>
    /\ CASE CostCell = "not collected" -> warned = {"off"}
         [] CostCell = "unavailable" -> warned = {"no usable data"}
         [] CostCell = "withheld" -> warned = {"withheld"}
         [] OTHER -> warned = IF Covered(billing) THEN {} ELSE {"lower bound"}
    /\ CoverageNote = "understated" <=> warned = {"lower bound"}
    /\ Notice = "lower bound" <=> warned = {"lower bound"}
    /\ billing.billed => /\ CoverageNote = "below" <=> warned = {"withheld"}
                         /\ Notice = "withheld" <=> warned = {"withheld"}

\* What the README says of the PDF when cost is not reportable: a reason
\* stands "in place of cost figures rather than a 0 that would read as
\* measured", and below the threshold the figures are "withheld".
MissingIsExplained ==
  status = "ok" /\ ~CostReportable =>
    {CostCell, TopUnusedCell} \cap {"figure", "zero"} = {}
=============================================================================
