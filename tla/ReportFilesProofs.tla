------------------------- MODULE ReportFilesProofs --------------------------
(***************************************************************************)
(* For every number of runs into one directory and all coverages their     *)
(* lookups may have: what Write lists is whole, cost files are covered,    *)
(* and Run, Report, the PDF and the command give one reason.  For every    *)
(* date and every flag: the billing service is asked of the days that the  *)
(* report claims.                                                          *)
(***************************************************************************)
EXTENDS CommandLine, Sums

Steps == 1..9

FileStates == [run : Nat, got : {"cut", "flushed", "closed"}]

\* The file at i is this run's and as complete as its writer can tell.
Whole(i) ==
  /\ dir[i].run = run
  /\ dir[i].got \in (IF Writers[i].checksClose THEN {"closed"} ELSE {"flushed", "closed"})

\* What was listed lies behind, and what lies behind was listed or withheld.
Behind(n) ==
  /\ \A i \in Steps : Names[i] \in Listed => i < n /\ Whole(i)
  /\ \A i \in Steps : i < n /\ Names[i] \notin Listed => Names[i] \in CostFiles

\* The file Write is at, and the ones it is done with.
Writing ==
  /\ status = "write" => Behind(step)
  /\ status = "ok" => Behind(10)
  /\ stream # "none" => /\ status = "write"
                        /\ dir[step] \in FileStates
                        /\ dir[step].run = run
                        /\ Writes(Name)
  /\ stream = "full" => dir[step].got = "flushed"

\* The warnings are Run's for the outcome of the lookups, and a cost file is
\* listed only where Report would show its figures.
Reckoned ==
  /\ status # "scan" => billing \in Outcomes /\ warned = Gate(billing)
  /\ status \in {"write", "ok"} /\ CostFiles \cap Listed # {} => CostReportable

Typed ==
  /\ step \in Steps
  /\ stream \in {"none", "open", "full"}
  /\ status \in {"scan", "write", "ok", "error"}
  /\ written \in Seq({Names[i] : i \in Steps})
  /\ dir \in [Steps -> {NoFile} \cup FileStates]
  /\ run \in Nat

Inv == Typed /\ Writing /\ Reckoned

-----------------------------------------------------------------------------
\* The nine names differ.
LEMMA NamesDiffer ==
  /\ Len(Names) = 9
  /\ \A i, j \in Steps : Names[i] = Names[j] => i = j
  <1>1. /\ Len(Names) = 9
        /\ Names[1] = "summary.json" /\ Names[2] = "unused_series.json"
        /\ Names[3] = "unused_by_cost.json" /\ Names[4] = "unused_by_cost.csv"
        /\ Names[5] = "unused_by_metric.json" /\ Names[6] = "unused_by_metric.csv"
        /\ Names[7] = "all_by_metric.csv" /\ Names[8] = "otel_processors.yaml"
        /\ Names[9] = "report.pdf"
    BY DEF Names
  <1>2. Steps = {1, 2, 3, 4, 5, 6, 7, 8, 9} BY DEF Steps
  <1>3. ASSUME NEW i \in Steps, NEW j \in Steps, Names[i] = Names[j] PROVE i = j
    BY <1>1, <1>2, <1>3
  <1> QED BY <1>1, <1>3

\* Listing one more name adds just that name.
LEMMA ListedOneMore ==
  ASSUME NEW S, NEW s \in Seq(S), NEW name \in S,
         NEW t, t = Append(s, name)
  PROVE  /\ t \in Seq(S)
         /\ {t[i] : i \in DOMAIN t} = {s[i] : i \in DOMAIN s} \cup {name}
  <1>1. /\ t \in Seq(S)
        /\ DOMAIN t = 1..(Len(s) + 1) /\ DOMAIN s = 1..Len(s) /\ Len(s) \in Nat
        /\ t[Len(s) + 1] = name
        /\ \A i \in DOMAIN s : t[i] = s[i]
    OBVIOUS
  <1>2. \A i \in DOMAIN t : i \in DOMAIN s \/ i = Len(s) + 1 BY <1>1
  <1>3. DOMAIN s \subseteq DOMAIN t /\ Len(s) + 1 \in DOMAIN t BY <1>1
  <1> QED BY <1>1, <1>2, <1>3

-----------------------------------------------------------------------------
\* A run begins with nothing listed.
LEMMA ScanKeeps ==
  ASSUME Inv, Scan
  PROVE  Inv'
  <1>1. Listed' = {} BY DEF Scan, Listed
  <1>2. Typed' BY DEF Inv, Typed, Scan, Steps, FileStates
  <1>3. Writing' BY <1>1 DEF Inv, Scan, Writing, Behind, Steps
  <1>4. Reckoned' BY <1>1 DEF Scan, Reckoned
  <1> QED BY <1>2, <1>3, <1>4 DEF Inv

\* The steps that list nothing and leave the file they are at open.
LEMMA FileStepsKeep ==
  ASSUME Inv, Create \/ LoseBytes \/ Flush
  PROVE  Inv'
  <1> USE DEF Inv, Typed, Steps, FileStates
  <1>0. UNCHANGED <<run, billing, warned, step, written, status>>
    BY DEF Create, LoseBytes, Flush, report
  <1>1. /\ Listed' = Listed
        /\ CostReportable' = CostReportable
        /\ Writes(Name)' = Writes(Name)
    BY <1>0 DEF Listed, CostReportable, CoverageSufficient, PartialAccepted, Covered,
                Writes, Name
  <1>2. Reckoned' BY <1>0, <1>1 DEF Reckoned
  <1>3. CASE Create
    <2>1. Typed' BY <1>0, <1>3 DEF Create, Writing
    <2>2. \A i \in 1..9 : i < step => dir'[i] = dir[i] BY <1>0, <1>3 DEF Create
    <2>3. Writing' BY <1>0, <1>3, <1>1, <2>2 DEF Create, Writing, Behind, Whole, Name
    <2> QED BY <2>1, <2>3, <1>2
  <1>4. CASE LoseBytes
    BY <1>0, <1>1, <1>2, <1>4 DEF LoseBytes, Writing, Behind, Whole, Name
  <1>5. CASE Flush
    <2>1. Typed' BY <1>0, <1>5 DEF Flush, Writing
    <2>2. \A i \in 1..9 : i < step => dir'[i] = dir[i] BY <1>0, <1>5 DEF Flush
    <2>3. Writing' BY <1>0, <1>5, <1>1, <2>2 DEF Flush, Writing, Behind, Whole, Name
    <2> QED BY <2>1, <2>3, <1>2
  <1> QED BY <1>3, <1>4, <1>5

\* Once step is done with, what is behind the next one is in order.
LEMMA AdvanceKeepsWriting ==
  ASSUME Inv, Advance, stream' = "none", NEW k \in Steps, k = step, Behind(k + 1)'
  PROVE  Writing' /\ step' \in Steps /\ status' \in {"write", "ok"}
  <1>1. CASE k = 9
    BY <1>1, NamesDiffer DEF Inv, Typed, Steps, Advance, Writing
  <1>2. CASE k # 9
    <2>1. step' = k + 1 /\ status' = "write" /\ k + 1 \in Steps
      BY <1>2, NamesDiffer DEF Inv, Typed, Steps, Advance
    <2> QED BY <2>1 DEF Writing
  <1> QED BY <1>1, <1>2

\* The file at step is listed, and it is whole.
LEMMA CloseKeeps ==
  ASSUME Inv, Close \/ CloseUnseen
  PROVE  Inv'
  <1>0. PICK k \in Steps : k = step BY DEF Inv, Typed
  <1>1. /\ UNCHANGED <<run, billing, warned>>
        /\ stream = "full" /\ stream' = "none"
        /\ written' = Append(written, Name)
        /\ Advance
    BY <1>0 DEF Close, CloseUnseen, Leave, report
  <1>2. /\ status = "write" /\ k \in Steps /\ Behind(k)
        /\ dir \in [Steps -> {NoFile} \cup FileStates]
        /\ dir[k] \in FileStates /\ dir[k].run = run /\ dir[k].got = "flushed"
        /\ Writes(Name) /\ Name = Names[k]
    BY <1>0, <1>1 DEF Inv, Typed, Writing, Name
  <1>3. /\ written' \in Seq({Names[i] : i \in Steps})
        /\ Listed' = Listed \cup {Name}
    BY <1>1, <1>2, ListedOneMore DEF Inv, Listed, Typed
  <1>4. /\ dir' \in [Steps -> {NoFile} \cup FileStates]
        /\ \A i \in Steps : i # k => dir'[i] = dir[i]
    BY <1>0, <1>2 DEF Close, CloseUnseen, FileStates
  <1>5. Whole(k)'
    <2>1. CASE Close
      <3>1. dir'[k].run = run /\ dir'[k].got = "closed"
        BY <2>1, <1>0, <1>2 DEF Close, FileStates
      <3> QED BY <3>1, <1>1 DEF Whole
    <2>2. CASE CloseUnseen
      BY <2>2, <1>0, <1>1, <1>2 DEF CloseUnseen, Whole, Writer
    <2> QED BY <2>1, <2>2
  <1>6. Behind(k + 1)'
    <2>1. ASSUME NEW i \in Steps, Names[i] \in Listed' PROVE i < k + 1 /\ Whole(i)'
      <3>1. CASE i = k BY <3>1, <1>5, <1>2 DEF Steps
      <3>2. CASE i # k
        <4>1. Names[i] \in Listed BY <3>2, <2>1, <1>2, <1>3, NamesDiffer
        <4>2. i < k /\ Whole(i) BY <4>1, <1>2 DEF Behind
        <4> QED BY <3>2, <4>2, <1>1, <1>2, <1>4 DEF Whole, Steps
      <3> QED BY <3>1, <3>2
    <2>2. ASSUME NEW i \in Steps, i < k + 1, Names[i] \notin Listed' PROVE Names[i] \in CostFiles
      <3>1. i # k BY <2>2, <1>2, <1>3
      <3> QED BY <3>1, <2>2, <1>2, <1>3 DEF Behind, Steps
    <2> QED BY <2>1, <2>2 DEF Behind
  <1>7. Writing' /\ step' \in Steps /\ status' \in {"write", "ok"}
    BY <1>1, <1>2, <1>6, AdvanceKeepsWriting, <1>0
  <1>8. Typed' BY <1>1, <1>3, <1>4, <1>7 DEF Inv, Typed
  <1>9. CostReportable' = CostReportable
    BY <1>1 DEF CostReportable, CoverageSufficient, PartialAccepted, Covered
  <1>10. Reckoned' BY <1>1, <1>2, <1>3, <1>7, <1>9 DEF Inv, Reckoned, Writes
  <1> QED BY <1>7, <1>8, <1>10 DEF Inv

\* A file that is withheld is a cost file.
LEMMA WithholdKeeps ==
  ASSUME Inv, Withhold
  PROVE  Inv'
  <1>0. PICK k \in Steps : k = step BY DEF Inv, Typed
  <1>1. /\ UNCHANGED <<run, billing, warned, written, dir>>
        /\ stream' = "none" /\ status = "write"
        /\ Name \in CostFiles /\ Name = Names[k]
        /\ Advance
    BY <1>0 DEF Withhold, report, Writes, Name
  <1>2. k \in Steps /\ Behind(k) BY <1>0, <1>1 DEF Inv, Typed, Writing
  <1>3. Listed' = Listed BY <1>1 DEF Listed
  <1>4. \A i \in Steps : Whole(i)' = Whole(i) BY <1>1 DEF Whole
  <1>5. Behind(k + 1)'
    <2>1. \A i \in Steps : i < k + 1 => i < k \/ i = k BY <1>2 DEF Steps
    <2>2. \A i \in Steps : i < k => i < k + 1 BY <1>2 DEF Steps
    <2> QED BY <1>1, <1>2, <1>3, <1>4, <2>1, <2>2 DEF Behind
  <1>6. Writing' /\ step' \in Steps /\ status' \in {"write", "ok"}
    BY <1>1, <1>2, <1>5, AdvanceKeepsWriting, <1>0
  <1>7. CostReportable' = CostReportable
    BY <1>1 DEF CostReportable, CoverageSufficient, PartialAccepted, Covered
  <1>8. Typed' BY <1>1, <1>6 DEF Inv, Typed
  <1>9. Reckoned' BY <1>1, <1>3, <1>6, <1>7 DEF Inv, Reckoned
  <1> QED BY <1>6, <1>8, <1>9 DEF Inv

\* A failed run lists nothing, and neither does one that is over.
LEMMA EndsKeep ==
  ASSUME Inv, CreateFails \/ EncodeFails \/ WriteFails \/ CloseFails \/ End
  PROVE  Inv'
  <1>1. /\ written' = <<>> /\ status' \in {"error", "scan"} /\ UNCHANGED <<run, dir>>
        /\ status' = "error" => UNCHANGED <<billing, warned, step>> /\ stream' = "none"
        /\ status' = "scan" => step' = 1 /\ UNCHANGED stream
        /\ status' = "scan" => status \in {"ok", "error"}
        /\ status' = "error" => status = "write"
    BY DEF CreateFails, EncodeFails, WriteFails, CloseFails, End, BreakOff, Leave, report,
           Inv, Writing
  <1>2. Listed' = {} BY <1>1 DEF Listed
  <1>3. Typed' BY <1>1 DEF Inv, Typed, Steps
  <1>4. Writing' BY <1>1 DEF Inv, Writing
  <1>5. Reckoned' BY <1>1, <1>2 DEF Inv, Reckoned
  <1> QED BY <1>3, <1>4, <1>5 DEF Inv

\* Every step of a run keeps its files in order.
LEMMA StepKeeps == Inv /\ [Next]_vars => Inv'
  <1> SUFFICES ASSUME Inv, [Next]_vars PROVE Inv' OBVIOUS
  <1>1. CASE Scan BY <1>1, ScanKeeps
  <1>2. CASE Create \/ LoseBytes \/ Flush BY <1>2, FileStepsKeep
  <1>3. CASE Close \/ CloseUnseen BY <1>3, CloseKeeps
  <1>4. CASE Withhold BY <1>4, WithholdKeeps
  <1>5. CASE CreateFails \/ EncodeFails \/ WriteFails \/ CloseFails \/ End
    BY <1>5, EndsKeep
  <1>6. CASE UNCHANGED vars
    BY <1>6 DEF vars, report, file, Inv, Typed, Writing, Behind, Whole, Listed, Writes, Name,
                Reckoned, CostReportable, CoverageSufficient, PartialAccepted, Covered
  <1> QED BY <1>1, <1>2, <1>3, <1>4, <1>5, <1>6 DEF Next, WriteStep, Over

\* A fresh directory is in order.
LEMMA InvHolds == Spec => []Inv
  <1>1. Init => Inv
    <2> SUFFICES ASSUME Init PROVE Inv OBVIOUS
    <2>1. dir \in [Steps -> {NoFile} \cup FileStates] /\ step \in Steps /\ written = <<>>
      BY NamesDiffer DEF Init, Steps
    <2>2. Typed BY <2>1 DEF Init, Typed
    <2> QED BY <2>2 DEF Init, Inv, Writing, Reckoned
  <1> QED BY <1>1, StepKeeps, PTL DEF Spec

-----------------------------------------------------------------------------
\* The README's list of files: whatever a run met on the way, and whatever the
\* runs before it had left in the directory, a file that Write names is this
\* run's and whole, and all but the cost files are named.
THEOREM FilesListedAreWhole == Spec => []ListedIsWhole
  <1>1. Inv => ListedIsWhole
    <2>1. Len(Names) = 9 /\ 1..Len(Names) = Steps BY NamesDiffer DEF Steps
    <2>2. \A i \in Steps : i < 10 BY DEF Steps
    <2> QED BY <2>1, <2>2 DEF Inv, Writing, Behind, Whole, ListedIsWhole
  <1> QED BY <1>1, InvHolds, PTL

\* What the outcome of the lookups can be.
LEMMA OutcomesAre ==
  ASSUME NEW b \in Outcomes
  PROVE  /\ b.attempted \in Nat /\ b.succeeded \in Nat /\ b.succeeded <= b.attempted
         /\ b.asked \in BOOLEAN /\ b.allowPartial \in BOOLEAN /\ b.billed \in BOOLEAN
         /\ b.billed => b.asked /\ b.succeeded > 0
         /\ ~b.asked => b.attempted = 0
  <1>1. CASE \E partial \in BOOLEAN : b = [Unasked EXCEPT !.allowPartial = partial]
    BY <1>1 DEF Unasked
  <1>2. CASE \E partial \in BOOLEAN, c \in Coverages, billed \in BOOLEAN :
               b = [asked |-> TRUE, allowPartial |-> partial, attempted |-> c[1],
                    succeeded |-> c[2], billed |-> billed /\ c[2] > 0]
    <2>1. PICK partial \in BOOLEAN, c \in Coverages, billed \in BOOLEAN :
            b = [asked |-> TRUE, allowPartial |-> partial, attempted |-> c[1],
                 succeeded |-> c[2], billed |-> billed /\ c[2] > 0]
      BY <1>2
    <2>2. c[1] \in Nat /\ c[2] \in Nat /\ c[2] <= c[1] BY ReportAssumption
    <2>3. (billed /\ c[2] > 0) \in BOOLEAN OBVIOUS
    <2> QED BY <2>1, <2>2, <2>3
  <1> QED BY <1>1, <1>2 DEF Outcomes

\* Run's decision, spelled out; with nothing attempted nothing is missing.
LEMMA GateCases ==
  ASSUME billing \in Outcomes, warned = Gate(billing)
  PROVE  /\ ~billing.asked => warned = {"off"} /\ ~billing.billed
         /\ billing.asked /\ ~billing.billed => warned = {"no usable data"}
         /\ billing.billed /\ Covered(billing) => warned = {}
         /\ billing.billed /\ ~Covered(billing) =>
              warned = IF billing.allowPartial THEN {"lower bound"} ELSE {"withheld"}
         /\ billing.billed => billing.asked /\ billing.succeeded > 0
         /\ billing.attempted = 0 => Covered(billing) /\ ~billing.billed
         /\ PartialAccepted <=> warned = {"lower bound"}
         /\ PartialAccepted <=> billing.billed /\ ~Covered(billing) /\ billing.allowPartial
  <1>1. /\ billing.attempted \in Nat /\ billing.succeeded \in Nat
        /\ billing.succeeded <= billing.attempted
        /\ billing.billed => billing.asked /\ billing.succeeded > 0
        /\ ~billing.asked => billing.attempted = 0
    BY OutcomesAre
  <1>2. billing.attempted = 0 => Covered(billing) /\ ~billing.billed
    BY <1>1 DEF Covered
  <1> QED BY <1>1, <1>2 DEF Gate, PartialAccepted

\* Files ranked by cost come from nine of ten lookups, or from a user who was
\* told that they are a lower bound.
THEOREM CostFilesAreCovered == Spec => []CostIsCovered
  <1>1. Inv => CostIsCovered
    <2> SUFFICES ASSUME Inv, status = "ok", CostFiles \cap Listed # {}
                 PROVE  \/ Covered(billing) /\ billing.succeeded > 0
                        \/ billing.allowPartial /\ "lower bound" \in warned
      BY DEF CostIsCovered
    <2>1. billing \in Outcomes /\ warned = Gate(billing) /\ CostReportable
      BY DEF Inv, Reckoned
    <2> QED BY <2>1, GateCases DEF CostReportable, CoverageSufficient
  <1> QED BY <1>1, InvHolds, PTL

\* Run, Report and the PDF's cells, each from its own numbers, give the same
\* reason for figures that are missing and the same caveat for those that are
\* not; where something was billed, so do the PDF's settings and stderr.
THEOREM OneReasonIsGiven == Spec => []ReasonsAgree
  <1>1. Inv => ReasonsAgree
    <2> SUFFICES ASSUME Inv, status # "scan" PROVE ReasonsAgree
      BY DEF ReasonsAgree
    <2>1. billing \in Outcomes /\ warned = Gate(billing) BY DEF Inv, Reckoned
    <2> USE <2>1, GateCases
            DEF ReasonsAgree, CostCell, CoverageNote, Notice, CostReportable, CoverageSufficient
    <2>2. CASE ~billing.asked BY <2>2
    <2>3. CASE billing.asked /\ ~billing.billed BY <2>3
    <2>4. CASE billing.billed /\ Covered(billing) BY <2>4
    <2>5. CASE billing.billed /\ ~Covered(billing) BY <2>5
    <2> QED BY <2>2, <2>3, <2>4, <2>5
  <1> QED BY <1>1, InvHolds, PTL

\* The commands of main.go, one after the other, are such runs, whatever their
\* flags: what holds of every run into a directory holds of theirs.
THEOREM CommandsAreRuns == CommandSpec => Spec
  <1>1. CommandInit => Init BY DEF CommandInit
  <1>2. [CommandNext]_commandVars => [Next]_vars
    <2> SUFFICES ASSUME [CommandNext]_commandVars PROVE [Next]_vars OBVIOUS
    <2>1. CASE \E c \in Commands : Refuse(c) \/ FailEarly(c)
      BY <2>1 DEF Refuse, FailEarly
    <2>2. CASE \E c \in Commands, now \in Todays : Debug(c, now) \/ Run(c, now)
      BY <2>2 DEF Debug, Run, Next
    <2>3. CASE WriteStep BY <2>3 DEF Next
    <2>4. CASE Exit BY <2>4 DEF Exit, Next
    <2>5. CASE Over BY <2>5 DEF Over
    <2>6. CASE UNCHANGED commandVars BY <2>6 DEF commandVars
    <2> QED BY <2>1, <2>2, <2>3, <2>4, <2>5, <2>6 DEF CommandNext
  <1> QED BY <1>1, <1>2, PTL DEF CommandSpec, Spec

-----------------------------------------------------------------------------

\* The leap days before a year.
LeapDays(year) == ((year - 1) \div 4) - ((year - 1) \div 100) + ((year - 1) \div 400)

\* The number of the first day of a month.
FirstDay(month) ==
  365 * (month \div 12) + LeapDays(month \div 12) + DaysBeforeMonth[(month % 12) + 1]
    + (IF (month % 12) + 1 > 2 /\ IsLeap(month \div 12) THEN 1 ELSE 0)

\* A quotient grows by one where the year is a multiple.
LEMMA CarryOne ==
  ASSUME NEW y \in Int, NEW n \in Nat \ {0}
  PROVE  y \div n = ((y - 1) \div n) + (IF y % n = 0 THEN 1 ELSE 0)
  <1> DEFINE q == (y - 1) \div n
             r == (y - 1) % n
  <1>1. q \in Int /\ r \in 0..(n - 1) /\ y - 1 = n * q + r
    OBVIOUS
  <1> HIDE DEF q, r
  <1>2. CASE r = n - 1
    <2>1. y = n * (q + 1) + 0
      BY <1>1, <1>2
    <2>2. y \div n = q + 1 /\ y % n = 0
      BY <1>1, <2>1
    <2> QED BY <2>2, <1>1 DEF q
  <1>3. CASE r # n - 1
    <2>1. y = n * q + (r + 1) /\ r + 1 \in 1..(n - 1)
      BY <1>1, <1>3
    <2>2. y \div n = q /\ y % n = r + 1
      BY <1>1, <2>1
    <2> QED BY <2>1, <2>2, <1>1 DEF q
  <1> QED BY <1>2, <1>3

\* A leap year has one leap day more.
LEMMA YearLength ==
  ASSUME NEW y \in Int
  PROVE  LeapDays(y + 1) = LeapDays(y) + (IF IsLeap(y) THEN 1 ELSE 0)
  <1>1. /\ y \div 4 = ((y - 1) \div 4) + (IF y % 4 = 0 THEN 1 ELSE 0)
        /\ y \div 100 = ((y - 1) \div 100) + (IF y % 100 = 0 THEN 1 ELSE 0)
        /\ y \div 400 = ((y - 1) \div 400) + (IF y % 400 = 0 THEN 1 ELSE 0)
    BY CarryOne
  <1>2. (y % 400 = 0 => y % 100 = 0) /\ (y % 100 = 0 => y % 4 = 0)
    OBVIOUS
  <1>3. (y + 1) - 1 = y
    OBVIOUS
  <1>4. /\ (y - 1) \div 4 \in Int /\ (y - 1) \div 100 \in Int /\ (y - 1) \div 400 \in Int
    OBVIOUS
  <1> QED BY <1>1, <1>2, <1>3, <1>4 DEF LeapDays, IsLeap

\* The next month begins when this one has passed, also across years.
LEMMA NextMonth ==
  ASSUME NEW k \in Int
  PROVE  FirstDay(k + 1) = FirstDay(k) + MonthLength(k) /\ FirstDay(k) \in Int /\ MonthLength(k) \in Nat
  <1> DEFINE y == k \div 12
             j == k % 12
  <1>1. y \in Int /\ j \in 0..11 /\ k = 12 * y + j
    OBVIOUS
  <1>2. LeapDays(y) \in Int
    BY <1>1 DEF LeapDays
  <1>3. /\ DaysBeforeMonth[1] = 0 /\ DaysBeforeMonth[2] = 31 /\ DaysBeforeMonth[3] = 59
        /\ DaysBeforeMonth[4] = 90 /\ DaysBeforeMonth[5] = 120 /\ DaysBeforeMonth[6] = 151
        /\ DaysBeforeMonth[7] = 181 /\ DaysBeforeMonth[8] = 212 /\ DaysBeforeMonth[9] = 243
        /\ DaysBeforeMonth[10] = 273 /\ DaysBeforeMonth[11] = 304 /\ DaysBeforeMonth[12] = 334
    BY DEF DaysBeforeMonth
  <1>4. FirstDay(k) = 365 * y + LeapDays(y) + DaysBeforeMonth[j + 1]
                        + (IF j + 1 > 2 /\ IsLeap(y) THEN 1 ELSE 0)
    BY DEF FirstDay
  <1>5. MonthLength(k) = IF j + 1 \in {4, 6, 9, 11} THEN 30
                         ELSE IF j + 1 = 2 THEN IF IsLeap(y) THEN 29 ELSE 28
                         ELSE 31
    BY <1>1 DEF MonthLength
  <1> HIDE DEF y, j
  <1>6. CASE j < 11
    <2>1. (k + 1) \div 12 = y /\ (k + 1) % 12 = j + 1
      BY <1>1, <1>6
    <2>2. FirstDay(k + 1) = 365 * y + LeapDays(y) + DaysBeforeMonth[j + 2]
                              + (IF j + 2 > 2 /\ IsLeap(y) THEN 1 ELSE 0)
      BY <2>1, <1>1 DEF FirstDay
    <2>3. j \in {0, 1, 2, 3, 4, 5, 6, 7, 8, 9, 10}
      BY <1>1, <1>6
    <2> QED BY <1>1, <1>2, <1>3, <1>4, <1>5, <2>2, <2>3
  <1>7. CASE j = 11
    <2>1. k + 1 = 12 * (y + 1) + 0
      BY <1>1, <1>7
    <2>2. (k + 1) \div 12 = y + 1 /\ (k + 1) % 12 = 0
      BY <1>1, <2>1
    <2>3. FirstDay(k + 1) = 365 * (y + 1) + LeapDays(y + 1)
      BY <2>2, <1>1, <1>3, YearLength, <1>2 DEF FirstDay
    <2> QED BY <1>1, <1>2, <1>3, <1>4, <1>5, <1>7, <2>3, YearLength
  <1> QED BY <1>1, <1>6, <1>7

\* Days are counted from the first of their month.
LEMMA DayIs ==
  ASSUME NEW y \in Int, NEW m \in Int, NEW d \in Int
  PROVE  DayNumber(y, m, d) = FirstDay(Month(y, m)) + d - 1
  BY DEF DayNumber, FirstDay, LeapDays

\* Months are numbers.
LEMMA MonthInt ==
  ASSUME NEW y \in Int, NEW m \in Int
  PROVE  Month(y, m) \in Int
  BY DEF Month

\* Days are numbers.
LEMMA DayInt ==
  ASSUME NEW y \in Int, NEW m \in Int, NEW d \in Int
  PROVE  DayNumber(y, m, d) \in Int
  <1>1. FirstDay(Month(y, m)) \in Int
    BY MonthInt, NextMonth
  <1> QED BY <1>1, DayIs

\* The days of the months before a month.
DaysBack(this, n) == UNION {{<<k, d>> : d \in 1..MonthLength(this - k)} : k \in 1..n}

\* A month has as many days as it is long.
LEMMA DaysOfMonth ==
  ASSUME NEW k, NEW L \in Nat
  PROVE  /\ IsFiniteSet({<<k, d>> : d \in 1..L})
         /\ Cardinality({<<k, d>> : d \in 1..L}) = L
  <1> DEFINE at == [d \in 1..L |-> <<k, d>>]
             S == 1..L
             T == {<<k, d>> : d \in 1..L}
  <1>1. IsFiniteSet(S) /\ Cardinality(S) = L
    BY FS_Interval
  <1>2. T = {at[d] : d \in S}
    OBVIOUS
  <1>3. \A d, e \in S : at[d] = at[e] => d = e
    OBVIOUS
  <1> HIDE DEF at, S, T
  <1>4. IsFiniteSet(T) /\ Cardinality(T) = Cardinality(S)
    BY <1>1, <1>2, <1>3, FiniteImage
  <1> QED BY <1>1, <1>4 DEF T

\* They are as many as the numbers of the first days say.
LEMMA DaysBackAre ==
  ASSUME NEW this \in Int, NEW N \in Nat
  PROVE  /\ IsFiniteSet(DaysBack(this, N))
         /\ Cardinality(DaysBack(this, N)) = FirstDay(this) - FirstDay(this - N)
  <1> DEFINE Good(n) == /\ IsFiniteSet(DaysBack(this, n))
                        /\ Cardinality(DaysBack(this, n)) = FirstDay(this) - FirstDay(this - n)
             B == {n \in 0..N : ~Good(n)}
  <1>1. B = {}
    <2> SUFFICES ASSUME B # {} PROVE FALSE OBVIOUS
    <2>1. PICK n \in B : \A k \in B : n <= k
      <3>1. B \in SUBSET (0..N) OBVIOUS
      <3> HIDE DEF B
      <3> QED BY <3>1, LeastNumber
    <2>2. n \in Nat /\ n <= N
      OBVIOUS
    <2>3. n # 0
      <3> SUFFICES ASSUME n = 0 PROVE FALSE OBVIOUS
      <3>1. DaysBack(this, n) = {}
        BY DEF DaysBack
      <3>2. FirstDay(this) \in Int /\ this - n = this
        BY NextMonth
      <3> QED BY <3>1, <3>2, FS_EmptySet
    <2> DEFINE p == n - 1
               earlier == DaysBack(this, p)
               month == {<<n, d>> : d \in 1..MonthLength(this - n)}
    <2>4. Good(p)
      BY <2>1, <2>2, <2>3
    <2>5. DaysBack(this, n) = earlier \cup month
      <3>1. 1..n = (1..p) \cup {n}
        BY <2>2, <2>3
      <3> QED BY <3>1 DEF DaysBack
    <2>6. earlier \cap month = {}
      <3>1. \A k \in 1..p : k # n
        BY <2>2, <2>3
      <3> QED BY <3>1 DEF DaysBack
    <2>7. this - n \in Int /\ (this - n) + 1 = this - p
      BY <2>2
    <2>8. /\ FirstDay(this - p) = FirstDay(this - n) + MonthLength(this - n)
          /\ FirstDay(this - n) \in Int /\ MonthLength(this - n) \in Nat /\ FirstDay(this) \in Int
      BY <2>7, NextMonth
    <2>9. IsFiniteSet(month) /\ Cardinality(month) = MonthLength(this - n)
      BY <2>8, DaysOfMonth
    <2>10. IsFiniteSet(earlier) /\ Cardinality(earlier) = FirstDay(this) - FirstDay(this - p)
      BY <2>4
    <2>11. ~Good(n)
      BY <2>1
    <2> HIDE DEF earlier, month, p, B
    <2>12. /\ IsFiniteSet(earlier \cup month)
           /\ Cardinality(earlier \cup month)
                = Cardinality(earlier) + Cardinality(month) - Cardinality(earlier \cap month)
      BY <2>9, <2>10, FS_Union
    <2>13. Cardinality(earlier \cap month) = 0
      BY <2>6, FS_EmptySet
    <2> QED BY <2>5, <2>8, <2>9, <2>10, <2>11, <2>12, <2>13
  <1> QED BY <1>1

-----------------------------------------------------------------------------
\* A window that is asked for is as long as its flags say, and ends where they
\* say.
LEMMA QueriesAreExact ==
  ASSUME NEW c \in Commands, NEW now \in Todays,
         WantsBilling(c), ~Misused(c)
  PROVE  IsExact(Query(c, now))
  <1>1. /\ c.days \in Int /\ c.months \in Int /\ c.days >= 0 /\ c.months >= 0
        /\ c.months > 0 \/ c.days > 0
        /\ now.y \in Int /\ now.m \in Int /\ now.d \in Int
    BY CommandAssumption DEF Misused
  <1> DEFINE q == Query(c, now)
             this == Month(now.y, now.m)
  <1>2. /\ q.days = c.days /\ q.months = c.months /\ q.now = now
        /\ q.dates = Window(now, c.days, c.months)
    BY DEF Query
  <1>3. this \in Int /\ FirstDay(this) \in Int
        /\ DayNumber(now.y, now.m, now.d) = FirstDay(this) + now.d - 1
        /\ DayNumber(now.y, now.m, 1) = FirstDay(this) + 1 - 1
    <2>1. this \in Int
      BY <1>1, MonthInt
    <2>2. FirstDay(this) \in Int
      BY <2>1, NextMonth
    <2>3. DayNumber(now.y, now.m, now.d) = FirstDay(this) + now.d - 1
      BY <1>1, DayIs
    <2>4. DayNumber(now.y, now.m, 1) = FirstDay(this) + 1 - 1
      BY <1>1, DayIs
    <2> QED BY <2>1, <2>2, <2>3, <2>4
  <1>4. CASE c.months > 0
    <2>1. /\ q.dates.end = DayNumber(now.y, now.m, 1) - 1
          /\ q.dates.start = DayNumber(now.y, now.m - c.months, 1)
      BY <1>2, <1>4 DEF Window, CompleteMonths
    <2>2. DayNumber(now.y, now.m - c.months, 1) = FirstDay(Month(now.y, now.m - c.months)) + 1 - 1
      BY <1>1, DayIs
    <2>3. Month(now.y, now.m - c.months) = this - c.months /\ this - c.months \in Int
      BY <1>1, <1>3 DEF Month
    <2>4. FirstDay(this - c.months) \in Int
      BY <2>3, NextMonth
    <2>5. Cardinality(DaysBack(this, c.months)) = FirstDay(this) - FirstDay(this - c.months)
      BY <1>1, <1>3, <1>4, DaysBackAre
    <2> HIDE DEF this, q
    <2>6. InclusiveDays(q.dates) = FirstDay(this) - FirstDay(this - c.months)
      BY <1>3, <2>1, <2>2, <2>3, <2>4 DEF InclusiveDays
    <2>7. q.dates.end + q.now.d = DayNumber(q.now.y, q.now.m, q.now.d)
      BY <1>1, <1>2, <1>3, <2>1
    <2>8. DaysBack(Month(q.now.y, q.now.m), q.months) = DaysBack(this, c.months)
      BY <1>2 DEF this
    <2>9. q.months > 0
      BY <1>2, <1>4
    <2>10. IsExact(q)
      BY <2>5, <2>6, <2>7, <2>8, <2>9 DEF IsExact, DaysBack
    <2> QED BY <2>10 DEF q
  <1>5. CASE ~(c.months > 0)
    <2>1. /\ q.dates.end = DayNumber(now.y, now.m, now.d)
          /\ q.dates.start = DayNumber(now.y, now.m, now.d) - (c.days - 1)
      BY <1>2, <1>5 DEF Window, RollingDays
    <2> HIDE DEF this, q
    <2>2. InclusiveDays(q.dates) = c.days
      BY <1>1, <1>3, <2>1 DEF InclusiveDays
    <2>3. ~(q.months > 0) /\ q.dates.end + 0 = DayNumber(q.now.y, q.now.m, q.now.d)
      BY <1>1, <1>2, <1>3, <1>5, <2>1
    <2>4. IsExact(q)
      BY <1>2, <2>2, <2>3 DEF IsExact
    <2> QED BY <2>4 DEF q
  <1> QED BY <1>4, <1>5

\* A query is not the mark of none.
LEMMA QueryIsSome ==
  ASSUME NEW c \in Commands, NEW now \in Todays
  PROVE  Query(c, now) # NoWindow
  <1> DEFINE window == Window(now, c.days, c.months)
  <1>1. /\ c.days \in Int /\ c.months \in Int
        /\ now.y \in Int /\ now.m \in Int /\ now.d \in Int
    BY CommandAssumption
  <1>2. window \in [start : Int, end : Int]
    <2>1. CASE c.months > 0
      <3>1. now.m - c.months \in Int /\ 1 \in Int
        BY <1>1
      <3>2. DayNumber(now.y, now.m - c.months, 1) \in Int
        BY <1>1, <3>1, DayInt
      <3>3. DayNumber(now.y, now.m, 1) \in Int
        BY <1>1, <3>1, DayInt
      <3>4. window = [start |-> DayNumber(now.y, now.m - c.months, 1),
                      end |-> DayNumber(now.y, now.m, 1) - 1]
        BY <2>1 DEF Window, CompleteMonths
      <3> QED BY <3>2, <3>3, <3>4
    <2>2. CASE ~(c.months > 0)
      <3>1. DayNumber(now.y, now.m, now.d) \in Int
        BY <1>1, DayInt
      <3>2. window = [start |-> DayNumber(now.y, now.m, now.d) - (c.days - 1),
                      end |-> DayNumber(now.y, now.m, now.d)]
        BY <2>2 DEF Window, RollingDays
      <3> QED BY <1>1, <3>1, <3>2
    <2> QED BY <2>1, <2>2
  <1>4. Query(c, now) = [days |-> c.days, months |-> c.months, now |-> now, dates |-> window]
    BY DEF Query
  <1> HIDE DEF window
  <1> QED BY <1>1, <1>2, <1>4, CommandAssumption

\* What a run claims was asked for, or could not be.
LEMMA RunClaims ==
  ASSUME NEW c \in Commands, NEW now \in Todays, Run(c, now)
  PROVE  WindowIsQueried'
  <1>1. /\ c.days \in Int /\ c.months \in Int /\ c.days >= 0 /\ c.months >= 0
        /\ BillingClient(c) => WantsBilling(c) /\ (c.months > 0 \/ c.days > 0)
        /\ ~Misused(c) /\ BillingClient(c) \in BOOLEAN
        /\ billing'.asked = BillingClient(c)
    BY CommandAssumption DEF Run, Misused, BillingClient, WantsBilling
  <1>2. CASE ~BillingClient(c)
    <2>1. claim' = Unclaimed /\ query' = NoWindow
      BY <1>2 DEF Run, Unclaimed
    <2>2. ~BillingRequested'
      BY <2>1 DEF Unclaimed, BillingRequested
    <2> QED BY <1>1, <1>2, <2>1, <2>2 DEF WindowIsQueried
  <1>3. CASE BillingClient(c) /\ WindowFails(c.days, c.months)
    <2>1. claim' = [days |-> c.days, months |-> c.months, dates |-> NoWindow, warned |-> TRUE]
      BY <1>3 DEF Run, Claim
    <2>2. query' = NoWindow
      BY <1>3, <2>1 DEF Run
    <2>3. BillingRequested' /\ claim'.warned
      BY <1>1, <1>3, <2>1 DEF BillingRequested
    <2> QED BY <1>1, <1>3, <2>2, <2>3 DEF WindowIsQueried
  <1>4. CASE BillingClient(c) /\ ~WindowFails(c.days, c.months)
    <2> DEFINE window == Window(now, c.days, c.months)
    <2>1. claim' = [days |-> InclusiveDays(window), months |-> c.months,
                    dates |-> window, warned |-> FALSE]
      BY <1>4 DEF Run, Claim
    <2>2. query' = Query(c, now)
      BY <1>4, <2>1 DEF Run
    <2>3. query' # NoWindow
      BY <2>2, QueryIsSome
    <2>4. /\ query'.days = c.days /\ query'.months = c.months /\ query'.now = now
          /\ query'.dates = window
      BY <2>2 DEF Query
    <2>5. IsExact(Query(c, now))
      BY <1>1, <1>4, QueriesAreExact
    <2>6. IsExact(query')
      BY <2>2, <2>5
    <2>7. c.months > 0 \/ InclusiveDays(window) = c.days
      BY <2>4, <2>6 DEF IsExact
    <2>8. BillingRequested'
      BY <1>1, <1>4, <2>1, <2>7 DEF BillingRequested
    <2> QED BY <1>1, <1>4, <2>1, <2>3, <2>4, <2>6, <2>8 DEF WindowIsQueried
  <1> QED BY <1>2, <1>3, <1>4

\* The commands of main.go, for all flags and dates: whoever asks the service
\* asks for exactly the days that the flags name, also across leap years and
\* the turn of a year, and a report claims the window it was made from.
THEOREM WindowsAreQueried == CommandSpec => []WindowIsQueried
  <1>1. CommandInit => WindowIsQueried
    BY DEF CommandInit, Init, WindowIsQueried
  <1>2. Inv /\ WindowIsQueried /\ [CommandNext]_commandVars => WindowIsQueried'
    <2> SUFFICES ASSUME Inv, WindowIsQueried, [CommandNext]_commandVars
                 PROVE  WindowIsQueried'
      OBVIOUS
    <2>1. ASSUME NEW c \in Commands, Refuse(c) \/ FailEarly(c) PROVE WindowIsQueried'
      <3>1. query' = NoWindow /\ status' = "scan"
        BY <2>1 DEF Refuse, FailEarly, Idle, vars
      <3> QED BY <3>1 DEF WindowIsQueried
    <2>2. ASSUME NEW c \in Commands, NEW now \in Todays, Debug(c, now) PROVE WindowIsQueried'
      <3>1. query' = Query(c, now) /\ status' = "scan" /\ ~Misused(c) /\ WantsBilling(c)
        BY <2>2 DEF Debug, Idle, vars, Misused, BillingClient
      <3>2. IsExact(Query(c, now))
        BY <3>1, QueriesAreExact
      <3> QED BY <3>1, <3>2 DEF WindowIsQueried
    <2>3. ASSUME NEW c \in Commands, NEW now \in Todays, Run(c, now) PROVE WindowIsQueried'
      BY <2>3, RunClaims
    <2>4. ASSUME WriteStep, UNCHANGED process PROVE WindowIsQueried'
      <3>1. status # "scan" /\ UNCHANGED <<billing, claim, query>>
        BY <2>4 DEF process, WriteStep, report, Create, LoseBytes, Flush, Close, CloseUnseen, Leave,
                    Withhold, CreateFails, EncodeFails, WriteFails, CloseFails, BreakOff,
                    Inv, Writing
      <3> QED BY <3>1 DEF WindowIsQueried, BillingRequested
    <2>5. ASSUME Exit PROVE WindowIsQueried'
      <3>1. query' = NoWindow /\ status' = "scan"
        BY <2>5 DEF Exit, End
      <3> QED BY <3>1 DEF WindowIsQueried
    <2>6. ASSUME Over, UNCHANGED process PROVE WindowIsQueried'
      BY <2>6 DEF Over, process, vars, report, WindowIsQueried, BillingRequested
    <2>7. ASSUME UNCHANGED commandVars PROVE WindowIsQueried'
      BY <2>7 DEF commandVars, process, vars, report, WindowIsQueried, BillingRequested
    <2> QED BY <2>1, <2>2, <2>3, <2>4, <2>5, <2>6, <2>7 DEF CommandNext
  <1> QED BY <1>1, <1>2, CommandsAreRuns, InvHolds, PTL DEF CommandSpec
=============================================================================
