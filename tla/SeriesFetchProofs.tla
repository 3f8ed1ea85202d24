------------------------- MODULE SeriesFetchProofs -------------------------
(***************************************************************************)
(* Proofs about SeriesFetch, for any finite set of metrics, any number of  *)
(* workers, either source and any caller.                                  *)
(***************************************************************************)
EXTENDS SeriesFetch, FiniteSetTheorems, TLAPS

\* What a source makes of an answer is one of the error types Run handles.
LEMMA SourceErrorType ==
  ASSUME NEW a \in Answers, NEW dead \in BOOLEAN
  PROVE  SourceError(a, dead) \in ErrorTypes
BY SeriesAssumption DEF SourceError, ApiError, CliError, ErrorTypes, Answers

\* Every error type has one of the four categories of the report.
LEMMA CategoryType == ASSUME NEW e PROVE Category(e) \in Categories
BY DEF Category, Categories

\* An answer holds series of the metric that was asked for, and no others.
LEMMA RowsOfMetric ==
  ASSUME NEW m \in Metrics, NEW s \in RowSets(m)
  PROVE  s \subseteq SeriesOf[m]
BY DEF RowSets

\* A metric's series are among the series of the catalog.
LEMMA SeriesOfMetric == ASSUME NEW m \in Metrics PROVE SeriesOf[m] \subseteq Series
BY DEF Series

\* The goroutines past the semaphore are finitely many.
LEMMA HoldersFinite ==
  IsFiniteSet(Holders) /\ Cardinality(Holders) \in Nat
BY SeriesAssumption, FS_Subset, FS_CardinalityType DEF Holders

-----------------------------------------------------------------------------
\* The semaphore.  A goroutine that passes from a place outside Holding to
\* one inside it adds one holder, and the other way round removes one.

\* Taking a token adds one goroutine to those past the semaphore.
LEMMA HolderEnters ==
  ASSUME NEW m \in Metrics, NEW from, NEW to, pc \in [Metrics -> Places],
         Goto(m, from, to), from \notin Holding, to \in Holding
  PROVE  Cardinality(Holders') = Cardinality(Holders) + 1
<1>1. Holders' = Holders \cup {m} /\ m \notin Holders
  BY DEF Holders, Goto
<1>2. QED
  BY <1>1, HoldersFinite, FS_AddElement

\* The deferred release takes one goroutine from them.
LEMMA HolderLeaves ==
  ASSUME NEW m \in Metrics, NEW from, NEW to, pc \in [Metrics -> Places],
         Goto(m, from, to), from \in Holding, to \notin Holding
  PROVE  Cardinality(Holders') = Cardinality(Holders) - 1
<1>1. Holders' = Holders \ {m} /\ m \in Holders
  BY DEF Holders, Goto
<1>2. QED
  BY <1>1, HoldersFinite, FS_RemoveElement

\* A step between two places on the same side of the semaphore adds none.
LEMMA HolderStays ==
  ASSUME NEW m \in Metrics, NEW from, NEW to, pc \in [Metrics -> Places],
         Goto(m, from, to), from \in Holding <=> to \in Holding
  PROVE  Holders' = Holders
BY DEF Holders, Goto

SlotInv == TypeOK /\ SlotsMatchHolders

\* Initially no goroutine holds a token.
LEMMA SlotInit == Init => SlotInv
<1> SUFFICES ASSUME Init PROVE SlotInv
  OBVIOUS
<1>1. TypeOK
  <2>1. /\ pc \in [Metrics -> Places]
        /\ answer \in [Metrics -> Answers \cup {"none"}]
        /\ err \in [Metrics -> ErrorTypes \cup {"none"}]
        /\ result \in [Metrics -> {"nil", "rejected", "cancelled"}]
    BY DEF Init, Places
  <2>2. rows \in [Metrics -> SUBSET Series]
    BY DEF Init
  <2>3. slots \in 0..Workers
    BY WorkersAssumption DEF Init, WorkersAssumption
  <2>4. QED
    BY <2>1, <2>2, <2>3 DEF Init, TypeOK
<1>2. Holders = {}
  BY DEF Init, Holders, Holding
<1>3. QED
  BY <1>1, <1>2, FS_EmptySet DEF SlotInv, SlotsMatchHolders, Init

\* Every step keeps the count of tokens and the types of the state.
LEMMA SlotStep == SlotInv /\ [Next]_vars => SlotInv'
<1> SUFFICES ASSUME SlotInv, [Next]_vars PROVE SlotInv'
  OBVIOUS
<1> USE DEF SlotInv, SlotsMatchHolders, TypeOK
<1>t. pc \in [Metrics -> Places] /\ slots \in 0..Workers /\ Workers \in Nat
      /\ slots = Cardinality(Holders)
  BY WorkersAssumption
<1>1. ASSUME NEW m \in Metrics, Acquire(m) PROVE SlotInv'
  <2>1. Cardinality(Holders') = Cardinality(Holders) + 1
    BY <1>1, <1>t, HolderEnters DEF Acquire, Holding
  <2>2. QED
    BY <1>1, <1>t, <2>1 DEF Acquire, Goto, Places, local, group, shared
<1>2. ASSUME NEW m \in Metrics, GiveUp(m) PROVE SlotInv'
  <2>1. Holders' = Holders
    BY <1>2, <1>t, HolderStays DEF GiveUp, Holding
  <2>2. QED
    BY <1>2, <1>t, <2>1 DEF GiveUp, Goto, Places, group, shared
<1>3. ASSUME NEW m \in Metrics, ReceiveRows(m) PROVE SlotInv'
  <2>1. Holders' = Holders
    BY <1>3, <1>t, HolderStays DEF ReceiveRows, Holding
  <2>2. rows' \in [Metrics -> SUBSET Series]
    BY <1>3, RowsOfMetric, SeriesOfMetric DEF ReceiveRows
  <2>3. QED
    BY <1>3, <1>t, <2>1, <2>2 DEF ReceiveRows, Goto, Places, Answers, group, shared
<1>4. ASSUME NEW m \in Metrics, ReceiveError(m) PROVE SlotInv'
  <2>1. Holders' = Holders
    BY <1>4, <1>t, HolderStays DEF ReceiveError, Holding
  <2>2. err' \in [Metrics -> ErrorTypes \cup {"none"}]
    BY <1>4, SourceErrorType DEF ReceiveError
  <2>3. QED
    BY <1>4, <1>t, <2>1, <2>2 DEF ReceiveError, Goto, Places, group, shared
<1>5. ASSUME NEW m \in Metrics, StopForCaller(m) PROVE SlotInv'
  <2>1. Holders' = Holders
    BY <1>5, <1>t, HolderStays DEF StopForCaller, Holding
  <2>2. QED
    BY <1>5, <1>t, <2>1 DEF StopForCaller, Goto, Places, group, shared
<1>6. ASSUME NEW m \in Metrics, Reject(m) PROVE SlotInv'
  <2>1. Holders' = Holders
    BY <1>6, <1>t, HolderStays DEF Reject, Holding
  <2>2. QED
    BY <1>6, <1>t, <2>1 DEF Reject, Skippable, Goto, Places, group, shared
<1>7. ASSUME NEW m \in Metrics, Skip(m) PROVE SlotInv'
  <2>1. Holders' = Holders
    BY <1>7, <1>t, HolderStays DEF Skip, Holding
  <2>2. QED
    BY <1>7, <1>t, <2>1 DEF Skip, Goto, Places, local, group, shared
<1>8. ASSUME NEW m \in Metrics, Note(m) PROVE SlotInv'
  <2>1. Holders' = Holders
    BY <1>8, <1>t, HolderStays DEF Note, Holding
  <2>2. failures' \subseteq Failure
    BY <1>8, CategoryType DEF Note, Failure
  <2>3. QED
    BY <1>8, <1>t, <2>1, <2>2 DEF Note, Goto, Places, local, group
<1>9. ASSUME NEW m \in Metrics, Absorb(m) PROVE SlotInv'
  <2>1. Holders' = Holders
    BY <1>9, <1>t, HolderStays DEF Absorb, Holding
  <2>2. QED
    BY <1>9, <1>t, <2>1 DEF Absorb, Goto, Places, local, group
<1>10. ASSUME NEW m \in Metrics, Release(m) PROVE SlotInv'
  <2>1. Cardinality(Holders') = Cardinality(Holders) - 1
    BY <1>10, <1>t, HolderLeaves DEF Release, Holding
  <2>2. Cardinality(Holders') \in Nat
    BY SeriesAssumption, FS_Subset, FS_CardinalityType DEF Holders
  <2>3. QED
    BY <1>10, <1>t, <2>1, <2>2 DEF Release, Goto, Places, local, group, shared
<1>11. ASSUME NEW m \in Metrics, Exit(m) PROVE SlotInv'
  <2>1. Holders' = Holders
    BY <1>11, <1>t, HolderStays DEF Exit, Holding
  <2>2. QED
    BY <1>11, <1>t, <2>1 DEF Exit, Goto, Places, local, shared
<1>12. CASE CallerCancels
  BY <1>12, <1>t DEF CallerCancels, Holders, local, shared
<1>13. CASE Decide
  BY <1>13, <1>t DEF Decide, Holders, local, group, shared
<1>14. CASE UNCHANGED vars
  BY <1>14, <1>t DEF vars, Holders, local, group, shared
<1>15. QED
  BY <1>1, <1>2, <1>3, <1>4, <1>5, <1>6, <1>7, <1>8, <1>9, <1>10, <1>11,
     <1>12, <1>13, <1>14 DEF Next, Worker, Over

\* Every variable keeps its type; in particular no token is given back that
\* was not taken, and the channel never holds more than its capacity.
THEOREM TypeCorrect == Spec => []TypeOK
<1>1. SlotInv => TypeOK
  BY DEF SlotInv
<1>2. QED
  BY <1>1, SlotInit, SlotStep, PTL DEF Spec

\* The semaphore counts exactly the goroutines past it, on every path.
THEOREM SlotsAccounted == Spec => []SlotsMatchHolders
<1>1. SlotInv => SlotsMatchHolders
  BY DEF SlotInv
<1>2. QED
  BY <1>1, SlotInit, SlotStep, PTL DEF Spec
-----------------------------------------------------------------------------
\* What stopped the group.  A done context means the caller cancelled or the
\* group has its error already: the errgroup keeps the error first.

StopInv ==
  /\ cancelled => callerDone \/ groupErr # "nil"
  /\ \A m \in Metrics : result[m] = "cancelled" => callerDone \/ groupErr # "nil"
  /\ \A m \in Metrics : answer[m] = "cancelled" => callerDone \/ groupErr # "nil"
  /\ groupErr = "cancelled" => callerDone

\* Every step keeps what is known of cancellations and returned errors.
LEMMA StopStep == TypeOK /\ StopInv /\ [Next]_vars => StopInv'
<1> SUFFICES ASSUME TypeOK, StopInv, [Next]_vars PROVE StopInv'
  OBVIOUS
<1> USE DEF TypeOK, StopInv
<1>1. ASSUME NEW m \in Metrics, Acquire(m) PROVE StopInv'
  BY <1>1 DEF Acquire, local, group
<1>2. ASSUME NEW m \in Metrics, GiveUp(m) PROVE StopInv'
  BY <1>2 DEF GiveUp, group
<1>3. ASSUME NEW m \in Metrics, ReceiveRows(m) PROVE StopInv'
  BY <1>3 DEF ReceiveRows, group
<1>4. ASSUME NEW m \in Metrics, ReceiveError(m) PROVE StopInv'
  BY <1>4 DEF ReceiveError, group
<1>5. ASSUME NEW m \in Metrics, StopForCaller(m) PROVE StopInv'
  BY <1>5 DEF StopForCaller, group
<1>6. ASSUME NEW m \in Metrics, Reject(m) PROVE StopInv'
  BY <1>6 DEF Reject, Skippable, group
<1>7. ASSUME NEW m \in Metrics, Skip(m) PROVE StopInv'
  BY <1>7 DEF Skip, local, group
<1>8. ASSUME NEW m \in Metrics, Note(m) PROVE StopInv'
  BY <1>8 DEF Note, local, group
<1>9. ASSUME NEW m \in Metrics, Absorb(m) PROVE StopInv'
  BY <1>9 DEF Absorb, local, group
<1>10. ASSUME NEW m \in Metrics, Release(m) PROVE StopInv'
  BY <1>10 DEF Release, local, group
<1>11. ASSUME NEW m \in Metrics, Exit(m) PROVE StopInv'
  BY <1>11 DEF Exit, local
<1>12. CASE CallerCancels
  BY <1>12 DEF CallerCancels, local
<1>13. CASE Decide
  BY <1>13 DEF Decide, local, group
<1>14. CASE UNCHANGED vars
  BY <1>14 DEF vars, local, group
<1>15. QED
  BY <1>1, <1>2, <1>3, <1>4, <1>5, <1>6, <1>7, <1>8, <1>9, <1>10, <1>11,
     <1>12, <1>13, <1>14 DEF Next, Worker, Over

\* An abort is explained by its cause: the error Run returns is the derived
\* cancellation only when the caller itself cancelled.
THEOREM RootCause == Spec => []RootCauseKept
<1>1. Init => StopInv
  BY DEF Init, StopInv
<1>2. StopInv => RootCauseKept
  BY DEF StopInv, RootCauseKept
<1>3. QED
  BY <1>1, <1>2, StopStep, TypeCorrect, PTL DEF Spec

-----------------------------------------------------------------------------
\* How each metric is settled, and what a report knows of it.

Merging == {"waiting", "fetching", "failed", "note", "absorb"}

Merged(m) == m \notin FailedMetrics /\ answer[m] = "rows" /\ rows[m] \subseteq catalog

Noted(m) == m \in FailedMetrics /\ answer[m] # "rows"

PlaceInv ==
  \A m \in Metrics :
    /\ pc[m] \in Merging => result[m] = "nil" /\ m \notin FailedMetrics
    /\ pc[m] \in {"failed", "note"} => answer[m] # "rows"
    /\ pc[m] = "absorb" => answer[m] = "rows"
    /\ pc[m] \notin Merging /\ result[m] = "nil" => Merged(m) \/ Noted(m)
    /\ pc[m] = "done" /\ result[m] # "nil" => groupErr # "nil"

\* The catalog holds series of answered metrics only.
CatalogInv ==
  \A m \in Metrics :
    /\ rows[m] \subseteq SeriesOf[m]
    /\ SeriesOf[m] \cap catalog # {} => answer[m] = "rows" /\ pc[m] \notin {"waiting", "fetching"}

\* A failure that was only a cancellation is noted by a group that will fail.
OwnInv ==
  \A m \in Metrics :
    answer[m] = "cancelled" /\ (pc[m] = "note" \/ m \in FailedMetrics) => groupErr # "nil"

VerdictInv ==
  /\ verdict # "pending" => \A m \in Metrics : pc[m] = "done"
  /\ verdict = "report" => groupErr = "nil" /\ ~TooManyFailures

\* Over the API a rejected request is not skipped.
RejectInv ==
  \A m \in Metrics :
    /\ ~CliMode /\ answer[m] = "rejected" => err[m] = "rejected"
    /\ err[m] = "rejected" => pc[m] = "failed" \/ result[m] # "nil"
    /\ pc[m] \in {"waiting", "fetching"} => err[m] = "none"

SettleInv == PlaceInv /\ CatalogInv /\ OwnInv /\ VerdictInv /\ RejectInv

\* Noting a failure adds its metric to the failed ones and changes no other.
LEMMA FailedGrows ==
  ASSUME NEW m \in Metrics, Note(m)
  PROVE  FailedMetrics' = FailedMetrics \cup {m}
<1> DEFINE f == [metric |-> m, category |-> Category(err[m])]
<1>1. failures' = failures \cup {f} /\ f.metric = m
  BY DEF Note
<1> HIDE DEF f
<1>2. QED
  BY <1>1 DEF FailedMetrics

\* Initially nothing is settled.
LEMMA SettleInit == Init => SettleInv
<1> SUFFICES ASSUME Init PROVE SettleInv
  OBVIOUS
<1>1. FailedMetrics = {}
  BY DEF Init, FailedMetrics
<1>2. QED
  BY <1>1 DEF Init, SettleInv, PlaceInv, CatalogInv, OwnInv, VerdictInv,
              RejectInv, Merging

\* Every step keeps each goroutine's data in line with where it is.
LEMMA PlaceStep ==
  ASSUME TypeOK, PlaceInv, [Next]_vars
  PROVE  PlaceInv'
<1> USE DEF TypeOK, PlaceInv, Merging, Merged, Noted, Goto
<1>f. shared' = shared => FailedMetrics' = FailedMetrics
  BY DEF shared, FailedMetrics
<1>1. ASSUME NEW m \in Metrics, Acquire(m) PROVE PlaceInv'
  BY <1>1, <1>f DEF Acquire, local, group, shared
<1>2. ASSUME NEW m \in Metrics, GiveUp(m) PROVE PlaceInv'
  BY <1>2, <1>f DEF GiveUp, group, shared
<1>3. ASSUME NEW m \in Metrics, ReceiveRows(m) PROVE PlaceInv'
  BY <1>3, <1>f DEF ReceiveRows, group, shared
<1>4. ASSUME NEW m \in Metrics, ReceiveError(m) PROVE PlaceInv'
  BY <1>4, <1>f DEF ReceiveError, group, shared
<1>5. ASSUME NEW m \in Metrics, StopForCaller(m) PROVE PlaceInv'
  BY <1>5, <1>f DEF StopForCaller, group, shared
<1>6. ASSUME NEW m \in Metrics, Reject(m) PROVE PlaceInv'
  BY <1>6, <1>f DEF Reject, Skippable, group, shared
<1>7. ASSUME NEW m \in Metrics, Skip(m) PROVE PlaceInv'
  BY <1>7, <1>f DEF Skip, local, group, shared
<1>8. ASSUME NEW m \in Metrics, Note(m) PROVE PlaceInv'
  <2>1. FailedMetrics' = FailedMetrics \cup {m}
    BY <1>8, FailedGrows
  <2>2. answer[m] # "rows"
    BY <1>8 DEF Note
  <2>3. QED
    BY <1>8, <2>1, <2>2 DEF Note, local, group
<1>9. ASSUME NEW m \in Metrics, Absorb(m) PROVE PlaceInv'
  <2>1. FailedMetrics' = FailedMetrics
    BY <1>9 DEF Absorb, FailedMetrics
  <2>2. QED
    BY <1>9, <2>1 DEF Absorb, local, group
<1>10. ASSUME NEW m \in Metrics, Release(m) PROVE PlaceInv'
  BY <1>10, <1>f DEF Release, local, group, shared
<1>11. ASSUME NEW m \in Metrics, Exit(m) PROVE PlaceInv'
  BY <1>11, <1>f DEF Exit, local, shared
<1>12. CASE CallerCancels
  BY <1>12, <1>f DEF CallerCancels, local, shared
<1>13. CASE Decide
  BY <1>13, <1>f DEF Decide, local, group, shared
<1>14. CASE UNCHANGED vars
  BY <1>14, <1>f DEF vars, local, group, shared
<1>15. QED
  BY <1>1, <1>2, <1>3, <1>4, <1>5, <1>6, <1>7, <1>8, <1>9, <1>10, <1>11,
     <1>12, <1>13, <1>14 DEF Next, Worker, Over

\* Every step keeps each metric absorbed in full, noted as failed, or untouched.
LEMMA CatalogStep ==
  ASSUME TypeOK, PlaceInv, CatalogInv, [Next]_vars
  PROVE  CatalogInv'
<1> USE DEF TypeOK, CatalogInv, Goto
<1>1. ASSUME NEW m \in Metrics, Acquire(m) PROVE CatalogInv'
  BY <1>1 DEF Acquire, local, shared
<1>2. ASSUME NEW m \in Metrics, GiveUp(m) PROVE CatalogInv'
  BY <1>2 DEF GiveUp, shared
<1>3. ASSUME NEW m \in Metrics, ReceiveRows(m) PROVE CatalogInv'
  BY <1>3, RowsOfMetric DEF ReceiveRows, shared
<1>4. ASSUME NEW m \in Metrics, ReceiveError(m) PROVE CatalogInv'
  BY <1>4 DEF ReceiveError, shared
<1>5. ASSUME NEW m \in Metrics,
             StopForCaller(m) \/ Reject(m) \/ Skip(m) \/ Note(m) \/ Release(m) \/ Exit(m)
      PROVE  CatalogInv'
  BY <1>5 DEF StopForCaller, Reject, Skip, Note, Release, Exit, local, shared
<1>6. ASSUME NEW m \in Metrics, Absorb(m) PROVE CatalogInv'
  <2>1. \A n \in Metrics : n # m => SeriesOf[n] \cap rows[m] = {}
    BY SeriesAssumption DEF SeriesAssumption
  <2>2. answer[m] = "rows"
    BY <1>6 DEF Absorb, PlaceInv
  <2>3. QED
    BY <1>6, <2>1, <2>2 DEF Absorb, local
<1>7. CASE CallerCancels \/ Decide \/ UNCHANGED vars
  BY <1>7 DEF CallerCancels, Decide, vars, local, shared
<1>8. QED
  BY <1>1, <1>2, <1>3, <1>4, <1>5, <1>6, <1>7 DEF Next, Worker, Over

\* A metric noted as failed because of a cancellation means the group is cancelled.
LEMMA OwnStep ==
  ASSUME TypeOK, PlaceInv, StopInv, OwnInv, [Next]_vars
  PROVE  OwnInv'
<1> USE DEF TypeOK, OwnInv, Goto
<1>f. shared' = shared => FailedMetrics' = FailedMetrics
  BY DEF shared, FailedMetrics
<1>1. ASSUME NEW m \in Metrics,
             Acquire(m) \/ GiveUp(m) \/ StopForCaller(m) \/ Reject(m) \/ Release(m)
      PROVE  OwnInv'
  BY <1>1, <1>f DEF Acquire, GiveUp, StopForCaller, Reject, Release, local, group
<1>2. ASSUME NEW m \in Metrics, ReceiveRows(m) \/ ReceiveError(m)
      PROVE  OwnInv'
  <2>1. m \notin FailedMetrics
    BY <1>2 DEF ReceiveRows, ReceiveError, PlaceInv, Merging
  <2>2. QED
    BY <1>2, <1>f, <2>1 DEF ReceiveRows, ReceiveError, group
<1>3. ASSUME NEW m \in Metrics, Skip(m) PROVE OwnInv'
  BY <1>3, <1>f DEF Skip, StopInv, local, group
<1>4. ASSUME NEW m \in Metrics, Note(m) PROVE OwnInv'
  BY <1>4, FailedGrows DEF Note, local, group
<1>5. ASSUME NEW m \in Metrics, Absorb(m) PROVE OwnInv'
  <2>1. FailedMetrics' = FailedMetrics
    BY <1>5 DEF Absorb, FailedMetrics
  <2>2. QED
    BY <1>5, <2>1 DEF Absorb, local, group
<1>6. ASSUME NEW m \in Metrics, Exit(m) PROVE OwnInv'
  BY <1>6, <1>f DEF Exit, local
<1>7. CASE CallerCancels \/ Decide \/ UNCHANGED vars
  BY <1>7, <1>f DEF CallerCancels, Decide, vars, local, group
<1>8. QED
  BY <1>1, <1>2, <1>3, <1>4, <1>5, <1>6, <1>7 DEF Next, Worker, Over

\* Every step keeps a report from being made before the group is done.
LEMMA VerdictStep ==
  ASSUME TypeOK, VerdictInv, [Next]_vars
  PROVE  VerdictInv'
<1> USE DEF TypeOK, VerdictInv, Goto
<1>1. ASSUME NEW m \in Metrics, Worker(m) PROVE VerdictInv'
  <2>1. pc[m] # "done" /\ verdict' = verdict
    BY <1>1 DEF Worker, Acquire, GiveUp, ReceiveRows, ReceiveError,
       StopForCaller, Reject, Skip, Note, Absorb, Release, Exit
  <2>2. QED
    BY <2>1
<1>2. CASE CallerCancels
  BY <1>2 DEF CallerCancels
<1>3. CASE Decide
  BY <1>3 DEF Decide, TooManyFailures, group, shared
<1>4. CASE UNCHANGED vars
  BY <1>4 DEF vars, TooManyFailures, group, shared
<1>5. QED
  BY <1>1, <1>2, <1>3, <1>4 DEF Next, Over

\* Over the API a rejected request stays on its way to the group.
LEMMA RejectStep ==
  ASSUME TypeOK, RejectInv, [Next]_vars
  PROVE  RejectInv'
<1> USE DEF TypeOK, RejectInv, Goto
<1>1. ASSUME NEW m \in Metrics,
             Acquire(m) \/ GiveUp(m) \/ Note(m) \/ Absorb(m) \/ Release(m) \/ Exit(m)
      PROVE  RejectInv'
  BY <1>1 DEF Acquire, GiveUp, Note, Absorb, Release, Exit, local
<1>2. ASSUME NEW m \in Metrics, ReceiveRows(m) PROVE RejectInv'
  BY <1>2 DEF ReceiveRows
<1>3. ASSUME NEW m \in Metrics, ReceiveError(m) PROVE RejectInv'
  BY <1>3 DEF ReceiveError, SourceError, ApiError
<1>4. ASSUME NEW m \in Metrics, StopForCaller(m) \/ Reject(m) \/ Skip(m)
      PROVE  RejectInv'
  BY <1>4 DEF StopForCaller, Reject, Skip, Skippable, local
<1>5. CASE CallerCancels \/ Decide \/ UNCHANGED vars
  BY <1>5 DEF CallerCancels, Decide, vars, local
<1>6. QED
  BY <1>1, <1>2, <1>3, <1>4, <1>5 DEF Next, Worker, Over

-----------------------------------------------------------------------------
\* The parts together, and what a report owes to them.

PhaseInv == SlotInv /\ StopInv /\ SettleInv

\* The inductive invariant of the series phase is kept by every step.
LEMMA PhaseStep == PhaseInv /\ [Next]_vars => PhaseInv'
<1> SUFFICES ASSUME PhaseInv, [Next]_vars PROVE PhaseInv'
  OBVIOUS
<1>1. TypeOK /\ SlotInv /\ StopInv /\ PlaceInv /\ CatalogInv /\ OwnInv /\ VerdictInv /\ RejectInv
  BY DEF PhaseInv, SettleInv, SlotInv
<1>2. SlotInv' /\ StopInv'
  BY <1>1, SlotStep, StopStep
<1>3. PlaceInv' /\ CatalogInv' /\ OwnInv' /\ VerdictInv' /\ RejectInv'
  BY <1>1, PlaceStep, CatalogStep, OwnStep, VerdictStep, RejectStep
<1>4. QED
  BY <1>2, <1>3 DEF PhaseInv, SettleInv

\* ... and so holds always.
LEMMA PhaseAlways == Spec => []PhaseInv
<1>1. Init => StopInv
  BY DEF Init, StopInv
<1>2. Init => PhaseInv
  BY <1>1, SlotInit, SettleInit DEF PhaseInv
<1>3. QED
  BY <1>2, PhaseStep, PTL DEF Spec

\* In a report every goroutine is done and returned nil.
LEMMA AtReport ==
  ASSUME PhaseInv, verdict = "report", NEW m \in Metrics
  PROVE  groupErr = "nil" /\ pc[m] = "done" /\ result[m] = "nil" /\ (Merged(m) \/ Noted(m))
<1>1. groupErr = "nil" /\ pc[m] = "done"
  BY DEF PhaseInv, SettleInv, VerdictInv
<1>2. result[m] = "nil"
  BY <1>1 DEF PhaseInv, SettleInv, PlaceInv
<1>3. QED
  BY <1>1, <1>2 DEF PhaseInv, SettleInv, PlaceInv, Merging

\* In a report every metric is either merged whole or listed as failed with
\* nothing in the catalog: the used and unused lists know of no third kind.
THEOREM MetricsSettledOnce == Spec => []SettledOnce
<1>1. PhaseInv => SettledOnce
  <2> SUFFICES ASSUME PhaseInv, verdict = "report", NEW m \in Metrics
               PROVE  \/ m \notin FailedMetrics /\ answer[m] = "rows" /\ rows[m] \subseteq catalog
                      \/ m \in FailedMetrics /\ answer[m] # "rows" /\ SeriesOf[m] \cap catalog = {}
    BY DEF SettledOnce
  <2>1. CASE Merged(m)
    BY <2>1 DEF Merged
  <2>2. CASE Noted(m)
    BY <2>2 DEF Noted, PhaseInv, SettleInv, CatalogInv
  <2>3. QED
    BY <2>1, <2>2, AtReport
<1>2. QED
  BY <1>1, PhaseAlways, PTL

\* No metric of a report is blamed for a cancellation.
THEOREM FailuresAreOwn == Spec => []FailureIsOwn
<1>1. PhaseInv => FailureIsOwn
  <2> SUFFICES ASSUME PhaseInv, verdict = "report", NEW m \in FailedMetrics
               PROVE  answer[m] # "cancelled"
    BY DEF FailureIsOwn
  <2>1. m \in Metrics
    BY DEF PhaseInv, SlotInv, TypeOK, FailedMetrics, Failure
  <2>2. groupErr = "nil"
    BY <2>1, AtReport
  <2>3. QED
    BY <2>1, <2>2 DEF PhaseInv, SettleInv, OwnInv
<1>2. QED
  BY <1>1, PhaseAlways, PTL

\* Over the API a rejected request never ends in a report.
THEOREM ApiRejectionFailsRun ==
  ASSUME ~CliMode
  PROVE  Spec => []RejectionFailsRun
<1>1. PhaseInv => RejectionFailsRun
  <2> SUFFICES ASSUME PhaseInv, verdict = "report", NEW m \in Metrics,
                      answer[m] = "rejected"
               PROVE  FALSE
    BY DEF RejectionFailsRun
  <2>1. pc[m] = "done" /\ result[m] = "nil"
    BY AtReport
  <2>2. QED
    BY <2>1 DEF PhaseInv, SettleInv, RejectInv
<1>2. QED
  BY <1>1, PhaseAlways, PTL

\* From the verdict on the phase's results stand still.
THEOREM QuietAfter == Spec => QuietAfterWait
<1>1. PhaseInv /\ [Next]_vars => [verdict # "pending" => UNCHANGED shared]_vars
  <2> SUFFICES ASSUME PhaseInv, [Next]_vars, verdict # "pending"
               PROVE  UNCHANGED shared
    OBVIOUS
  <2>1. \A m \in Metrics : pc[m] = "done"
    BY DEF PhaseInv, SettleInv, VerdictInv
  <2>2. ASSUME NEW m \in Metrics, Worker(m) PROVE UNCHANGED shared
    BY <2>1, <2>2 DEF Worker, Acquire, GiveUp, ReceiveRows, ReceiveError,
       StopForCaller, Reject, Skip, Note, Absorb, Release, Exit, Goto
  <2>3. QED
    BY <2>2 DEF Next, CallerCancels, Decide, Over, vars
<1>2. QED
  BY <1>1, PhaseAlways, PTL DEF Spec, QuietAfterWait

-----------------------------------------------------------------------------
\* Refinement: merging and noting settle a metric, every other step of a
\* goroutine leaves the abstract phase alone.

\* A step that settles no metric leaves the refined set as it is.
LEMMA SettledStays ==
  ASSUME TypeOK, PlaceInv, NEW m \in Metrics, Worker(m), ~Note(m), ~Absorb(m)
  PROVE  Settled' = Settled
<1> USE DEF TypeOK, Settled, Goto
<1>1. CASE Acquire(m) \/ GiveUp(m)
  BY <1>1 DEF Acquire, GiveUp, local
<1>2. CASE ReceiveRows(m) \/ ReceiveError(m)
  BY <1>2 DEF ReceiveRows, ReceiveError
<1>3. CASE StopForCaller(m)
  BY <1>3 DEF StopForCaller
<1>4. CASE Reject(m)
  BY <1>4 DEF Reject, Skippable
<1>5. CASE Skip(m) \/ Release(m) \/ Exit(m)
  BY <1>5 DEF Skip, Release, Exit, local
<1>6. QED
  BY <1>1, <1>2, <1>3, <1>4, <1>5 DEF Worker

\* A merge or a note adds its metric to the refined set.
LEMMA SettledGrows ==
  ASSUME TypeOK, PlaceInv, NEW m \in Metrics, Note(m) \/ Absorb(m)
  PROVE  m \notin Settled /\ Settled' = Settled \cup {m}
BY DEF TypeOK, PlaceInv, Merging, Settled, Goto, Note, Absorb, local

\* The instance has its own copy of Cardinality, with the same definition.
LEMMA SameCardinality == \A S : Catalog!Cardinality(S) = Cardinality(S)
BY DEF Catalog!Cardinality, Cardinality

\* rows[m] is what the server could answer for m.
RowsInv == \A m \in Metrics : answer[m] = "rows" => rows[m] \in RowSets(m)

\* The rows a goroutine holds are ones the source may answer.
LEMMA RowsStep == TypeOK /\ RowsInv /\ [Next]_vars => RowsInv'
<1> SUFFICES ASSUME TypeOK, RowsInv, [Next]_vars PROVE RowsInv'
  OBVIOUS
<1> USE DEF TypeOK, RowsInv
<1>1. ASSUME NEW m \in Metrics, ReceiveRows(m) PROVE RowsInv'
  BY <1>1 DEF ReceiveRows
<1>2. ASSUME NEW m \in Metrics, ReceiveError(m) PROVE RowsInv'
  BY <1>2 DEF ReceiveError
<1>3. ASSUME NEW m \in Metrics, Worker(m), ~ReceiveRows(m), ~ReceiveError(m)
      PROVE  RowsInv'
  BY <1>3 DEF Worker, Acquire, GiveUp, StopForCaller, Reject, Skip, Note,
              Absorb, Release, Exit, local
<1>4. CASE CallerCancels \/ Decide \/ UNCHANGED vars
  BY <1>4 DEF CallerCancels, Decide, vars, local
<1>5. QED
  BY <1>1, <1>2, <1>3, <1>4 DEF Next, Over

\* The initial state is one of the abstract phase.
LEMMA RefinesInit == Init => Catalog!Init
BY DEF Init, Catalog!Init, Settled

\* Every step is a step of the abstract phase or changes nothing of it.
LEMMA RefinesStep ==
  ASSUME PhaseInv, RowsInv, [Next]_vars
  PROVE  [Catalog!Next]_(Catalog!vars)
<1> DEFINE avars == <<catalog, failures, truncatedCount, Settled, verdict>>
<1>i. TypeOK /\ PlaceInv /\ VerdictInv
  BY DEF PhaseInv, SlotInv, SettleInv
<1>v. \A m \in Metrics : Worker(m) => verdict = "pending"
  BY <1>i DEF VerdictInv, TypeOK, Goto, Worker, Acquire, GiveUp, ReceiveRows,
     ReceiveError, StopForCaller, Reject, Skip, Note, Absorb, Release, Exit
<1>1. ASSUME NEW m \in Metrics, Absorb(m) PROVE Catalog!Next
  <2>1. m \notin Settled /\ Settled' = Settled \cup {m}
    BY <1>1, <1>i, SettledGrows
  <2>2. verdict = "pending"
    BY <1>1, <1>v DEF Worker
  <2>3. rows[m] \in Catalog!RowSets(m)
    BY <1>1, <1>i, SameCardinality DEF Absorb, Goto, PlaceInv, RowsInv, RowSets, Catalog!RowSets
  <2>4. truncatedCount' = truncatedCount + (IF Catalog!Full(rows[m]) THEN 1 ELSE 0)
    BY <1>1, SameCardinality DEF Absorb, Full, Catalog!Full
  <2>5. Catalog!Absorb(m)
    BY <1>1, <2>1, <2>2, <2>3, <2>4 DEF Absorb, Catalog!Absorb
  <2>6. QED
    BY <2>5 DEF Catalog!Next
<1>2. ASSUME NEW m \in Metrics, Note(m) PROVE Catalog!Next
  <2>1. m \notin Settled /\ Settled' = Settled \cup {m}
    BY <1>2, <1>i, SettledGrows
  <2>2. verdict = "pending"
    BY <1>2, <1>v DEF Worker
  <2>3. Category(err[m]) \in Catalog!Categories
    BY CategoryType DEF Categories, Catalog!Categories
  <2>4. Catalog!Fail(m)
    BY <1>2, <2>1, <2>2, <2>3 DEF Note, Catalog!Fail
  <2>5. QED
    BY <2>4 DEF Catalog!Next
<1>3. ASSUME NEW m \in Metrics, Worker(m), ~Note(m), ~Absorb(m)
      PROVE  UNCHANGED avars
  <2>1. Settled' = Settled
    BY <1>3, <1>i, SettledStays
  <2>2. UNCHANGED <<catalog, failures, truncatedCount, verdict>>
    BY <1>3 DEF Worker, Acquire, GiveUp, ReceiveRows, ReceiveError,
       StopForCaller, Reject, Skip, Release, Exit, shared
  <2>3. QED
    BY <2>1, <2>2
<1>4. ASSUME CallerCancels PROVE UNCHANGED avars
  BY <1>4 DEF CallerCancels, Settled, local, shared
<1>5. ASSUME Decide PROVE Catalog!Next
  <2>1. Settled' = Settled /\ UNCHANGED <<catalog, failures, truncatedCount>>
    BY <1>5 DEF Decide, Settled, local, shared
  <2>2. CASE groupErr # "nil" \/ TooManyFailures
    BY <1>5, <2>1, <2>2 DEF Decide, Catalog!Next, Catalog!Abort
  <2>3. CASE groupErr = "nil" /\ ~TooManyFailures
    <3>1. Settled = Metrics
      BY <1>5, <1>i, <2>3 DEF Decide, PlaceInv, Settled
    <3>2. ~Catalog!TooManyFailures
      BY <2>3, SameCardinality DEF TooManyFailures, Catalog!TooManyFailures
    <3>3. Catalog!Report
      BY <1>5, <2>1, <2>3, <3>1, <3>2 DEF Decide, Catalog!Report
    <3>4. QED
      BY <3>3 DEF Catalog!Next
  <2>4. QED
    BY <2>2, <2>3
<1>6. ASSUME UNCHANGED vars PROVE UNCHANGED avars
  BY <1>6 DEF vars, Settled, local, shared
<1>7. QED
  BY <1>1, <1>2, <1>3, <1>4, <1>5, <1>6 DEF Next, Over, Catalog!vars

\* The goroutines, for any schedule, do no more than the abstract phase.
THEOREM FetchImplementsCatalog == Spec => ImplementsCatalog
<1>1. Init => RowsInv
  BY DEF Init, RowsInv
<1>2. PhaseInv => TypeOK
  BY DEF PhaseInv, SlotInv
<1>3. QED
  BY <1>1, <1>2, RowsStep, RefinesInit, RefinesStep, PhaseAlways, PTL
     DEF Spec, ImplementsCatalog, Catalog!Spec
-----------------------------------------------------------------------------
\* What the report counts: the list of failures names each metric once, and
\* the truncation counter is the number of merged answers that fill the limit.

PastMutex == {"leaving", "exiting", "done"}

MergedFull == {m \in Metrics : pc[m] \in PastMutex /\ answer[m] = "rows" /\ Full(rows[m])}

CountInv ==
  /\ IsFiniteSet(failures)
  /\ IsFiniteSet(FailedMetrics)
  /\ Cardinality(failures) = Cardinality(FailedMetrics)
  /\ truncatedCount = Cardinality(MergedFull)
  /\ \A m \in Metrics : pc[m] \in {"waiting", "fetching"} => answer[m] = "none"

\* Initially both counters are at zero.
LEMMA CountInit == Init => CountInv
<1> SUFFICES ASSUME Init PROVE CountInv
  OBVIOUS
<1>1. failures = {} /\ FailedMetrics = {}
  BY DEF Init, FailedMetrics
<1>2. MergedFull = {}
  BY DEF Init, MergedFull
<1>3. QED
  BY <1>1, <1>2, FS_EmptySet DEF Init, CountInv

\* The merged answers that fill the limit are finitely many.
LEMMA FullFinite == IsFiniteSet(MergedFull)
<1>1. IsFiniteSet(Metrics)
  BY SeriesAssumption DEF SeriesAssumption
<1>2. MergedFull \subseteq Metrics
  BY DEF MergedFull
<1>3. QED
  BY <1>1, <1>2, FS_Subset

\* Only the merge of an answer adds to the answers that fill the limit.
LEMMA FullStays ==
  ASSUME TypeOK, PlaceInv, CountInv, NEW m \in Metrics, Worker(m), ~Absorb(m)
  PROVE  MergedFull' = MergedFull
<1> USE DEF TypeOK, MergedFull, PastMutex, Goto
<1>1. CASE Acquire(m)
  BY <1>1 DEF Acquire, local
<1>2. CASE GiveUp(m)
  BY <1>2 DEF GiveUp, CountInv
<1>3. CASE ReceiveRows(m) \/ ReceiveError(m)
  BY <1>3 DEF ReceiveRows, ReceiveError
<1>4. CASE StopForCaller(m) \/ Reject(m)
  BY <1>4 DEF StopForCaller, Reject, PlaceInv
<1>5. CASE Note(m)
  BY <1>5 DEF Note, local, PlaceInv
<1>6. CASE Skip(m) \/ Release(m) \/ Exit(m)
  BY <1>6 DEF Skip, Release, Exit, local
<1>7. QED
  BY <1>1, <1>2, <1>3, <1>4, <1>5, <1>6 DEF Worker

\* A merge counts its answer exactly if it fills the limit.
LEMMA FullCounted ==
  ASSUME TypeOK, PlaceInv, CountInv, NEW m \in Metrics, Absorb(m)
  PROVE  truncatedCount' = Cardinality(MergedFull')
<1> USE DEF TypeOK, Goto, Absorb, local
<1>1. m \notin MergedFull
  BY DEF MergedFull, PastMutex
<1>2. answer'[m] = "rows" /\ rows'[m] = rows[m]
  BY DEF PlaceInv
<1>3. CASE Full(rows[m])
  <2>1. MergedFull' = MergedFull \cup {m}
    BY <1>2, <1>3 DEF MergedFull, PastMutex
  <2>2. QED
    BY <1>1, <1>3, <2>1, FullFinite, FS_AddElement DEF CountInv
<1>4. CASE ~Full(rows[m])
  <2>1. MergedFull' = MergedFull
    BY <1>2, <1>4 DEF MergedFull, PastMutex
  <2>2. QED
    BY <1>4, <2>1 DEF CountInv
<1>5. QED
  BY <1>3, <1>4

\* A note adds one entry and one metric to the failures.
LEMMA FailureCounted ==
  ASSUME TypeOK, PlaceInv, CountInv, NEW m \in Metrics, Note(m)
  PROVE  /\ IsFiniteSet(failures') /\ IsFiniteSet(FailedMetrics')
         /\ Cardinality(failures') = Cardinality(FailedMetrics')
<1> DEFINE f == [metric |-> m, category |-> Category(err[m])]
<1>1. failures' = failures \cup {f} /\ f.metric = m
  BY DEF Note
<1>2. FailedMetrics' = FailedMetrics \cup {m}
  BY FailedGrows
<1>3. m \notin FailedMetrics
  BY DEF PlaceInv, Merging, Note, Goto
<1> HIDE DEF f
<1>4. f \notin failures
  BY <1>1, <1>3 DEF FailedMetrics
<1>5. /\ IsFiniteSet(failures \cup {f})
      /\ Cardinality(failures \cup {f}) = Cardinality(failures) + 1
  BY <1>4, FS_AddElement DEF CountInv
<1>6. /\ IsFiniteSet(FailedMetrics \cup {m})
      /\ Cardinality(FailedMetrics \cup {m}) = Cardinality(FailedMetrics) + 1
  BY <1>3, FS_AddElement DEF CountInv
<1>7. QED
  BY <1>1, <1>2, <1>5, <1>6 DEF CountInv

\* Every step keeps both counters in line with what they count.
LEMMA CountStep ==
  ASSUME TypeOK, PlaceInv, CountInv, [Next]_vars
  PROVE  CountInv'
<1> DEFINE Fresh == \A m \in Metrics : pc[m] \in {"waiting", "fetching"} => answer[m] = "none"
<1>1. ASSUME NEW m \in Metrics, Worker(m) PROVE Fresh'
  BY <1>1 DEF CountInv, TypeOK, Goto, Worker, Acquire, GiveUp, ReceiveRows,
     ReceiveError, StopForCaller, Reject, Skip, Note, Absorb, Release, Exit, local
<1>2. ASSUME NEW m \in Metrics, Note(m) PROVE CountInv'
  <2>1. MergedFull' = MergedFull /\ truncatedCount' = truncatedCount
    BY <1>2, FullStays DEF Worker, Note, Absorb, Goto
  <2>2. QED
    BY <1>1, <1>2, <2>1, FailureCounted DEF CountInv, Worker
<1>3. ASSUME NEW m \in Metrics, Absorb(m) PROVE CountInv'
  <2>1. failures' = failures /\ FailedMetrics' = FailedMetrics
    BY <1>3 DEF Absorb, FailedMetrics
  <2>2. QED
    BY <1>1, <1>3, <2>1, FullCounted DEF CountInv, Worker
<1>4. ASSUME NEW m \in Metrics, Worker(m), ~Note(m), ~Absorb(m) PROVE CountInv'
  <2>1. UNCHANGED shared
    BY <1>4 DEF Worker, Acquire, GiveUp, ReceiveRows, ReceiveError,
       StopForCaller, Reject, Skip, Release, Exit
  <2>2. QED
    BY <1>1, <1>4, <2>1, FullStays DEF CountInv, shared, FailedMetrics
<1>5. CASE CallerCancels \/ Decide \/ UNCHANGED vars
  <2>1. UNCHANGED <<pc, local, shared>>
    BY <1>5 DEF CallerCancels, Decide, vars
  <2>2. MergedFull' = MergedFull /\ FailedMetrics' = FailedMetrics
    BY <2>1 DEF MergedFull, FailedMetrics, local, shared
  <2>3. QED
    BY <2>1, <2>2 DEF CountInv, local, shared
<1>6. QED
  BY <1>2, <1>3, <1>4, <1>5 DEF Next, Over

\* ... and so they always are.
LEMMA CountAlways == Spec => []CountInv
<1>1. PhaseInv => TypeOK /\ PlaceInv
  BY DEF PhaseInv, SlotInv, SettleInv
<1>2. QED
  BY <1>1, CountInit, CountStep, PhaseAlways, PTL DEF Spec

\* A report knows at least half of the metrics: the fraction is computed from
\* the length of the failure list, and no metric is in it twice.
THEOREM ReportKnowsHalf == Spec => []HalfIsKnown
<1>1. PhaseInv /\ CountInv => HalfIsKnown
  <2> SUFFICES ASSUME PhaseInv, CountInv, verdict = "report"
               PROVE  2 * Cardinality(FailedMetrics) <= Cardinality(Metrics)
    BY DEF HalfIsKnown
  <2>1. Cardinality(failures) = Cardinality(FailedMetrics) /\ Cardinality(failures) \in Nat
    BY FS_CardinalityType DEF CountInv
  <2>2. Cardinality(Metrics) \in Nat
    BY SeriesAssumption, FS_CardinalityType DEF SeriesAssumption
  <2>3. ~TooManyFailures
    BY DEF PhaseInv, SettleInv, VerdictInv
  <2>4. QED
    BY <2>1, <2>2, <2>3 DEF TooManyFailures
<1>2. QED
  BY <1>1, CountAlways, PhaseAlways, PTL

\* A merged metric with a series missing filled the limit.
LEMMA CutAnswerIsFull ==
  ASSUME RowsInv, NEW m \in Metrics, Merged(m), ~(SeriesOf[m] \subseteq catalog)
  PROVE  Full(rows[m])
<1>1. rows[m] \in RowSets(m) /\ rows[m] # SeriesOf[m]
  BY DEF RowsInv, Merged
<1>2. Limit \in Nat
  BY SeriesAssumption DEF SeriesAssumption
<1>3. QED
  BY <1>1, <1>2 DEF RowSets, Full

\* The two published counters bound the metrics a report lacks series of.
THEOREM ReportCountsGaps == Spec => []GapsAreCounted
<1> DEFINE Missing == {m \in Metrics : ~(SeriesOf[m] \subseteq catalog)}
<1>1. PhaseInv /\ RowsInv /\ CountInv => GapsAreCounted
  <2> SUFFICES ASSUME PhaseInv, RowsInv, CountInv, verdict = "report"
               PROVE  Cardinality(Missing) <= Cardinality(failures) + truncatedCount
    BY DEF GapsAreCounted
  <2>1. ASSUME NEW m \in Missing PROVE m \in FailedMetrics \cup MergedFull
    <3>1. pc[m] = "done" /\ (Merged(m) \/ Noted(m))
      BY AtReport
    <3>2. CASE Merged(m)
      BY <3>1, <3>2, CutAnswerIsFull DEF Merged, MergedFull, PastMutex
    <3>3. CASE Noted(m)
      BY <3>3 DEF Noted
    <3>4. QED
      BY <3>1, <3>2, <3>3
  <2> HIDE DEF Missing
  <2>2. Missing \subseteq FailedMetrics \cup MergedFull
    BY <2>1
  <2>3. IsFiniteSet(FailedMetrics) /\ IsFiniteSet(MergedFull)
    BY FullFinite DEF CountInv
  <2>4. /\ IsFiniteSet(FailedMetrics \cup MergedFull)
        /\ Cardinality(FailedMetrics \cup MergedFull)
             = Cardinality(FailedMetrics) + Cardinality(MergedFull)
               - Cardinality(FailedMetrics \cap MergedFull)
    BY <2>3, FS_Union
  <2>5. /\ IsFiniteSet(Missing)
        /\ Cardinality(Missing) <= Cardinality(FailedMetrics \cup MergedFull)
    BY <2>2, <2>4, FS_Subset
  <2>6. IsFiniteSet(FailedMetrics \cap MergedFull)
    BY <2>3, FS_Subset
  <2>7. /\ Cardinality(FailedMetrics) \in Nat /\ Cardinality(MergedFull) \in Nat
        /\ Cardinality(FailedMetrics \cap MergedFull) \in Nat
        /\ Cardinality(Missing) \in Nat
    BY <2>3, <2>5, <2>6, FS_CardinalityType
  <2>8. QED
    BY <2>4, <2>5, <2>7 DEF CountInv
<1>2. Init => RowsInv
  BY DEF Init, RowsInv
<1>3. PhaseInv => TypeOK
  BY DEF PhaseInv, SlotInv
<1>4. QED
  BY <1>1, <1>2, <1>3, RowsStep, CountAlways, PhaseAlways, PTL DEF Spec
=============================================================================
