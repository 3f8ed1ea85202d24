--------------------------- MODULE BillingProofs ----------------------------
(***************************************************************************)
(* For every catalog, every table of billed rows, every number of workers, *)
(* days and rows: each billed row is added once, the failures of a result  *)
(* are the metrics' own, its coverage is exact, what it attributes to a    *)
(* metric is what was billed but for what the divisions lose, and the sums *)
(* of the tables, the fragment and the first page of the PDF agree.        *)
(***************************************************************************)
EXTENDS Rollups, VariationPages, Sums

\* How often a row is in the pages before an offset.
Before(d, i, n) == IF i < matched[d] /\ i < n THEN 1 ELSE 0

\* While the loop runs, the rows before the offset and no others are added;
\* and the offset is far enough from the wrap for one more page.
Paging ==
  /\ matched \in [Days -> 0..MaxRows]
  /\ offset \in Nat
  /\ added \in [Days -> [Rows -> Nat]]
  /\ status = "run" => offset <= MaxRows
  /\ status = "run" =>
       \A d \in Days : \A i \in Rows : added[d][i] = Before(d, i, offset)
  /\ EachRowOnce

\* Below the wrap the arithmetic of the offset is that of the integers.
LEMMA NoWrap ==
  ASSUME NEW n \in Nat, n <= MaxRows
  PROVE  (n + PageSize) % Word = n + PageSize
  <1>1. n + PageSize \in 0..(Word - 1) BY PageAssumption
  <1> QED BY <1>1, PageAssumption

\* One page adds the rows between two offsets once.
LEMMA PageAdds ==
  ASSUME Paging, Fetch
  PROVE  /\ offset' = offset + PageSize
         /\ added' \in [Days -> [Rows -> Nat]]
         /\ \A d \in Days : \A i \in Rows :
              added'[d][i] = Before(d, i, offset + PageSize)
  <1>1. offset' = offset + PageSize
    BY NoWrap DEF Paging, Fetch
  <1>2. added' \in [Days -> [Rows -> Nat]]
    BY DEF Paging, Fetch
  <1>3. ASSUME NEW d \in Days, NEW i \in Rows
        PROVE  added'[d][i] = Before(d, i, offset + PageSize)
    <2>1. added'[d][i] = IF i \in Page(d) THEN added[d][i] + 1 ELSE added[d][i]
      BY <1>3 DEF Fetch
    <2>2. added[d][i] = Before(d, i, offset)
      BY <1>3 DEF Paging, Fetch
    <2>3. i \in Page(d) <=> offset <= i /\ i < offset + PageSize /\ i < matched[d]
      BY <1>3 DEF Page
    <2>4. i \in Nat /\ matched[d] \in Nat /\ offset \in Nat
      BY <1>3, PageAssumption DEF Paging, Rows
    <2> QED BY <2>1, <2>2, <2>3, <2>4, PageAssumption DEF Before
  <1> QED BY <1>1, <1>2, <1>3

\* The loop keeps adding each row once.
LEMMA PagingHolds == PagesSpec => []Paging
  <1>1. PagesInit => Paging
    <2> SUFFICES ASSUME PagesInit PROVE Paging OBVIOUS
    <2>1. \A d \in Days : \A i \in Rows : added[d][i] = Before(d, i, offset)
      BY PageAssumption DEF PagesInit, Before, Rows
    <2> QED BY <2>1, PageAssumption DEF PagesInit, Paging, EachRowOnce
  <1>2. Paging /\ [PagesNext]_pagesVars => Paging'
    <2> SUFFICES ASSUME Paging, [PagesNext]_pagesVars PROVE Paging' OBVIOUS
    <2>1. CASE Fetch
      <3>1. matched' = matched BY <2>1 DEF Fetch
      <3>2. (\A d \in Days : \A i \in Rows :
              added[d][i] = Before(d, i, offset))'
        BY <2>1, <3>1, PageAdds DEF Before
      <3>3. ASSUME status' = "run" PROVE offset' <= MaxRows
        <4>1. ~Last BY <2>1, <3>3 DEF Fetch
        <4>2. PICK d \in Days : ~((offset + PageSize) % Word >= matched[d])
          BY <4>1 DEF Last
        <4>3. offset' = (offset + PageSize) % Word BY <2>1 DEF Fetch
        <4>4. offset' \in Nat BY <2>1, PageAdds, PageAssumption DEF Paging
        <4>5. matched[d] \in 0..MaxRows BY <4>2 DEF Paging
        <4> QED BY <4>2, <4>3, <4>4, <4>5, PageAssumption
      <3>4. ASSUME status' = "done", NEW d \in Days, NEW i \in Rows
            PROVE  added'[d][i] = IF i < matched'[d] THEN 1 ELSE 0
        <4>1. Last BY <2>1, <3>4 DEF Fetch
        <4>2. offset' >= matched[d] BY <2>1, <3>4, <4>1 DEF Last, Fetch
        <4>3. added'[d][i] = Before(d, i, offset')
          BY <2>1, <3>4, PageAdds
        <4>4. i \in Nat /\ matched[d] \in Nat /\ offset' \in Nat
          BY <2>1, <3>4, PageAdds, PageAssumption DEF Paging, Rows
        <4> QED BY <3>1, <4>2, <4>3, <4>4 DEF Before
      <3>5. EachRowOnce' BY <3>4 DEF EachRowOnce
      <3>6. offset' \in Nat /\ added' \in [Days -> [Rows -> Nat]]
        BY <2>1, PageAdds, PageAssumption DEF Paging
      <3> QED BY <3>1, <3>2, <3>3, <3>5, <3>6 DEF Paging, Before
    <2>2. CASE Fail BY <2>2 DEF Fail, Paging, EachRowOnce, Before
    <2>3. CASE UNCHANGED pagesVars
      BY <2>3 DEF pagesVars, Paging, EachRowOnce, Before
    <2> QED BY <2>1, <2>2, <2>3 DEF PagesNext, PagesOver
  <1> QED BY <1>1, <1>2, PTL DEF PagesSpec

\* Usage is neither lost nor counted twice.
THEOREM RowsCountOnce == PagesSpec => []EachRowOnce
  <1>1. Paging => EachRowOnce BY DEF Paging
  <1> QED BY <1>1, PagingHolds, PTL
-----------------------------------------------------------------------------
\* Only the caller cancels the group: every error a goroutine returns comes
\* from a context that was done because the caller's was.
GroupFollowsCaller == groupErr => callerDone

\* Where a metric's goroutine is when it knows why its fetch failed, and that
\* a cancellation is a cause only once the caller has cancelled.
Causes ==
  \A m \in Metrics :
    /\ pc[m] \in {"failed", "note"} \/ m \in failures => cause[m] \in {"own", "cancelled"}
    /\ pc[m] = "note" \/ m \in failures => cause[m] = "own"
    /\ cause[m] = "cancelled" => callerDone
    /\ m \in failures => pc[m] = "ended"

Blaming ==
  /\ pc \in [Metrics -> Places]
  /\ cause \in [Metrics -> {None, "own", "cancelled"}]
  /\ failures \subseteq Metrics
  /\ groupErr \in BOOLEAN
  /\ callerDone \in BOOLEAN
  /\ GroupFollowsCaller
  /\ Causes

\* A step of one goroutine keeps the causes of all.
LEMMA WorkKeepsBlaming ==
  ASSUME Blaming, NEW m \in Metrics, Work(m)
  PROVE  Blaming'
  <1> USE DEF Blaming, GroupFollowsCaller, Causes, results, Goto, Leave, Places
  <1>1. CASE Acquire(m) BY <1>1 DEF Acquire
  <1>2. CASE GiveUp(m) BY <1>2 DEF GiveUp, GroupDone
  <1>3. CASE Skip(m) BY <1>3 DEF Skip
  <1>4. CASE Attempt(m) BY <1>4 DEF Attempt
  <1>5. CASE Receive(m) BY <1>5 DEF Receive
  <1>6. ASSUME NEW why \in {"own", "cancelled"}, ReceiveError(m, why)
        PROVE  Blaming'
    BY <1>6 DEF ReceiveError, GroupDone
  <1>7. CASE StopForCaller(m) BY <1>7 DEF StopForCaller
  <1>8. CASE Blame(m) BY <1>8 DEF Blame
  <1>9. CASE Note(m) BY <1>9 DEF Note
  <1>10. CASE Merge(m) BY <1>10 DEF Merge
  <1> QED
    BY <1>1, <1>2, <1>3, <1>4, <1>5, <1>6, <1>7, <1>8, <1>9, <1>10 DEF Work

\* So do the caller and the return.
LEMMA ReturnKeepsBlaming ==
  ASSUME Blaming, Return \/ Cancel \/ UNCHANGED vars
  PROVE  Blaming'
  <1> USE DEF Blaming, GroupFollowsCaller, Causes, results
  <1>1. CASE Return BY <1>1 DEF Return
  <1>2. CASE Cancel BY <1>2 DEF Cancel
  <1>3. CASE UNCHANGED vars BY <1>3 DEF vars
  <1> QED BY <1>1, <1>2, <1>3

\* The causes are right in every state.
LEMMA BlamingHolds == Spec => []Blaming
  <1>1. Init => Blaming
    BY EnrichAssumption DEF Init, Places, Blaming, GroupFollowsCaller, Causes
  <1>2. Blaming /\ [Next]_vars => Blaming'
    <2> SUFFICES ASSUME Blaming, [Next]_vars PROVE Blaming' OBVIOUS
    <2>1. CASE \E m \in Metrics : Work(m) BY <2>1, WorkKeepsBlaming
    <2>2. CASE Return \/ Cancel \/ UNCHANGED vars BY <2>2, ReturnKeepsBlaming
    <2> QED BY <2>1, <2>2 DEF Next, Over
  <1> QED BY <1>1, <1>2, PTL DEF Spec

\* A lookup that only a cancellation stopped never counts against a metric.
THEOREM FailuresOfResult == Spec => []CancellationNotBlamed
  <1>1. Blaming => CancellationNotBlamed
    BY DEF Blaming, Causes, CancellationNotBlamed
  <1> QED BY <1>1, BlamingHolds, PTL

-----------------------------------------------------------------------------
\* The metrics past the check for series, and what each has left behind.
Tried == {m \in Metrics : SeriesOf[m] # {} /\ pc[m] \notin {"wait", "hold"}}

Got(m) == SeriesOf[m] \cap DOMAIN bySeries

Settled ==
  \A m \in Metrics :
    /\ pc[m] \in {"fetch", "failed", "note", "merge"} \/ m \in failures => SeriesOf[m] # {}
    /\ pc[m] # "ended" \/ m \in failures => Got(m) = {}
    /\ ~groupErr /\ pc[m] = "ended" /\ m \notin failures => Got(m) = Billable(m)

\* The count is right as long as no goroutine gave up, and a result means
\* that none did.
Counting ==
  /\ Blaming
  /\ IsFiniteSet(Tried)
  /\ ~groupErr => attempted = Cardinality(Tried)
  /\ Settled
  /\ verdict = "result" => ~groupErr /\ \A m \in Metrics : pc[m] = "ended"

\* A metric without series has nothing to be billed for.
LEMMA NothingBillable == \A m \in Metrics : SeriesOf[m] = {} => Billable(m) = {}
  BY DEF Billable

\* Whoever merges touches no other metric's series.
LEMMA MergeIsOwn ==
  ASSUME NEW m \in Metrics, Merge(m)
  PROVE  \A n \in Metrics : Got(n)' = IF n = m THEN Got(m) \cup Billable(m) ELSE Got(n)
  <1>1. DOMAIN bySeries' = DOMAIN bySeries \cup Billable(m)
    BY DEF Merge
  <1>2. Billable(m) \subseteq SeriesOf[m]
    BY DEF Billable
  <1>3. \A n \in Metrics : n # m => SeriesOf[n] \cap Billable(m) = {}
    BY <1>2, EnrichAssumption
  <1> QED BY <1>1, <1>2, <1>3 DEF Got

\* A goroutine keeps the count and settles its own metric only.
LEMMA WorkKeepsCounting ==
  ASSUME Counting, NEW m \in Metrics, Work(m)
  PROVE  Counting'
  <1> USE DEF Counting, Blaming, Causes, Settled, results, Goto, Leave
  <1>0. Blaming'
    BY WorkKeepsBlaming
  <1>1. verdict' # "result"
    <2>1. pc[m] # "ended" /\ verdict' = verdict
      BY DEF Work, Acquire, GiveUp, Skip, Attempt, Receive, ReceiveError, StopForCaller, Blame, Note, Merge
    <2> QED BY <2>1
  <1>2. ASSUME Attempt(m) PROVE Counting'
    <2>1. Tried' = Tried \cup {m} /\ m \notin Tried
      BY <1>2 DEF Attempt, Tried
    <2>2. IsFiniteSet(Tried') /\ Cardinality(Tried') = Cardinality(Tried) + 1
      BY <2>1, FS_AddElement
    <2>3. Settled'
      BY <1>2 DEF Attempt, Got, Billable
    <2> QED BY <1>0, <1>1, <1>2, <2>2, <2>3 DEF Attempt
  <1>3. ASSUME Acquire(m) \/ Receive(m) \/ Blame(m) \/ (\E why \in {"own", "cancelled"} : ReceiveError(m, why))
        PROVE  Counting'
    <2>1. /\ attempted' = attempted /\ groupErr' = groupErr /\ failures' = failures
          /\ bySeries' = bySeries /\ verdict' = verdict
          /\ \E place \in {"hold", "fetch", "merge", "note", "failed"} :
               /\ pc' = [pc EXCEPT ![m] = place]
               /\ \/ place = "hold" /\ pc[m] = "wait"
                  \/ place # "hold" /\ pc[m] \in {"fetch", "failed"}
      BY <1>3 DEF Acquire, Receive, Blame, ReceiveError
    <2>2. Tried' = Tried
      BY <2>1 DEF Tried
    <2>3. Settled'
      BY <2>1 DEF Got, Billable
    <2> QED BY <1>0, <1>1, <2>1, <2>2, <2>3
  <1>4. ASSUME GiveUp(m) \/ StopForCaller(m) PROVE Counting'
    <2>1. /\ groupErr' /\ failures' = failures /\ bySeries' = bySeries
          /\ pc' = [pc EXCEPT ![m] = "ended"] /\ pc[m] # "ended"
      BY <1>4 DEF GiveUp, StopForCaller
    <2>2. Tried' \subseteq Tried \cup {m}
      BY <2>1 DEF Tried
    <2>3. IsFiniteSet(Tried')
      BY <2>2, FS_AddElement, FS_Subset
    <2>4. Settled'
      BY <2>1 DEF Got, Billable
    <2> QED BY <1>0, <1>1, <2>1, <2>3, <2>4
  <1>5. ASSUME Skip(m) PROVE Counting'
    <2>1. Tried' = Tried
      BY <1>5 DEF Skip, Tried
    <2>2. Settled'
      BY <1>5, NothingBillable DEF Skip, Got, Billable
    <2> QED BY <1>0, <1>1, <1>5, <2>1, <2>2 DEF Skip
  <1>6. ASSUME Note(m) PROVE Counting'
    <2>1. Tried' = Tried
      BY <1>6 DEF Note, Tried
    <2>2. Settled'
      BY <1>6 DEF Note, Got, Billable
    <2> QED BY <1>0, <1>1, <1>6, <2>1, <2>2 DEF Note
  <1>7. ASSUME Merge(m) PROVE Counting'
    <2>1. Tried' = Tried
      BY <1>7 DEF Merge, Tried
    <2>2. \A n \in Metrics : Got(n)' = IF n = m THEN Got(m) \cup Billable(m) ELSE Got(n)
      BY <1>7, MergeIsOwn
    <2>3. Got(m) = {} /\ pc[m] = "merge" /\ m \notin failures
      BY <1>7 DEF Merge
    <2>4. /\ pc' = [pc EXCEPT ![m] = "ended"] /\ failures' = failures
          /\ groupErr' = groupErr /\ attempted' = attempted
      BY <1>7 DEF Merge
    <2>5. \A n \in Metrics : Billable(n)' = Billable(n)
      BY DEF Billable
    <2>6. Settled'
      BY <2>2, <2>3, <2>4, <2>5
    <2> QED BY <1>0, <1>1, <2>1, <2>4, <2>6
  <1> QED BY <1>2, <1>3, <1>4, <1>5, <1>6, <1>7 DEF Work

\* The count is right in every state.
LEMMA CountingHolds == Spec => []Counting
  <1>1. Init => Counting
    <2> SUFFICES ASSUME Init PROVE Counting OBVIOUS
    <2>1. Blaming
      BY EnrichAssumption DEF Init, Places, Blaming, GroupFollowsCaller, Causes
    <2>2. Tried = {}
      BY DEF Init, Tried
    <2>3. Settled
      BY DEF Init, Settled, Got
    <2> QED BY <2>1, <2>2, <2>3, FS_EmptySet DEF Init, Counting
  <1>2. Counting /\ [Next]_vars => Counting'
    <2> SUFFICES ASSUME Counting, [Next]_vars PROVE Counting' OBVIOUS
    <2>1. CASE \E m \in Metrics : Work(m) BY <2>1, WorkKeepsCounting
    <2>2. CASE Return \/ Cancel \/ UNCHANGED vars
      <3>1. /\ pc' = pc /\ attempted' = attempted /\ failures' = failures
            /\ bySeries' = bySeries /\ groupErr' = groupErr
            /\ verdict' = "result" => ~groupErr /\ \A m \in Metrics : pc[m] = "ended"
        BY <2>2 DEF Return, Cancel, vars, results, Counting
      <3>2. Tried' = Tried /\ Settled'
        BY <3>1 DEF Tried, Settled, Got, Billable, Counting
      <3>3. Blaming'
        BY <2>2, ReturnKeepsBlaming DEF Counting
      <3> QED BY <3>1, <3>2, <3>3 DEF Counting
    <2> QED BY <2>1, <2>2 DEF Next, Over
  <1> QED BY <1>1, <1>2, PTL DEF Spec

\* For any number of metrics and tokens and every schedule, a result has
\* attempted each metric with series once, and each is either a failure or
\* has a part for all its series that were billed.
THEOREM CoverageIsExact == Spec => []AttemptsAddUp
  <1>1. Counting => AttemptsAddUp
    <2> SUFFICES ASSUME Counting, verdict = "result"
                 PROVE  LET tried == {m \in Metrics : SeriesOf[m] # {}}
                        IN  /\ attempted = Cardinality(tried)
                            /\ failures \subseteq tried
                            /\ \A m \in tried : SeriesOf[m] \cap DOMAIN bySeries
                                 = IF m \in failures THEN {} ELSE Billable(m)
      BY DEF AttemptsAddUp
    <2>1. Tried = {m \in Metrics : SeriesOf[m] # {}}
      BY DEF Counting, Tried
    <2>2. failures \subseteq {m \in Metrics : SeriesOf[m] # {}}
      BY DEF Counting, Settled, Blaming
    <2>3. \A m \in Metrics : Got(m) = IF m \in failures THEN {} ELSE Billable(m)
      BY DEF Counting, Settled
    <2> QED BY <2>1, <2>2, <2>3 DEF Counting, Got
  <1> QED BY <1>1, CountingHolds, PTL

-----------------------------------------------------------------------------
\* Every price is the share that the one metric of the series gave it.
Priced ==
  \A s \in DOMAIN bySeries :
    \E m \in Metrics : s \in Billable(m) /\ bySeries[s] = Share(m, s)

\* Only a merge prices, and it overwrites nothing but its own.
LEMMA PricedStep ==
  ASSUME Priced, [Next]_vars
  PROVE  Priced'
  <1>1. ASSUME NEW m \in Metrics, Merge(m) PROVE Priced'
    <2>1. /\ DOMAIN bySeries' = DOMAIN bySeries \cup Billable(m)
          /\ \A s \in DOMAIN bySeries' :
               bySeries'[s] = IF s \in Billable(m) THEN Share(m, s) ELSE bySeries[s]
      BY <1>1 DEF Merge
    <2>2. ASSUME NEW s \in DOMAIN bySeries'
          PROVE  \E n \in Metrics : s \in Billable(n) /\ bySeries'[s] = Share(n, s)
      BY <2>1, <2>2 DEF Priced
    <2> HIDE DEF Billable, Share
    <2> QED BY <2>2 DEF Priced, Billable, Share
  <1>2. ASSUME UNCHANGED bySeries PROVE Priced'
    BY <1>2 DEF Priced, Billable, Share
  <1>3. ASSUME NEW m \in Metrics, Work(m) PROVE Merge(m) \/ UNCHANGED bySeries
    BY <1>3 DEF Work, results, Acquire, GiveUp, Skip, Attempt, Receive, ReceiveError,
                StopForCaller, Blame, Note
  <1>4. ASSUME Return \/ Cancel \/ UNCHANGED vars PROVE UNCHANGED bySeries
    BY <1>4 DEF Return, Cancel, vars, results
  <1> QED BY <1>1, <1>2, <1>3, <1>4 DEF Next, Over

\* So it is in every state.
LEMMA PricedHolds == Spec => []Priced
  <1>1. Init => Priced
    BY DEF Init, Priced
  <1> QED BY <1>1, PricedStep, PTL DEF Spec

-----------------------------------------------------------------------------
\* The sums of the model are the sums of Sums.
LEMMA UnitsInIs ==
  \A rows : UnitsIn(rows) = SumFunctionOnSet([r \in rows |-> r.units], rows)
  BY DEF UnitsIn, SumFunction

\* And so for the series.
LEMMA UnitsOfAllIs ==
  \A series : UnitsOfAll(series) = SumFunctionOnSet([s \in series |-> UnitsOfSeries(s)], series)
  BY DEF UnitsOfAll, SumFunction

\* The series of a metric are those of the catalog that have its name.
LEMMA SeriesOfIs == \A m \in Metrics : SeriesOf[m] = SeriesNamed(Catalog, m)
  BY EnrichedAssumption DEF SeriesByMetric

\* A series shares its variation with the billable series of its label names.
LEMMA LabelsOfIs == \A s \in Catalog : LabelsOf[s] = DOMAIN s
  BY EnrichedAssumption DEF NamesBySeries

\* What was billed of one variation, whoever spelled it.
LEMMA VariationBilled ==
  ASSUME NEW m \in Metrics
  PROVE  /\ DOMAIN UnitsOf[m] = {VariationKey(r) : r \in Billed[m]}
         /\ \A k \in DOMAIN UnitsOf[m] :
              /\ UnitsOf[m][k] = UnitsIn({r \in Billed[m] : VariationKey(r) = k})
              /\ UnitsOf[m][k] \in Int
  <1>1. UnitsOf[m] = UnitsByVariation(Billed[m])
    BY EnrichedAssumption DEF UnitsByMetric
  <1>2. /\ DOMAIN UnitsOf[m] = {VariationKey(r) : r \in Billed[m]}
        /\ \A k \in DOMAIN UnitsOf[m] :
              UnitsOf[m][k] = UnitsIn({r \in Billed[m] : VariationKey(r) = k})
    BY <1>1 DEF UnitsByVariation
  <1>3. ASSUME NEW k PROVE UnitsIn({r \in Billed[m] : VariationKey(r) = k}) \in Int
    <2> DEFINE rows == {r \in Billed[m] : VariationKey(r) = k}
               units == [r \in rows |-> r.units]
    <2>1. IsFiniteSet(rows)
      BY RollupAssumption, FS_Subset
    <2>2. \A r \in rows : units[r] \in Int
      BY RollupAssumption
    <2> HIDE DEF units, rows
    <2>3. SumFunctionOnSet(units, rows) \in Int
      BY <2>1, <2>2, SumInt
    <2> QED BY <2>3, UnitsInIs DEF units, rows
  <1> QED BY <1>2, <1>3

\* The parts of a sum are integers, and lose less than one unit each.
LEMMA PartLoses ==
  ASSUME NEW u \in Int, NEW n \in Nat
  PROVE  /\ Part(u, n) \in Int
         /\ n # 0 => n * Part(u, n) <= u /\ u <= n * Part(u, n) + (n - 1)
  <1>1. CASE n \in {0, 1} BY <1>1 DEF Part
  <1>2. CASE n > 1
    <2>1. u = n * (u \div n) + (u % n) /\ u % n \in 0..(n - 1) /\ u \div n \in Int
      BY <1>2
    <2> QED BY <1>2, <2>1 DEF Part
  <1> QED BY <1>1, <1>2

\* The groups and the catalog are finite.
LEMMA CatalogFinite ==
  /\ \A S \in SUBSET Catalog : IsFiniteSet(S) /\ Cardinality(S) \in Nat
  /\ \A m \in Metrics : SeriesOf[m] \in SUBSET Catalog
  /\ \A m \in Metrics : \A labels : Group(m, labels) \in SUBSET Catalog
  <1>1. \A S \in SUBSET Catalog : IsFiniteSet(S) /\ Cardinality(S) \in Nat
    BY RollupAssumption, FS_Subset, FS_CardinalityType
  <1>2. \A m \in Metrics : SeriesOf[m] \in SUBSET Catalog
    BY SeriesOfIs DEF SeriesNamed
  <1>3. \A m \in Metrics : \A labels : Group(m, labels) \in SUBSET Catalog
    BY <1>2 DEF Group
  <1> QED BY <1>1, <1>2, <1>3

\* What a series is shown with is an integer.
LEMMA UnitsAreInt ==
  ASSUME Priced, NEW s
  PROVE  UnitsOfSeries(s) \in Int
  <1>1. CASE s \notin DOMAIN bySeries BY <1>1 DEF UnitsOfSeries
  <1>2. CASE s \in DOMAIN bySeries
    <2>1. PICK m \in Metrics : s \in Billable(m) /\ bySeries[s] = Share(m, s)
      BY <1>2 DEF Priced
    <2>2. UnitsOf[m][LabelsOf[s]] \in Int
      BY <2>1, VariationBilled DEF Billable
    <2>3. Cardinality(Group(m, LabelsOf[s])) \in Nat
      BY CatalogFinite
    <2>4. bySeries[s].units = Part(UnitsOf[m][LabelsOf[s]], Cardinality(Group(m, LabelsOf[s])))
      BY <2>1 DEF Share
    <2> QED BY <1>2, <2>2, <2>3, <2>4, PartLoses DEF UnitsOfSeries
  <1> QED BY <1>1, <1>2

-----------------------------------------------------------------------------
\* The name a series has in the tables, the series a table puts in the row of
\* a name, and the rows.
Shown(s) == RowName(LabelValue(s, NameLabel))

ShownAs(series, name) == {s \in series : Shown(s) = name}

Names(series) == {Shown(s) : s \in series}

AllRow(name) ==
  LET named == ShownAs(Catalog, name)
  IN  [metric |-> name, count |-> Cardinality(named), units |-> UnitsOfAll(named)]

CostRow(s) ==
  [series |-> s, metric |-> LabelValue(s, NameLabel),
   present |-> s \in DOMAIN bySeries,
   units |-> UnitsOfSeries(s),
   split |-> IF s \in DOMAIN bySeries /\ bySeries[s].split > 1
               THEN bySeries[s].split ELSE 0]

UnusedRow(name) ==
  LET rows == {r \in CostRows : RowName(r.metric) = name}
      billed == {r \in rows : r.present}
  IN  [metric |-> name,
       unused |-> Cardinality(rows),
       withBilling |-> Cardinality(billed),
       units |-> UnitsIn(billed)]

\* The table of all metrics, row by row.
LEMMA AllRowsAre == AllByMetric = {AllRow(name) : name \in Names(Catalog)}
  <1>1. Used \cup Unused = Catalog
    BY RollupAssumption DEF Unused
  <1> QED BY <1>1 DEF AllByMetric, AllRow, ShownAs, Names, Shown

\* The rows of the unused series, one for each.
LEMMA CostRowsAre == CostRows = {CostRow(s) : s \in Unused}
  BY DEF CostRows, CostRow

\* What a row says of its series.
LEMMA CostRowHas ==
  ASSUME NEW s
  PROVE  /\ CostRow(s).series = s
         /\ CostRow(s).metric = LabelValue(s, NameLabel)
         /\ CostRow(s).present <=> s \in DOMAIN bySeries
         /\ CostRow(s).units = UnitsOfSeries(s)
  BY DEF CostRow

\* The table of the unused metrics, row by row.
LEMMA UnusedRowsAre == UnusedByMetric = {UnusedRow(name) : name \in Names(Unused)}
  <1>1. {RowName(r.metric) : r \in CostRows} = Names(Unused)
    BY CostRowsAre, CostRowHas DEF Names, Shown
  <1> QED BY <1>1 DEF UnusedByMetric, UnusedRow

\* The sum over some series splits like the series.
LEMMA UnitsSplit ==
  ASSUME Priced, NEW S \in SUBSET Catalog, NEW T \in SUBSET Catalog, S \cap T = {}
  PROVE  UnitsOfAll(S \cup T) = UnitsOfAll(S) + UnitsOfAll(T)
  <1> DEFINE f == [s \in S \cup T |-> UnitsOfSeries(s)]
             g == [s \in S |-> UnitsOfSeries(s)]
             h == [s \in T |-> UnitsOfSeries(s)]
  <1>1. /\ \A s \in S \cup T : f[s] \in Int
        /\ \A s \in S : g[s] = f[s]
        /\ \A s \in T : h[s] = f[s]
    BY UnitsAreInt
  <1>2. IsFiniteSet(S) /\ IsFiniteSet(T)
    BY CatalogFinite
  <1>3. /\ UnitsOfAll(S \cup T) = SumFunctionOnSet(f, S \cup T)
        /\ UnitsOfAll(S) = SumFunctionOnSet(g, S)
        /\ UnitsOfAll(T) = SumFunctionOnSet(h, T)
    BY UnitsOfAllIs
  <1> HIDE DEF f, g, h
  <1>4. SumFunctionOnSet(g, S) = SumFunctionOnSet(f, S)
    BY <1>1, <1>2, SumSame
  <1>5. SumFunctionOnSet(h, T) = SumFunctionOnSet(f, T)
    BY <1>1, <1>2, SumSame
  <1>6. SumFunctionOnSet(f, S \cup T) = SumFunctionOnSet(f, S) + SumFunctionOnSet(f, T)
    BY <1>1, <1>2, SumDisjoint
  <1> QED BY <1>3, <1>4, <1>5, <1>6

\* A sum over some series is an integer.
LEMMA UnitsOfAllInt ==
  ASSUME Priced, NEW S \in SUBSET Catalog
  PROVE  UnitsOfAll(S) \in Int
  <1> DEFINE f == [s \in S |-> UnitsOfSeries(s)]
  <1>1. \A s \in S : f[s] \in Int
    BY UnitsAreInt
  <1>2. IsFiniteSet(S)
    BY CatalogFinite
  <1>3. UnitsOfAll(S) = SumFunctionOnSet(f, S)
    BY UnitsOfAllIs
  <1> HIDE DEF f
  <1> QED BY <1>1, <1>2, <1>3, SumInt

\* Series nothing was attributed to add nothing.
LEMMA UnpricedAddNothing ==
  ASSUME NEW S \in SUBSET Catalog, S \cap DOMAIN bySeries = {}
  PROVE  UnitsOfAll(S) = 0
  <1> DEFINE f == [s \in S |-> UnitsOfSeries(s)]
  <1>1. \A s \in S : f[s] = 0
    BY DEF UnitsOfSeries
  <1>2. IsFiniteSet(S) /\ Cardinality(S) \in Nat
    BY CatalogFinite
  <1>3. UnitsOfAll(S) = SumFunctionOnSet(f, S)
    BY UnitsOfAllIs
  <1> HIDE DEF f
  <1>4. SumFunctionOnSet(f, S) = 0 * Cardinality(S)
    BY <1>1, <1>2, SumConstant
  <1> QED BY <1>2, <1>3, <1>4

\* A sum over rows made of the members of a set is a sum over the set.
LEMMA RowsAddUp ==
  ASSUME NEW S, IsFiniteSet(S), NEW row, NEW rows, rows = {row[x] : x \in S},
         \A x, y \in S : row[x] = row[y] => x = y,
         NEW f, \A x \in S : f[x] \in Int, \A x \in S : row[x].units = f[x]
  PROVE  UnitsIn(rows) = SumFunctionOnSet(f, S)
  <1> DEFINE g == [r \in rows |-> r.units]
  <1>1. \A x \in S : g[row[x]] = f[x]
    OBVIOUS
  <1>2. UnitsIn(rows) = SumFunctionOnSet(g, rows)
    BY UnitsInIs
  <1> HIDE DEF g
  <1>3. SumFunctionOnSet(g, rows) = SumFunctionOnSet(f, S)
    BY <1>1, SumRenamed
  <1> QED BY <1>2, <1>3

\* The row of a name in the table of unused series has all of them, and what
\* all of them cost.
LEMMA UnusedRowHas ==
  ASSUME Priced, NEW name
  PROVE  /\ UnusedRow(name).metric = name
         /\ UnusedRow(name).unused = Cardinality(ShownAs(Unused, name))
         /\ UnusedRow(name).units = UnitsOfAll(ShownAs(Unused, name))
  <1> DEFINE series == ShownAs(Unused, name)
             priced == {s \in series : s \in DOMAIN bySeries}
             rows == {r \in CostRows : RowName(r.metric) = name}
             billed == {r \in rows : r.present}
             row == [s \in series |-> CostRow(s)]
             f == [s \in priced |-> UnitsOfSeries(s)]
  <1>1. series \in SUBSET Catalog /\ priced \in SUBSET Catalog /\ series \ priced \in SUBSET Catalog
    BY DEF ShownAs, Unused
  <1>2. IsFiniteSet(series) /\ IsFiniteSet(priced)
    BY <1>1, CatalogFinite
  <1>3. rows = {row[s] : s \in series}
    BY CostRowsAre, CostRowHas DEF ShownAs, Shown
  <1>4. billed = {row[s] : s \in priced}
    <2>1. \A s \in series : row[s].present <=> s \in DOMAIN bySeries
      BY CostRowHas
    <2>2. \A s \in priced : row[s] \in billed
      BY <1>3, <2>1
    <2>3. \A r \in billed : \E s \in priced : r = row[s]
      BY <1>3, <2>1
    <2> HIDE DEF billed, row, priced
    <2> QED BY <2>2, <2>3
  <1>5. \A s, t \in series : row[s] = row[t] => s = t
    BY CostRowHas
  <1>6. \A s \in priced : f[s] \in Int /\ row[s].units = f[s]
    BY UnitsAreInt, CostRowHas
  <1>7. /\ UnusedRow(name).metric = name
        /\ UnusedRow(name).unused = Cardinality(rows)
        /\ UnusedRow(name).units = UnitsIn(billed)
    BY DEF UnusedRow
  <1>8. UnitsOfAll(priced) = SumFunctionOnSet(f, priced)
    BY UnitsOfAllIs
  <1>9. series = priced \cup (series \ priced) /\ priced \cap (series \ priced) = {}
    OBVIOUS
  <1>10. (series \ priced) \cap DOMAIN bySeries = {}
    OBVIOUS
  <1>11. \A s, t \in priced : row[s] = row[t] => s = t
    BY <1>5
  <1> HIDE DEF series, priced, rows, billed, row, f
  <1>12. Cardinality(rows) = Cardinality(series)
    BY <1>2, <1>3, <1>5, FiniteImage
  <1>13. UnitsIn(billed) = SumFunctionOnSet(f, priced)
    BY <1>2, <1>4, <1>6, <1>11, RowsAddUp
  <1>14. UnitsOfAll(series) = UnitsOfAll(priced) + UnitsOfAll(series \ priced)
    BY <1>1, <1>9, UnitsSplit
  <1>15. UnitsOfAll(series \ priced) = 0
    BY <1>1, <1>10, UnpricedAddNothing
  <1>16. UnitsOfAll(priced) \in Int
    BY <1>1, UnitsOfAllInt
  <1>17. UnitsOfAll(series) = UnitsIn(billed)
    BY <1>8, <1>13, <1>14, <1>15, <1>16
  <1> QED BY <1>7, <1>12, <1>17 DEF series

\* The rows of a table that has a row for every name add up to its series.
LEMMA TableAddsUp ==
  ASSUME Priced, NEW S \in SUBSET Catalog,
         NEW row, NEW rows, rows = {row[name] : name \in Names(S)},
         \A name \in Names(S) : row[name].metric = name,
         \A name \in Names(S) : row[name].units = UnitsOfAll(ShownAs(S, name))
  PROVE  UnitsIn(rows) = UnitsOfAll(S)
  <1> DEFINE shown == [s \in S |-> Shown(s)]
             part == [name \in Names(S) |-> ShownAs(S, name)]
             f == [s \in S |-> UnitsOfSeries(s)]
             g == [name \in Names(S) |-> UnitsOfAll(ShownAs(S, name))]
  <1>1. IsFiniteSet(S)
    BY CatalogFinite
  <1>2. Names(S) = {shown[s] : s \in S}
    BY DEF Names
  <1>3. /\ \A s \in S : f[s] \in Int
        /\ \A s \in S : shown[s] \in Names(S)
        /\ \A name \in Names(S) : part[name] = {s \in S : shown[s] = name}
    BY UnitsAreInt DEF Names, ShownAs
  <1>4. ASSUME NEW name \in Names(S)
        PROVE  g[name] = SumFunctionOnSet(f, part[name]) /\ g[name] \in Int
    <2> DEFINE h == [s \in part[name] |-> UnitsOfSeries(s)]
    <2>1. g[name] = SumFunctionOnSet(h, part[name])
      BY UnitsOfAllIs
    <2>2. part[name] \in SUBSET S /\ part[name] \in SUBSET Catalog
      BY DEF ShownAs
    <2>3. \A s \in part[name] : h[s] = f[s] /\ f[s] \in Int
      BY <1>3, <2>2
    <2>4. IsFiniteSet(part[name])
      BY <2>2, CatalogFinite
    <2> HIDE DEF h, part, f, g
    <2>5. SumFunctionOnSet(h, part[name]) = SumFunctionOnSet(f, part[name])
      BY <2>3, <2>4, SumSame
    <2>6. SumFunctionOnSet(f, part[name]) \in Int
      BY <2>3, <2>4, SumInt
    <2> QED BY <2>1, <2>5, <2>6
  <1>5. UnitsOfAll(S) = SumFunctionOnSet(f, S)
    BY UnitsOfAllIs
  <1>6. (\A name \in Names(S) : g[name] \in Int) /\ (\A name \in Names(S) : row[name].units = g[name])
    BY <1>4
  <1>7. \A x, y \in Names(S) : row[x] = row[y] => x = y
    OBVIOUS
  <1> HIDE DEF shown, part, f, g
  <1>8. IsFiniteSet(Names(S))
    BY <1>1, <1>2, FiniteImage
  <1>9. SumFunctionOnSet(g, Names(S)) = SumFunctionOnSet(f, S)
    BY <1>1, <1>3, <1>4, <1>8, SumByClass
  <1>11. UnitsIn(rows) = SumFunctionOnSet(g, Names(S))
    BY <1>6, <1>7, <1>8, RowsAddUp
  <1> QED BY <1>5, <1>9, <1>11

-----------------------------------------------------------------------------
\* The metrics the plan drops, and their rows in both tables.
Dropped == DropMetricNames(Used, Unused)

DroppedUnused == {r \in UnusedByMetric : r.metric \in Dropped}

DroppedAll == {r \in AllByMetric : r.metric \in Dropped}

\* The rows a plan drops are those of the dropped names: no name it drops is
\* the one that stands for none.
LEMMA DroppedRows ==
  /\ Dropped \subseteq Names(Unused) /\ Dropped \subseteq Names(Catalog)
  /\ \A name \in Dropped : ShownAs(Unused, name) = ShownAs(Catalog, name)
  <1>1. ASSUME NEW name \in Dropped
        PROVE  /\ name # "" /\ name # "(unknown)"
               /\ \E s \in Unused : LabelValue(s, NameLabel) = name
               /\ \A s \in Used : LabelValue(s, NameLabel) # name
    <2>1. /\ name # "" /\ \A s \in Used : LabelValue(s, NameLabel) # name
          /\ \E s \in Unused : LabelValue(s, NameLabel) = name
      BY DEF Dropped, DropMetricNames, MetricNamesOf, SeriesNamed
    <2> QED BY <2>1, RollupAssumption DEF Unused
  <1>2. \A name \in Dropped : \A s \in Catalog : Shown(s) = name <=> LabelValue(s, NameLabel) = name
    BY <1>1 DEF Shown, RowName
  <1>3. Catalog = Used \cup Unused /\ Unused \subseteq Catalog
    BY RollupAssumption DEF Unused
  <1> HIDE DEF Dropped
  <1>4. ASSUME NEW name \in Dropped PROVE name \in Names(Unused) /\ name \in Names(Catalog)
    <2>1. PICK s \in Unused : LabelValue(s, NameLabel) = name
      BY <1>1
    <2>2. Shown(s) = name /\ s \in Catalog
      BY <1>2, <1>3, <2>1
    <2> QED BY <2>1, <2>2 DEF Names
  <1>5. \A name \in Dropped : ShownAs(Unused, name) = ShownAs(Catalog, name)
    BY <1>1, <1>2, <1>3 DEF ShownAs
  <1> QED BY <1>4, <1>5

\* A table of all rows, cut to the dropped names.
LEMMA CutToDropped ==
  ASSUME NEW row, NEW S, Dropped \subseteq Names(S),
         \A name \in Names(S) : row[name].metric = name
  PROVE  {r \in {row[name] : name \in Names(S)} : r.metric \in Dropped}
           = {row[name] : name \in Dropped}
  OBVIOUS

\* The names are as many as there are series at most.
LEMMA DroppedFinite == IsFiniteSet(Dropped) /\ IsFiniteSet(Names(Catalog))
  <1> DEFINE shown == [s \in Catalog |-> Shown(s)]
             K == Names(Catalog)
  <1>1. K = {shown[s] : s \in Catalog}
    BY DEF Names
  <1> HIDE DEF shown, K
  <1>2. IsFiniteSet(K)
    BY <1>1, FiniteImage, RollupAssumption
  <1> QED BY <1>2, FS_Subset, DroppedRows DEF K

\* Both tables show the same of every dropped metric.
LEMMA DroppedAgree ==
  ASSUME Priced
  PROVE  /\ UnitsIn(DroppedUnused) = UnitsIn(DroppedAll)
         /\ SumFunction([r \in DroppedUnused |-> r.unused])
              = SumFunction([r \in DroppedAll |-> r.count])
         /\ Cardinality(DroppedAll) = Cardinality(Dropped)
  <1> DEFINE unusedRow == [name \in Names(Unused) |-> UnusedRow(name)]
             allRow == [name \in Names(Catalog) |-> AllRow(name)]
             units == [name \in Dropped |-> UnitsOfAll(ShownAs(Catalog, name))]
             count == [name \in Dropped |-> Cardinality(ShownAs(Catalog, name))]
             unuseds == [r \in DroppedUnused |-> r.unused]
             counts == [r \in DroppedAll |-> r.count]
  <1>1. /\ \A name \in Names(Unused) : unusedRow[name].metric = name
        /\ \A name \in Names(Catalog) : allRow[name].metric = name
    BY UnusedRowHas DEF AllRow
  <1>2. /\ UnusedByMetric = {unusedRow[name] : name \in Names(Unused)}
        /\ AllByMetric = {allRow[name] : name \in Names(Catalog)}
    BY UnusedRowsAre, AllRowsAre
  <1>3. /\ DroppedUnused = {unusedRow[name] : name \in Dropped}
        /\ DroppedAll = {allRow[name] : name \in Dropped}
    <2> HIDE DEF unusedRow, allRow
    <2> QED BY <1>1, <1>2, DroppedRows, CutToDropped DEF DroppedUnused, DroppedAll
  <1>4. \A name \in Dropped : ShownAs(Catalog, name) \in SUBSET Catalog
    BY DEF ShownAs
  <1>5. \A name \in Dropped : units[name] \in Int
    BY <1>4, UnitsOfAllInt
  <1>6. \A name \in Dropped : count[name] \in Int
    BY <1>4, CatalogFinite
  <1>7. /\ \A name \in Dropped : unusedRow[name].units = units[name]
        /\ \A name \in Dropped : allRow[name].units = units[name]
    BY UnusedRowHas, DroppedRows DEF AllRow
  <1>8. /\ \A name \in Dropped : unusedRow[name].unused = count[name]
        /\ \A name \in Dropped : allRow[name].count = count[name]
    BY UnusedRowHas, DroppedRows DEF AllRow
  <1>9. /\ \A x, y \in Dropped : unusedRow[x] = unusedRow[y] => x = y
        /\ \A x, y \in Dropped : allRow[x] = allRow[y] => x = y
    <2> HIDE DEF unusedRow, allRow
    <2> QED BY <1>1, DroppedRows
  <1>10. /\ \A name \in Dropped : unuseds[unusedRow[name]] = count[name]
         /\ \A name \in Dropped : counts[allRow[name]] = count[name]
    <2> HIDE DEF unusedRow, allRow, count
    <2> QED BY <1>3, <1>8
  <1>11. IsFiniteSet(Dropped)
    BY DroppedFinite
  <1>12. /\ SumFunction([r \in DroppedUnused |-> r.unused]) = SumFunctionOnSet(unuseds, DroppedUnused)
         /\ SumFunction([r \in DroppedAll |-> r.count]) = SumFunctionOnSet(counts, DroppedAll)
    BY DEF SumFunction
  <1> HIDE DEF unusedRow, allRow, units, count, unuseds, counts
  <1>13. UnitsIn(DroppedUnused) = SumFunctionOnSet(units, Dropped)
    BY <1>3, <1>5, <1>7, <1>9, <1>11, RowsAddUp
  <1>14. UnitsIn(DroppedAll) = SumFunctionOnSet(units, Dropped)
    BY <1>3, <1>5, <1>7, <1>9, <1>11, RowsAddUp
  <1>15. SumFunctionOnSet(unuseds, DroppedUnused) = SumFunctionOnSet(count, Dropped)
    BY <1>3, <1>6, <1>9, <1>10, <1>11, SumRenamed
  <1>16. SumFunctionOnSet(counts, DroppedAll) = SumFunctionOnSet(count, Dropped)
    BY <1>3, <1>6, <1>9, <1>10, <1>11, SumRenamed
  <1>17. Cardinality(DroppedAll) = Cardinality(Dropped)
    BY <1>3, <1>9, <1>11, FiniteImage
  <1> QED BY <1>12, <1>13, <1>14, <1>15, <1>16, <1>17

\* Each table adds up to its series, and the series are used or unused.
LEMMA TablesAddUp ==
  ASSUME Priced
  PROVE  UnitsIn(AllByMetric) = UnitsIn(UnusedByMetric) + UnitsOfAll(Used)
  <1> DEFINE unusedRow == [name \in Names(Unused) |-> UnusedRow(name)]
             allRow == [name \in Names(Catalog) |-> AllRow(name)]
  <1>1. /\ \A name \in Names(Unused) : unusedRow[name].metric = name
        /\ \A name \in Names(Unused) :
             unusedRow[name].units = UnitsOfAll(ShownAs(Unused, name))
        /\ \A name \in Names(Catalog) : allRow[name].metric = name
        /\ \A name \in Names(Catalog) :
             allRow[name].units = UnitsOfAll(ShownAs(Catalog, name))
    BY UnusedRowHas DEF AllRow
  <1>2. /\ UnusedByMetric = {unusedRow[name] : name \in Names(Unused)}
        /\ AllByMetric = {allRow[name] : name \in Names(Catalog)}
    BY UnusedRowsAre, AllRowsAre
  <1>3. /\ Unused \in SUBSET Catalog /\ Used \in SUBSET Catalog /\ Catalog \in SUBSET Catalog
        /\ Unused \cap Used = {} /\ Catalog = Unused \cup Used
    BY RollupAssumption DEF Unused
  <1> HIDE DEF unusedRow, allRow
  <1>4. UnitsIn(UnusedByMetric) = UnitsOfAll(Unused)
    BY <1>1, <1>2, <1>3, TableAddsUp
  <1>5. UnitsIn(AllByMetric) = UnitsOfAll(Catalog)
    <2>1. Catalog \in SUBSET Catalog
      OBVIOUS
    <2>2. \A name \in Names(Catalog) : allRow[name].metric = name
      BY <1>1
    <2>3. \A name \in Names(Catalog) : allRow[name].units = UnitsOfAll(ShownAs(Catalog, name))
      BY <1>1
    <2>4. AllByMetric = {allRow[name] : name \in Names(Catalog)}
      BY <1>2
    <2> QED BY <2>1, <2>2, <2>3, <2>4, TableAddsUp
  <1>6. UnitsOfAll(Unused \cup Used) = UnitsOfAll(Unused) + UnitsOfAll(Used)
    BY <1>3, UnitsSplit
  <1> QED BY <1>3, <1>4, <1>5, <1>6

\* For every catalog and everything billed, in every state: the savings on
\* the first page are what the dropped metrics cost in the table of all
\* metrics, and what is unused costs the rest of what is used.
THEOREM SavingsAreOne == Spec => []SavingsAgree
  <1>1. Priced => SavingsAgree
    <2> SUFFICES ASSUME Priced PROVE SavingsAgree OBVIOUS
    <2>1. /\ Headline.units = UnitsIn(UnusedByMetric)
          /\ Headline.dropUnits = UnitsIn(DroppedUnused)
          /\ Headline.dropSeries = SumFunction([r \in DroppedUnused |-> r.unused])
          /\ Headline.dropped = Cardinality(Dropped)
      BY DEF Headline, DroppedUnused, Dropped
    <2> QED BY <2>1, TablesAddUp, DroppedAgree DEF SavingsAgree, DroppedAll, Dropped
  <1> QED BY <1>1, PricedHolds, PTL

-----------------------------------------------------------------------------
\* The variations of a metric that some of its series get a part of: how many
\* do, what was billed of each, and what the parts come to.
Keys(m) == {LabelsOf[s] : s \in Billable(m)}

Size(m) == [k \in Keys(m) |-> Cardinality(Group(m, k))]

Due(m) == [k \in Keys(m) |-> UnitsOf[m][k]]

Given(m) == [k \in Keys(m) |-> Size(m)[k] * Part(Due(m)[k], Size(m)[k])]

\* Every one of them has a series.
LEMMA KeysAre ==
  ASSUME NEW m \in Metrics
  PROVE  /\ Billable(m) \in SUBSET Catalog /\ IsFiniteSet(Keys(m))
         /\ \A s \in Billable(m) : LabelsOf[s] \in Keys(m)
         /\ \A k \in Keys(m) : /\ Group(m, k) = {s \in Billable(m) : LabelsOf[s] = k}
                               /\ Size(m)[k] \in Nat \ {0}
                               /\ Due(m)[k] \in Int
                               /\ k \in DOMAIN UnitsOf[m]
  <1> DEFINE labels == [s \in Billable(m) |-> LabelsOf[s]]
             K == Keys(m)
  <1>1. Billable(m) \in SUBSET Catalog
    BY CatalogFinite DEF Billable
  <1>2. K = {labels[s] : s \in Billable(m)}
    BY DEF Keys
  <1>3. IsFiniteSet(Billable(m))
    BY <1>1, CatalogFinite
  <1>4. IsFiniteSet(K)
    <2> HIDE DEF labels, K
    <2> QED BY <1>2, <1>3, FiniteImage
  <1>5. ASSUME NEW k \in K
        PROVE  /\ k \in DOMAIN UnitsOf[m]
               /\ Group(m, k) = {s \in Billable(m) : LabelsOf[s] = k}
               /\ Group(m, k) # {}
    BY DEF Keys, Billable, Group
  <1>6. ASSUME NEW k \in K PROVE Size(m)[k] \in Nat \ {0}
    <2>1. IsFiniteSet(Group(m, k)) /\ Cardinality(Group(m, k)) \in Nat
      BY CatalogFinite
    <2>2. Cardinality(Group(m, k)) # 0
      BY <1>5, <2>1, FS_EmptySet
    <2> QED BY <2>1, <2>2 DEF Size
  <1>7. \A k \in K : Due(m)[k] \in Int
    BY <1>5, VariationBilled DEF Due
  <1> QED BY <1>1, <1>4, <1>5, <1>6, <1>7 DEF Keys

\* The series of the variations are all that are billed.
LEMMA SizesAddUp ==
  ASSUME NEW m \in Metrics
  PROVE  SumFunctionOnSet(Size(m), Keys(m)) = Cardinality(Billable(m))
  <1> DEFINE one == [s \in Billable(m) |-> 1]
             labels == [s \in Billable(m) |-> LabelsOf[s]]
             part == [k \in Keys(m) |-> Group(m, k)]
  <1>1. IsFiniteSet(Billable(m)) /\ IsFiniteSet(Keys(m)) /\ Cardinality(Billable(m)) \in Nat
    BY KeysAre, CatalogFinite
  <1>2. \A s \in Billable(m) : labels[s] \in Keys(m)
    BY KeysAre
  <1>3. \A k \in Keys(m) : part[k] = {s \in Billable(m) : labels[s] = k}
    BY KeysAre
  <1>4. (\A s \in Billable(m) : one[s] = 1) /\ (\A s \in Billable(m) : one[s] \in Int)
    OBVIOUS
  <1>5. ASSUME NEW k \in Keys(m) PROVE Size(m)[k] = SumFunctionOnSet(one, part[k])
    <2>1. part[k] = Group(m, k) /\ IsFiniteSet(part[k]) /\ Cardinality(part[k]) \in Nat
      BY CatalogFinite
    <2>2. \A s \in part[k] : one[s] = 1
      BY <1>3
    <2> HIDE DEF one, part
    <2>3. SumFunctionOnSet(one, part[k]) = 1 * Cardinality(part[k])
      BY <2>1, <2>2, SumConstant
    <2> QED BY <2>1, <2>3 DEF Size
  <1> HIDE DEF one, labels, part
  <1>6. SumFunctionOnSet(Size(m), Keys(m)) = SumFunctionOnSet(one, Billable(m))
    BY <1>1, <1>2, <1>3, <1>4, <1>5, SumByClass
  <1>7. SumFunctionOnSet(one, Billable(m)) = 1 * Cardinality(Billable(m))
    BY <1>1, <1>4, SumConstant
  <1> QED BY <1>1, <1>6, <1>7

\* What was billed of them is all that can be attributed.
LEMMA DueAddsUp ==
  ASSUME NEW m \in Metrics
  PROVE  SumFunctionOnSet(Due(m), Keys(m)) = Attributable(m)
  <1> DEFINE rows == {r \in Billed[m] : \E s \in SeriesOf[m] : DOMAIN s = VariationKey(r)}
             units == [r \in rows |-> r.units]
             key == [r \in rows |-> VariationKey(r)]
             part == [k \in Keys(m) |-> {r \in Billed[m] : VariationKey(r) = k}]
  <1>1. Attributable(m) = UnitsIn(rows)
    BY DEF Attributable, VariationKey
  <1>2. UnitsIn(rows) = SumFunctionOnSet(units, rows)
    BY UnitsInIs
  <1>3. IsFiniteSet(rows) /\ IsFiniteSet(Keys(m))
    BY RollupAssumption, FS_Subset, KeysAre
  <1>4. \A r \in rows : units[r] \in Int
    BY RollupAssumption
  <1>5. ASSUME NEW r \in rows PROVE key[r] \in Keys(m)
    <2>1. PICK s \in SeriesOf[m] : DOMAIN s = VariationKey(r)
      OBVIOUS
    <2>2. LabelsOf[s] = VariationKey(r)
      BY <2>1, CatalogFinite, LabelsOfIs
    <2>3. VariationKey(r) \in DOMAIN UnitsOf[m]
      BY VariationBilled
    <2> QED BY <2>2, <2>3 DEF Keys, Billable
  <1>6. ASSUME NEW k \in Keys(m) PROVE part[k] = {r \in rows : key[r] = k}
    <2>1. PICK s \in SeriesOf[m] : LabelsOf[s] = k
      BY DEF Keys, Billable
    <2>2. DOMAIN s = k
      BY <2>1, CatalogFinite, LabelsOfIs
    <2> QED BY <2>2
  <1>7. ASSUME NEW k \in Keys(m) PROVE Due(m)[k] = SumFunctionOnSet(units, part[k])
    <2> DEFINE some == [r \in part[k] |-> r.units]
    <2>1. Due(m)[k] = UnitsIn(part[k])
      BY KeysAre, VariationBilled DEF Due
    <2>2. UnitsIn(part[k]) = SumFunctionOnSet(some, part[k])
      BY UnitsInIs
    <2>3. \A r \in part[k] : some[r] = units[r]
      BY <1>6
    <2>4. IsFiniteSet(part[k])
      BY RollupAssumption, FS_Subset
    <2> HIDE DEF some, units, part
    <2> QED BY <2>1, <2>2, <2>3, <2>4, SumSame
  <1> HIDE DEF rows, units, key, part
  <1>8. SumFunctionOnSet(Due(m), Keys(m)) = SumFunctionOnSet(units, rows)
    BY <1>3, <1>4, <1>5, <1>6, <1>7, SumByClass
  <1> QED BY <1>1, <1>2, <1>8

\* A series that has a price has its metric's.
LEMMA PriceIs ==
  ASSUME Priced, NEW m \in Metrics, NEW s \in Billable(m), s \in DOMAIN bySeries
  PROVE  UnitsOfSeries(s) = Part(Due(m)[LabelsOf[s]], Size(m)[LabelsOf[s]])
  <1>1. PICK n \in Metrics : s \in Billable(n) /\ bySeries[s] = Share(n, s)
    BY DEF Priced
  <1>2. n = m
    BY <1>1, EnrichAssumption DEF Billable
  <1>3. LabelsOf[s] \in Keys(m)
    BY KeysAre
  <1> QED BY <1>1, <1>2, <1>3 DEF UnitsOfSeries, Share, Due, Size

\* What the parts come to is what the priced series are shown with.
LEMMA GivenAddsUp ==
  ASSUME Priced, NEW m \in Metrics, SeriesOf[m] \cap DOMAIN bySeries = Billable(m)
  PROVE  SumFunctionOnSet(Given(m), Keys(m)) = UnitsOfAll(SeriesOf[m])
  <1> DEFINE units == [s \in Billable(m) |-> UnitsOfSeries(s)]
             labels == [s \in Billable(m) |-> LabelsOf[s]]
             part == [k \in Keys(m) |-> Group(m, k)]
  <1>1. IsFiniteSet(Billable(m)) /\ IsFiniteSet(Keys(m))
    BY KeysAre, CatalogFinite
  <1>2. \A s \in Billable(m) : labels[s] \in Keys(m)
    BY KeysAre
  <1>3. \A k \in Keys(m) : part[k] = {s \in Billable(m) : labels[s] = k}
    BY KeysAre
  <1>4. \A s \in Billable(m) : units[s] \in Int
    BY UnitsAreInt
  <1>5. ASSUME NEW k \in Keys(m) PROVE Given(m)[k] = SumFunctionOnSet(units, part[k])
    <2> DEFINE c == Part(Due(m)[k], Size(m)[k])
    <2>1. part[k] = Group(m, k) /\ IsFiniteSet(part[k]) /\ Cardinality(part[k]) \in Nat
      BY CatalogFinite
    <2>2. ASSUME NEW s \in part[k] PROVE units[s] = c
      <3>1. s \in Billable(m) /\ LabelsOf[s] = k /\ s \in DOMAIN bySeries
        BY <1>3
      <3>2. UnitsOfSeries(s) = Part(Due(m)[LabelsOf[s]], Size(m)[LabelsOf[s]])
        BY <3>1, PriceIs
      <3> QED BY <3>1, <3>2
    <2>3. c \in Int
      BY KeysAre, PartLoses
    <2>4. Given(m)[k] = Cardinality(part[k]) * c
      BY <2>1 DEF Given, Size
    <2> HIDE DEF units, part, c
    <2>5. SumFunctionOnSet(units, part[k]) = c * Cardinality(part[k])
      BY <2>1, <2>2, <2>3, SumConstant
    <2>6. c * Cardinality(part[k]) = Cardinality(part[k]) * c
      BY <2>1, <2>3
    <2> QED BY <2>4, <2>5, <2>6
  <1>6. UnitsOfAll(Billable(m)) = SumFunctionOnSet(units, Billable(m))
    BY UnitsOfAllIs
  <1> HIDE DEF units, labels, part
  <1>7. SumFunctionOnSet(Given(m), Keys(m)) = SumFunctionOnSet(units, Billable(m))
    BY <1>1, <1>2, <1>3, <1>4, <1>5, SumByClass
  <1> DEFINE B == Billable(m)
             rest == SeriesOf[m] \ B
  <1>8. /\ B \in SUBSET Catalog /\ rest \in SUBSET Catalog
        /\ B \cap rest = {} /\ SeriesOf[m] = B \cup rest /\ rest \cap DOMAIN bySeries = {}
    BY KeysAre, CatalogFinite DEF Billable
  <1>9. UnitsOfAll(B) \in Int
    BY <1>8, UnitsOfAllInt
  <1> HIDE DEF B, rest
  <1>10. UnitsOfAll(SeriesOf[m]) = UnitsOfAll(B) + UnitsOfAll(rest)
    BY <1>8, UnitsSplit
  <1>11. UnitsOfAll(rest) = 0
    BY <1>8, UnpricedAddNothing
  <1> QED BY <1>6, <1>7, <1>9, <1>10, <1>11 DEF B

\* Division by division, less is lost than there are series.
LEMMA DivisionsLose ==
  ASSUME Priced, NEW m \in Metrics, SeriesOf[m] # {},
         SeriesOf[m] \cap DOMAIN bySeries = Billable(m)
  PROVE  /\ UnitsOfAll(SeriesOf[m]) <= Attributable(m)
         /\ Attributable(m) - UnitsOfAll(SeriesOf[m]) < Cardinality(SeriesOf[m])
  <1> DEFINE K == Keys(m)
             size == Size(m)
             due == Due(m)
             given == Given(m)
             one == [k \in K |-> 1]
             lost == [k \in K |-> size[k] - 1]
             most == [k \in K |-> given[k] + lost[k]]
             B == Billable(m)
             S == SeriesOf[m]
  <1>1. IsFiniteSet(K)
    BY KeysAre
  <1>2. \A k \in K : size[k] \in Int /\ due[k] \in Int /\ given[k] \in Int
    BY KeysAre, PartLoses DEF Given
  <1>3. \A k \in K : given[k] <= due[k] /\ due[k] <= given[k] + (size[k] - 1)
    BY KeysAre, PartLoses DEF Given
  <1>4. /\ \A k \in K : one[k] = 1
        /\ \A k \in K : one[k] \in Int
        /\ \A k \in K : lost[k] \in Int
        /\ \A k \in K : most[k] \in Int
        /\ \A k \in K : size[k] = lost[k] + one[k]
        /\ \A k \in K : most[k] = given[k] + lost[k]
        /\ \A k \in K : due[k] <= most[k]
    BY <1>2, <1>3
  <1>5. /\ IsFiniteSet(S) /\ B \subseteq S
        /\ Cardinality(S) \in Nat /\ Cardinality(B) \in Nat /\ Cardinality(K) \in Nat
    BY <1>1, KeysAre, CatalogFinite, FS_CardinalityType DEF Billable
  <1>6. B = {} => K = {}
    BY DEF Keys
  <1>7. B # {} => K # {}
    BY DEF Keys
  <1> HIDE DEF K, size, due, given, one, lost, most, B, S
  <1>8. SumFunctionOnSet(given, K) <= SumFunctionOnSet(due, K)
    BY <1>1, <1>2, <1>3, SumAtMost
  <1>9. SumFunctionOnSet(due, K) <= SumFunctionOnSet(most, K)
    BY <1>1, <1>2, <1>4, SumAtMost
  <1>10. SumFunctionOnSet(most, K) = SumFunctionOnSet(given, K) + SumFunctionOnSet(lost, K)
    BY <1>1, <1>2, <1>4, SumPlus
  <1>11. SumFunctionOnSet(size, K) = SumFunctionOnSet(lost, K) + SumFunctionOnSet(one, K)
    BY <1>1, <1>2, <1>4, SumPlus
  <1>12. SumFunctionOnSet(one, K) = 1 * Cardinality(K)
    BY <1>1, <1>4, SumConstant
  <1>13. /\ SumFunctionOnSet(given, K) \in Int
         /\ SumFunctionOnSet(due, K) \in Int
         /\ SumFunctionOnSet(lost, K) \in Int
    BY <1>1, <1>2, <1>4, SumInt
  <1>14. SumFunctionOnSet(size, K) = Cardinality(B)
    BY SizesAddUp DEF size, K, B
  <1>15. SumFunctionOnSet(due, K) = Attributable(m)
    BY DueAddsUp DEF due, K
  <1>16. SumFunctionOnSet(given, K) = UnitsOfAll(S)
    BY GivenAddsUp DEF given, K, S
  <1>17. Cardinality(B) <= Cardinality(S)
    BY <1>5, FS_Subset
  <1>18. Cardinality(S) # 0
    BY <1>5, FS_EmptySet DEF S
  <1>19. K # {} => Cardinality(K) # 0
    BY <1>1, FS_EmptySet
  <1>20. B = {} => Cardinality(K) = 0 /\ Cardinality(B) = 0
    BY <1>6, FS_EmptySet
  <1>21. SumFunctionOnSet(lost, K) < Cardinality(S)
    BY <1>5, <1>7, <1>11, <1>12, <1>13, <1>14, <1>17, <1>18, <1>19, <1>20
  <1>22. SumFunctionOnSet(due, K) - SumFunctionOnSet(given, K) < Cardinality(S)
    BY <1>5, <1>9, <1>10, <1>13, <1>21
  <1> QED BY <1>8, <1>15, <1>16, <1>22 DEF S

\* The series shown as a metric are the metric's.
LEMMA ShownIsOf ==
  ASSUME NEW m \in Metrics, m \in Names(Catalog)
  PROVE  ShownAs(Catalog, m) = SeriesOf[m] /\ SeriesOf[m] # {}
  <1>1. m # "(unknown)" /\ m # ""
    BY RollupAssumption DEF Names, Shown, RowName
  <1>2. \A s \in Catalog : Shown(s) = m <=> LabelValue(s, NameLabel) = m
    BY <1>1 DEF Shown, RowName
  <1>3. SeriesOf[m] = {s \in Catalog : LabelValue(s, NameLabel) = m}
    BY SeriesOfIs DEF SeriesNamed
  <1>4. \E s \in Catalog : Shown(s) = m
    BY DEF Names
  <1> QED BY <1>2, <1>3, <1>4 DEF ShownAs

\* For every catalog, everything billed and every schedule: a result
\* attributes to a metric what was billed of its series, but for less than
\* one unit per series, and nothing to a metric whose lookup failed.
THEOREM TotalsAreBilled == Spec => []TotalsAddUp
  <1>1. Priced /\ AttemptsAddUp => TotalsAddUp
    <2> SUFFICES ASSUME Priced, AttemptsAddUp, verdict = "result",
                        NEW row \in AllByMetric, row.metric \in Metrics
                 PROVE  IF row.metric \in failures THEN row.units = 0
                        ELSE /\ row.units <= Attributable(row.metric)
                             /\ Attributable(row.metric) - row.units < row.count
      BY DEF TotalsAddUp
    <2>1. PICK m \in Names(Catalog) : row = AllRow(m)
      BY AllRowsAre
    <2>2. row.metric = m /\ m \in Metrics
      BY <2>1 DEF AllRow
    <2>3. ShownAs(Catalog, m) = SeriesOf[m] /\ SeriesOf[m] # {}
      BY <2>2, ShownIsOf
    <2>4. row.units = UnitsOfAll(SeriesOf[m]) /\ row.count = Cardinality(SeriesOf[m])
      BY <2>1, <2>3 DEF AllRow
    <2>5. SeriesOf[m] \cap DOMAIN bySeries = IF m \in failures THEN {} ELSE Billable(m)
      BY <2>2, <2>3 DEF AttemptsAddUp
    <2>6. CASE m \in failures
      BY <2>2, <2>4, <2>5, <2>6, CatalogFinite, UnpricedAddNothing
    <2>7. CASE m \notin failures
      BY <2>2, <2>3, <2>4, <2>5, <2>7, DivisionsLose
    <2> QED BY <2>6, <2>7
  <1> QED BY <1>1, PricedHolds, CoverageIsExact, PTL
=============================================================================
