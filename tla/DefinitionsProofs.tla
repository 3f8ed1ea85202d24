-------------------------- MODULE DefinitionsProofs --------------------------
(***************************************************************************)
(* For every list, number of attempts and base delay: a successful read    *)
(* with the cx command has every definition, and a command is given up at  *)
(* its last attempt; the API client's pages, however they are cut, hold    *)
(* every alert once; and each scan keeps its promise next to the other.    *)
(***************************************************************************)
EXTENDS Definitions, Sums

\* The bound on the attempts is a positive number.
LEMMA MaxAttemptsType == MaxAttempts \in Nat \ {0}
  BY CxAssumption DEF MaxAttempts

\* Before the k-th command the definitions of the first k - 1 ids are there.
Progress ==
  /\ next \in 0..(Len(Ids) + 1)
  /\ defs = SubSeq(Ids, 1, next - 1)
  /\ phase = "done" => next = Len(Ids) + 1
  /\ phase \in {"run", "pause"} => next <= Len(Ids)

\* A pause is only taken while an attempt is left; the pauses double.
Attempting ==
  /\ attempt \in 1..MaxAttempts
  /\ phase = "pause" => attempt < MaxAttempts
  /\ delay \in Nat
  /\ waited \in Nat
  /\ waited + BaseDelay = delay
  /\ failure = "transient" => phase = "failed" /\ attempt = MaxAttempts

\* Sequences of ids grow by the id that is read.
LEMMA NextDefinition ==
  ASSUME NEW k \in 1..Len(Ids)
  PROVE  Append(SubSeq(Ids, 1, k - 1), Ids[k]) = SubSeq(Ids, 1, k)
  <1>1. Ids \in Seq(STRING) BY CxAssumption
  <1> QED BY <1>1

\* A list without ids, and a list read to its end.
LEMMA WholeList == SubSeq(Ids, 1, Len(Ids)) = Ids /\ SubSeq(Ids, 1, 0) = <<>>
  <1>1. Ids \in Seq(STRING) BY CxAssumption
  <1> QED BY <1>1

\* A list that is read partly or not at all.
LEMMA NothingRead == SubSeq(Ids, 1, -1) = <<>>
  <1>1. Ids \in Seq(STRING) BY CxAssumption
  <1> QED BY <1>1

\* The definitions read so far are a prefix of the list in every state.
LEMMA ProgressHolds == Spec => []Progress
  <1>1. Init => Progress
    BY CxAssumption, NothingRead DEF Init, Progress
  <1>2. Progress /\ [Next]_vars => Progress'
    <2> SUFFICES ASSUME Progress, [Next]_vars PROVE Progress'
      OBVIOUS
    <2> USE CxAssumption DEF Progress, command
    <2>0. Len(Ids) \in Nat BY CxAssumption
    <2>1. CASE Listed
      BY <2>0, <2>1, NothingRead, WholeList DEF Listed, Proceed
    <2>2. CASE Got
      <3>1. next \in 1..Len(Ids) BY <2>0, <2>2 DEF Got
      <3>2. defs' = SubSeq(Ids, 1, next) BY <2>2, <3>1, NextDefinition DEF Got
      <3>3. next' = next + 1 /\ phase' = IF next = Len(Ids) THEN "done" ELSE "run"
        BY <2>2 DEF Got, Proceed
      <3>4. next' - 1 = next BY <3>1, <3>3
      <3> QED BY <2>0, <3>1, <3>2, <3>3, <3>4
    <2>3. CASE ListMalformed BY <2>3 DEF ListMalformed, Fail
    <2>4. CASE StopForCaller BY <2>4 DEF StopForCaller, Fail
    <2>5. CASE FailPermanently BY <2>5 DEF FailPermanently, Fail
    <2>6. CASE GiveUp BY <2>6 DEF GiveUp, Fail
    <2>7. CASE Pause BY <2>7 DEF Pause
    <2>8. CASE Resume BY <2>8 DEF Resume
    <2>9. CASE \E i \in DOMAIN Ids : Delete(Ids[i]) BY <2>9 DEF Delete
    <2>10. CASE Cancel BY <2>10 DEF Cancel
    <2>11. CASE UNCHANGED vars BY <2>11 DEF vars
    <2> QED
      BY <2>1, <2>2, <2>3, <2>4, <2>5, <2>6, <2>7, <2>8, <2>9, <2>10, <2>11
      DEF Next, Step, Over
  <1> QED BY <1>1, <1>2, PTL DEF Spec

\* The attempts are bounded and the pauses add up in every state.
LEMMA AttemptingHolds == Spec => []Attempting
  <1>1. Init => Attempting
    BY CxAssumption, MaxAttemptsType DEF Init, Attempting
  <1>2. Attempting /\ [Next]_vars => Attempting'
    <2> SUFFICES ASSUME Attempting, [Next]_vars PROVE Attempting'
      OBVIOUS
    <2> USE CxAssumption, MaxAttemptsType DEF Attempting, command
    <2>0. MaxAttempts' = MaxAttempts BY DEF MaxAttempts
    <2>1. CASE Listed BY <2>0, <2>1 DEF Listed, Proceed
    <2>2. CASE Got BY <2>0, <2>2 DEF Got, Proceed
    <2>3. CASE ListMalformed BY <2>0, <2>3 DEF ListMalformed, Fail
    <2>4. CASE StopForCaller BY <2>0, <2>4 DEF StopForCaller, Fail
    <2>5. CASE FailPermanently BY <2>0, <2>5 DEF FailPermanently, Fail
    <2>6. CASE GiveUp BY <2>0, <2>6 DEF GiveUp, Fail, RetriesLeft
    <2>7. CASE Pause BY <2>0, <2>7 DEF Pause, RetriesLeft
    <2>8. CASE Resume BY <2>0, <2>8 DEF Resume
    <2>9. CASE \E i \in DOMAIN Ids : Delete(Ids[i]) BY <2>0, <2>9 DEF Delete
    <2>10. CASE Cancel BY <2>0, <2>10 DEF Cancel
    <2>11. CASE UNCHANGED vars BY <2>0, <2>11 DEF vars
    <2> QED
      BY <2>1, <2>2, <2>3, <2>4, <2>5, <2>6, <2>7, <2>8, <2>9, <2>10, <2>11
      DEF Next, Step, Over
  <1> QED BY <1>1, <1>2, PTL DEF Spec

\* "A definition cannot be skipped": reading succeeds with all definitions
\* or it does not succeed.
THEOREM NoDefinitionSkipped == Spec => []AllOrNothing
  <1>1. Progress => AllOrNothing
    <2> SUFFICES ASSUME Progress, phase = "done" PROVE defs = Ids
      BY DEF AllOrNothing
    <2>0. Len(Ids) \in Nat BY CxAssumption
    <2>1. next - 1 = Len(Ids) BY <2>0 DEF Progress
    <2> QED BY <2>1, WholeList DEF Progress
  <1> QED BY <1>1, ProgressHolds, PTL

\* A transient failure is the source's only after the last attempt, and after
\* pauses that doubled.
THEOREM AttemptsExhausted == Spec => []ErrorIsEarned
  <1>1. Attempting => ErrorIsEarned BY DEF Attempting, ErrorIsEarned
  <1> QED BY <1>1, AttemptingHolds, PTL

-----------------------------------------------------------------------------
\* Next to a scan over the API the reader of the cx command takes no step that
\* it would not take alone.
THEOREM EachOnItsOwn == BothSpec => Spec
<1>1. BothInit => Init
  BY DEF BothInit
<1>2. [BothNext]_allVars => [Next]_vars
  BY DEF BothNext, ReadByCommand, ReadByPage, SomeoneDeletes, BothOver, Next, allVars, cxVars, vars, Api!Fetch, Api!Page, Api!FailPage
<1> QED
  BY <1>1, <1>2, PTL DEF BothSpec, Spec

\* So its promises hold next to the other scan.
THEOREM BothKeepPromises == BothSpec => []AllOrNothing /\ []ErrorIsEarned
  BY EachOnItsOwn, NoDefinitionSkipped, AttemptsExhausted, PTL

-----------------------------------------------------------------------------
\* The instance counts as this module does.
LEMMA SameCardinality == \A S : Api!Cardinality(S) = Cardinality(S)
  BY DEF Api!Cardinality, Cardinality

\* page lists S in increasing order.
Lists(page, S) ==
  /\ page \in [1..Cardinality(S) -> S]
  /\ \A j, k \in DOMAIN page : j < k => page[j] < page[k]

\* Every finite set of integers can be listed so: a member's place is the
\* number of members up to it.
LEMMA ListExists ==
  ASSUME NEW S \in SUBSET Int, IsFiniteSet(S)
  PROVE  \E page : Lists(page, S)
<1> DEFINE N == Cardinality(S)
           UpTo(i) == {j \in S : j <= i}
           rank == [i \in S |-> Cardinality(UpTo(i))]
<1>0. \A i \in S : i \in Int
  OBVIOUS
<1>1. N \in Nat
  BY FS_CardinalityType
<1>2. \A i \in S : IsFiniteSet(UpTo(i)) /\ rank[i] \in 1..N
  <2> TAKE i \in S
  <2>1. UpTo(i) \in SUBSET S /\ i \in UpTo(i)
    OBVIOUS
  <2>2. IsFiniteSet(UpTo(i)) /\ Cardinality(UpTo(i)) <= N /\ Cardinality(UpTo(i)) \in Nat
    <3> HIDE DEF UpTo
    <3> QED BY <2>1, FS_Subset, FS_CardinalityType
  <2>3. Cardinality(UpTo(i)) # 0
    <3> HIDE DEF UpTo
    <3> QED BY <2>1, <2>2, FS_EmptySet
  <2> QED BY <1>1, <2>2, <2>3
<1>3. \A i, j \in S : i < j => rank[i] < rank[j]
  <2> SUFFICES ASSUME NEW i \in S, NEW j \in S, i < j PROVE rank[i] < rank[j]
    OBVIOUS
  <2>1. UpTo(i) \in SUBSET UpTo(j) /\ j \in UpTo(j) /\ j \notin UpTo(i)
    <3>1. i \in Int /\ j \in Int
      BY <1>0
    <3>2. \A k \in S : k <= i => k <= j
      BY <1>0, <3>1
    <3>3. j <= j /\ ~(j <= i)
      BY <3>1
    <3>4. UpTo(i) \in SUBSET UpTo(j)
      BY <3>2
    <3> QED BY <3>3, <3>4
  <2>2. rank[i] <= rank[j] /\ rank[i] # rank[j]
    <3>1. IsFiniteSet(UpTo(j)) /\ rank[i] = Cardinality(UpTo(i)) /\ rank[j] = Cardinality(UpTo(j))
      BY <1>2
    <3> HIDE DEF UpTo, rank
    <3> QED BY <2>1, <3>1, FS_Subset
  <2>3. rank[i] \in Nat /\ rank[j] \in Nat
    BY <1>2
  <2> HIDE DEF rank
  <2> QED BY <2>2, <2>3
<1> HIDE DEF rank, N
<1> DEFINE places == {rank[i] : i \in S}
<1>4. \A i, j \in S : rank[i] = rank[j] => i = j
  <2> SUFFICES ASSUME NEW i \in S, NEW j \in S, rank[i] = rank[j], i # j PROVE FALSE
    OBVIOUS
  <2>1. i < j \/ j < i
    BY <1>0
  <2>2. rank[i] \in 1..N
    BY <1>2
  <2>3. rank[i] \in Int /\ rank[i] = rank[j]
    BY <2>2
  <2> QED BY <1>3, <2>1, <2>3
<1>5. places = 1..N
  <2>1. places \in SUBSET (1..N)
    BY <1>2
  <2>2. Cardinality(places) = N
    BY <1>4, FiniteImage DEF N
  <2>3. IsFiniteSet(1..N) /\ Cardinality(1..N) = N
    BY <1>1, FS_Interval
  <2> HIDE DEF places
  <2> QED BY <2>1, <2>2, <2>3, FS_Subset
<1> DEFINE page == [k \in 1..N |-> CHOOSE i \in S : rank[i] = k]
<1>6. \A k \in 1..N : page[k] \in S /\ rank[page[k]] = k
  BY <1>5
<1>7. page \in [1..N -> S]
  BY <1>6
<1> HIDE DEF page
<1>8. \A j, k \in 1..N : j < k => page[j] < page[k]
  <2> SUFFICES ASSUME NEW j \in 1..N, NEW k \in 1..N, j < k, ~(page[j] < page[k]) PROVE FALSE
    OBVIOUS
  <2>1. page[j] \in S /\ page[k] \in S /\ rank[page[j]] = j /\ rank[page[k]] = k
    BY <1>6
  <2>2. page[j] = page[k] \/ page[k] < page[j]
    <3>1. page[j] \in Int /\ page[k] \in Int
      BY <1>0, <2>1
    <3> QED BY <3>1
  <2>3. k = j \/ k < j
    BY <1>3, <2>1, <2>2
  <2> QED BY <1>1, <2>3
<1>9. Lists(page, S)
  BY <1>7, <1>8 DEF Lists, N
<1> QED BY <1>9

\* And nothing is left out of such a list.
LEMMA ListIsWhole ==
  ASSUME NEW S \in SUBSET Int, IsFiniteSet(S), NEW page, Lists(page, S)
  PROVE  S = {page[k] : k \in 1..Cardinality(S)}
<1> DEFINE N == Cardinality(S)
           T == {page[k] : k \in 1..N}
<1>1. N \in Nat /\ IsFiniteSet(1..N) /\ Cardinality(1..N) = N
  BY FS_CardinalityType, FS_Interval
<1>2. T \in SUBSET S
  BY DEF Lists
<1>3. \A j, k \in 1..N : page[j] = page[k] => j = k
  <2> SUFFICES ASSUME NEW j \in 1..N, NEW k \in 1..N, page[j] = page[k], j # k PROVE FALSE
    OBVIOUS
  <2>1. j < k \/ k < j
    BY <1>1
  <2>2. page[j] \in S
    BY DEF Lists
  <2>3. page[j] \in Int
    BY <2>2
  <2>4. ~(page[j] < page[j])
    BY <2>3
  <2> QED BY <2>1, <2>4 DEF Lists
<1> HIDE DEF N
<1>4. Cardinality(T) = N
  BY <1>1, <1>3, FiniteImage
<1> HIDE DEF T
<1>5. S = T
  BY <1>2, <1>4, FS_Subset DEF N
<1> QED BY <1>5 DEF T, N

Left(a, b) == {i \in (a + 1)..b : Api!Alive(i)}

\* page is the alerts between its places, in order.
PageOf(page, a, b) ==
  /\ page \in Seq(Int)
  /\ Len(page) \in Nat
  /\ \A k \in 1..Len(page) : page[k] \in Int /\ a < page[k] /\ page[k] <= b
  /\ \A j, k \in 1..Len(page) : j < k => page[j] < page[k]
  /\ \A i \in Left(a, b) : \E k \in 1..Len(page) : page[k] = i

\* A page holds the alerts between its places, once and in order.
LEMMA PageLists ==
  ASSUME NEW a \in Nat, NEW b \in Nat
  PROVE  PageOf(Api!Between(a, b), a, b)
<1> DEFINE page == Api!Between(a, b)
<1> DEFINE S == Left(a, b)
<1>1. S \in SUBSET Int /\ S \in SUBSET ((a + 1)..b) /\ IsFiniteSet(S)
  <2>1. S \in SUBSET ((a + 1)..b)
    BY DEF Left
  <2>2. IsFiniteSet((a + 1)..b) /\ (a + 1)..b \subseteq Int
    BY FS_Interval
  <2> HIDE DEF S
  <2> QED BY <2>1, <2>2, FS_Subset
<1>2. page = CHOOSE p : Lists(p, S)
  <2> DEFINE P(p) == /\ p \in [1..Cardinality(S) -> S]
                     /\ \A j, k \in DOMAIN p : j < k => p[j] < p[k]
  <2>1. Api!Between(a, b) = CHOOSE p \in [1..Cardinality(S) -> S] :
                              \A j, k \in DOMAIN p : j < k => p[j] < p[k]
    BY SameCardinality DEF Api!Between, Left
  <2> QED BY <2>1 DEF Lists
<1> HIDE DEF S, page
<1>3. Lists(page, S)
  BY <1>1, <1>2, ListExists
<1>4. Cardinality(S) \in Nat
  BY <1>1, FS_CardinalityType
<1>5. page \in Seq(S) /\ Len(page) = Cardinality(S) /\ DOMAIN page = 1..Len(page)
  BY <1>3, <1>4 DEF Lists
<1>6. \A k \in 1..Len(page) : page[k] \in Int /\ a < page[k] /\ page[k] <= b
  <2>1. \A k \in 1..Len(page) : page[k] \in S
    BY <1>5
  <2>2. \A k \in 1..Len(page) : page[k] \in (a + 1)..b
    BY <1>1, <2>1
  <2> QED BY <2>2
<1>8. page \in Seq(Int)
  BY <1>5, <1>6
<1>7. \A i \in S : \E k \in 1..Len(page) : page[k] = i
  BY <1>1, <1>3, <1>5, ListIsWhole
<1>9. Len(page) \in Nat
  BY <1>5
<1>10. \A j, k \in 1..Len(page) : j < k => page[j] < page[k]
  BY <1>3, <1>5 DEF Lists
<1>11. PageOf(page, a, b)
  BY <1>6, <1>7, <1>8, <1>9, <1>10 DEF PageOf, S
<1> QED BY <1>11 DEF page

\* What has been read is in order, ends at the place of the token and has
\* left out only what was deleted.
Ordered == \A j, k \in 1..Len(all) : j < k => all[j] < all[k]

Covers(b) == \A i \in 1..b : Api!Alive(i) => \E k \in 1..Len(all) : all[k] = i

Paged ==
  /\ token \in 0..Len(Ids)
  /\ all \in Seq(Int)
  /\ Ordered
  /\ outcome = "reading" => Covers(token) /\ \A k \in 1..Len(all) : all[k] <= token
  /\ outcome = "ok" => Covers(Len(Ids))

\* A page put behind what was read.
LEMMA PageAdds ==
  ASSUME Paged, outcome = "reading", NEW last \in token..Len(Ids),
         all' = all \o Api!Between(token, last), deleted' = deleted
  PROVE  /\ all' \in Seq(Int)
         /\ Ordered'
         /\ Covers(last)'
         /\ \A k \in 1..Len(all') : all'[k] <= last
<1>0. Len(Ids) \in Nat /\ token \in Nat /\ last \in Nat /\ token <= last
  BY CxAssumption DEF Paged
<1>1. PICK page : page = Api!Between(token, last)
  OBVIOUS
<1>2. PageOf(page, token, last)
  BY <1>0, <1>1, PageLists
<1> DEFINE n == Len(all)
           m == Len(page)
<1>3. all \in Seq(Int) /\ n \in Nat /\ \A k \in 1..n : all[k] \in Int /\ all[k] <= token
  BY DEF Paged
<1>4. m \in Nat /\ \A k \in 1..m : page[k] \in Int /\ token < page[k] /\ page[k] <= last
  BY <1>2 DEF PageOf
<1>5. page \in Seq(Int)
  BY <1>2 DEF PageOf
<1>6. /\ all' \in Seq(Int) /\ Len(all') = n + m
      /\ \A k \in 1..n : all'[k] = all[k]
      /\ \A k \in 1..m : all'[n + k] = page[k]
  BY <1>1, <1>3, <1>5
<1>7. \A k \in 1..(n + m) : k \in 1..n \/ (k - n \in 1..m /\ k = n + (k - n))
  BY <1>3, <1>4
<1> HIDE DEF n, m
<1>8. \A k \in 1..(n + m) : IF k \in 1..n THEN all'[k] = all[k]
                            ELSE k - n \in 1..m /\ all'[k] = page[k - n]
  BY <1>6, <1>7
<1>9. \A k \in 1..(n + m) : all'[k] <= last
  <2> TAKE k \in 1..(n + m)
  <2>1. CASE k \in 1..n
    <3>1. all'[k] = all[k] /\ all[k] \in Int /\ all[k] <= token
      BY <1>3, <1>8, <2>1
    <3> QED BY <1>0, <3>1
  <2>2. CASE k \notin 1..n
    BY <1>4, <1>8, <2>2
  <2> QED BY <2>1, <2>2
<1>10. Ordered'
  <2> SUFFICES ASSUME NEW j \in 1..(n + m), NEW k \in 1..(n + m), j < k
               PROVE  all'[j] < all'[k]
    BY <1>6 DEF Ordered
  <2>1. CASE j \in 1..n /\ k \in 1..n
    BY <1>8, <2>1 DEF Paged, Ordered, n
  <2>2. CASE j \in 1..n /\ k \notin 1..n
    <3>1. /\ all'[j] \in Int /\ all'[j] <= token
          /\ all'[k] \in Int /\ token < all'[k]
      BY <1>3, <1>4, <1>8, <2>2
    <3>2. \A x, y, z \in Int : x <= y /\ y < z => x < z
      OBVIOUS
    <3>3. token \in Int
      BY <1>0
    <3> QED BY <3>1, <3>2, <3>3
  <2>3. CASE j \notin 1..n /\ k \notin 1..n
    <3>1. j - n \in 1..m /\ k - n \in 1..m /\ all'[j] = page[j - n] /\ all'[k] = page[k - n]
      BY <1>8, <2>3
    <3>2. j - n < k - n
      BY <1>3, <1>4
    <3> QED BY <1>2, <3>1, <3>2 DEF m, PageOf
  <2>4. ~(j \notin 1..n /\ k \in 1..n)
    BY <1>3, <1>4
  <2> QED BY <2>1, <2>2, <2>3, <2>4
<1>11. Covers(last)'
  <2>0. \A i : Api!Alive(i)' <=> Api!Alive(i)
    BY DEF Api!Alive
  <2> SUFFICES ASSUME NEW i \in 1..last, Api!Alive(i)
               PROVE  \E k \in 1..(n + m) : all'[k] = i
    BY <1>6, <2>0 DEF Covers
  <2>1. CASE i <= token
    <3>1. i \in 1..token
      BY <1>0, <2>1
    <3>2. PICK k \in 1..n : all[k] = i
      BY <3>1 DEF Paged, Covers, n
    <3>3. k \in 1..(n + m)
      BY <1>3, <1>4
    <3> QED BY <1>6, <3>2, <3>3
  <2>2. CASE ~(i <= token)
    <3>1. i \in Left(token, last)
      BY <1>0, <2>2 DEF Left
    <3>2. PICK k \in 1..m : page[k] = i
      BY <1>2, <3>1 DEF m, PageOf
    <3>3. n + k \in 1..(n + m)
      BY <1>3, <1>4
    <3> QED BY <1>6, <3>2, <3>3
  <2> QED BY <2>1, <2>2
<1> QED BY <1>6, <1>9, <1>10, <1>11

\* Every page keeps the alerts before the token listed once,
LEMMA PageKeeps == Paged /\ Api!Page => Paged'
<1> SUFFICES ASSUME Paged, Api!Page PROVE Paged'
  OBVIOUS
<1>0. Len(Ids) \in Nat /\ token \in 0..Len(Ids) /\ outcome = "reading" /\ deleted' = deleted
  BY CxAssumption DEF Paged, Api!Page
<1>1. PICK last \in token..Len(Ids) :
        /\ all' = all \o Api!Between(token, last)
        /\ \/ Api!Between(last, Len(Ids)) = <<>> /\ outcome' = "ok" /\ token' = token
           \/ last > token /\ token' = last /\ outcome' = outcome
  BY DEF Api!Page
<1>2. all' \in Seq(Int) /\ Ordered' /\ Covers(last)' /\ \A k \in 1..Len(all') : all'[k] <= last
  BY <1>0, <1>1, PageAdds
<1>3. last \in 0..Len(Ids)
  BY <1>0
<1>4. CASE token' = last /\ outcome' = outcome
  <2>1. Covers(token)'
    BY <1>2, <1>4 DEF Covers
  <2> QED BY <1>0, <1>2, <1>3, <1>4, <2>1 DEF Paged
<1>5. CASE Api!Between(last, Len(Ids)) = <<>> /\ outcome' = "ok" /\ token' = token
  <2>1. PICK page : page = Api!Between(last, Len(Ids))
    OBVIOUS
  <2>2. PageOf(page, last, Len(Ids)) /\ page = <<>>
    BY <1>0, <1>3, <1>5, <2>1, PageLists
  <2>3. 1..Len(page) = {}
    BY <2>2
  <2>4. \A i \in Left(last, Len(Ids)) : FALSE
    BY <2>2, <2>3 DEF PageOf
  <2>5. \A i \in 1..Len(Ids) : Api!Alive(i) => i \in 1..last
    BY <1>0, <1>3, <2>4 DEF Left
  <2>6. \A i : Api!Alive(i)' <=> Api!Alive(i)
    BY <1>0 DEF Api!Alive
  <2>7. Covers(Len(Ids))'
    BY <1>2, <2>5, <2>6 DEF Covers
  <2> QED BY <1>0, <1>2, <1>5, <2>7 DEF Paged
<1> QED BY <1>1, <1>4, <1>5

\* so they are at all times.
LEMMA PagedHolds == BothSpec => []Paged
<1>1. BothInit => Paged
  <2> SUFFICES ASSUME BothInit PROVE Paged
    OBVIOUS
  <2>1. token = 0 /\ all = <<>> /\ outcome = "reading" /\ Len(Ids) \in Nat
    BY CxAssumption DEF BothInit, Api!Init
  <2>2. 1..Len(all) = {} /\ 1..token = {} /\ all \in Seq(Int)
    BY <2>1
  <2> QED BY <2>1, <2>2 DEF Paged, Ordered, Covers
<1>2. Paged /\ [BothNext]_allVars => Paged'
  <2> SUFFICES ASSUME Paged, [BothNext]_allVars PROVE Paged'
    OBVIOUS
  <2>1. CASE Api!Page
    BY <2>1, PageKeeps
  <2>2. CASE Api!FailPage
    <3>1. token' = token /\ outcome' = "error" /\ all' = <<>> /\ token \in 0..Len(Ids)
      BY <2>2 DEF Api!FailPage, Paged
    <3>2. all' \in Seq(Int) /\ 1..Len(all') = {}
      BY <3>1
    <3> QED BY <3>1, <3>2 DEF Paged, Ordered
  <2>3. CASE UNCHANGED apiVars /\ deleted \subseteq deleted'
    <3>1. \A i : Api!Alive(i)' => Api!Alive(i)
      BY <2>3 DEF Api!Alive
    <3>3. Ordered'
      BY <2>3 DEF Paged, Ordered, apiVars
    <3>4. token' = token /\ all' = all /\ outcome' = outcome
      BY <2>3 DEF apiVars
    <3>5. Covers(token) => Covers(token)'
      BY <3>1, <3>4 DEF Covers
    <3>6. Covers(Len(Ids)) => Covers(Len(Ids))'
      BY <3>1, <3>4 DEF Covers
    <3> QED BY <3>3, <3>4, <3>5, <3>6 DEF Paged
  <2>4. Api!Page \/ Api!FailPage \/ (UNCHANGED apiVars /\ deleted \subseteq deleted')
    BY DEF BothNext, ReadByCommand, ReadByPage, Api!Fetch, SomeoneDeletes, BothOver, allVars, vars,
           Step, Listed, Got, ListMalformed, StopForCaller, FailPermanently, GiveUp, Pause, Resume,
           Fail, Cancel, Delete
  <2> QED BY <2>1, <2>2, <2>3, <2>4
<1> QED BY <1>1, <1>2, PTL DEF BothSpec

\* However the pages are cut and whatever is deleted meanwhile, the API client
\* returns every alert that was there all the time, and none twice, for every
\* number of alerts and every page size.
THEOREM AlertsReadOnce == BothSpec => []EveryAlertOnce
<1>1. Paged => EveryAlertOnce
  <2> SUFFICES ASSUME Paged PROVE EveryAlertOnce
    OBVIOUS
  <2>1. DOMAIN Ids = 1..Len(Ids) /\ DOMAIN all = 1..Len(all)
    BY CxAssumption DEF Paged
  <2> QED BY <2>1 DEF Paged, Ordered, Covers, EveryAlertOnce, Api!EveryAlertOnce
<1> QED BY <1>1, PagedHolds, PTL
=============================================================================
