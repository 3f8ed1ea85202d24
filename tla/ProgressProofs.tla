--------------------------- MODULE ProgressProofs ---------------------------
(* Whoever interns a string gets the one copy, and the status line tells    *)
(* the truth, for any number of goroutines.                                 *)
EXTENDS Progress, FiniteSetTheorems, TLAPS

-----------------------------------------------------------------------------
\* Every copy handed out is the table's: OneCopy alone says nothing of a
\* string that nobody has got back yet.
TableInv ==
  /\ Table!TypeOK
  /\ \A w \in Workers : \A s \in Strings : held[w][s] \in {None, table[s]}

\* Initially nothing is handed out.
LEMMA TableInit == Table!Init => TableInv
BY DEF Table!Init, TableInv, Table!TypeOK

\* A look or a store hands out what the table has afterwards.
LEMMA TableStep == TableInv /\ [Table!Next]_internVars => TableInv'
<1> SUFFICES ASSUME TableInv, [Table!Next]_internVars PROVE TableInv'
  OBVIOUS
<1> USE DEF TableInv, Table!TypeOK
<1>1. ASSUME NEW w \in Workers, NEW s \in Strings, Table!Hit(w, s) PROVE TableInv'
  BY <1>1 DEF Table!Hit, Table!Asks, Table!Keep
<1>2. ASSUME NEW w \in Workers, NEW s \in Strings, Table!Miss(w, s) PROVE TableInv'
  BY <1>2 DEF Table!Miss, Table!Asks
<1>3. ASSUME NEW w \in Workers, NEW s \in Strings, Table!Store(w, s) PROVE TableInv'
  <2>1. table' \in [Strings -> Workers \cup {None}] /\ table'[s] \in Workers \cup {None}
    BY <1>3 DEF Table!Store
  <2>2. \A t \in Strings : table[t] # None => table'[t] = table[t]
    BY <1>3 DEF Table!Store
  <2>3. held' \in [Workers -> [Strings -> Workers \cup {None}]]
    BY <1>3, <2>1 DEF Table!Store, Table!Keep
  <2>4. missed' \in [Workers -> SUBSET Strings]
    BY <1>3 DEF Table!Store
  <2>5. ASSUME NEW v \in Workers, NEW t \in Strings PROVE held'[v][t] \in {None, table'[t]}
    BY <1>3, <2>2, <2>5 DEF Table!Store, Table!Keep
  <2>6. QED
    BY <2>1, <2>3, <2>4, <2>5
<1>4. CASE UNCHANGED internVars
  BY <1>4 DEF internVars
<1>5. QED
  BY <1>1, <1>2, <1>3, <1>4 DEF Table!Next, Table!Call, Table!Over, Table!vars, internVars

\* Only InternLabels touches the table, by a call of it.
LEMMA StepOfTable == [Next]_vars => [Table!Next]_internVars
BY DEF Next, vars, internVars, Step, Answered, Note, Leave, InternLabels, Merge, Count, Draw,
       Correlate, Abort, Return, Over, Table!Next

\* The table keeps its invariant beside the rest of a goroutine's work.
LEMMA TableAlways == Spec => []TableInv
<1>1. Init => TableInv
  BY TableInit DEF Init
<1>2. QED
  BY <1>1, StepOfTable, TableStep, PTL DEF Spec

\* All goroutines that have a string have the same copy of it.
THEOREM SameCopy == Spec => []OneCopy
<1>1. TableInv => OneCopy
  BY DEF TableInv, OneCopy, Table!OneCopy
<1>2. QED
  BY <1>1, TableAlways, PTL

\* The table never replaces a copy.
THEOREM CopiesStay == Spec => Table!SetOnce
<1>1. TableInv /\ [Table!Next]_internVars
        => [\A s \in Strings : table[s] # None => table'[s] = table[s]]_internVars
  BY DEF TableInv, Table!TypeOK, Table!Next, Table!Call, Table!Hit, Table!Miss,
         Table!Store, Table!Over, Table!vars, internVars
<1>2. Table!SetOnce <=>
        [][\A s \in Strings : table[s] # None => table'[s] = table[s]]_internVars
  BY DEF Table!SetOnce, Table!vars, internVars
<1>3. QED
  BY <1>1, <1>2, StepOfTable, TableAlways, PTL DEF Spec
-----------------------------------------------------------------------------
Counted == {w \in Workers : stage[w] \in {"draw", "over"}}
Drawn   == {w \in Workers : stage[w] = "over"}

LineTyped ==
  /\ stage \in [Workers -> {"fetch", "intern", "count", "draw", "over", "left"}]
  /\ done \in [Workers -> Nat]
  /\ metricsDone \in Nat
  /\ log \in Seq(Nat)
  /\ run \in {"fetch", "correlate", "returned"}

\* Each goroutine got a number of its own, and the latest is with one of them.
Numbered ==
  /\ metricsDone = Cardinality(Counted)
  /\ \A w \in Counted : done[w] \in 1..metricsDone
  /\ \A v, w \in Counted : done[v] = done[w] => v = w
  /\ metricsDone > 0 => \E w \in Counted : done[w] = metricsDone

\* A log has 0 or numbers that were drawn, none twice, and the last of them as
\* soon as it is drawn, however the others are throttled.
Logged ==
  ~interactive =>
    /\ Total = 0 => \E i \in DOMAIN log : log[i] = Total
    /\ \A i \in DOMAIN log : log[i] = 0 \/ \E w \in Drawn : log[i] = done[w]
    /\ \A i, j \in DOMAIN log : log[i] = log[j] => i = j
    /\ \A w \in Drawn : done[w] = Total => \E i \in DOMAIN log : log[i] = Total

\* Nobody is left to draw when Run goes on.
Followed ==
  /\ run # "fetch" => Waited
  /\ interactive /\ run = "correlate" => screen = <<"correlating">>
  /\ interactive /\ run = "returned" => screen = <<>>

LineInv == LineTyped /\ Numbered /\ Logged /\ Followed

\* The parts of the state the line depends on.
lineState == <<stage, done, metricsDone, interactive, lastPct, log, screen, run>>

\* The sets of goroutines are finite.
LEMMA CountedFinite == IsFiniteSet(Counted)
BY FS_Subset, ProgressAssumption DEF Counted

\* Nothing is counted at first and the log has a 0 if that is all there is.
LEMMA LineInit == Init => LineInv
<1> SUFFICES ASSUME Init PROVE LineInv
  OBVIOUS
<1>1. Counted = {} /\ Drawn = {}
  BY DEF Init, Counted, Drawn
<1>2. LineTyped
  <2>1. log = <<>> \/ log = <<0>>
    BY DEF Init
  <2>2. log \in Seq(Nat)
    <3>1. <<>> \in Seq(Nat) /\ <<0>> \in Seq(Nat)
      OBVIOUS
    <3>2. QED
      BY <2>1, <3>1
  <2>3. QED
    BY <2>2 DEF Init, LineTyped
<1>3. Numbered
  BY <1>1, FS_EmptySet DEF Init, Numbered
<1>4. Logged /\ Followed
  BY <1>1 DEF Init, Logged, Followed
<1>5. QED
  BY <1>2, <1>3, <1>4 DEF LineInv

\* What comes before the count moves a goroutine that is not counted yet, while
\* Run still waits for it.
LEMMA LineEarly ==
  ASSUME LineInv, NEW w \in Workers,
         Answered(w) \/ Note(w) \/ Leave(w) \/ InternLabels(w) \/ Merge(w)
  PROVE  LineInv'
<1>1. /\ UNCHANGED <<done, metricsDone, interactive, lastPct, log, screen, run>>
      /\ \/ InternLabels(w) /\ stage' = stage
         \/ /\ stage[w] \in {"fetch", "intern"}
            /\ \E to \in {"intern", "count", "left"} : Goto(w, to)
  BY DEF Answered, Note, Leave, InternLabels, Merge, lineVars
<1>2. CASE stage' = stage
  BY <1>1, <1>2 DEF LineInv, LineTyped, Numbered, Logged, Followed, Waited, Counted, Drawn, Total
<1>3. ASSUME NEW to \in {"intern", "count", "left"}, Goto(w, to), stage[w] \in {"fetch", "intern"}
      PROVE  LineInv'
  <2>1. Counted' = Counted /\ Drawn' = Drawn
    BY <1>3 DEF Goto, LineInv, LineTyped, Counted, Drawn
  <2>2. LineTyped'
    BY <1>1, <1>3 DEF Goto, LineInv, LineTyped
  <2>3. run = "fetch"
    BY <1>3 DEF LineInv, Followed, Waited
  <2>4. QED
    BY <1>1, <2>1, <2>2, <2>3 DEF LineInv, Numbered, Logged, Followed, Total
<1>4. QED
  BY <1>1, <1>2, <1>3

\* The one that counts gets a number nobody had.
LEMMA LineCount ==
  ASSUME LineInv, NEW w \in Workers, Count(w)
  PROVE  LineInv'
<1> USE DEF LineInv, LineTyped
<1>1. w \notin Counted /\ Counted' = Counted \cup {w} /\ Drawn' = Drawn /\ w \notin Drawn
  BY DEF Count, Goto, Counted, Drawn
<1>2. Cardinality(Counted') = Cardinality(Counted) + 1
  BY <1>1, CountedFinite, FS_AddElement
<1>3. /\ done'[w] = metricsDone + 1
      /\ metricsDone' = metricsDone + 1
      /\ \A v \in Workers : v # w => done'[v] = done[v]
  BY DEF Count
<1>4. Numbered'
  <2>1. Counted \subseteq Workers
    BY DEF Counted
  <2>2. metricsDone' = Cardinality(Counted')
    BY <1>2, <1>3 DEF Numbered
  <2>3. \A v \in Counted' : done'[v] \in 1..metricsDone'
    BY <1>1, <1>3, <2>1 DEF Numbered
  <2>4. \A v \in Counted : done'[v] = done[v] /\ done[v] # done'[w]
    BY <1>1, <1>3, <2>1 DEF Numbered
  <2>5. \A u, v \in Counted' : done'[u] = done'[v] => u = v
    BY <1>1, <2>4 DEF Numbered
  <2>6. QED
    BY <1>1, <1>3, <2>2, <2>3, <2>5 DEF Numbered
<1>5. LineTyped'
  BY DEF Count, Goto, lineVars
<1>6. Logged'
  BY <1>1, <1>3 DEF Count, lineVars, Logged, Drawn, Total
<1>7. Followed'
  BY DEF Count, lineVars, Followed, Waited
<1>8. QED
  BY <1>4, <1>5, <1>6, <1>7

\* A number is logged by the only goroutine that has it.
LEMMA LineDraw ==
  ASSUME LineInv, NEW w \in Workers, Draw(w)
  PROVE  LineInv'
<1> USE DEF LineInv, LineTyped
<1>1. /\ w \in Counted /\ w \notin Drawn /\ Counted' = Counted /\ Drawn' = Drawn \cup {w}
      /\ UNCHANGED <<done, metricsDone, interactive, run>>
  BY DEF Draw, Goto, Counted, Drawn
<1>2. \/ ~interactive /\ log' = Append(log, done[w])
      \/ UNCHANGED log /\ (interactive \/ done[w] # Total)
  BY DEF Draw, Bar, lineVars
<1>3. LineTyped'
  <2>1. CASE UNCHANGED log
    BY <1>1, <2>1 DEF Draw, Goto
  <2>2. CASE log' = Append(log, done[w])
    <3>1. done[w] \in Nat
      OBVIOUS
    <3>2. log' \in Seq(Nat)
      BY <2>2, <3>1
    <3>3. QED
      BY <1>1, <3>2 DEF Draw, Goto
  <2>3. QED
    BY <1>2, <2>1, <2>2
<1>4. Numbered'
  BY <1>1 DEF Numbered
<1>5. ASSUME ~interactive PROVE \A i \in DOMAIN log : log[i] # done[w]
  BY <1>1, <1>5 DEF Logged, Numbered, Counted, Drawn
<1>6. Logged'
  <2>1. CASE UNCHANGED log
    BY <1>1, <1>2, <2>1 DEF Logged, Total
  <2>2. CASE ~interactive /\ log' = Append(log, done[w])
    <3>1. /\ DOMAIN log' = DOMAIN log \cup {Len(log) + 1}
          /\ log'[Len(log) + 1] = done[w]
          /\ \A i \in DOMAIN log : log'[i] = log[i]
      BY <2>2
    <3>2. \A i \in DOMAIN log' :
             log'[i] = 0 \/ \E v \in Drawn' : log'[i] = done'[v]
      <4>1. \A i \in DOMAIN log : log[i] = 0 \/ \E v \in Drawn : log[i] = done[v]
        BY <2>2 DEF Logged
      <4>2. w \in Drawn' /\ log'[Len(log) + 1] = done'[w]
        BY <1>1, <3>1
      <4>3. QED
        BY <1>1, <3>1, <4>1, <4>2
    <3>3. \A i, j \in DOMAIN log' : log'[i] = log'[j] => i = j
      BY <1>5, <2>2, <3>1 DEF Logged
    <3>4. \A v \in Drawn' : done'[v] = Total => \E i \in DOMAIN log' : log'[i] = Total
      BY <1>1, <2>2, <3>1 DEF Logged
    <3>5. Total = 0 => \E i \in DOMAIN log' : log'[i] = Total
      BY <2>2, <3>1 DEF Logged
    <3>6. QED
      BY <3>2, <3>3, <3>4, <3>5 DEF Logged, Total
  <2>3. QED
    BY <1>2, <2>1, <2>2
<1>7. Followed'
  BY <1>1 DEF Draw, Followed, Waited
<1>8. QED
  BY <1>3, <1>4, <1>6, <1>7

\* Run goes on or returns when all have drawn or left.
LEMMA LineRun ==
  ASSUME LineInv, Correlate \/ Abort \/ Return
  PROVE  LineInv'
<1>1. /\ UNCHANGED <<stage, done, metricsDone, interactive, log>>
      /\ Waited
      /\ \/ run' = "correlate" /\ (interactive => screen' = <<"correlating">>)
         \/ run' = "returned" /\ (interactive => screen' = <<>>)
  BY DEF Correlate, Abort, Return, Set, Clear, LineInv, Followed
<1>2. QED
  BY <1>1 DEF LineInv, LineTyped, Numbered, Logged, Followed, Waited, Counted, Drawn, Total

\* Every step keeps it.
LEMMA LineStep == LineInv /\ [Next]_vars => LineInv'
<1> SUFFICES ASSUME LineInv, [Next]_vars PROVE LineInv'
  OBVIOUS
<1>1. CASE UNCHANGED lineState
  BY <1>1 DEF lineState, LineInv, LineTyped, Numbered, Logged, Followed, Waited, Counted, Drawn,
              Total
<1>2. CASE ~UNCHANGED lineState
  BY <1>2, LineEarly, LineCount, LineDraw, LineRun
     DEF Next, Step, Over, vars, lineVars, lineState
<1>3. QED
  BY <1>1, <1>2

\* Who has the last number is the last of all.
LEMMA TotalIsAll ==
  ASSUME LineInv, ~interactive, NEW i \in DOMAIN log, log[i] = Total
  PROVE  Counted = Workers
<1>1. IsFiniteSet(Workers) /\ Total \in Nat /\ Counted \subseteq Workers
  BY ProgressAssumption, FS_CardinalityType DEF Total, Counted
<1>2. CASE Total = 0
  BY <1>1, <1>2, FS_EmptySet DEF Total
<1>3. CASE Total # 0
  <2>1. PICK w \in Drawn : done[w] = Total
    BY <1>3 DEF LineInv, Logged
  <2>2. w \in Counted
    BY <2>1 DEF Drawn, Counted
  <2>3. Total <= Cardinality(Counted)
    BY <1>1, <2>1, <2>2 DEF LineInv, LineTyped, Numbered
  <2>4. Cardinality(Counted) <= Total /\ (Cardinality(Counted) = Total => Counted = Workers)
    BY <1>1, FS_Subset DEF Total
  <2>5. Cardinality(Counted) \in Nat
    BY CountedFinite, FS_CardinalityType
  <2>6. QED
    BY <1>1, <2>3, <2>4, <2>5
<1>4. QED
  BY <1>2, <1>3

\* When Run goes on and nobody left, the last number was drawn.
LEMMA AllIsTotal ==
  ASSUME LineInv, ~interactive, run # "fetch", NobodyLeft
  PROVE  \E i \in DOMAIN log : log[i] = Total
<1>1. Counted = Workers /\ Drawn = Workers
  BY DEF LineInv, Followed, Waited, NobodyLeft, Counted, Drawn
<1>2. metricsDone = Total /\ Total \in Nat
  BY <1>1 DEF LineInv, LineTyped, Numbered, Total
<1>3. QED
  BY <1>1, <1>2 DEF LineInv, Numbered, Logged

\* For any number of goroutines, however late they draw and whoever leaves: a
\* log has no number twice, the end of the phase never before it and always
\* after it unless a goroutine left, and on a terminal nobody draws over what
\* Run has set since.
THEOREM LineTellsTruth == Spec => []LineIsTrue
<1>1. ASSUME LineInv PROVE LineIsTrue
  <2>1. CASE interactive
    BY <1>1, <2>1 DEF LineInv, Followed, LineIsTrue
  <2>2. CASE ~interactive
    <3>1. \A i, j \in DOMAIN log : log[i] = log[j] => i = j
      BY <1>1, <2>2 DEF LineInv, Logged
    <3>2. ASSUME NEW i \in DOMAIN log, log[i] = Total
          PROVE  \A w \in Workers : stage[w] \in {"draw", "over"}
      BY <1>1, <2>2, <3>2, TotalIsAll DEF Counted
    <3>3. run # "fetch" /\ NobodyLeft => \E i \in DOMAIN log : log[i] = Total
      BY <1>1, <2>2, AllIsTotal
    <3>4. QED
      BY <2>2, <3>1, <3>2, <3>3 DEF LineIsTrue
  <2>3. QED
    BY <2>1, <2>2
<1>2. QED
  BY <1>1, LineInit, LineStep, PTL DEF Spec
=============================================================================
