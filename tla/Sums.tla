-------------------------------- MODULE Sums --------------------------------
(***************************************************************************)
(* Facts about the sums of the community modules, which are defined by     *)
(* recursion over finite sets: SumFunctionOnSet(f, S) adds up f[x] for the *)
(* members x of S.  The induction behind each of them is the choice of a   *)
(* smallest subset, or a least number, for which it fails.                 *)
(***************************************************************************)
EXTENDS FiniteSetsExt, FiniteSetTheorems, TLAPS

\* Among subsets of a finite set there is a smallest.
LEMMA SmallestSubset ==
  ASSUME NEW S, IsFiniteSet(S), NEW B \in SUBSET (SUBSET S), B # {}
  PROVE  \E s \in B : \A t \in B : t \subseteq s => t = s
<1> DEFINE R == StrictSubsetOrdering(S)
<1>1. B \subseteq FiniteSubsetsOf(S)
  BY FS_FiniteSubsetsOfFinite
<1>2. \E s \in B : \A t \in B : <<t, s>> \notin R
  <2> HIDE DEF R
  <2> QED BY <1>1, FS_StrictSubsetOrderingWellFounded, WFMin DEF R
<1>3. PICK s \in B : \A t \in B : <<t, s>> \notin R
  BY <1>2
<1> QED BY <1>3 DEF StrictSubsetOrdering

\* And among bounded numbers a least one.
LEMMA LeastNumber ==
  ASSUME NEW N \in Nat, NEW B \in SUBSET (0..N), B # {}
  PROVE  \E n \in B : \A k \in B : n <= k
  <1> DEFINE all == 1..N
             C == {1..n : n \in B}
  <1>1. IsFiniteSet(all)
    BY FS_Interval
  <1>2. C \in SUBSET (SUBSET all) /\ C # {}
    <2>1. \A n \in B : 1..n \in SUBSET all
      OBVIOUS
    <2> HIDE DEF all
    <2> QED BY <2>1
  <1>3. PICK s \in C : \A t \in C : t \subseteq s => t = s
    <2> HIDE DEF all, C
    <2> QED BY <1>1, <1>2, SmallestSubset
  <1>4. PICK n \in B : s = 1..n
    OBVIOUS
  <1>5. ASSUME NEW k \in B, k < n PROVE FALSE
    <2>1. 1..k \in C
      OBVIOUS
    <2>2. 1..k \subseteq s /\ n \in s /\ n \notin 1..k
      BY <1>4, <1>5
    <2> QED BY <1>3, <2>1, <2>2
  <1> QED BY <1>5

\* The values of a function on a finite set, and how many there are.
LEMMA FiniteImage ==
  ASSUME NEW S, IsFiniteSet(S), NEW h, NEW T, T = {h[x] : x \in S}
  PROVE  /\ IsFiniteSet(T)
         /\ Cardinality(T) <= Cardinality(S)
         /\ (\A x, y \in S : h[x] = h[y] => x = y) => Cardinality(T) = Cardinality(S)
<1> DEFINE g == [x \in S |-> h[x]]
<1>1. g \in Surjection(S, T)
  BY DEF Surjection
<1>2. (\A x, y \in S : h[x] = h[y] => x = y) => g \in Injection(S, T)
  BY DEF Injection, IsInjective
<1> HIDE DEF g
<1> QED BY <1>1, <1>2, FS_Surjection

-----------------------------------------------------------------------------
\* The recursion: the member a sum takes first, and what makes g the table of
\* the sums over the subsets of S.
First(s) == CHOOSE x \in s : TRUE

Adds(g, f, S) ==
  g = [s \in SUBSET S |-> IF s = {} THEN 0 ELSE f[First(s)] + g[s \ {First(s)}]]

\* A sum is the top of its table.
LEMMA SumIs ==
  ASSUME NEW f, NEW S
  PROVE  SumFunctionOnSet(f, S) = (CHOOSE g : Adds(g, f, S))[S]
BY DEF SumFunctionOnSet, FoldFunctionOnSet, MapThenFoldSet, Adds, First

\* It is a member.
LEMMA FirstIn == \A s : s # {} => First(s) \in s
BY DEF First

\* There is at most one table.
LEMMA AddsOnce ==
  ASSUME NEW f, NEW S, IsFiniteSet(S), NEW g, NEW h, Adds(g, f, S), Adds(h, f, S)
  PROVE  g = h
<1> DEFINE B == {s \in SUBSET S : g[s] # h[s]}
<1>1. B = {}
  <2> SUFFICES ASSUME B # {} PROVE FALSE OBVIOUS
  <2>1. PICK s \in B : \A t \in B : t \subseteq s => t = s
    <3>1. B \in SUBSET (SUBSET S) OBVIOUS
    <3> HIDE DEF B
    <3> QED BY <3>1, SmallestSubset
  <2>2. s # {}
    BY DEF Adds
  <2>3. First(s) \in s
    BY <2>2, FirstIn
  <2>4. s \ {First(s)} \notin B
    BY <2>1, <2>3
  <2> QED
    BY <2>2, <2>4 DEF Adds
<1> QED
  BY <1>1 DEF Adds

\* The value at the top of the table for s.
Top(f, s) == (CHOOSE g : Adds(g, f, s))[s]

\* A table for S holds the tops of all tables.
LEMMA TableHoldsTops ==
  ASSUME NEW f, NEW S, IsFiniteSet(S), NEW g, Adds(g, f, S), NEW s \in SUBSET S
  PROVE  g[s] = Top(f, s)
<1> DEFINE h == [t \in SUBSET s |-> g[t]]
<1>1. \A t \in SUBSET s : t # {} => t \ {First(t)} \in SUBSET s
  OBVIOUS
<1>2. \A t \in SUBSET S : g[t] = IF t = {} THEN 0 ELSE f[First(t)] + g[t \ {First(t)}]
  BY DEF Adds
<1>3. \A t \in SUBSET s : h[t] = IF t = {} THEN 0 ELSE f[First(t)] + h[t \ {First(t)}]
  BY <1>1, <1>2
<1>4. Adds(h, f, s)
  BY <1>3 DEF Adds
<1>5. IsFiniteSet(s)
  BY FS_Subset
<1> HIDE DEF h
<1>6. Adds(CHOOSE k : Adds(k, f, s), f, s)
  BY <1>4
<1>7. (CHOOSE k : Adds(k, f, s)) = h
  BY <1>4, <1>5, <1>6, AddsOnce
<1> QED
  BY <1>7 DEF Top, h

\* And there is one.
LEMMA AddsExists ==
  ASSUME NEW f, NEW S, IsFiniteSet(S)
  PROVE  \E g : Adds(g, f, S)
<1> DEFINE B == {s \in SUBSET S : ~\E g : Adds(g, f, s)}
<1>1. B = {}
  <2> SUFFICES ASSUME B # {} PROVE FALSE OBVIOUS
  <2>1. PICK s \in B : \A t \in B : t \subseteq s => t = s
    <3>1. B \in SUBSET (SUBSET S) OBVIOUS
    <3> HIDE DEF B
    <3> QED BY <3>1, SmallestSubset
  <2>2. \A t \in SUBSET s : t # s => \E g : Adds(g, f, t)
    BY <2>1
  <2>3. \A t \in SUBSET s : IsFiniteSet(t)
    BY <2>1, FS_Subset
  <2>4. ASSUME NEW t \in SUBSET s, t # s
        PROVE  Top(f, t) = IF t = {} THEN 0 ELSE f[First(t)] + Top(f, t \ {First(t)})
    <3>1. PICK g : Adds(g, f, t)
      BY <2>2, <2>4
    <3>2. \A u \in SUBSET t : g[u] = Top(f, u)
      BY <2>3, <3>1, TableHoldsTops
    <3>3. g[t] = IF t = {} THEN 0 ELSE f[First(t)] + g[t \ {First(t)}]
      BY <3>1 DEF Adds
    <3> QED BY <3>2, <3>3
  <2> DEFINE g == [t \in SUBSET s |-> IF t = {} THEN 0 ELSE f[First(t)] + Top(f, t \ {First(t)})]
  <2>5. ASSUME NEW t \in SUBSET s, t # {}
        PROVE  g[t \ {First(t)}] = Top(f, t \ {First(t)})
    <3>1. t \ {First(t)} \in SUBSET s /\ t \ {First(t)} # s
      BY <2>5, FirstIn
    <3> QED BY <2>4, <3>1
  <2>6. Adds(g, f, s)
    BY <2>5 DEF Adds
  <2> QED BY <2>1, <2>6
<1> QED BY <1>1

\* The equations of a sum.
LEMMA SumSteps ==
  ASSUME NEW f, NEW S, IsFiniteSet(S)
  PROVE  SumFunctionOnSet(f, S) =
           IF S = {} THEN 0 ELSE f[First(S)] + SumFunctionOnSet(f, S \ {First(S)})
<1>1. PICK g : Adds(g, f, S)
  BY AddsExists
<1>2. \A s \in SUBSET S : g[s] = SumFunctionOnSet(f, s)
  BY <1>1, TableHoldsTops, SumIs DEF Top
<1>3. g[S] = IF S = {} THEN 0 ELSE f[First(S)] + g[S \ {First(S)}]
  BY <1>1 DEF Adds
<1> QED BY <1>2, <1>3

-----------------------------------------------------------------------------
\* The sum of nothing.
LEMMA SumEmpty == \A f : SumFunctionOnSet(f, {}) = 0
BY SumSteps, FS_EmptySet

\* Integers add up to an integer.
LEMMA SumInt ==
  ASSUME NEW S, IsFiniteSet(S), NEW f, \A x \in S : f[x] \in Int
  PROVE  SumFunctionOnSet(f, S) \in Int
<1> DEFINE B == {s \in SUBSET S : SumFunctionOnSet(f, s) \notin Int}
<1>1. B = {}
  <2> SUFFICES ASSUME B # {} PROVE FALSE OBVIOUS
  <2>1. PICK s \in B : \A t \in B : t \subseteq s => t = s
    <3>1. B \in SUBSET (SUBSET S) OBVIOUS
    <3> HIDE DEF B
    <3> QED BY <3>1, SmallestSubset
  <2>2. IsFiniteSet(s)
    BY <2>1, FS_Subset
  <2>3. s # {}
    <3> SUFFICES ASSUME s = {} PROVE FALSE OBVIOUS
    <3>1. SumFunctionOnSet(f, s) = 0
      BY SumEmpty
    <3> QED BY <2>1, <3>1
  <2>4. First(s) \in s /\ s \ {First(s)} \in SUBSET S
    BY <2>3, FirstIn
  <2>5. SumFunctionOnSet(f, s \ {First(s)}) \in Int
    BY <2>1, <2>4
  <2>6. SumFunctionOnSet(f, s) = f[First(s)] + SumFunctionOnSet(f, s \ {First(s)})
    BY <2>2, <2>3, SumSteps
  <2>7. f[First(s)] \in Int
    BY <2>4
  <2> QED BY <2>1, <2>5, <2>6, <2>7
<1> QED BY <1>1

\* Any member may be taken first.
LEMMA SumTake ==
  ASSUME NEW S, IsFiniteSet(S), NEW f, \A x \in S : f[x] \in Int, NEW x \in S
  PROVE  SumFunctionOnSet(f, S) = f[x] + SumFunctionOnSet(f, S \ {x})
<1> DEFINE B == {s \in SUBSET S : \E y \in s :
                    SumFunctionOnSet(f, s) # f[y] + SumFunctionOnSet(f, s \ {y})}
<1>1. B = {}
  <2> SUFFICES ASSUME B # {} PROVE FALSE OBVIOUS
  <2>1. PICK s \in B : \A t \in B : t \subseteq s => t = s
    <3>1. B \in SUBSET (SUBSET S) OBVIOUS
    <3> HIDE DEF B
    <3> QED BY <3>1, SmallestSubset
  <2>2. PICK y \in s : SumFunctionOnSet(f, s) # f[y] + SumFunctionOnSet(f, s \ {y})
    BY <2>1
  <2> DEFINE z == First(s)
  <2>3. z \in s
    BY <2>2, FirstIn
  <2>4. \A t \in SUBSET s : IsFiniteSet(t) /\ SumFunctionOnSet(f, t) \in Int
    <3>1. \A t \in SUBSET s : t \in SUBSET S
      BY <2>1
    <3>2. \A t \in SUBSET s : IsFiniteSet(t)
      BY <3>1, FS_Subset
    <3> QED BY <3>1, <3>2, SumInt
  <2>5. SumFunctionOnSet(f, s) = f[z] + SumFunctionOnSet(f, s \ {z})
    BY <2>2, <2>4, SumSteps
  <2> HIDE DEF z
  <2>6. y # z
    BY <2>2, <2>5
  <2>7. SumFunctionOnSet(f, s \ {z}) = f[y] + SumFunctionOnSet(f, (s \ {z}) \ {y})
    <3>1. s \ {z} \in SUBSET S /\ s \ {z} \notin B /\ y \in s \ {z}
      BY <2>1, <2>2, <2>3, <2>6
    <3> QED BY <3>1
  <2>8. SumFunctionOnSet(f, s \ {y}) = f[z] + SumFunctionOnSet(f, (s \ {y}) \ {z})
    <3>1. s \ {y} \in SUBSET S /\ s \ {y} \notin B /\ z \in s \ {y}
      BY <2>1, <2>2, <2>3, <2>6
    <3> QED BY <3>1
  <2>9. (s \ {z}) \ {y} = (s \ {y}) \ {z}
    OBVIOUS
  <2>10. f[y] \in Int /\ f[z] \in Int /\ SumFunctionOnSet(f, (s \ {y}) \ {z}) \in Int
    BY <2>1, <2>2, <2>3, <2>4
  <2> DEFINE rest == SumFunctionOnSet(f, (s \ {y}) \ {z})
  <2>11. /\ SumFunctionOnSet(f, s \ {z}) = f[y] + rest
         /\ SumFunctionOnSet(f, s \ {y}) = f[z] + rest
    BY <2>7, <2>8, <2>9
  <2>12. rest \in Int
    BY <2>10
  <2> HIDE DEF rest
  <2>13. f[z] + (f[y] + rest) = f[y] + (f[z] + rest)
    BY <2>10, <2>12
  <2> QED BY <2>2, <2>5, <2>11, <2>13
<1> QED BY <1>1

\* Only the values at the members matter.
LEMMA SumSame ==
  ASSUME NEW S, IsFiniteSet(S), NEW f, NEW g, \A x \in S : f[x] = g[x]
  PROVE  SumFunctionOnSet(f, S) = SumFunctionOnSet(g, S)
<1> DEFINE B == {s \in SUBSET S : SumFunctionOnSet(f, s) # SumFunctionOnSet(g, s)}
<1>1. B = {}
  <2> SUFFICES ASSUME B # {} PROVE FALSE OBVIOUS
  <2>1. PICK s \in B : \A t \in B : t \subseteq s => t = s
    <3>1. B \in SUBSET (SUBSET S) OBVIOUS
    <3> HIDE DEF B
    <3> QED BY <3>1, SmallestSubset
  <2>2. IsFiniteSet(s) /\ s # {}
    BY <2>1, SumEmpty, FS_Subset
  <2>3. First(s) \in s
    BY <2>2, FirstIn
  <2>4. SumFunctionOnSet(f, s \ {First(s)}) = SumFunctionOnSet(g, s \ {First(s)})
    BY <2>1, <2>3
  <2>5. f[First(s)] = g[First(s)]
    BY <2>1, <2>3
  <2>6. /\ SumFunctionOnSet(f, s) = f[First(s)] + SumFunctionOnSet(f, s \ {First(s)})
        /\ SumFunctionOnSet(g, s) = g[First(s)] + SumFunctionOnSet(g, s \ {First(s)})
    BY <2>2, SumSteps
  <2> QED BY <2>1, <2>4, <2>5, <2>6
<1> QED BY <1>1

\* The sum over two sets that have nothing in common.
LEMMA SumDisjoint ==
  ASSUME NEW S, IsFiniteSet(S), NEW T, IsFiniteSet(T), S \cap T = {},
         NEW f, \A x \in S \cup T : f[x] \in Int
  PROVE  SumFunctionOnSet(f, S \cup T) = SumFunctionOnSet(f, S) + SumFunctionOnSet(f, T)
<1> DEFINE B == {s \in SUBSET S : SumFunctionOnSet(f, s \cup T)
                                    # SumFunctionOnSet(f, s) + SumFunctionOnSet(f, T)}
<1>1. B = {}
  <2> SUFFICES ASSUME B # {} PROVE FALSE OBVIOUS
  <2>1. PICK s \in B : \A t \in B : t \subseteq s => t = s
    <3>1. B \in SUBSET (SUBSET S) OBVIOUS
    <3> HIDE DEF B
    <3> QED BY <3>1, SmallestSubset
  <2>2. IsFiniteSet(s) /\ IsFiniteSet(s \cup T)
    BY <2>1, FS_Subset, FS_Union
  <2>3. SumFunctionOnSet(f, T) \in Int
    BY SumInt
  <2>4. s # {}
    <3> SUFFICES ASSUME s = {} PROVE FALSE OBVIOUS
    <3>1. SumFunctionOnSet(f, s) = 0 /\ s \cup T = T
      BY SumEmpty
    <3> QED BY <2>1, <2>3, <3>1
  <2>5. PICK y \in s : TRUE
    BY <2>4
  <2>6. (s \cup T) \ {y} = (s \ {y}) \cup T
    BY <2>1, <2>5
  <2>7. SumFunctionOnSet(f, s \cup T) = f[y] + SumFunctionOnSet(f, (s \ {y}) \cup T)
    BY <2>1, <2>2, <2>6, SumTake
  <2>8. SumFunctionOnSet(f, s) = f[y] + SumFunctionOnSet(f, s \ {y})
    BY <2>1, <2>2, SumTake
  <2>9. SumFunctionOnSet(f, (s \ {y}) \cup T)
          = SumFunctionOnSet(f, s \ {y}) + SumFunctionOnSet(f, T)
    BY <2>1, <2>5
  <2>10. f[y] \in Int /\ SumFunctionOnSet(f, s \ {y}) \in Int
    <3>1. s \ {y} \in SUBSET S /\ IsFiniteSet(s \ {y})
      BY <2>1, FS_Subset
    <3> QED BY <2>1, <3>1, SumInt
  <2> QED BY <2>1, <2>3, <2>7, <2>8, <2>9, <2>10
<1> QED BY <1>1

\* Adding up class by class comes to the same.
LEMMA SumByClass ==
  ASSUME NEW S, IsFiniteSet(S), NEW f, \A x \in S : f[x] \in Int,
         NEW K, IsFiniteSet(K), NEW class, \A x \in S : class[x] \in K,
         NEW part, \A k \in K : part[k] = {x \in S : class[x] = k},
         NEW g, \A k \in K : g[k] = SumFunctionOnSet(f, part[k])
  PROVE  SumFunctionOnSet(g, K) = SumFunctionOnSet(f, S)
<1> DEFINE Of(k) == {x \in S : class[x] \in k}
           B == {k \in SUBSET K : SumFunctionOnSet(g, k) # SumFunctionOnSet(f, Of(k))}
<1>1. \A k : Of(k) \in SUBSET S
  OBVIOUS
<1>2. B = {}
  <2> SUFFICES ASSUME B # {} PROVE FALSE OBVIOUS
  <2>1. PICK k \in B : \A j \in B : j \subseteq k => j = k
    <3>1. B \in SUBSET (SUBSET K) OBVIOUS
    <3> HIDE DEF B
    <3> QED BY <3>1, SmallestSubset
  <2>2. k # {}
    <3> SUFFICES ASSUME k = {} PROVE FALSE OBVIOUS
    <3>1. Of(k) = {}
      OBVIOUS
    <3>2. SumFunctionOnSet(g, k) = 0 /\ SumFunctionOnSet(f, Of(k)) = 0
      BY <3>1, SumEmpty
    <3> QED BY <2>1, <3>2
  <2>3. PICK c \in k : TRUE
    BY <2>2
  <2> DEFINE one == {x \in S : class[x] = c}
             rest == Of(k \ {c})
  <2>4. one \in SUBSET S /\ rest \in SUBSET S /\ one \cap rest = {} /\ Of(k) = one \cup rest
    BY <2>1, <2>3
  <2>5. IsFiniteSet(one) /\ IsFiniteSet(rest) /\ IsFiniteSet(k)
    BY <2>1, <2>4, FS_Subset
  <2>6. k \ {c} \in SUBSET K /\ k \ {c} \notin B
    BY <2>1, <2>3
  <2>7. SumFunctionOnSet(g, k \ {c}) = SumFunctionOnSet(f, rest)
    BY <2>6
  <2>8. g[c] = SumFunctionOnSet(f, one)
    BY <2>1, <2>3
  <2>9. SumFunctionOnSet(g, k) # SumFunctionOnSet(f, one \cup rest)
    BY <2>1, <2>4
  <2>10. \A x \in one \cup rest : f[x] \in Int
    BY <2>4
  <2>11. \A j \in k : g[j] \in Int
    <3> SUFFICES ASSUME NEW j \in k PROVE g[j] \in Int OBVIOUS
    <3> DEFINE them == {x \in S : class[x] = j}
    <3>1. them \in SUBSET S /\ IsFiniteSet(them)
      BY FS_Subset
    <3>2. \A x \in them : f[x] \in Int
      BY <3>1
    <3>3. SumFunctionOnSet(f, them) \in Int
      <4> HIDE DEF them
      <4> QED BY <3>1, <3>2, SumInt
    <3> QED BY <2>1, <3>3
  <2> HIDE DEF one, rest, B
  <2>12. SumFunctionOnSet(f, one \cup rest) = SumFunctionOnSet(f, one) + SumFunctionOnSet(f, rest)
    BY <2>4, <2>5, <2>10, SumDisjoint
  <2>13. SumFunctionOnSet(g, k) = g[c] + SumFunctionOnSet(g, k \ {c})
    BY <2>3, <2>5, <2>11, SumTake
  <2> QED BY <2>7, <2>8, <2>9, <2>12, <2>13
<1>3. Of(K) = S
  OBVIOUS
<1>4. SumFunctionOnSet(g, K) = SumFunctionOnSet(f, Of(K))
  BY <1>2
<1> QED BY <1>3, <1>4

\* A sum of one member.
LEMMA SumOne ==
  ASSUME NEW f, NEW x, f[x] \in Int
  PROVE  SumFunctionOnSet(f, {x}) = f[x]
<1>1. IsFiniteSet({x}) /\ {x} \ {x} = {}
  BY FS_Singleton
<1>2. SumFunctionOnSet(f, {x}) = f[x] + SumFunctionOnSet(f, {x} \ {x})
  BY <1>1, SumTake
<1> QED BY <1>1, <1>2, SumEmpty

\* What h calls the members of S may be summed instead of them.
LEMMA SumRenamed ==
  ASSUME NEW S, IsFiniteSet(S), NEW f, \A x \in S : f[x] \in Int,
         NEW h, \A x, y \in S : h[x] = h[y] => x = y,
         NEW g, \A x \in S : g[h[x]] = f[x],
         NEW T, T = {h[x] : x \in S}
  PROVE  SumFunctionOnSet(g, T) = SumFunctionOnSet(f, S)
<1>1. IsFiniteSet(T)
  BY FiniteImage
<1> DEFINE part == [t \in T |-> {x \in S : h[x] = t}]
<1>2. \A t \in T : g[t] = SumFunctionOnSet(f, part[t])
  <2> SUFFICES ASSUME NEW t \in T PROVE g[t] = SumFunctionOnSet(f, part[t]) OBVIOUS
  <2>0. PICK x \in S : t = h[x]
    OBVIOUS
  <2>1. part[t] = {x}
    BY <2>0
  <2>2. SumFunctionOnSet(f, {x}) = f[x]
    BY SumOne
  <2> QED BY <2>0, <2>1, <2>2
<1>3. /\ \A x \in S : h[x] \in T
      /\ \A t \in T : part[t] = {x \in S : h[x] = t}
  OBVIOUS
<1> HIDE DEF part
<1> QED BY <1>1, <1>2, <1>3, SumByClass

\* The sum of sums.
LEMMA SumPlus ==
  ASSUME NEW S, IsFiniteSet(S), NEW f, NEW g, NEW h,
         \A x \in S : f[x] \in Int /\ g[x] \in Int /\ h[x] = f[x] + g[x]
  PROVE  SumFunctionOnSet(h, S) = SumFunctionOnSet(f, S) + SumFunctionOnSet(g, S)
<1> DEFINE B == {s \in SUBSET S : SumFunctionOnSet(h, s)
                                    # SumFunctionOnSet(f, s) + SumFunctionOnSet(g, s)}
<1>1. B = {}
  <2> SUFFICES ASSUME B # {} PROVE FALSE OBVIOUS
  <2>1. PICK s \in B : \A t \in B : t \subseteq s => t = s
    <3>1. B \in SUBSET (SUBSET S) OBVIOUS
    <3> HIDE DEF B
    <3> QED BY <3>1, SmallestSubset
  <2>2. IsFiniteSet(s)
    BY <2>1, FS_Subset
  <2>3. s # {}
    <3> SUFFICES ASSUME s = {} PROVE FALSE OBVIOUS
    <3>1. /\ SumFunctionOnSet(f, s) = 0 /\ SumFunctionOnSet(g, s) = 0
          /\ SumFunctionOnSet(h, s) = 0
      BY SumEmpty
    <3> QED BY <2>1, <3>1
  <2>4. PICK y \in s : TRUE
    BY <2>3
  <2>5. s \ {y} \in SUBSET S /\ s \ {y} \notin B /\ IsFiniteSet(s \ {y})
    BY <2>1, <2>4, FS_Subset
  <2>6. SumFunctionOnSet(h, s \ {y})
          = SumFunctionOnSet(f, s \ {y}) + SumFunctionOnSet(g, s \ {y})
    BY <2>5
  <2>7. \A x \in s : f[x] \in Int /\ g[x] \in Int /\ h[x] = f[x] + g[x] /\ h[x] \in Int
    BY <2>1
  <2>8. /\ SumFunctionOnSet(f, s) = f[y] + SumFunctionOnSet(f, s \ {y})
        /\ SumFunctionOnSet(g, s) = g[y] + SumFunctionOnSet(g, s \ {y})
        /\ SumFunctionOnSet(h, s) = h[y] + SumFunctionOnSet(h, s \ {y})
    BY <2>2, <2>7, SumTake
  <2>9. SumFunctionOnSet(f, s \ {y}) \in Int /\ SumFunctionOnSet(g, s \ {y}) \in Int
    BY <2>5, <2>7, SumInt
  <2>10. SumFunctionOnSet(h, s) # SumFunctionOnSet(f, s) + SumFunctionOnSet(g, s)
    BY <2>1
  <2> HIDE DEF B
  <2> QED BY <2>4, <2>6, <2>7, <2>8, <2>9, <2>10
<1> QED BY <1>1

\* Comparisons of sums, member by member.
LEMMA SumAtMost ==
  ASSUME NEW S, IsFiniteSet(S), NEW f, NEW g,
         \A x \in S : f[x] \in Int /\ g[x] \in Int /\ f[x] <= g[x]
  PROVE  SumFunctionOnSet(f, S) <= SumFunctionOnSet(g, S)
<1> DEFINE B == {s \in SUBSET S : ~(SumFunctionOnSet(f, s) <= SumFunctionOnSet(g, s))}
<1>1. B = {}
  <2> SUFFICES ASSUME B # {} PROVE FALSE OBVIOUS
  <2>1. PICK s \in B : \A t \in B : t \subseteq s => t = s
    <3>1. B \in SUBSET (SUBSET S) OBVIOUS
    <3> HIDE DEF B
    <3> QED BY <3>1, SmallestSubset
  <2>2. IsFiniteSet(s)
    BY <2>1, FS_Subset
  <2>3. s # {}
    <3> SUFFICES ASSUME s = {} PROVE FALSE OBVIOUS
    <3>1. SumFunctionOnSet(f, s) = 0 /\ SumFunctionOnSet(g, s) = 0
      BY SumEmpty
    <3> QED BY <2>1, <3>1
  <2>4. PICK y \in s : TRUE
    BY <2>3
  <2>5. s \ {y} \in SUBSET S /\ s \ {y} \notin B /\ IsFiniteSet(s \ {y})
    BY <2>1, <2>4, FS_Subset
  <2>6. SumFunctionOnSet(f, s \ {y}) <= SumFunctionOnSet(g, s \ {y})
    BY <2>5
  <2>7. \A x \in s : f[x] \in Int /\ g[x] \in Int /\ f[x] <= g[x]
    BY <2>1
  <2>8. /\ SumFunctionOnSet(f, s) = f[y] + SumFunctionOnSet(f, s \ {y})
        /\ SumFunctionOnSet(g, s) = g[y] + SumFunctionOnSet(g, s \ {y})
    BY <2>2, <2>7, SumTake
  <2>9. SumFunctionOnSet(f, s \ {y}) \in Int /\ SumFunctionOnSet(g, s \ {y}) \in Int
    BY <2>5, SumInt
  <2>10. ~(SumFunctionOnSet(f, s) <= SumFunctionOnSet(g, s))
    BY <2>1
  <2> HIDE DEF B
  <2> QED BY <2>4, <2>6, <2>7, <2>8, <2>9, <2>10
<1> QED BY <1>1

\* The sum of a constant is a multiple of it.
LEMMA SumConstant ==
  ASSUME NEW S, IsFiniteSet(S), NEW c \in Int, NEW f, \A x \in S : f[x] = c
  PROVE  SumFunctionOnSet(f, S) = c * Cardinality(S)
<1> DEFINE B == {s \in SUBSET S : SumFunctionOnSet(f, s) # c * Cardinality(s)}
<1>1. B = {}
  <2> SUFFICES ASSUME B # {} PROVE FALSE OBVIOUS
  <2>1. PICK s \in B : \A t \in B : t \subseteq s => t = s
    <3>1. B \in SUBSET (SUBSET S) OBVIOUS
    <3> HIDE DEF B
    <3> QED BY <3>1, SmallestSubset
  <2>2. IsFiniteSet(s)
    BY <2>1, FS_Subset
  <2>3. s # {}
    <3> SUFFICES ASSUME s = {} PROVE FALSE OBVIOUS
    <3>1. SumFunctionOnSet(f, s) = 0 /\ Cardinality(s) = 0
      BY SumEmpty, FS_EmptySet
    <3> QED BY <2>1, <3>1
  <2>4. PICK y \in s : TRUE
    BY <2>3
  <2>5. s \ {y} \in SUBSET S /\ s \ {y} \notin B
    BY <2>1, <2>4
  <2>6. SumFunctionOnSet(f, s \ {y}) = c * Cardinality(s \ {y})
    BY <2>5
  <2>7. /\ Cardinality(s \ {y}) = Cardinality(s) - 1
        /\ Cardinality(s) \in Nat
    BY <2>2, <2>4, FS_RemoveElement, FS_CardinalityType
  <2>8. SumFunctionOnSet(f, s) = c + SumFunctionOnSet(f, s \ {y})
    <3>1. \A x \in s : f[x] = c
      BY <2>1
    <3> QED BY <2>2, <2>4, <3>1, SumTake
  <2>9. c + c * (Cardinality(s) - 1) = c * Cardinality(s)
    BY <2>7
  <2> QED BY <2>1, <2>6, <2>7, <2>8, <2>9
<1> QED BY <1>1
=============================================================================
