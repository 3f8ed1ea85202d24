--------------------------- MODULE VariationPages ---------------------------
(***************************************************************************)
(* FetchVariationUnits: the billing rows of one metric, fetched page by    *)
(* page.  A request covers all days of the window and cuts each day's rows *)
(* at the same offset; the reply names how many rows each day has, and the *)
(* largest of these numbers ends the loop.  What matters of the sums is    *)
(* how often each row went into them.                                      *)
(***************************************************************************)
EXTENDS Integers, FiniteSets

CONSTANTS
  Days,       \* the days of the window
  PageSize,   \* variationPageSize
  Word,       \* offsets and counts are below it: 2^32 in the code
  MaxRows     \* bound: rows of a day

ASSUME PageAssumption ==
  /\ PageSize \in Nat \ {0}
  /\ Word \in Nat \ {0}
  /\ MaxRows \in Nat
  /\ MaxRows + PageSize < Word

VARIABLES
  matched,    \* the rows the service has of each day
  offset,     \* of the next request
  added,      \* how often each row of each day was added
  status      \* "run", "done" or "failed"

pagesVars == <<matched, offset, added, status>>

Rows == 0..(MaxRows - 1)

\* What the service answers: of each day the rows of the page.
Page(d) == {i \in Rows : offset <= i /\ i < offset + PageSize /\ i < matched[d]}

\* Fault: the first day that has no more rows ends the loop.
LastOfAny == \E d \in Days : offset + PageSize >= matched[d]

\* The new offset has reached the largest matched_count, 0 without days.
Last == \A d \in Days : (offset + PageSize) % Word >= matched[d]

PagesInit ==
  /\ matched \in [Days -> 0..MaxRows]
  /\ offset = 0
  /\ added = [d \in Days |-> [i \in Rows |-> 0]]
  /\ status = "run"

\* Fault: the next request has the same offset.
FetchAgain ==
  /\ status = "run"
  /\ status' = IF Last THEN "done" ELSE "run"
  /\ UNCHANGED <<matched, offset, added>>

Fetch ==
  /\ status = "run"
  /\ added' = [d \in Days |-> [i \in Rows |->
                 IF i \in Page(d) THEN added[d][i] + 1 ELSE added[d][i]]]
  /\ offset' = (offset + PageSize) % Word
  /\ status' = IF Last THEN "done" ELSE "run"
  /\ UNCHANGED matched

\* Any page's request may fail; what was added so far is not returned.
Fail ==
  /\ status = "run"
  /\ status' = "failed"
  /\ UNCHANGED <<matched, offset, added>>

PagesOver == status # "run" /\ UNCHANGED pagesVars

PagesNext == Fetch \/ Fail \/ PagesOver

PagesSpec == PagesInit /\ [][PagesNext]_pagesVars

\* A request that does not fail is answered.
PagesFairSpec == PagesSpec /\ WF_pagesVars(Fetch)
-----------------------------------------------------------------------------
\* Usage is neither lost nor counted twice: when the loop ends, every row of
\* every day was added once, however unequal the days are.
EachRowOnce ==
  status = "done" =>
    \A d \in Days : \A i \in Rows :
      added[d][i] = IF i < matched[d] THEN 1 ELSE 0

\* The loop ends.
PagesEnd == <>(status # "run")
=============================================================================
