----------------------------- MODULE AlertPages -----------------------------
(***************************************************************************)
(* How the API client reads the alerts: page after page, each request with *)
(* the token of the page before, until a page comes without one.  External *)
(* is the server: a token stands for a place in the order of all alerts,   *)
(* what was deleted is on no page, a page may be shorter than asked for,   *)
(* and one that nothing follows may or may not carry a token.              *)
(***************************************************************************)
EXTENDS Integers, Sequences, FiniteSets

CONSTANTS
  Ids,        \* the alerts, in the server's order
  PageSize    \* pagination.pageSize

VARIABLES
  deleted,    \* the alerts that are gone
  token,      \* the place the next request starts after; 0 is no token
  all,        \* the alerts read so far, by their place
  outcome     \* "reading", then "ok" or "error"

Init ==
  /\ deleted = {}
  /\ token = 0
  /\ all = <<>>
  /\ outcome = "reading"

Alive(i) == Ids[i] \notin deleted

\* The alerts between two places, in order.
Between(a, b) ==
  LET left == {i \in (a + 1)..b : Alive(i)}
  IN  CHOOSE page \in [1..Cardinality(left) -> left] :
        \A j, k \in DOMAIN page : j < k => page[j] < page[k]

\* Fault: a page that is not full is taken for the last one.
PageUntilShort ==
  /\ outcome = "reading"
  /\ \E last \in token..Len(Ids) :
       LET page == Between(token, last)
       IN  /\ Len(page) <= PageSize
           /\ all' = all \o page
           /\ IF Len(page) < PageSize
                THEN outcome' = "ok" /\ UNCHANGED token
                ELSE token' = last /\ UNCHANGED outcome
  /\ UNCHANGED deleted

\* A page up to the place `last', with a token for it or, if nothing follows,
\* without one.
Page ==
  /\ outcome = "reading"
  /\ \E last \in token..Len(Ids) :
       LET page == Between(token, last)
       IN  /\ Len(page) <= PageSize
           /\ all' = all \o page
           /\ \/ /\ Between(last, Len(Ids)) = <<>>
                 /\ outcome' = "ok"
                 /\ UNCHANGED token
              \/ /\ last > token
                 /\ token' = last
                 /\ UNCHANGED outcome
  /\ UNCHANGED deleted

\* A request fails or a page does not decode: what was read is dropped.
FailPage ==
  /\ outcome = "reading"
  /\ outcome' = "error"
  /\ all' = <<>>
  /\ UNCHANGED <<deleted, token>>

Fetch == Page \/ FailPage
-----------------------------------------------------------------------------
\* Whatever the sizes of the pages and whatever is deleted meanwhile, a list
\* that is returned holds every alert that was there all the time, and none
\* twice.
EveryAlertOnce ==
  outcome = "ok" =>
    /\ \A i \in DOMAIN Ids : Alive(i) => \E k \in DOMAIN all : all[k] = i
    /\ \A j, k \in DOMAIN all : j < k => all[j] < all[k]
=============================================================================
