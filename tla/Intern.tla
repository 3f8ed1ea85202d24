------------------------------- MODULE Intern -------------------------------
(***************************************************************************)
(* The string table of strintern, as the series phase uses it: every       *)
(* goroutine interns the label names and values of its series and keeps    *)
(* the copies it gets back.  A copy is named after the goroutine that      *)
(* decoded it.  String looks a string up under the shard's read lock and,  *)
(* if it is missing, looks again and stores it under the write lock.  Two  *)
(* strings never meet, so the shards and their number do not matter; the   *)
(* empty string returns before any of this.                                *)
(***************************************************************************)
EXTENDS LabelSets

VARIABLES
  table,      \* the canonical copy of each string, None before it has one
  held,       \* the copies each goroutine has got back
  missed      \* the strings it looked up in vain and is about to store

vars == <<table, held, missed>>

Init ==
  /\ table = [s \in Strings |-> None]
  /\ held = [w \in Workers |-> [s \in Strings |-> None]]
  /\ missed = [w \in Workers |-> {}]

Keep(w, s, copy) == held' = [held EXCEPT ![w][s] = copy]

\* String is called: the goroutine is between two calls.
Asks(w, s) == s \in Wanted[w] /\ held[w][s] = None /\ missed[w] = {}

Hit(w, s) ==
  /\ Asks(w, s)
  /\ table[s] # None
  /\ Keep(w, s, table[s])
  /\ UNCHANGED <<table, missed>>

Miss(w, s) ==
  /\ Asks(w, s)
  /\ table[s] = None
  /\ missed' = [missed EXCEPT ![w] = {s}]
  /\ UNCHANGED <<table, held>>

\* Fault: another goroutine may have stored it between the two locks.
StoreUnchecked(w, s) ==
  /\ s \in missed[w]
  /\ missed' = [missed EXCEPT ![w] = {}]
  /\ table' = [table EXCEPT ![s] = w]
  /\ Keep(w, s, w)

\* The second look and the store are one critical section.
Store(w, s) ==
  /\ s \in missed[w]
  /\ missed' = [missed EXCEPT ![w] = {}]
  /\ table' = [table EXCEPT ![s] = IF @ = None THEN w ELSE @]
  /\ Keep(w, s, table'[s])

Call(w) == \E s \in Strings : Hit(w, s) \/ Miss(w, s) \/ Store(w, s)

Interned == \A w \in Workers : \A s \in Wanted[w] : held[w][s] # None

Over == Interned /\ UNCHANGED vars

Next == (\E w \in Workers : Call(w)) \/ Over

Spec == Init /\ [][Next]_vars
-----------------------------------------------------------------------------
TypeOK ==
  /\ table \in [Strings -> Workers \cup {None}]
  /\ held \in [Workers -> [Strings -> Workers \cup {None}]]
  /\ missed \in [Workers -> SUBSET Strings]

\* "String returns the canonical copy": whoever asks for a string, at any
\* time, gets the same copy, which is the one the table keeps.
OneCopy ==
  \A v, w \in Workers : \A s \in Strings :
    held[v][s] # None /\ held[w][s] # None => held[v][s] = held[w][s]

\* A copy is never replaced, so no goroutine is left with a second one.
SetOnce == [][\A s \in Strings : table[s] # None => table'[s] = table[s]]_vars
=============================================================================
