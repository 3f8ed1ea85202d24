------------------------------ MODULE Warnings ------------------------------
(***************************************************************************)
(* warningSet of scan/warnings.go: the warnings of a scan in the order of  *)
(* their first occurrence.  AddFor folds failures that share a context, a  *)
(* noun and the first line of their detail into one entry; an entry keeps  *)
(* its subjects in the order they came.  A warning of Add has no subject.  *)
(* List sorts an entry's subjects before it names the first of them; which *)
(* ones it names is not modelled, only how many.                           *)
(***************************************************************************)
EXTENDS Integers, Sequences

CONSTANT FoldedShown    \* foldedSubjectsShown, 5 in the code

ASSUME WarningsAssumption == FoldedShown \in Nat \ {0}

Add(ws, text) == Append(ws, [key |-> text, subjects |-> <<>>])

Key(context, noun, line) == <<context, noun, line>>

\* Fault: a repeat takes the place of the first occurrence.
AddForLatest(ws, context, noun, subject, line) ==
  LET key == Key(context, noun, line)
      Other(e) == e.key # key
  IN  Append(SelectSeq(ws, Other), [key |-> key, subjects |-> <<subject>>])

AddFor(ws, context, noun, subject, line) ==
  LET key == Key(context, noun, line)
  IN  IF \E i \in DOMAIN ws : ws[i].key = key
        THEN [i \in DOMAIN ws |->
                IF ws[i].key = key
                  THEN [ws[i] EXCEPT !.subjects = Append(@, subject)]
                  ELSE ws[i]]
        ELSE Append(ws, [key |-> key, subjects |-> <<subject>>])

\* What the text of an entry tells: how many subjects it names, how many more
\* it counts, and whether it carries the whole detail.
Render(e) ==
  LET n == Len(e.subjects)
      shown == IF n > FoldedShown THEN FoldedShown ELSE n
  IN  [text |-> e.key, named |-> shown, more |-> n - shown, detailed |-> n = 1]

List(ws) == [i \in DOMAIN ws |-> Render(ws[i])]

-----------------------------------------------------------------------------
\* The entries about subject x in a context.
EntriesFor(ws, context, x) ==
  {i \in DOMAIN ws : /\ ws[i].subjects # <<>>
                     /\ ws[i].key[1] = context
                     /\ \E j \in DOMAIN ws[i].subjects : ws[i].subjects[j] = x}
=============================================================================
