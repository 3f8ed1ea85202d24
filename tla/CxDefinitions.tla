---------------------------- MODULE CxDefinitions ----------------------------
(***************************************************************************)
(* How the cx source reads the alerts, or the SLOs: one command lists      *)
(* their ids, one more per id gets the definition, and each command is     *)
(* retried with a doubling pause until it succeeds, fails for good or has  *)
(* been tried often enough.  External is the cx command with the tenant    *)
(* behind it, whose definitions may be deleted while they are being read.  *)
(***************************************************************************)
EXTENDS Integers, Sequences

CONSTANTS
  Ids,          \* the ids that the list command prints, in order
  Attempts,     \* retryAttempts
  BaseDelay     \* retryDelay

ASSUME CxAssumption ==
  /\ Ids \in Seq(STRING)
  /\ Attempts \in Nat
  /\ BaseDelay \in Nat

VARIABLES
  phase,        \* "run", "pause" between two attempts, "done" or "failed"
  next,         \* 0 for the list command, else the index of the id to get
  attempt,      \* attempt of the current command, from 1
  delay,        \* the pause after it fails
  waited,       \* the pauses the current command has already had
  defs,         \* the definitions got so far
  deleted,      \* the ids that are gone from the tenant
  cancelled,    \* the caller's context is done
  failure       \* why reading failed, "nil" otherwise

command == <<next, attempt, delay, waited>>
vars    == <<phase, command, defs, deleted, cancelled, failure>>

\* attempts < 1 counts as one.
MaxAttempts == IF Attempts < 1 THEN 1 ELSE Attempts

Init ==
  /\ phase = "run"
  /\ next = 0
  /\ attempt = 1
  /\ delay = BaseDelay
  /\ waited = 0
  /\ defs = <<>>
  /\ deleted = {}
  /\ cancelled = FALSE
  /\ failure = "nil"

\* The next command starts with a first attempt.
Proceed ==
  /\ next' = next + 1
  /\ attempt' = 1
  /\ delay' = BaseDelay
  /\ waited' = 0
  /\ phase' = IF next = Len(Ids) THEN "done" ELSE "run"

Fail(why) ==
  /\ phase' = "failed"
  /\ failure' = why
  /\ UNCHANGED <<command, defs, deleted, cancelled>>

\* Ids are those that decodeIDList keeps: an item without an id is dropped.
Listed ==
  /\ phase = "run"
  /\ next = 0
  /\ Proceed
  /\ UNCHANGED <<defs, deleted, cancelled, failure>>

Got ==
  /\ phase = "run"
  /\ next # 0
  /\ Ids[next] \notin deleted
  /\ defs' = Append(defs, Ids[next])
  /\ Proceed
  /\ UNCHANGED <<deleted, cancelled, failure>>

\* The list does not decode: no second attempt.
ListMalformed ==
  /\ phase = "run"
  /\ next = 0
  /\ Fail("malformed")

\* Whatever the command said, a context that is done is why it failed.
StopForCaller ==
  /\ phase \in {"run", "pause"}
  /\ cancelled
  /\ Fail("cancelled")

\* A marker of an error that no retry can fix.
FailPermanently ==
  /\ phase = "run"
  /\ ~cancelled
  /\ Fail("permanent")

RetriesLeft == attempt < MaxAttempts

\* Fault: a definition that cannot be read is left out.
SkipDefinition ==
  /\ phase = "run"
  /\ ~cancelled
  /\ ~RetriesLeft
  /\ Proceed
  /\ UNCHANGED <<defs, deleted, cancelled, failure>>

GiveUp ==
  /\ phase = "run"
  /\ ~cancelled
  /\ ~RetriesLeft
  /\ Fail("transient")

\* A transient failure: pause.
Pause ==
  /\ phase = "run"
  /\ ~cancelled
  /\ RetriesLeft
  /\ phase' = "pause"
  /\ UNCHANGED <<command, defs, deleted, cancelled, failure>>

\* Fault: the pauses do not grow.
ResumeAlike ==
  /\ phase = "pause"
  /\ phase' = "run"
  /\ attempt' = attempt + 1
  /\ waited' = waited + delay
  /\ UNCHANGED <<next, delay, defs, deleted, cancelled, failure>>

\* Fault: every attempt is the first.
ResumeUncounted ==
  /\ phase = "pause"
  /\ phase' = "run"
  /\ UNCHANGED <<command, defs, deleted, cancelled, failure>>

\* The select may take the timer also when the context is done.
Resume ==
  /\ phase = "pause"
  /\ phase' = "run"
  /\ attempt' = attempt + 1
  /\ delay' = 2 * delay
  /\ waited' = waited + delay
  /\ UNCHANGED <<next, defs, deleted, cancelled, failure>>

Step ==
  \/ Listed \/ Got \/ ListMalformed
  \/ StopForCaller \/ FailPermanently \/ GiveUp \/ Pause \/ Resume

\* Someone deletes a definition while they are being read.
Delete(id) ==
  /\ id \notin deleted
  /\ deleted' = deleted \cup {id}
  /\ UNCHANGED <<phase, command, defs, cancelled, failure>>

Cancel ==
  /\ ~cancelled
  /\ cancelled' = TRUE
  /\ UNCHANGED <<phase, command, defs, deleted, failure>>

Returned == phase \in {"done", "failed"}

Over == Returned /\ UNCHANGED vars

Next == Step \/ (\E i \in DOMAIN Ids : Delete(Ids[i])) \/ Cancel \/ Over

Spec == Init /\ [][Next]_vars
-----------------------------------------------------------------------------
\* "A definition cannot be skipped": whatever failed on the way and whatever
\* was deleted, reading succeeds with the definition of every listed id, in
\* the order of the list, or it does not succeed.
AllOrNothing == phase = "done" => defs = Ids

\* A resource is given up only at the configured number of attempts, after
\* pauses that doubled: together they are one base delay short of the next.
ErrorIsEarned ==
  failure = "transient" => attempt = MaxAttempts /\ waited + BaseDelay = delay
=============================================================================
