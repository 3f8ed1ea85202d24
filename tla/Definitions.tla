----------------------------- MODULE Definitions -----------------------------
(***************************************************************************)
(* Two scans read the alerts of one tenant at the same time, one with each *)
(* source: CxDefinitions with the cx command, AlertPages over the API.     *)
(* They share the tenant, whose user deletes alerts meanwhile.             *)
(***************************************************************************)
EXTENDS CxDefinitions

CONSTANT PageSize   \* pagination.pageSize

ASSUME DefinitionsAssumption == PageSize \in Nat \ {0}

VARIABLES token, all, outcome    \* the API client's

Api == INSTANCE AlertPages

apiVars == <<token, all, outcome>>
cxVars  == <<phase, command, defs, cancelled, failure>>
allVars == <<vars, apiVars>>

BothInit == Init /\ Api!Init

ReadByCommand == (Step \/ Cancel) /\ UNCHANGED apiVars

ReadByPage == Api!Fetch /\ UNCHANGED cxVars

SomeoneDeletes == \E i \in DOMAIN Ids : Delete(Ids[i]) /\ UNCHANGED apiVars

BothReturned == Returned /\ outcome # "reading"

BothOver == BothReturned /\ UNCHANGED allVars

BothNext == ReadByCommand \/ ReadByPage \/ SomeoneDeletes \/ BothOver

\* A command is killed at its timeout, a timer fires, a request is answered or
\* fails.
BothSpec ==
  /\ BothInit /\ [][BothNext]_allVars
  /\ WF_allVars(Step /\ UNCHANGED apiVars)
  /\ WF_allVars(ReadByPage)
-----------------------------------------------------------------------------
\* The pages lose no alert and repeat none.
EveryAlertOnce == Api!EveryAlertOnce

\* Both scans get their definitions or an error, whatever fails, is deleted
\* or is cancelled.
ReadingEnds == <>BothReturned
=============================================================================
