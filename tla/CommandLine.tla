----------------------------- MODULE CommandLine -----------------------------
(***************************************************************************)
(* run in main.go: which commands are refused, what of a command reaches   *)
(* the scan, and what window the report then claims; with the report and   *)
(* its files, of ReportFiles.                                              *)
(***************************************************************************)
EXTENDS ReportFiles, BillingWindow, FiniteSets

CONSTANTS
  Commands,   \* the flags, as records, that somebody may give
  Todays,     \* the dates, in UTC, on which a command may run
  NoWindow

ASSUME CommandAssumption ==
  /\ Commands \subseteq
       [region : {"none", "known", "unknown"}, key : BOOLEAN, profile : BOOLEAN,
        grpcHost : BOOLEAN, billing : BOOLEAN, skipBilling : BOOLEAN,
        allowPartial : BOOLEAN, days : Int, months : Int, debug : BOOLEAN]
  /\ Todays \subseteq [y : Nat, m : 1..12, d : 1..31]
  /\ NoWindow \notin [days : Int, months : Int, now : Todays,
                      dates : [start : Int, end : Int]]

VARIABLES
  claim,      \* the billing window in the report's metadata
  query,      \* the window the service is asked of, when, and by which flags
  exit        \* "none" while a command runs, then "ok", "error" or "usage": 0, 1, 2

process == <<claim, query, exit>>
commandVars == <<vars, process>>

WantsBilling(c) == c.billing /\ ~c.skipBilling

\* The lookups are gRPC calls with a host and a key of their own.
BillingClient(c) ==
  WantsBilling(c) /\ c.key /\ (c.grpcHost \/ c.region = "known")

Misused(c) ==
  \/ c.days < 0
  \/ c.months < 0
  \/ WantsBilling(c) /\ c.days = 0 /\ c.months = 0
  \/ ~c.profile /\ (c.region = "none" \/ ~c.key)
  \/ c.region = "unknown"
  \/ c.debug /\ ~BillingClient(c)

Unclaimed == [days |-> 0, months |-> 0, dates |-> NoWindow, warned |-> FALSE]

Query(c, now) ==
  [days |-> c.days, months |-> c.months, now |-> now,
   dates |-> Window(now, c.days, c.months)]

\* A window that cannot be is warned of, and yet the metadata repeat the
\* flags.
Claim(c, now) ==
  IF WindowFails(c.days, c.months)
    THEN [days |-> c.days, months |-> c.months, dates |-> NoWindow, warned |-> TRUE]
    ELSE LET window == Window(now, c.days, c.months)
         IN  [days |-> InclusiveDays(window), months |-> c.months,
              dates |-> window, warned |-> FALSE]

\* BillingRequested: what the report thinks was asked.
BillingRequested == claim.days > 0 \/ claim.months > 0

Idle == status = "scan" /\ exit # "none"

CommandInit ==
  /\ Init
  /\ claim = Unclaimed
  /\ query = NoWindow
  /\ exit = "ok"

Refuse(c) ==
  /\ Idle
  /\ Misused(c)
  /\ exit' = "usage"
  /\ query' = NoWindow
  /\ UNCHANGED <<vars, claim>>

\* The billing client cannot be made, or the scan fails.
FailEarly(c) ==
  /\ Idle
  /\ ~Misused(c)
  /\ exit' = "error"
  /\ query' = NoWindow
  /\ UNCHANGED <<vars, claim>>

\* --debug-billing-metric asks for one metric and prints the answer; it
\* reckons the window itself, without a greatest number of months.
Debug(c, now) ==
  /\ Idle
  /\ ~Misused(c)
  /\ c.debug
  /\ query' = Query(c, now)
  /\ exit' \in {"ok", "error"}
  /\ UNCHANGED <<vars, claim>>

Run(c, now) ==
  /\ Idle
  /\ ~Misused(c)
  /\ ~c.debug
  /\ Scan
  /\ billing'.asked = BillingClient(c)
  /\ billing'.allowPartial = c.allowPartial
  /\ claim' = IF BillingClient(c) THEN Claim(c, now) ELSE Unclaimed
  /\ claim'.warned => billing'.attempted = 0
  /\ query' = IF BillingClient(c) /\ ~claim'.warned THEN Query(c, now) ELSE NoWindow
  /\ exit' = "none"

Exit ==
  /\ exit' = status
  /\ End
  /\ claim' = Unclaimed
  /\ query' = NoWindow

CommandNext ==
  \/ \E c \in Commands : Refuse(c) \/ FailEarly(c)
  \/ \E c \in Commands, now \in Todays : Debug(c, now) \/ Run(c, now)
  \/ WriteStep /\ UNCHANGED process
  \/ Exit
  \/ Over /\ exit # "none" /\ UNCHANGED process

CommandSpec == CommandInit /\ [][CommandNext]_commandVars
-----------------------------------------------------------------------------
\* What the windows are said to be, reckoned day by day:
\* the months end the day before this one began and are as many as asked, or
\* the days end today and are as many as asked.
IsExact(q) ==
  LET this == Month(q.now.y, q.now.m)
      days == UNION {{<<k, d>> : d \in 1..MonthLength(this - k)} : k \in 1..q.months}
      today == q.dates.end + (IF q.months > 0 THEN q.now.d ELSE 0)
  IN  /\ today = DayNumber(q.now.y, q.now.m, q.now.d)
      /\ InclusiveDays(q.dates) = IF q.months > 0 THEN Cardinality(days) ELSE q.days

\* Whichever command asks the service, it asks for exactly the days its
\* flags name; and a report that claims a window was made from it, with as
\* many days, or has warned that there could be none.
WindowIsQueried ==
  /\ query # NoWindow => IsExact(query)
  /\ status # "scan" =>
       /\ BillingRequested <=> billing.asked
       /\ BillingRequested /\ ~claim.warned =>
            /\ query # NoWindow
            /\ query.dates = claim.dates
            /\ query.months = claim.months
            /\ InclusiveDays(query.dates) = claim.days
=============================================================================
