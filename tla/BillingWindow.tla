---------------------------- MODULE BillingWindow ----------------------------
(***************************************************************************)
(* billingWindowUTC: the calendar days, in UTC, that billing is asked of.  *)
(* A date is a year, a month and a day; days are numbered.                 *)
(***************************************************************************)
EXTENDS Integers

MaxMonths == 240

\* The months count on through the years.
Month(y, m) == 12 * y + m - 1

IsLeap(y) == (y % 4 = 0 /\ y % 100 # 0) \/ y % 400 = 0

MonthLength(month) ==
  LET m == (month % 12) + 1
  IN  CASE m \in {4, 6, 9, 11} -> 30
        [] m = 2 -> IF IsLeap(month \div 12) THEN 29 ELSE 28
        [] OTHER -> 31

DaysBeforeMonth == <<0, 31, 59, 90, 120, 151, 181, 212, 243, 273, 304, 334>>

\* time.Date takes any month and day and carries them over, and AddDate
\* hands it the sums.
DayNumber(y, m, d) ==
  LET year == Month(y, m) \div 12
      month == (Month(y, m) % 12) + 1
      leapDays == ((year - 1) \div 4) - ((year - 1) \div 100) + ((year - 1) \div 400)
  IN  365 * year + leapDays + DaysBeforeMonth[month]
        + (IF month > 2 /\ IsLeap(year) THEN 1 ELSE 0) + d - 1

\* Fault: the months are taken off the last day of the window.
MonthsOffEnd(now, months) ==
  LET end == DayNumber(now.y, now.m, 1) - 1
  IN  [start |-> DayNumber(now.y, now.m - 1 - months,
                           MonthLength(Month(now.y, now.m - 1)) + 1),
       end |-> end]

\* The last complete months, without the one that has begun.
CompleteMonths(now, months) ==
  [start |-> DayNumber(now.y, now.m - months, 1),
   end |-> DayNumber(now.y, now.m, 1) - 1]

\* The last days, with today.
RollingDays(now, days) ==
  LET today == DayNumber(now.y, now.m, now.d)
  IN  [start |-> today - (days - 1), end |-> today]

\* Months, where there are any, go before days.
Window(now, days, months) ==
  IF months > 0 THEN CompleteMonths(now, months) ELSE RollingDays(now, days)

InclusiveDays(window) == window.end - window.start + 1

WindowFails(days, months) == months > MaxMonths \/ (months <= 0 /\ days <= 0)
=============================================================================
