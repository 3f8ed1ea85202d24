---------------------------- MODULE MCReportFiles ----------------------------
(* No lookup, one, or ten: with ten, nine are exactly the threshold.  The   *)
(* days are the last of a month after a leap February, one in a January,    *)
(* and one at the end of a century.                                         *)
EXTENDS CommandLine

MCCoverages == {<<0, 0>>, <<1, 0>>, <<1, 1>>, <<10, 8>>, <<10, 9>>, <<10, 10>>}

MCTodays == {[y |-> 2024, m |-> 3, d |-> 31], [y |-> 2023, m |-> 1, d |-> 1],
             [y |-> 2101, m |-> 3, d |-> 1]}

ByKey ==
  [region |-> "known", key |-> TRUE, profile |-> FALSE, grpcHost |-> FALSE,
   billing |-> FALSE, skipBilling |-> FALSE, allowPartial |-> FALSE,
   days |-> 7, months |-> 0, debug |-> FALSE]

MCCommands ==
  {[ByKey EXCEPT !.billing = TRUE, !.days = w[1], !.months = w[2]] :
     w \in {<<7, 0>>, <<7, 1>>, <<0, 241>>, <<0, 0>>, <<-1, 3>>, <<7, -1>>}}
  \cup
  {[ByKey EXCEPT !.billing = asks, !.months = 13, !.debug = TRUE] : asks \in BOOLEAN}
  \cup
  {[ByKey EXCEPT !.billing = TRUE, !.allowPartial = TRUE, !.skipBilling = skip] :
     skip \in BOOLEAN}
  \cup
  {[ByKey EXCEPT !.profile = profile, !.region = region, !.key = key, !.billing = asks,
                 !.grpcHost = asks /\ region = "none"] :
     profile \in BOOLEAN, region \in {"none", "known", "unknown"}, key \in BOOLEAN,
     asks \in BOOLEAN}
=============================================================================
