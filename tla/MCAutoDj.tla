------------------------------ MODULE MCAutoDj ------------------------------
(* Instances of AutoDj for TLC: three moments a day, months of 6 and 5     *)
(* days.  A weekly entry and two events are booked, among what is asked    *)
(* for are an entry and an event over midnight; two songs are to be had.   *)
(* Many requests for the programme meet few steps of the queue and the     *)
(* other way round.                                                        *)
EXTENDS AutoDj, TLC

Entry(day, from, to, src) == [day |-> day, from |-> from, to |-> to, src |-> src]

Event(date, from, to, rule, every, days, count, src) ==
  [date |-> date, from |-> from, to |-> to, rule |-> rule, every |-> every,
   days |-> days, until |-> Null, count |-> count, src |-> src]

MCMonths == <<6, 5>>
MCWeekly == {Entry(6, 2, 1, "night"), Entry(6, 1, 0, "day")}
MCEvents == {Event(1, 2, 1, "every_n_days", 2, {}, 4, "day"),
             Event(2, 0, 2, "daily", Null, {}, 3, "night")}
MCInitialWeekly == {WithId(Entry(6, 0, 1, "day"), 11)}
MCInitialEvents == {WithId(Event(2, 1, 2, "custom_days", Null, {0, 3}, 2, "night"), 12),
                    WithId(Event(0, 0, 1, "monthly", Null, {}, 1, "night"), 13)}

Budget(requests, edits, fills, commits, faults) ==
  [requests |-> requests, edits |-> edits, fills |-> fills, commits |-> commits,
   faults |-> faults]
MCBudgets == {Budget(3, 0, 0, 0, 0), Budget(1, 1, 2, 1, 0), Budget(0, 2, 2, 2, 1)}

Src(order, lists, ahead) == [order |-> order, lists |-> lists, ahead |-> ahead]
MCSource == [night |-> Src(<<"a", "b">>, {}, 2),
             day |-> Src(<<>>, {{"a"}, {"b"}}, 1),
             config |-> Src(<<>>, {{"a", "b"}}, 2)]
MCFillTimes == {<<2, 1>>, <<6, 1>>, <<7, 0>>}
MCListed == <<"a">>
=============================================================================
