---------------------------- MODULE MCLiveFeed -----------------------------
(* A connection for TLC: mostly a subscription to one station, mostly the  *)
(* counts of two stations, or a little of both while one is deleted.       *)
EXTENDS Listeners

Budget(transitions, changes, faults, commands, polls, connections) ==
  [transitions |-> transitions, changes |-> changes, faults |-> faults,
   commands |-> commands, polls |-> polls,
   connections |-> connections]

MCBudgets ==
  {Budget(2, 2, 1, 1, 0, 0), Budget(2, 1, 2, 1, 0, 0),
   Budget(0, 0, 0, 0, 3, 1), Budget(1, 0, 1, 0, 1, 1)}
=============================================================================
