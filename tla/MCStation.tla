----------------------------- MODULE MCStation ------------------------------
(* A station with two rows to start with and room for a third.             *)
EXTENDS Station

MCRows == <<1, 2>>
SurvivedRaces ==
  {"resuming", "starting", "skipping", "stale", "overtake", "reviving", "ending", "toggle"}
=============================================================================
