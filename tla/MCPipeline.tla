----------------------------- MODULE MCPipeline -----------------------------
(* One pipeline and three tracks, and the transitions between short files, *)
(* for TLC.                                                                *)
EXTENDS Pipeline, Transition

Times == 0 .. 4
PlansUpToFour ==
  {Cut} \cup {NaiveCrossfade(f) : f \in Times}
  \cup [kind : {"cue"}, fade : {0, 2}, start : 0 .. 1, fadeStart : Times, end : Times,
        nextStart : 0 .. 2, duration : 0 .. 3]

(* Whatever is planned, the transition that is resolved fits both files.   *)
ASSUME ResolvedFitsUpToFour ==
  \A p \in PlansUpToFour, l \in Times \cup {Unknown}, n \in Times \cup {Unknown}, s \in {"yes", "no"} :
    Fits(Resolved(p, l, n, s), l, n)

(* Whatever is resolved, a roll that is not refused hands over in time.    *)
ASSUME RollsInTimeUpToFour ==
  \A p \in PlansUpToFour, l \in Times, n \in Times, begun \in 0 .. 2, elapsed \in 0 .. 5 :
    LET t == Resolved(p, l, n, "yes")
    IN  (t.kind = "cue" => begun <= t.fadeStart) /\ ~ Stale(t, l, begun, 1, elapsed)
          => InTime(Rolling(t, l, begun, 1, elapsed), l, begun, 1, elapsed)
=============================================================================
