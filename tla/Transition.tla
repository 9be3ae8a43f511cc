----------------------------- MODULE Transition -----------------------------
(***************************************************************************)
(* The arithmetic of a transition between two tracks: what the planner     *)
(* asks for (streamer/pipeline.rs), what is left of it once the length of  *)
(* the files is known, and when the next track starts and takes over       *)
(* (streamer/gstreamer/transition.rs).  Times are natural numbers, -1 is a *)
(* length that is not known.                                               *)
(***************************************************************************)
EXTENDS Integers

CONSTANT MinOverlap  \* the shortest analyzed overlap (200 ms)

ASSUME OverlapAssumption == MinOverlap \in Nat

Unknown == -1
Lengths == Nat \cup {Unknown}

Less(a, b) == IF a > b THEN a - b ELSE 0
Smaller(a, b) == IF a < b THEN a ELSE b
Larger(a, b) == IF a > b THEN a ELSE b
Clamp(x, low, high) == IF x < low THEN low ELSE IF x > high THEN high ELSE x

Plans == [kind : {"cut", "naive", "cue"}, fade : Nat, start : Nat, fadeStart : Nat,
          end : Nat, nextStart : Nat, duration : Nat]

Cut == [kind |-> "cut", fade |-> 0, start |-> 0, fadeStart |-> 0, end |-> 0,
        nextStart |-> 0, duration |-> 0]
NaiveCrossfade(fade) ==
  [kind |-> "naive", fade |-> fade, start |-> 0, fadeStart |-> 0, end |-> 0,
   nextStart |-> 0, duration |-> 0]
AutoCueCrossfade(fade, start, fadeStart, end, nextStart, duration) ==
  [kind |-> "cue", fade |-> fade, start |-> start, fadeStart |-> fadeStart, end |-> end,
   nextStart |-> nextStart, duration |-> duration]

CueTracks == [cueIn : Nat, cueOut : Nat, cross : Nat, analyzed : {"yes", "no"}]

-----------------------------------------------------------------------------
(* What is asked for.  There is a next track.                              *)

Analyzed(current, next, cap) ==
  /\ current.analyzed = "yes" /\ next.analyzed = "yes"
  /\ current.cueIn <= current.cross /\ current.cross <= current.cueOut
  /\ Smaller(current.cueOut - current.cross, cap) >= MinOverlap

Planned(mode, fade, cap, current, next) ==
  IF mode = "off" THEN Cut
  ELSE IF mode = "autocue" /\ Analyzed(current, next, cap)
  THEN AutoCueCrossfade(fade, current.cueIn, current.cross, current.cueOut, next.cueIn,
                        Smaller(current.cueOut - current.cross, cap))
  ELSE IF fade = 0 THEN Cut ELSE NaiveCrossfade(fade)

-----------------------------------------------------------------------------
(* What the files allow.                                                   *)

Naive(fade, length, nextLength) ==
  LET f == Smaller(Smaller(fade, length), nextLength)
  IN  IF length = Unknown \/ nextLength = Unknown \/ fade = 0 \/ f = 0
      THEN Cut ELSE NaiveCrossfade(f)

Resolved(plan, length, nextLength, seekable) ==
  IF plan.kind = "cut" THEN Cut
  ELSE IF plan.kind = "naive" THEN Naive(plan.fade, length, nextLength)
  ELSE IF length = Unknown \/ nextLength = Unknown THEN Cut
  ELSE LET from  == Clamp(plan.fadeStart, plan.start, length)
           end   == Clamp(plan.end, from, length)
           d     == Smaller(Smaller(plan.duration, Less(end, from)), Less(nextLength, plan.nextStart))
       IN  IF \/ seekable = "no" \/ plan.start >= length \/ plan.nextStart >= nextLength
              \/ d < MinOverlap
           THEN Naive(plan.fade, length, nextLength)
           ELSE AutoCueCrossfade(plan.fade, plan.start, Larger(Less(end, d), from), end,
                                 plan.nextStart, d)

-----------------------------------------------------------------------------
(* When it happens.  base is where the current track begins in the         *)
(* timeline, begun how much of its file had been skipped by then.          *)

(* apply: where the next track begins and where it takes over. *)
NextBegins(t, length, begun, base) ==
  IF t.kind = "cut" THEN base + Less(length, begun)
  ELSE IF t.kind = "naive" THEN base + Less(Less(length, t.fade), begun)
  ELSE base + Less(t.fadeStart, begun)

Half(t) == IF t.kind = "cut" THEN 0 ELSE IF t.kind = "naive" THEN t.fade \div 2 ELSE t.duration \div 2

TakesOver(t, length, begun, base) == NextBegins(t, length, begun, base) + Half(t)

(* planned_handover *)
Expected(t, length, begun, base) ==
  IF t.kind = "cut" THEN base + Less(length, begun)
  ELSE IF t.kind = "naive" THEN base + Less(Less(length, begun), t.fade) + Half(t)
  ELSE base + Less(t.fadeStart, begun) + Half(t)

(* The fade of a roll is no longer than what is left of the file. *)
Shortened(t, length, begun) ==
  IF t.kind # "naive" THEN t
  ELSE IF Smaller(t.fade, Less(length, begun)) = 0 THEN Cut
  ELSE NaiveCrossfade(Smaller(t.fade, Less(length, begun)))

(* select_rolling_transition: a transition whose time has passed becomes a *)
(* cut at the end of the file, and a roll after that end is stale.         *)
TooLate(length, begun, base, elapsed) == Expected(Cut, length, begun, base) <= elapsed
Selected(t, length, begun, base, elapsed) ==
  IF Expected(t, length, begun, base) > elapsed THEN t ELSE Cut

Rolling(t, length, begun, base, elapsed) ==
  Selected(Shortened(t, length, begun), length, begun, base, elapsed)

Stale(t, length, begun, base, elapsed) ==
  /\ Expected(Shortened(t, length, begun), length, begun, base) <= elapsed
  /\ TooLate(length, begun, base, elapsed)

-----------------------------------------------------------------------------
(* What is always so.                                                      *)

(* A resolved transition fits into both files: an overlap never reaches    *)
(* past the end of either, and an analyzed one is never shorter than       *)
(* MinOverlap and ends where the current track ends.                       *)
Fits(t, length, nextLength) ==
  /\ t.kind = "naive" => 0 < t.fade /\ t.fade <= length /\ t.fade <= nextLength
  /\ t.kind = "cue" =>
       /\ t.start <= t.fadeStart /\ t.end <= length
       /\ MinOverlap <= t.duration
       /\ t.fadeStart + t.duration = t.end
       /\ t.nextStart + t.duration <= nextLength

(* The handover of a roll is still to come, and the current track is still *)
(* playing when the next one begins and when it takes over.                *)
InTime(t, length, begun, base, elapsed) ==
  LET end == base + Less(length, begun)
  IN  /\ elapsed < TakesOver(t, length, begun, base)
      /\ NextBegins(t, length, begun, base) <= TakesOver(t, length, begun, base)
      /\ TakesOver(t, length, begun, base) <= end
=============================================================================
