------------------------------ MODULE Playout ------------------------------
(***************************************************************************)
(* What the pipeline of a station promises to its controller, one step per *)
(* change of the plan on the air.  A request names the plan it was made    *)
(* for; it is adopted only if that plan is still on the air at that very   *)
(* moment, as a whole, and a request that is refused changes nothing.      *)
(* Pipeline.tla is shown to implement this.                                *)
(***************************************************************************)
EXTENDS Naturals

CONSTANTS
  Tracks,   \* queue items that can be staged
  None      \* no track, no plan, no request

VARIABLES
  plan,     \* generation, current and next track on the air, or None
  request,  \* the request at work, or None
  verdict   \* what has become of the last request

NoPlan == [gen |-> 0, cur |-> None, next |-> None]
NoRequest == [kind |-> "none", gen |-> 0, cur |-> None, next |-> None,
              expGen |-> 0, expCur |-> None, expNext |-> None]

Init == plan = NoPlan /\ request = NoRequest /\ verdict = "adopted"

(* The plan a request was made for. *)
Fits(r, p) ==
  \/ r.kind = "initial" /\ p = NoPlan
  \/ r.kind = "active" /\ p # NoPlan /\ p.gen = r.expGen /\ p.cur = r.expCur
  \/ r.kind = "roll" /\ p # NoPlan /\ p.gen = r.gen /\ p.cur = r.cur /\ p.next = r.expNext

(* A successor whose predecessor's length is unknown is not staged. *)
Outcomes(r) ==
  {[gen |-> r.gen, cur |-> r.cur, next |-> n] :
     n \in IF r.kind = "roll" THEN {r.next} ELSE {r.next, None}}

Open ==
  /\ request = NoRequest
  /\ request' # NoRequest
  /\ verdict' = "open"
  /\ UNCHANGED plan

Adopt ==
  /\ verdict = "open"
  /\ Fits(request, plan)
  /\ plan' \in Outcomes(request)
  /\ verdict' = "adopted"
  /\ UNCHANGED request

Refuse ==
  /\ verdict' = "refused"
  /\ UNCHANGED <<plan, request>>

(* The plan is lost: on request, or because the graph cannot be started.   *)
Collapse ==
  /\ \/ request.kind \in {"stop", "sink"}
     \/ request.kind = "active" /\ verdict = "adopted"
  /\ plan' = NoPlan
  /\ verdict' \in {"adopted", "refused"}
  /\ UNCHANGED request

Close ==
  /\ verdict # "open"
  /\ request' = NoRequest
  /\ UNCHANGED <<plan, verdict>>

Handover ==
  /\ plan.next # None
  /\ plan' = [gen |-> plan.gen, cur |-> plan.next, next |-> None]
  /\ UNCHANGED <<request, verdict>>

Next == Open \/ Adopt \/ Refuse \/ Collapse \/ Close \/ Handover

vars == <<plan, request, verdict>>

Spec == Init /\ [][Next]_vars
=============================================================================
