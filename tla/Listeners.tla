----------------------------- MODULE Listeners ------------------------------
(***************************************************************************)
(* The other task of the same connection: how many people listen to each   *)
(* station.  listeners/poller.rs asks Icecast every two seconds,           *)
(* listeners/mod.rs keeps and broadcasts what it answers, and              *)
(* forward_listeners of stations/handlers/ws.rs passes it on to a client.  *)
(* Every second poll or so leaves a sample for the charts.                 *)
(*                                                                         *)
(* There are two stations: the one of LiveFeed, which may be deleted, and  *)
(* another one, so that a receiver that falls behind on one of them loses  *)
(* what it should have heard of the other.  Time is counted in polls.      *)
(***************************************************************************)
EXTENDS LiveFeed, FiniteSets

CONSTANT SampleEvery  \* polls from one sample to the next (15 in the code)

ASSUME ListenersAssumption == SampleEvery \in Nat \ {0}

Stations == {"this", "other"}
Rows == IF row = "gone" THEN {"other"} ELSE Stations

VARIABLES
  clock,      \* polls since the start
  sampled,    \* when the last poll that was to record a sample began, or 0
  poll,       \* what the poller does
  cache,      \* ListenersState: the last count of every station
  samples,    \* when the last sample of each station was recorded, or 0
  listening,  \* the client's listener task
  counts,     \* its receiver
  shown,      \* the count the client was last told of every station
  dropped     \* history: stations whose last broadcast the receiver lost

listenerVars == <<clock, sampled, poll, cache, samples, listening, counts, shown, dropped>>
allVars == <<vars, listenerVars>>

Unknown == [listeners |-> 0, online |-> FALSE, at |-> 0]
Resting == [at |-> "idle", sample |-> FALSE, found |-> <<>>, listed |-> {}, todo |-> {},
            update |-> {}]

ListenersInit ==
  /\ clock = 0
  /\ sampled = 0
  /\ poll = Resting
  /\ cache = [s \in Stations |-> Unknown]
  /\ samples = [s \in Stations |-> 0]
  /\ listening = "none"
  /\ counts = Empty
  /\ shown = [s \in Stations |-> Unknown]
  /\ dropped = {}

-----------------------------------------------------------------------------
(* The poller.                                                             *)

(* The slot of a sample is taken before anything is asked.                 *)
BeginPoll ==
  /\ poll.at = "idle"
  /\ Spend("polls")
  /\ clock' = clock + 1
  /\ LET due == sampled = 0 \/ clock' - sampled >= SampleEvery
     IN  /\ sampled' = IF due THEN clock' ELSE sampled
         /\ poll' = [Resting EXCEPT !.at = "ask", !.sample = due]
  /\ UNCHANGED <<cache, samples, listening, counts, shown, dropped>>

(* What the stats of the server say, source by source; a station without a *)
(* source has no listeners.                                                *)
Counts ==
  {[s \in Stations |-> [listeners |-> n[s], online |-> TRUE, at |-> clock]]
     : n \in [Stations -> 0..1]}

Offline == [s \in Stations |-> [listeners |-> 0, online |-> FALSE, at |-> clock]]

(* A server that answers is believed, one that cannot be reached is        *)
(* offline.  One that refuses, an answer that is no complete list, or a    *)
(* database that does not answer say nothing about any station.            *)
Ask ==
  /\ poll.at = "ask"
  /\ \/ \E found \in Counts \cup {Offline} :
          poll' = [poll EXCEPT !.at = "publish", !.found = found, !.listed = Rows, !.todo = Rows]
     \/ poll' = Resting
  /\ UNCHANGED <<clock, sampled, cache, samples, listening, counts, shown, dropped, left>>

Differs(a, b) == a.listeners # b.listeners \/ a.online # b.online

(* Mutant: only counts are told, not that a server went away.              *)
PublishCounts ==
  /\ poll.at = "publish" /\ poll.update = {}
  /\ \E s \in poll.todo :
       /\ cache' = [cache EXCEPT ![s] = poll.found[s]]
       /\ poll' = [poll EXCEPT !.todo = @ \ {s},
                     !.update = IF cache[s].listeners # poll.found[s].listeners
                                THEN {s} ELSE {}]
  /\ UNCHANGED <<clock, sampled, samples, listening, counts, shown, dropped, left>>

(* The cache is written under its lock, the broadcast follows.             *)
Publish ==
  /\ poll.at = "publish" /\ poll.update = {}
  /\ \E s \in poll.todo :
       /\ cache' = [cache EXCEPT ![s] = poll.found[s]]
       /\ poll' = [poll EXCEPT !.todo = @ \ {s},
                     !.update = IF cache[s].at = 0 \/ Differs(cache[s], poll.found[s])
                                THEN {s} ELSE {}]
  /\ UNCHANGED <<clock, sampled, samples, listening, counts, shown, dropped, left>>

(* The task subscribes, then it reads the cache. *)
Subscribed == listening \in {"snapshot", "live"}

BroadcastCount ==
  /\ \E s \in poll.update :
       IF ~ Subscribed THEN UNCHANGED <<counts, dropped>>
       ELSE /\ counts' = Sent(counts, <<s, poll.found[s]>>)
            /\ dropped' = (dropped \ {s})
                 \cup (IF Len(counts.msgs) = Capacity THEN {Head(counts.msgs)[1]} \ {s} ELSE {})
  /\ poll' = [poll EXCEPT !.update = {}]
  /\ UNCHANGED <<clock, sampled, cache, samples, listening, shown, left>>

(* One INSERT after the other: the first that fails, because the station   *)
(* is gone or the database is, leaves the others out.                      *)
Recorded ==
  {recorded \in SUBSET (poll.listed \cap Rows) :
     recorded = poll.listed \/ left.faults > 0 \/ ~ poll.listed \subseteq Rows}

EndPoll ==
  /\ poll.at = "publish" /\ poll.update = {} /\ poll.todo = {}
  /\ IF poll.sample
     THEN \E recorded \in Recorded :
            samples' = [s \in Stations |-> IF s \in recorded THEN clock ELSE samples[s]]
     ELSE UNCHANGED samples
  /\ poll' = Resting
  /\ UNCHANGED <<clock, sampled, cache, listening, counts, shown, dropped, left>>

-----------------------------------------------------------------------------
(* forward_listeners.                                                      *)

Listen ==
  /\ listening = "none" /\ client # "gone"
  /\ Spend("connections")
  /\ listening' = "snapshot"
  /\ UNCHANGED <<clock, sampled, poll, cache, samples, counts, shown, dropped>>

ReadCache ==
  /\ listening = "snapshot"
  /\ listening' = "live"
  /\ shown' = cache
  /\ UNCHANGED <<clock, sampled, poll, cache, samples, counts, dropped, left>>

NewerOrNot(update) == TRUE  \* mutant: what the snapshot has is told again
Newer(update) == shown[update[1]].at < update[2].at

(* A receiver that lagged goes on with what is left. *)
ForwardCount ==
  /\ listening = "live"
  /\ counts # Empty
  /\ counts' = NextMessage(counts)
  /\ LET update == Head(counts.msgs)
     IN  IF counts.lagged \/ ~ Newer(update) THEN UNCHANGED shown
         ELSE shown' = [shown EXCEPT ![update[1]] = update[2]]
  /\ UNCHANGED <<clock, sampled, poll, cache, samples, listening, dropped, left>>

AbortListening ==
  /\ client = "gone"
  /\ listening \in {"snapshot", "live"}
  /\ listening' = "ended"
  /\ counts' = Empty
  /\ UNCHANGED <<clock, sampled, poll, cache, samples, shown, dropped, left>>

-----------------------------------------------------------------------------
ListenerStep ==
  \/ BeginPoll \/ Ask \/ Publish \/ BroadcastCount \/ EndPoll
  \/ Listen \/ ReadCache \/ ForwardCount \/ AbortListening

Connection == <<station, client, feed, notes, statuses, queues, view, lost>>

ConnectionInit == Init /\ ListenersInit

ConnectionNext ==
  \/ Next /\ UNCHANGED listenerVars
  \/ ListenerStep /\ UNCHANGED Connection

ConnectionSpec == ConnectionInit /\ [][ConnectionNext]_allVars /\ Fairness

(* The task has passed on all there is. *)
Heard == poll.update = {} /\ listening = "live" /\ counts = Empty

(* Between the subscription and the reading of the cache no change slips   *)
(* through: a client that has heard everything knows what the server last  *)
(* said of every station, except where its receiver was too slow.          *)
CountsAreCurrent ==
  Heard => \A s \in Stations \ dropped : ~ Differs(shown[s], cache[s])

(* No client is told an older count after a newer one: not by updates that *)
(* its snapshot had already.  And the samples of a station lie as far      *)
(* apart in an outage as without one: "denser zeros would overweight the   *)
(* outage" (poller.rs, mark_offline).                                      *)
CountsMoveForward ==
  [][\A s \in Stations :
       /\ shown'[s].at >= shown[s].at
       /\ samples'[s] # samples[s] /\ samples[s] # 0
            => samples'[s] >= samples[s] + SampleEvery]_allVars
=============================================================================
