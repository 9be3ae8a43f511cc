------------------------------ MODULE Schedule ------------------------------
(***************************************************************************)
(* The programme of one station: weekly entries and dated events           *)
(* (scheduling/handlers/schedule.rs, events.rs, repository.rs), the        *)
(* recurrence rules (service/recurrence.rs) and the choice of what a fill  *)
(* of the queue draws from (service/mod.rs).                               *)
(*                                                                         *)
(* A request checks its times against what is stored and writes in a       *)
(* second statement; nothing is locked, so requests of other clients fall  *)
(* in between.                                                             *)
(*                                                                         *)
(* Abstractions: a day has Slots moments instead of seconds, day 0 is a    *)
(* Monday, the months are a parameter; an entry carries the name of the    *)
(* source it draws from in place of its AutoDJ columns; a refused request  *)
(* changes nothing and is no step.                                         *)
(***************************************************************************)
EXTENDS Integers, FiniteSets, Sequences

CONSTANTS
  Clients,       \* requests under way at a time
  Slots,         \* moments of a day
  Months,        \* the lengths of the months from day 0 on
  Horizon,       \* days an event is checked for; 365 in the code
  Sources,       \* the names of what a station may draw from
  WeeklyOffers,  \* the weekly entries clients ask for
  EventOffers,   \* the events clients ask for
  InitialWeekly, \* what was booked earlier
  InitialEvents,
  Budgets,       \* bounds: mixes of requests and other steps to explore, by kind
  Null

ASSUME ScheduleAssumption ==
  /\ Slots \in Nat \ {0, 1}
  /\ Horizon \in Nat
  /\ Months \in Seq(Nat \ {0})
  /\ Budgets \subseteq [requests : Nat, edits : Nat, fills : Nat, commits : Nat, faults : Nat]

VARIABLES
  weekly,   \* table station_schedules
  events,   \* table station_schedule_events
  request,  \* what each client has checked and not yet written
  left,     \* requests and other bounded steps left, by kind
  raced     \* history: pairs of identities whose latest checks missed each other

programme == <<weekly, events, request, raced>>
scheduleVars == <<programme, left>>

ScheduleInit ==
  /\ weekly = InitialWeekly
  /\ events = InitialEvents
  /\ request = [c \in Clients |-> Null]
  /\ left \in Budgets
  /\ raced = {}

-----------------------------------------------------------------------------
(* The calendar.                                                           *)

FirstOf[m \in 1 .. Len(Months) + 1] ==
  IF m = 1 THEN 0 ELSE FirstOf[m - 1] + Months[m - 1]

Days == 0 .. FirstOf[Len(Months) + 1] - 1
Times == Days \X (0 .. Slots - 1)

Weekday(date) == date % 7
MonthOf == [date \in Days |->
              CHOOSE m \in DOMAIN Months : FirstOf[m] <= date /\ date < FirstOf[m + 1]]
DayOfMonth(date) == date - FirstOf[MonthOf[date]]

(* A row of each table.  Days of the week count from Monday on. *)
EntryRow == [id : Nat, day : 0 .. 6, from : 0 .. Slots - 1, to : 0 .. Slots - 1, src : Sources]

EventRow ==
  [id : Nat, date : Days, from : 0 .. Slots - 1, to : 0 .. Slots - 1,
   rule : {"none", "daily", "every_n_days", "weekly", "biweekly", "monthly", "custom_days"},
   every : Int \cup {Null}, days : SUBSET (0 .. 6), until : Int \cup {Null},
   count : Int \cup {Null}, src : Sources]

-----------------------------------------------------------------------------
(* recurrence.rs: whether rule r of an event takes place on a date.        *)

Below(n, count) == count = Null \/ n < count

(* The n-th repetition every so many days, n counted from 0. *)
EveryDays(r, date, every) ==
  /\ (date - r.date) % every = 0
  /\ Below((date - r.date) \div every, r.count)

MatchMonthly(r, date) ==
  /\ DayOfMonth(date) = DayOfMonth(r.date)
  /\ Below(MonthOf[date] - MonthOf[r.date], r.count)

(* Whole weeks since the start, and the chosen days of the rest. *)
MatchCustomDays(r, date) ==
  LET diff == date - r.date
      rest == {o \in 0 .. diff % 7 : (Weekday(r.date) + o) % 7 \in r.days}
  IN  /\ Weekday(date) \in r.days
      /\ \/ r.count = Null
         \/ (diff \div 7) * Cardinality(r.days) + Cardinality(rest) <= r.count

AtLeastOne(n) == IF n = Null \/ n < 1 THEN 1 ELSE n

MatchesRecurrence(r, date) ==
  /\ date >= r.date
  /\ r.until = Null \/ date <= r.until
  /\ \/ r.rule = "none" /\ date = r.date
     \/ r.rule = "daily" /\ EveryDays(r, date, 1)
     \/ r.rule = "every_n_days" /\ EveryDays(r, date, AtLeastOne(r.every))
     \/ r.rule = "weekly" /\ EveryDays(r, date, 7)
     \/ r.rule = "biweekly" /\ EveryDays(r, date, 14)
     \/ r.rule = "monthly" /\ MatchMonthly(r, date)
     \/ r.rule = "custom_days" /\ MatchCustomDays(r, date)

-----------------------------------------------------------------------------
(* service/mod.rs: what is on at a moment of a day.                        *)

Overnight(e) == e.to <= e.from

ActiveOnDay(e, today, moment) ==
  IF Overnight(e)
  THEN \/ e.day = today /\ moment >= e.from
       \/ e.day = (today + 6) % 7 /\ moment < e.to
  ELSE e.day = today /\ e.from <= moment /\ moment < e.to

(* Where an entry began, seen from today. *)
EffectiveStart(e, today) == IF e.day = today THEN e.from ELSE e.from - Slots

(* The entries find_active_schedule may return: of those that began at     *)
(* the same moment the database decides.                                   *)
FindActiveSchedule(date, moment) ==
  LET today == Weekday(date)
      active == {e \in weekly : ActiveOnDay(e, today, moment)}
  IN  {e \in active :
         \A f \in active : EffectiveStart(f, today) <= EffectiveStart(e, today)}

EventIsActiveToday(e, date, moment) ==  \* mutant: forgets that the night began yesterday
  /\ MatchesRecurrence(e, date)
  /\ IF Overnight(e) THEN moment >= e.from \/ moment < e.to
     ELSE e.from <= moment /\ moment < e.to

EventIsActive(e, date, moment) ==
  /\ MatchesRecurrence(e, IF Overnight(e) /\ moment < e.to THEN date - 1 ELSE date)
  /\ IF Overnight(e) THEN moment >= e.from \/ moment < e.to
     ELSE e.from <= moment /\ moment < e.to

(* The first in order of start date and time. *)
FindActiveEvent(date, moment) ==
  LET active == {e \in events : EventIsActive(e, date, moment)}
  IN  {e \in active :
         \A f \in active : \/ e.date < f.date
                           \/ e.date = f.date /\ e.from <= f.from}

(* The sources fill_queue_from_schedule_locked may draw from; config is    *)
(* the station's AutoDJ configuration.                                     *)
SourcesAt(date, moment, config) ==
  LET entries == FindActiveSchedule(date, moment)
      dated == FindActiveEvent(date, moment)
  IN  IF entries # {} THEN {e.src : e \in entries}
      ELSE IF dated # {} THEN {e.src : e \in dated}
      ELSE {config}

-----------------------------------------------------------------------------
(* The handlers' overlap checks.                                           *)

TimesOverlap(a, b) ==
  IF Overnight(a)
  THEN Overnight(b) \/ b.from < a.to \/ b.to > a.from
  ELSE IF Overnight(b) THEN a.from < b.to \/ a.to > b.from
  ELSE a.from < b.to /\ a.to > b.from

CheckScheduleOverlap(id, e) ==
  \E f \in weekly : f.id # id /\ f.day = e.day /\ TimesOverlap(e, f)

CheckFirstDay(id, e) ==  \* mutant: compares the first occurrence only
  \E f \in events : /\ f.id # id
                    /\ MatchesRecurrence(f, e.date)
                    /\ TimesOverlap(e, f)

CheckEventOverlap(id, e) ==
  \E f \in events, date \in Days :
    /\ f.id # id
    /\ date - e.date \in 0 .. Horizon - 1
    /\ MatchesRecurrence(e, date)
    /\ MatchesRecurrence(f, date)
    /\ TimesOverlap(e, f)

-----------------------------------------------------------------------------
(* Requests.  An update writes every column, so it carries the whole row   *)
(* as merged from what it read.                                            *)

Spend(kind) == left[kind] > 0 /\ left' = [left EXCEPT ![kind] = @ - 1]
NewId == left.requests  \* of the row the next request creates; earlier ones are larger

WithId(e, id) == [k \in DOMAIN e \cup {"id"} |-> IF k = "id" THEN id ELSE e[k]]

Checked(c, kind, id, e, new) ==
  /\ Spend("requests")
  /\ request[c] = Null
  /\ e.from # e.to
  /\ request' = [request EXCEPT ![c] =
                   [kind |-> kind, id |-> id, row |-> WithId(e, id), new |-> new,
                    missed |-> {}]]
  /\ UNCHANGED <<weekly, events, raced>>

CreateSchedule(c) == \E e \in WeeklyOffers :
  ~ CheckScheduleOverlap(NewId, e) /\ Checked(c, "weekly", NewId, e, TRUE)

UpdateSchedule(c) == \E old \in weekly, e \in WeeklyOffers :
  ~ CheckScheduleOverlap(old.id, e) /\ Checked(c, "weekly", old.id, e, FALSE)

CreateScheduleEvent(c) == \E e \in EventOffers :
  ~ CheckEventOverlap(NewId, e) /\ Checked(c, "event", NewId, e, TRUE)

UpdateScheduleEvent(c) == \E old \in events, e \in EventOffers :
  ~ CheckEventOverlap(old.id, e) /\ Checked(c, "event", old.id, e, FALSE)

Put(table, row, new) ==
  IF new \/ \E old \in table : old.id = row.id
  THEN {old \in table : old.id # row.id} \cup {row}
  ELSE table

(* insert_schedule, update_schedule, insert_event, update_event. *)
Write(c) ==
  /\ request[c] # Null
  /\ LET r == request[c]
     IN  /\ IF r.kind = "weekly"
            THEN weekly' = Put(weekly, r.row, r.new) /\ UNCHANGED events
            ELSE events' = Put(events, r.row, r.new) /\ UNCHANGED weekly
         /\ request' = [d \in Clients |->
              IF d = c \/ request[d] = Null THEN IF d = c THEN Null ELSE request[d]
              ELSE [request[d] EXCEPT !.missed = @ \cup {r.id}]]
         /\ raced' = {p \in raced : r.id \notin p} \cup {{r.id, other} : other \in r.missed}
  /\ UNCHANGED left

DeleteSchedule == \E e \in weekly :
  /\ Spend("requests")
  /\ weekly' = weekly \ {e}
  /\ UNCHANGED <<events, request, raced>>

DeleteScheduleEvent == \E e \in events :
  /\ Spend("requests")
  /\ events' = events \ {e}
  /\ UNCHANGED <<weekly, request, raced>>

ScheduleRequest ==
  \/ \E c \in Clients : \/ CreateSchedule(c)
                        \/ UpdateSchedule(c)
                        \/ CreateScheduleEvent(c)
                        \/ UpdateScheduleEvent(c)
  \/ DeleteSchedule
  \/ DeleteScheduleEvent

-----------------------------------------------------------------------------
(* The timeline the tables stand for: moments counted from day 0 on.       *)

Now(date, moment) == date * Slots + moment
Ends(e) == IF Overnight(e) THEN e.to + Slots ELSE e.to

(* Whether a row that begins on day d is on, and the weekly entries and    *)
(* the events that are on, with the day each began.                        *)
Lasts(e, d, date, moment) ==
  Now(d, e.from) <= Now(date, moment) /\ Now(date, moment) < Now(d, Ends(e))

EntriesOn(date, moment) ==
  {p \in weekly \X {date - 1, date} :
     Weekday(p[2]) = p[1].day /\ Lasts(p[1], p[2], date, moment)}

EventsOn(date, moment) ==
  {p \in events \X {date - 1, date} :
     MatchesRecurrence(p[1], p[2]) /\ Lasts(p[1], p[2], date, moment)}

OnPlays ==
  \A t \in Times :
    LET on == EntriesOn(t[1], t[2])
        due == EventsOn(t[1], t[2])
        last == {p \in on : \A q \in on : Now(q[2], q[1].from) <= Now(p[2], p[1].from)}
        first == {p \in due :
                    \A q \in due : Now(p[1].date, p[1].from) <= Now(q[1].date, q[1].from)}
    IN  SourcesAt(t[1], t[2], Null) =
          IF on # {} THEN {p[1].src : p \in last}
          ELSE IF due # {} THEN {p[1].src : p \in first} ELSE {Null}

(* Whatever is stored, a fill at any moment draws from the weekly entry    *)
(* that is on and began last, else from the event that is on, the one with *)
(* the earliest first date, else from the configuration: the choice of     *)
(* service/mod.rs, made from weekdays and times of day, against the        *)
(* intervals on the timeline, across midnight and the end of the week.     *)
WhatIsOnPlays ==
  OnPlays /\ [][UNCHANGED <<weekly, events>> \/ OnPlays']_<<weekly, events>>

(* The moments two rows that begin on the same day share. *)
Share(e, f) == e.from < Ends(f) /\ f.from < Ends(e)

(* What was booked earlier was booked apart, and clients ask for rows of   *)
(* the tables' types.                                                      *)
ASSUME ProgrammeAssumption ==
  /\ InitialWeekly \subseteq EntryRow /\ InitialEvents \subseteq EventRow
  /\ \A e \in WeeklyOffers : WithId(e, 0) \in EntryRow
  /\ \A e \in EventOffers : WithId(e, 0) \in EventRow
  /\ \A e \in InitialWeekly, f \in InitialEvents : e.id # f.id
  /\ \A e \in InitialWeekly \cup InitialEvents, b \in Budgets : b.requests < e.id
  /\ \A e, f \in InitialWeekly : e.id # f.id /\ e.day = f.day => ~ Share(e, f)
  /\ \A e, f \in InitialEvents, date \in Days :
       /\ e.id # f.id /\ MatchesRecurrence(e, date) /\ MatchesRecurrence(f, date)
       /\ date < e.date + Horizon /\ date < f.date + Horizon
       => ~ Share(e, f)

(* Two weekly entries of one day, or two events on one date of the first   *)
(* Horizon days, never share a moment, unless their requests checked and   *)
(* wrote past each other: the overlap checks of schedule.rs and events.rs, *)
(* with every order of creates, updates and deletes.                       *)
BookedApart ==
  /\ \A e, f \in weekly :
       e.id # f.id /\ e.day = f.day /\ Share(e, f) => {e.id, f.id} \in raced
  /\ \A e, f \in events, date \in Days :
       /\ e.id # f.id /\ Share(e, f)
       /\ MatchesRecurrence(e, date) /\ MatchesRecurrence(f, date)
       /\ date < e.date + Horizon /\ date < f.date + Horizon
       => {e.id, f.id} \in raced

(* A repeating rule limited to a number of occurrences takes place on      *)
(* exactly the first that many dates of the same rule without the limit:   *)
(* the counting of recurrence.rs, which derives the number of a date from  *)
(* its distance.  A monthly rule counts months, so this is about the days  *)
(* every month has.                                                        *)
CountsFirstDates ==
  \A e \in events :
    LET all == {d \in Days : MatchesRecurrence([e EXCEPT !.count = Null], d)}
    IN  /\ e.count # Null /\ e.rule # "none"
        /\ e.rule = "monthly" => \A m \in DOMAIN Months : DayOfMonth(e.date) < Months[m]
        =>
          {d \in Days : MatchesRecurrence(e, d)}
            = {d \in all : Cardinality({p \in all : p <= d}) <= e.count}

(* The two together: what the handlers admit can be played at its time,    *)
(* and as often as it was booked.                                          *)
ProgrammeIsSound == BookedApart /\ CountsFirstDates
=============================================================================
