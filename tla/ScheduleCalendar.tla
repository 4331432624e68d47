-------------------------- MODULE ScheduleCalendar --------------------------
(***************************************************************************)
(* When a schedule fires (internal/store/schedules.go).                    *)
(*                                                                         *)
(* Instants are numbers of units since a Sunday midnight UTC; a day has    *)
(* CalDay units.  A zone is one clock change: the offset before it, the    *)
(* offset after it, and its instant.  CalOffset and CalDate are Go's       *)
(* package time (external): CalDate is time.Date, which for a local time   *)
(* that a clock change skips or repeats settles on one of the two offsets. *)
(***************************************************************************)
EXTENDS Integers, FiniteSets, FiniteSetsExt

CONSTANT CalDay     \* units in a day; the code counts minutes

ASSUME CalDayAssumption == CalDay \in Nat \ {0}

\* Location.lookup: the offset in force at an instant.
CalOffset(z, t) == IF t < z.at THEN z.before ELSE z.after

CalLocal(z, t) == t + CalOffset(z, t)

\* time.Date: take the offset of the local time read as UTC; if it is not in
\* force at the instant it gives, take the one that is in force there.
CalDate(z, local) ==
    LET guess == CalOffset(z, local)
    IN  IF guess = 0 THEN local
        ELSE local - CalOffset(z, local - guess)

\* Weekday of the local day d, Sunday = 0.
CalWeekday(d) == d % 7

\* t.AddDate(0, 0, i): the same local time i days later, as time.Date gives it.
CalAddDays(z, t, i) == CalDate(z, CalLocal(z, t) + i * CalDay)

\* The local day an instant falls on.
CalDayOf(z, t) == CalLocal(z, t) \div CalDay

\* The firing of a schedule on local day d.
CalFire(z, minute, d) == CalDate(z, d * CalDay + minute)

\* A mutant of NextRunAfter: today and the six days after it.
NextRunThisWeek(z, minute, weekdays, from) ==
    LET day(i) == CalDayOf(z, CalAddDays(z, from, i))
        hits == {i \in 0..6 : /\ CalWeekday(day(i)) \in weekdays
                              /\ CalFire(z, minute, day(i)) > from}
    IN  IF hits = {} THEN from + CalDay
        ELSE CalFire(z, minute, day(Min(hits)))

\* NextRunAfter: try today and the seven days after it, in this order; take
\* the first selected weekday whose firing is after from.
NextRunAfter(z, minute, weekdays, from) ==
    LET day(i) == CalDayOf(z, CalAddDays(z, from, i))
        hits == {i \in 0..7 : /\ CalWeekday(day(i)) \in weekdays
                              /\ CalFire(z, minute, day(i)) > from}
    IN  IF hits = {} THEN from + CalDay
        ELSE CalFire(z, minute, day(Min(hits)))

\* AgentOffset: the host's place in the jitter window, from the hash of its id
\* (an unsigned 32-bit number).
AgentOffset(hash, jitter) == IF jitter <= 0 THEN 0 ELSE hash % jitter

-----------------------------------------------------------------------------
(* Reference definition *)

\* The next firing as the schedule's owner reads it: the earliest firing on a
\* selected local day that is still to come.
CalNextFiring(z, minute, weekdays, from) ==
    LET today == CalDayOf(z, from)
    IN  Min({CalFire(z, minute, d) : d \in {e \in today - 1 .. today + 9 :
                /\ CalWeekday(e) \in weekdays
                /\ CalFire(z, minute, e) > from}})

\* The clock change moves no local time to another day: a time it skips is put
\* on the same day by time.Date, and the times it repeats are all of one day.
CalKeepsDays(z) ==
    /\ \A l \in z.at + z.before .. z.at + z.after - 1 :
          CalDayOf(z, CalDate(z, l)) = l \div CalDay
    /\ \A l \in z.at + z.after .. z.at + z.before - 1 :
          l \div CalDay = (z.at + z.after) \div CalDay
=============================================================================
