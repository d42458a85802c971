------------------------- MODULE HeartbeatSchedule -------------------------
(* The schedule forms of a heartbeat and when each one is due              *)
(* (backend/utils/heartbeat-schedule.cpp).                                 *)
(*                                                                         *)
(* Time is counted in ticks of the service's schedule timer.  Instants are *)
(* kept relative to `now': the clock is the position in the week, the      *)
(* anchor lastFireAt is the number of ticks since the last fire, and       *)
(* nextFireTime is the number of ticks from now to the next fire, so that  *)
(* a run never outgrows its bounds.                                        *)
EXTENDS Naturals

CONSTANTS HourLen,      \* ticks in an hour
          DayLen,       \* ticks in a day
          WeekLen,      \* ticks in a week
          Never,        \* the anchor of a config that has not fired
          MaxAge        \* ages are counted up to here

ASSUME CalendarAssumption ==
    /\ HourLen \in Nat \ {0} /\ DayLen \in Nat \ {0} /\ WeekLen \in Nat \ {0}
    /\ DayLen % HourLen = 0 /\ WeekLen % DayLen = 0
    /\ MaxAge \in Nat /\ Never \notin Nat

\* A parsed schedule: `every' for an interval, `at' the tick of the day (or of
\* the week) of an aligned one.  The parser rejects an interval below a floor.
Empty       == [kind |-> "Empty", arg |-> 0]
Interval(n) == [kind |-> "Interval", arg |-> n]
Hourly      == [kind |-> "Hourly", arg |-> 0]
Daily(t)    == [kind |-> "Daily", arg |-> t]
Weekly(t)   == [kind |-> "Weekly", arg |-> t]

Schedules == [kind : {"Empty", "Interval", "Hourly", "Daily", "Weekly"}, arg : Nat]

\* Ticks from `now' to an instant of the period, strictly after now.
Ahead(at, now, period) ==
    LET pos == now % period
    IN  IF at > pos THEN at - pos ELSE (at + period) - pos

\* Ticks to the next fire.  An interval counts from its anchor, and is due at
\* once when that instant has passed; without an anchor it counts from now.
nextFireTime(sched, now, age) ==
    CASE sched.kind = "Interval" -> IF age = Never THEN sched.arg
                                    ELSE IF age > sched.arg THEN 0
                                    ELSE sched.arg - age
      [] sched.kind = "Hourly"   -> Ahead(0, now, HourLen)
      [] sched.kind = "Daily"    -> Ahead(sched.arg, now, DayLen)
      [] OTHER                   -> Ahead(sched.arg, now, WeekLen)

\* The test of the schedule tick: the next fire is not after now.
Due(sched, now, age) == sched.kind # "Empty" /\ nextFireTime(sched, now, age) <= 0

\* A tick later.
Older(age) == IF age = Never \/ age >= MaxAge THEN age ELSE age + 1
=============================================================================
