---------------------------- MODULE MCHeartbeats ----------------------------
(* Instances of HeartbeatSubagents for TLC.                                *)
EXTENDS HeartbeatSubagents

CONSTANTS v1, v2

\* Two configs whose reports go to one conversation that posts them by itself.
IntervalSchedules == [c \in Configs |-> IF c = 1 THEN Interval(1) ELSE Empty]
ToFirst == [c \in Configs |-> v1]

\* One config for each form of schedule, each one new.
EveryForm == [c \in Configs |-> CASE c = 1 -> Hourly [] c = 2 -> Daily(1)
                                  [] c = 3 -> Weekly(3) [] OTHER -> Interval(1)]
=============================================================================
