------------------------------ MODULE WeekClock ------------------------------
(***************************************************************************)
(* Minutes of the week, and the two triggers of each day: the pure part of *)
(* core/schedule.                                                          *)
(***************************************************************************)
EXTENDS Integers

CONSTANTS
  NDays,   \* 7
  DayLen,  \* kMinutesPerDay
  Grid,    \* kScheduleStepMin
  Window,  \* kScheduleFireWindowMin
  MaxLead  \* kWarmupMaxMin

(* The grid divides the day and leaves room for two times, a trigger's     *)
(* window is over before the next grid time, and a lead is shorter than a  *)
(* day.                                                                    *)
ASSUME WeekAssumption ==
  /\ NDays \in Nat \ {0} /\ DayLen \in Nat \ {0} /\ Grid \in Nat \ {0}
  /\ DayLen % Grid = 0 /\ 2 * Grid <= DayLen
  /\ Window \in 1..Grid /\ MaxLead \in 0..DayLen - 1

Days   == 0..NDays - 1
Week   == NDays * DayLen
MaxMin == DayLen - Grid   \* kScheduleMaxMin

Clamp(m) == IF m < 0 THEN 0 ELSE IF m > MaxMin THEN MaxMin ELSE m
Snap(m)  == (Clamp(m) \div Grid) * Grid

(* An OFF that is not after its ON is pushed behind it; at the top of the  *)
(* day the ON is pulled back instead.                                      *)
Sanitized(on, off) ==
  LET i == Snap(on)  j == Snap(off) IN
    IF j > i THEN [on |-> i, off |-> j]
    ELSE IF i + Grid <= MaxMin THEN [on |-> i, off |-> i + Grid]
    ELSE [on |-> MaxMin - Grid, off |-> MaxMin]

(* A warm-up may carry the first day's ON into the end of the week before. *)
OnTriggerUnwrapped(day, on, lead) == day * DayLen + on - lead   \* mutant
OnTrigger(day, on, lead) == (day * DayLen + on - lead) % Week
OffTrigger(day, off)     == day * DayLen + off

InWindow(now, trigger) == (now - trigger) % Week < Window
=============================================================================
