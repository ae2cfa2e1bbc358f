------------------------- MODULE ThermalHysteresis -------------------------
(***************************************************************************)
(* What the thresholds of a configuration promise: each is a switch with   *)
(* hysteresis of its own, on from its trigger upwards, off from its clear  *)
(* value downwards, and in between as it was.  One value is observed at a  *)
(* time; the first is compared with nothing.                               *)
(***************************************************************************)
EXTENDS Integers

CONSTANTS Configurations, Thresholds, Values,
          ThresholdsIn,   \* configuration -> the set of its thresholds
          Trigger, Clear  \* [Thresholds -> Int]

VARIABLES observed,       \* the value each configuration acted upon last
          on              \* the thresholds that are on

Init == /\ observed = [c \in Configurations |-> -1]
        /\ on = {}

Observe(c, v) ==
  /\ observed' = [observed EXCEPT ![c] = v]
  /\ on' = (on \ ThresholdsIn[c]) \cup
           {t \in ThresholdsIn[c] : v >= Trigger[t] \/ (t \in on /\ v > Clear[t])}

Next == \E c \in Configurations, v \in Values : Observe(c, v)

Spec == Init /\ [][Next]_<<observed, on>>
=============================================================================
