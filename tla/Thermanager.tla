---------------------------- MODULE Thermanager ----------------------------
(***************************************************************************)
(* The thermal daemon: one thread that sleeps on its watch, reads every    *)
(* sensor when it wakes up, moves each configuration's thresholds between  *)
(* two lists, and lets the thresholds in force vote for the levels of the  *)
(* controls.  A control switches the mitigation of its highest level with  *)
(* votes on and the one it leaves off, and with them the resources that    *)
(* carry the timers the daemon is woken up by.                             *)
(*                                                                         *)
(* Temperatures change on their own, also while the daemon is at work.     *)
(***************************************************************************)
EXTENDS Integers, Sequences, SequencesExt

CONSTANTS
  Sensors, Controls, Resources, Configurations, Thresholds,
  None,        \* no threshold, no mitigation, no sensor
  Unread,      \* a sensor that could not be read (rc <= 0)
  Temps,       \* the values a sensor may have
  Zones,       \* sensors that are thermal zones with two trip points
  Timed,       \* sensors with a timer instead (type sysfs, zones without trips)
  Flaky,       \* sensors whose reading may fail ...
  Unions,      \* ... of which these then read -1 (type union or deadband)
  Declared,    \* the configurations as the file lists them
  SensorOf,    \* [Configurations -> Sensors]
  ThresholdsOf,\* configuration -> its thresholds as the file lists them
  Trigger,     \* [Thresholds -> Int]
  Clear,       \* [Thresholds -> Int]
  Wants,       \* threshold -> what it votes for, a sequence of <<control, level>>
  Levels,      \* control -> the levels of its mitigations as the file lists them
  Uses,        \* <<control, level>> -> the resources its mitigation writes
  Polled,      \* resources with a timer while enabled (types sysfs and cpufreq)
  Halts        \* resources that halt the system when their timer ends

ASSUME NoneAssumption ==
  /\ None \notin Sensors \cup Thresholds \cup (Controls \X Int)
  /\ Unread \notin Int
ASSUME SensorAssumption ==
  /\ Temps \subseteq Int /\ Zones \cup Timed \subseteq Sensors /\ Zones \cap Timed = {}
  /\ Unions \subseteq Flaky /\ Flaky \subseteq Sensors
  /\ SensorOf \in [Configurations -> Sensors]
ASSUME ConfigurationAssumption ==         \* a threshold belongs to one of them
  /\ Declared \in Seq(Configurations)
  /\ \A c \in Configurations :
       /\ ThresholdsOf[c] \in Seq(Thresholds)
       /\ \A d \in Configurations \ {c} :
            ToSet(ThresholdsOf[c]) \cap ToSet(ThresholdsOf[d]) = {}
ASSUME ThresholdAssumption ==
  /\ Trigger \in [Thresholds -> Int] /\ Clear \in [Thresholds -> Int]
  /\ \A t \in Thresholds : Wants[t] \in Seq(Controls \X Int)
ASSUME LevelAssumption ==                \* one mitigation for each level
  \A k \in Controls : /\ Levels[k] \in Seq(Nat) /\ Levels[k] # <<>>
                      /\ IsInjective(Levels[k])
ASSUME ResourceAssumption ==
  Polled \cup Halts \subseteq Resources /\ Polled \cap Halts = {}

INT_MAX == 2147483647
INT_MIN == -INT_MAX - 1

LevelsOf(k) == {Levels[k][i] : i \in DOMAIN Levels[k]}
Mitigations == {m \in Controls \X UNION {LevelsOf(k) : k \in Controls} :
                  m[2] \in LevelsOf(m[1])}
ASSUME UsesAssumption == \A m \in Mitigations : Uses[m] \subseteq Resources
---------------------------------------------------------------------------
(* configuration_add_threshold: before the first with a larger trigger.     *)
AddThreshold(list, t) ==
  LET next == SelectInSeq(list, LAMBDA u : Trigger[u] > Trigger[t])
  IN  IF next = 0 THEN Append(list, t) ELSE InsertAt(list, next, t)

Sort(list) ==
  LET sorted[i \in 0..Len(list)] ==
        IF i = 0 THEN <<>> ELSE AddThreshold(sorted[i - 1], list[i])
  IN  sorted[Len(list)]

(* The configurations of a sensor are brought together: the i-th in the     *)
(* list has the next one with its sensor moved up behind it.                *)
UngroupedSensors(list, i) == list         \* mutant: the file's order is kept

GroupNext(list, i) ==
  LET j == SelectInSubSeq(list, i + 1, Len(list),
                          LAMBDA c : SensorOf[c] = SensorOf[list[i]])
  IN  IF j = 0 THEN list ELSE InsertAt(RemoveAt(list, j), i + 1, list[j])

List ==
  LET grouped[i \in 0..Len(Declared)] ==
        IF i = 0 THEN Declared ELSE GroupNext(grouped[i - 1], i)
  IN  grouped[Len(Declared)]
---------------------------------------------------------------------------
(* What files are like, though nothing but their author sees to it.  The    *)
(* models do not need it; some theorems do.                                 *)
(* Clear values have the order of the triggers ...                          *)
ClearInOrder(list) ==
  \A i, j \in 1..Len(list) : i < j => Clear[list[i]] <= Clear[list[j]]

Nested == \A c \in Configurations : ClearInOrder(Sort(ThresholdsOf[c]))

(* ... and are below them ...                                               *)
Apart == \A t \in Thresholds : Clear[t] < Trigger[t]

(* ... and no trigger is met by a reading below -1, the last value of a     *)
(* configuration that has not run: a first reading below it counts as a     *)
(* fall.  A trigger the file does not state is 0 (main.c).                  *)
NoTriggerIsCold == \A t \in Thresholds, v \in Temps : v < -1 => v < Trigger[t]
---------------------------------------------------------------------------
VARIABLES
  pc,          \* what the daemon does
  pos,         \* the configuration of List it is at
  res,         \* the sensor read last in this round
  value,       \* its value, or Unread
  last_value, satisfied, unsatisfied, current,   \* of each configuration
  todo,        \* votes to cast and to withdraw for the configuration at pos
  nvotes, current_level,                         \* of each control
  ladder,      \* mitigations the control that changes its level still visits
  target,      \* that control and its new level
  held,        \* the resource points to a timer that runs
  leaked,      \* a timer of it runs that nothing points to any more
  written,     \* the mitigation that wrote the resource last
  temp,        \* what each sensor would read
  notice,      \* zones that crossed a trip point since the last wake-up
  seen,        \* tz_resource.value
  low_edge, high_edge                            \* of each zone

roundVars  == <<pos, res, value>>
configVars == <<last_value, satisfied, unsatisfied, current>>
voteVars   == <<todo, nvotes, current_level, ladder, target>>
timerVars  == <<held, leaked, written>>
zoneVars   == <<notice, seen, low_edge, high_edge>>
vars == <<pc, temp, roundVars, configVars, voteVars, timerVars, zoneVars>>

(* configuration_manager_run up to its loop; the sensors are enabled.       *)
Init ==
  /\ pc = "read" /\ pos = 1 /\ res = None /\ value = Unread
  /\ last_value  = [c \in Configurations |-> -1]
  /\ satisfied   = [c \in Configurations |-> <<>>]
  /\ unsatisfied = [c \in Configurations |-> Sort(ThresholdsOf[c])]
  /\ current     = [c \in Configurations |-> None]
  /\ todo = <<>> /\ ladder = <<>> /\ target = None
  /\ nvotes = [k \in Controls |-> [l \in LevelsOf(k) |-> 0]]
  /\ current_level = [k \in Controls |-> -1]
  /\ held    = [r \in Resources |-> FALSE]
  /\ leaked  = [r \in Resources |-> FALSE]
  /\ written = [r \in Resources |-> None]
  /\ temp \in [Sensors -> Temps] /\ notice = {}
  /\ seen = [s \in Zones |-> 0]
  /\ low_edge = [s \in Zones |-> INT_MIN] /\ high_edge = [s \in Zones |-> INT_MAX]
---------------------------------------------------------------------------
(* The environment: a temperature changes, and the kernel notices when it   *)
(* passes a trip point.                                                     *)
Crosses(old, new, lo, hi) == (old < hi /\ new >= hi) \/ (old > lo /\ new <= lo)

Drift(s) ==
  \E v \in Temps \ {temp[s]} :
    /\ temp' = [temp EXCEPT ![s] = v]
    /\ notice' = IF s \in Zones /\ Crosses(temp[s], v, low_edge[s], high_edge[s])
                 THEN notice \cup {s} ELSE notice
    /\ UNCHANGED <<pc, roundVars, configVars, voteVars, timerVars, seen,
                   low_edge, high_edge>>
---------------------------------------------------------------------------
(* A round of configuration_manager_run.  A sensor is read once for all the *)
(* configurations that are next to each other in the list.                  *)
ReadSensor ==
  /\ pc = "read" /\ pos <= Len(List)
  /\ LET s == SensorOf[List[pos]] IN
       \/ /\ s = res
          /\ UNCHANGED <<res, value, seen>>
       \/ /\ s # res
          /\ res' = s
          /\ \/ value' = temp[s]
                /\ seen' = [z \in Zones |-> IF z = s THEN temp[s] ELSE seen[z]]
             \/ /\ s \in Flaky
                /\ value' = IF s \in Unions THEN -1 ELSE Unread
                /\ UNCHANGED seen
  /\ pc' = "run"
  /\ UNCHANGED <<pos, temp, configVars, voteVars, timerVars, notice,
                 low_edge, high_edge>>

EndOfRound ==
  /\ pc = "read" /\ pos > Len(List)
  /\ pc' = "wait"
  /\ UNCHANGED <<temp, roundVars, configVars, voteVars, timerVars, zoneVars>>

SkipsOne == pc' = "read" /\ pos' = pos + 2   \* mutant: one is left out

NextConfiguration == pc' = "read" /\ pos' = pos + 1

(* Nothing was read, or nothing new.                                        *)
SkipConfiguration ==
  /\ pc = "run" /\ (value = Unread \/ value = last_value[List[pos]])
  /\ NextConfiguration
  /\ UNCHANGED <<res, value, temp, configVars, voteVars, timerVars, zoneVars>>

(* The votes that put threshold new in force and end those of old.          *)
VotesOf(t, kind) ==
  [i \in DOMAIN Wants[t] |-> [kind |-> kind, control |-> Wants[t][i][1],
                              level |-> Wants[t][i][2]]]

WithdrawFirst(old, new) ==                \* mutant: deactivate, then activate
  (IF old = None THEN <<>> ELSE VotesOf(old, "unvote")) \o VotesOf(new, "vote")

ChangeOver(old, new) ==
  VotesOf(new, "vote") \o (IF old = None THEN <<>> ELSE VotesOf(old, "unvote"))

Entered(t, v) == v >= Trigger[t]

ExitedBelow(t, v) == v < Clear[t]         \* mutant: a clear value is too warm
ExitedAt(t, v)    == v = Clear[t]         \* mutant: passing it by goes unseen

Exited(t, v) == v <= Clear[t]

(* A walk over a list that takes the members of S out of it.                *)
Filter(list, S) ==
  LET taken[i \in 0..Len(list)] ==
        IF i = 0 THEN <<>>
        ELSE IF list[i] \in S THEN Append(taken[i - 1], list[i]) ELSE taken[i - 1]
  IN  taken[Len(list)]

(* configuration_run: a rising value moves thresholds from unsatisfied to   *)
(* satisfied, a falling one moves them back.  Both lists are stacks:        *)
(* list_prepend sets no prev of the old head, so taking out of satisfied    *)
(* anything but its head follows a null pointer.                            *)
RunConfiguration ==
  LET c == List[pos]
      rises == value > last_value[c]
      entered == {t \in Thresholds : Entered(t, value)}
      exited  == {t \in Thresholds : Exited(t, value)}
      enter == Filter(unsatisfied[c], entered)
      wait  == Filter(unsatisfied[c], Thresholds \ entered)
      leave == Filter(satisfied[c], exited)
      stay  == Filter(satisfied[c], Thresholds \ exited)
  IN
  /\ pc = "run" /\ value # Unread /\ value # last_value[c]
  /\ satisfied' = [satisfied EXCEPT ![c] =
       IF rises THEN Reverse(enter) \o @ ELSE stay]
  /\ unsatisfied' = [unsatisfied EXCEPT ![c] =
       IF rises THEN wait ELSE Reverse(leave) \o @]
  /\ last_value' = [last_value EXCEPT ![c] = value]
  /\ todo' = IF satisfied'[c] = <<>> \/ Head(satisfied'[c]) = current[c]
             THEN <<>> ELSE ChangeOver(current[c], Head(satisfied'[c]))
  /\ pc' = IF ~rises /\ ~IsPrefix(leave, satisfied[c]) THEN "crashed" ELSE "apply"
  /\ UNCHANGED <<roundVars, temp, current, nvotes, current_level, ladder, target,
                 timerVars, zoneVars>>
---------------------------------------------------------------------------
(* The control walks its mitigations when its highest voted level changes.  *)
ControlUpdateLevel(k, votes) ==
  LET level == Max({0} \cup {l \in LevelsOf(k) : votes[l] > 0}) IN
  /\ nvotes' = [nvotes EXCEPT ![k] = votes]
  /\ IF level = current_level[k]
     THEN UNCHANGED <<ladder, target>>
     ELSE ladder' = Levels[k] /\ target' = <<k, level>>

Vote(kind, votes(_)) ==
  /\ pc = "apply" /\ ladder = <<>> /\ todo # <<>> /\ Head(todo).kind = kind
  /\ ControlUpdateLevel(Head(todo).control, votes(Head(todo)))
  /\ todo' = Tail(todo)
  /\ UNCHANGED <<pc, temp, roundVars, configVars, current_level, timerVars,
                 zoneVars>>

VotesOnce ==                              \* mutant: a flag, no counter
  Vote("vote", LAMBDA v : [l \in LevelsOf(v.control) |->
         IF l = v.level THEN 1 ELSE nvotes[v.control][l]])

ControlVoteLevel ==
  Vote("vote", LAMBDA v : [l \in LevelsOf(v.control) |->
         nvotes[v.control][l] + (IF l = v.level THEN 1 ELSE 0)])

KeepsVote ==                              \* mutant: the vote is never withdrawn
  Vote("unvote", LAMBDA v : nvotes[v.control])

ControlUnvoteLevel ==
  Vote("unvote", LAMBDA v : [l \in LevelsOf(v.control) |->
         nvotes[v.control][l] -
           (IF l = v.level /\ nvotes[v.control][l] > 0 THEN 1 ELSE 0)])
---------------------------------------------------------------------------
(* mitigation_activate: a polled resource gets a new timer in any case, the *)
(* one it had goes on without it; a halt resource has its one timer set.    *)
ActivateOnce(m) ==                        \* mutant: a timer that runs is kept,
  /\ held' = [r \in Resources |-> held[r] \/ r \in Uses[m] \cap (Polled \cup Halts)]
  /\ leaked' = leaked                     \* as a repair of the leak would do
  /\ written' = [r \in Resources |-> IF r \in Uses[m] THEN m ELSE written[r]]

MitigationActivate(m) ==
  /\ held' = [r \in Resources |-> held[r] \/ r \in Uses[m] \cap (Polled \cup Halts)]
  /\ leaked' = [r \in Resources |->
                  leaked[r] \/ (held[r] /\ r \in Uses[m] \cap Polled)]
  /\ written' = [r \in Resources |-> IF r \in Uses[m] THEN m ELSE written[r]]

(* mitigation_deactivate: the resources' timers end, their values stay.     *)
MitigationDeactivate(m) ==
  /\ held' = [r \in Resources |-> held[r] /\ r \notin Uses[m]]
  /\ UNCHANGED <<leaked, written>>

(* One mitigation of the control, in the file's order.                      *)
SwitchMitigation ==
  /\ pc = "apply" /\ ladder # <<>>
  /\ LET k == target[1]
         m == <<k, Head(ladder)>>
     IN /\ \/ m = target /\ MitigationActivate(m)
           \/ m # target /\ m[2] = current_level[k] /\ MitigationDeactivate(m)
           \/ m # target /\ m[2] # current_level[k] /\ UNCHANGED timerVars
        /\ IF Len(ladder) = 1
           THEN current_level' = [current_level EXCEPT ![k] = target[2]]
                /\ target' = None
           ELSE UNCHANGED <<current_level, target>>
  /\ ladder' = Tail(ladder)
  /\ UNCHANGED <<pc, temp, roundVars, configVars, todo, nvotes, zoneVars>>
---------------------------------------------------------------------------
(* resource_tz_set_edges and thermal_zone_set_trip: a trip point that would *)
(* not narrow the window is not written.  One that is written at a          *)
(* temperature already beyond it is noticed at once.                        *)
SetEdges(s, lower, upper) ==
  LET lo == IF lower >= seen[s] \/ lower < low_edge[s] THEN low_edge[s] ELSE lower
      hi == IF upper <= seen[s] \/ upper > high_edge[s] THEN high_edge[s] ELSE upper
  IN  /\ low_edge' = [low_edge EXCEPT ![s] = lo]
      /\ high_edge' = [high_edge EXCEPT ![s] = hi]
      /\ notice' = IF (lo # low_edge[s] /\ temp[s] <= lo) \/
                      (hi # high_edge[s] /\ temp[s] >= hi)
                   THEN notice \cup {s} ELSE notice

(* The votes are cast: the end of configuration_run.                        *)
ConfigurationDone ==
  LET c == List[pos]
      lower == IF satisfied[c] = <<>> THEN INT_MIN ELSE Clear[Head(satisfied[c])]
      upper == IF unsatisfied[c] = <<>> THEN INT_MAX
                                        ELSE Trigger[Head(unsatisfied[c])]
  IN
  /\ pc = "apply" /\ ladder = <<>> /\ todo = <<>>
  /\ current' = [current EXCEPT ![c] = IF satisfied[c] = <<>> THEN @
                                       ELSE Head(satisfied[c])]
  /\ IF SensorOf[c] \in Zones THEN SetEdges(SensorOf[c], lower, upper)
                              ELSE UNCHANGED <<notice, low_edge, high_edge>>
  /\ NextConfiguration
  /\ UNCHANGED <<res, value, temp, last_value, satisfied, unsatisfied, voteVars,
                 timerVars, seen>>
---------------------------------------------------------------------------
(* watch_wait returns for a trip point, a sensor's or a polled resource's    *)
(* timer ...                                                                *)
TimerRuns == Timed # {} \/ \E r \in Polled : held[r] \/ leaked[r]

Wake ==
  /\ pc = "wait" /\ (notice # {} \/ TimerRuns)
  /\ notice' = {}
  /\ pc' = "read" /\ pos' = 1 /\ res' = None /\ value' = Unread
  /\ UNCHANGED <<temp, configVars, voteVars, timerVars, seen, low_edge, high_edge>>

(* ... or for the timer of a halt resource, the end of it all.              *)
Halt ==
  /\ pc = "wait" /\ \E r \in Halts : held[r]
  /\ pc' = "halted"
  /\ UNCHANGED <<temp, roundVars, configVars, voteVars, timerVars, zoneVars>>

DaemonStep == \/ ReadSensor \/ SkipConfiguration \/ RunConfiguration
              \/ ControlVoteLevel \/ ControlUnvoteLevel \/ SwitchMitigation
              \/ ConfigurationDone \/ EndOfRound \/ Wake

Next == DaemonStep \/ Halt \/ \E s \in Sensors : Drift(s)

Spec == Init /\ [][Next]_vars

(* The daemon is scheduled and its timers end; no temperature has to change. *)
FairSpec == Spec /\ WF_vars(DaemonStep)
---------------------------------------------------------------------------
(* Type correctness.                                                        *)
TypeOK ==
  /\ pc \in {"read", "run", "apply", "wait", "halted", "crashed"}
  /\ pos \in 1..(Len(List) + 1) /\ res \in Sensors \cup {None}
  /\ value \in Temps \cup {-1, Unread}
  /\ last_value \in [Configurations -> Temps \cup {-1}]
  /\ satisfied \in [Configurations -> Seq(Thresholds)]
  /\ unsatisfied \in [Configurations -> Seq(Thresholds)]
  /\ current \in [Configurations -> Thresholds \cup {None}]
  /\ DOMAIN nvotes = Controls /\ \A k \in Controls : nvotes[k] \in [LevelsOf(k) -> Nat]
  /\ todo \in Seq([kind : {"vote", "unvote"}, control : Controls, level : Int])
  /\ current_level \in [Controls -> Int]
  /\ target \in (Controls \X Int) \cup {None}
  /\ held \in [Resources -> BOOLEAN] /\ leaked \in [Resources -> BOOLEAN]
  /\ written \in [Resources -> Mitigations \cup {None}]
  /\ temp \in [Sensors -> Temps] /\ notice \subseteq Zones
  /\ seen \in [Zones -> Int]
  /\ low_edge \in [Zones -> Int] /\ high_edge \in [Zones -> Int]

(* The two lists act as one switch per threshold, with hysteresis, however  *)
(* many thresholds a change of temperature passes and in whichever order    *)
(* the file lists them (configuration_run, configuration_add_threshold).    *)
Hysteresis == INSTANCE ThermalHysteresis WITH
  Values <- Temps \cup {-1},
  ThresholdsIn <- [c \in Configurations |-> ToSet(ThresholdsOf[c])],
  observed <- last_value,
  on <- UNION {ToSet(satisfied[c]) : c \in Configurations}

HysteresisSpec == Hysteresis!Spec

(* list_prepend and list_remove: no threshold is taken from the middle of a *)
(* list whose links are incomplete.                                         *)
NeverCrashes == pc # "crashed"

(* The configurations of a sensor all act upon the same reading of it in a  *)
(* round ("group configurations by sensor", configuration_manager_run).     *)
OneReadingPerRound ==
  [][res' \in Sensors \ {res} => \A i \in 1..(pos - 1) : SensorOf[List[i]] # res']_vars

(* The levels of k that the thresholds in T ask for, the highest of them.   *)
Demands(T, k) == {l \in LevelsOf(k) : \E t \in T : <<k, l>> \in ToSet(Wants[t])}
Highest(T, k) == Max({0} \cup Demands(T, k))
InForce(C) == {current[c] : c \in C} \ {None}

(* "[the level] will be the highest level selected by any configuration     *)
(* threshold" (README), whatever the votes went through to get there.  Only *)
(* a control that nothing asks for has no level.                            *)
HighestSelected ==
  pc \in {"wait", "read", "run"} =>
    \A k \in Controls :
      \/ current_level[k] = Highest(InForce(Configurations), k)
      \/ current_level[k] = -1 /\ Demands(InForce(Configurations), k) = {}

(* configuration_run activates the new threshold before it deactivates the  *)
(* old one: while the votes change, no control drops below what the other   *)
(* configurations ask for, nor below both the old and the new threshold.    *)
NeverBelowDemand ==
  pc = "apply" =>
    LET c   == List[pos]
        new == IF satisfied[c] = <<>> THEN {} ELSE {Head(satisfied[c])}
    IN  \A k \in Controls :
          LET others == Highest(InForce(Configurations \ {c}), k)
              lower  == Min({Highest(InForce({c}), k), Highest(new, k)})
              floor  == Max({others, lower})
          IN  floor = 0 \/ current_level[k] >= floor

(* control_unvote_level leaves a count of 0 as it is.  It never meets one:  *)
(* a vote is withdrawn once, by the configuration that has cast it, however *)
(* many thresholds want the same level.                                     *)
NoVoteIsMissing ==
  pc = "apply" /\ todo # <<>> =>
    LET v == Head(todo)
    IN  v.kind = "unvote" /\ v.level \in LevelsOf(v.control) =>
          nvotes[v.control][v.level] > 0

(* Between rounds the mitigation of a control's level is in force: a        *)
(* resource that no other control writes holds its value, and if it is      *)
(* polled a timer of it runs, which is what brings the daemon back.         *)
MitigationInForce ==
  pc = "wait" =>
    \A m \in Mitigations : m[2] = current_level[m[1]] =>
      \A r \in Uses[m] :
        /\ (\A n \in Mitigations : r \in Uses[n] => n[1] = m[1]) => written[r] = m
        /\ r \in Polled => held[r] \/ leaked[r]

(* "If the sensor's value then falls below 'clear' the threshold's          *)
(* mitigations will be deactivated" (README).                               *)
ClearDeactivates ==
  pc = "wait" => \A c \in Configurations :
    current[c] # None => last_value[c] >= Clear[current[c]]

(* "If the sensor's value rises above 'trigger' the threshold's mitigations *)
(* will be activated" (README): a daemon that nothing will wake up has not  *)
(* left a threshold out.                                                    *)
TriggerActivates ==
  pc = "wait" /\ notice = {} /\ ~TimerRuns =>
    \A c \in Configurations : \A t \in ToSet(unsatisfied[c]) :
      temp[SensorOf[c]] <= Trigger[t]

(* "on write will begin a shutdown sequence" (README, halt resources): the  *)
(* sequence goes on while a level that begins it is the level of a control. *)
HaltGoesOn ==
  pc = "wait" => \A m \in Mitigations : m[2] = current_level[m[1]] =>
    \A r \in Uses[m] \cap Halts : held[r]

(* A sensor that stays at a threshold's trigger has the threshold on in the *)
(* end, if it can be read and something polls.                              *)
HotIsMitigated ==
  \A c \in Configurations : \A t \in ToSet(ThresholdsOf[c]) :
    <>[](temp[SensorOf[c]] >= Trigger[t]) => <>[](t \in ToSet(satisfied[c]))
=============================================================================
