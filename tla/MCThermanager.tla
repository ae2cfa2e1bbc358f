--------------------------- MODULE MCThermanager ---------------------------
(* Up to three configurations for two controls, two of them on one sensor   *)
(* with another in between, and thresholds listed out of order.  All levels *)
(* of cpu share a resource, both controls share one in their last level.    *)
(* The sets in the .cfg choose what a run takes of this, and of which types *)
(* the resources are.                                                       *)
EXTENDS Thermanager

CONSTANTS cpuA, gpuA, cpuB, s1, s2, cpu, gpu, freq, fan, power,
          dfltA, warm, hot, dfltG, glow, extra

Chosen(list, S) == SelectSeq(list, LAMBDA x : x \in S)
Take(f, S)      == [x \in S |-> f[x]]

MCDeclared     == Chosen(<<cpuA, gpuA, cpuB>>, Configurations)
MCSensorOf     == Take(cpuA :> s1 @@ gpuA :> s2 @@ cpuB :> s1, Configurations)
MCThresholdsOf == cpuA :> Chosen(<<hot, dfltA, warm>>, Thresholds)
                  @@ gpuA :> Chosen(<<dfltG, glow>>, Thresholds)
                  @@ cpuB :> Chosen(<<extra>>, Thresholds)
MCTrigger == Take(dfltA :> 0 @@ warm :> 2 @@ hot :> 3 @@ dfltG :> 0 @@ glow :> 2
                  @@ extra :> 2, Thresholds)
MCClear   == Take(dfltA :> -9 @@ warm :> 0 @@ hot :> 1 @@ dfltG :> -9 @@ glow :> 1
                  @@ extra :> 1, Thresholds)
MCWants   == dfltA :> << <<cpu, 0>> >> @@ warm :> << <<cpu, 1>> >>
             @@ hot :> << <<cpu, 2>>, <<gpu, 1>> >> @@ dfltG :> << <<gpu, 0>> >>
             @@ glow :> << <<gpu, 1>>, <<cpu, 1>> >> @@ extra :> << <<gpu, 1>> >>
MCLevels  == cpu :> <<0, 1, 2>> @@ gpu :> <<0, 1>>
MCUses    == <<cpu, 0>> :> {freq} @@ <<cpu, 1>> :> {freq}
             @@ <<cpu, 2>> :> {freq, power}
             @@ <<gpu, 0>> :> {} @@ <<gpu, 1>> :> {fan, power}

(* The file is as the theorems ask for.                                     *)
ASSUME FileAssumption == Nested /\ Apart /\ NoTriggerIsCold
=============================================================================
