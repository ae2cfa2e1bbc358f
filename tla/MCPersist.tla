------------------------------ MODULE MCPersist ------------------------------
(* The two services that keep values in files over a reboot, in one run.     *)
(* They share no state: each behaviour runs one of them, and a safety        *)
(* property of one that holds while the other stands still holds in all      *)
(* interleavings.  Two halves make a second, so that RTC and clock change    *)
(* their seconds together or not; three cycles, capacities 1 to 3, and       *)
(* triggers small enough for a backup to come due and not to come due.       *)
EXTENDS Timekeep, HealthBackup

VARIABLE service       \* the one that runs

MCInit == service \in {"timekeep", "health"} /\ TimekeepInit /\ Init

MCNext ==
  /\ UNCHANGED service
  /\ \/ service = "timekeep" /\ TimekeepNext /\ UNCHANGED vars
     \/ service = "health" /\ Next /\ UNCHANGED timeVars

MCSpec == MCInit /\ [][MCNext]_<<service, timeVars, vars>>
=============================================================================
