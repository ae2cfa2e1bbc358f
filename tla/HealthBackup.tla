---------------------------- MODULE HealthBackup ----------------------------
(***************************************************************************)
(* The health service keeps two numbers of the battery driver, which a     *)
(* reboot may reset, in files of the persist partition: the charge cycles, *)
(* of which the higher value counts, and the learned capacity, of which    *)
(* the lower one does.  Each is restored when the service starts and       *)
(* backed up now and then; both are handled one after the other by one     *)
(* thread.  Every file access may fail, and the service or the phone may   *)
(* stop between any two of them.                                           *)
(***************************************************************************)
EXTENDS Integers

CONSTANTS
  MaxCycles,          \* bound on the driver's charge cycles
  MaxCapacity,        \* bound on the driver's learned capacity
  Levels,             \* battery levels, in percent
  kCCBackupTrigger,   \* percent charged from one backup to the next
  kLCBackupTrigger    \* battery updates from one backup to the next

ASSUME BoundAssumption   == MaxCycles \in Nat /\ MaxCapacity \in Nat
ASSUME LevelAssumption   == Levels \subseteq Nat
ASSUME TriggerAssumption == kCCBackupTrigger \in Nat /\ kLCBackupTrigger \in Nat

Items == {"cycles", "capacity"}

VARIABLES
  driver,      \* the driver's values in sysfs
  file,        \* the persist files; 0 for one that is absent or empty
  persist, sysfs,                    \* persist_* and sysfs_* of the two objects
  saved_soc, soc_inc, cap_counter,
  at,          \* the item being handled, or "idle"
  step,        \* what is to be done for it next
  job,         \* "restore" or "backup"
  unread,      \* history: what this process could not read when it restored
  unwritten    \* history: the items whose value it once could not write

countVars == <<saved_soc, soc_inc, cap_counter>>
pcVars    == <<at, step, job>>
vars == <<driver, file, persist, sysfs, countVars, pcVars, unread, unwritten>>

Nothing == [i \in Items |-> 0]

(* A process that has just been started: the constructors have run.         *)
Started ==
  /\ persist = Nothing /\ sysfs = Nothing
  /\ saved_soc = -1 /\ soc_inc = 0 /\ cap_counter = 0
  /\ at = "cycles" /\ step = "read" /\ job = "restore"
  /\ unread = {} /\ unwritten = {}

Init == driver = Nothing /\ file = Nothing /\ Started
---------------------------------------------------------------------------
(* Which way the two values of an item are brought together.                *)
SavesUnknown(i, p, s) ==                  \* mutant: a capacity of 0 is one
  IF i = "cycles" THEN s > p ELSE s < p \/ p = 0

Saves(i, p, s) ==
  IF i = "cycles" THEN s > p ELSE s # 0 /\ (s < p \/ p = 0)

Pushes(i, p, s) ==
  IF i = "cycles" THEN s < p ELSE s # 0 /\ s > p /\ p # 0

(* On to the next item, or to the end of the job.                           *)
Finish(i) == /\ at' = IF i = "cycles" THEN "capacity" ELSE "idle"
             /\ step' = "read"

(* UpdateAndSave up to the write it may lead to.                            *)
UpdateAndSave(i, p, s) ==
  /\ persist' = [persist EXCEPT ![i] = IF Saves(i, p, s) THEN s ELSE p]
  /\ sysfs'   = [sysfs EXCEPT ![i] = IF Pushes(i, p, s) THEN p ELSE s]
  /\ \/ Saves(i, p, s) /\ at' = i /\ step' = "save"
     \/ ~Saves(i, p, s) /\ Pushes(i, p, s) /\ at' = i /\ step' = "push"
     \/ ~Saves(i, p, s) /\ ~Pushes(i, p, s) /\ Finish(i)
---------------------------------------------------------------------------
(* A read that fails, or finds no number, leaves what was there: 0 in an    *)
(* object that has just been made.                                          *)
RestoreFileFirst(i) ==                    \* mutant: the driver is not asked
  /\ at = i /\ step = "read" /\ job = "restore"
  /\ UpdateAndSave(i, file[i], 0)
  /\ UNCHANGED <<driver, file, countVars, job, unread, unwritten>>

RestoreDriverOnly(i) ==                   \* mutant: the file is not asked
  /\ at = i /\ step = "read" /\ job = "restore"
  /\ UpdateAndSave(i, 0, driver[i])
  /\ UNCHANGED <<driver, file, countVars, job, unread, unwritten>>

Restore(i) ==
  /\ at = i /\ step = "read" /\ job = "restore"
  /\ \E p \in {file[i], 0}, s \in {driver[i], 0} :
       /\ UpdateAndSave(i, p, s)
       /\ unread' = unread \cup {<<i, x>> : x \in
                       (IF p = file[i] THEN {} ELSE {"file"}) \cup
                       (IF s = driver[i] THEN {} ELSE {"driver"})}
  /\ UNCHANGED <<driver, file, countVars, job, unwritten>>

(* The percent charged since the last backup: only a rising level counts.   *)
GainedByAny(level) == soc_inc + level - saved_soc   \* mutant: a falling one too

Gained(level) == soc_inc + (IF level > saved_soc THEN level - saved_soc ELSE 0)

(* CycleCountBackupRestore::Backup; its first call only notes the level.    *)
BackupCycles(level) ==
  /\ at = "idle"
  /\ job' = "backup" /\ saved_soc' = level
  /\ \/ /\ saved_soc = -1
        /\ Finish("cycles") /\ UNCHANGED <<persist, sysfs, soc_inc>>
     \/ /\ saved_soc # -1 /\ Gained(level) < kCCBackupTrigger
        /\ soc_inc' = Gained(level)
        /\ Finish("cycles") /\ UNCHANGED <<persist, sysfs>>
     \/ /\ saved_soc # -1 /\ Gained(level) >= kCCBackupTrigger
        /\ soc_inc' = 0
        /\ \E s \in {driver["cycles"], sysfs["cycles"]} :
             UpdateAndSave("cycles", persist["cycles"], s)
  /\ UNCHANGED <<driver, file, cap_counter, unread, unwritten>>

(* LearnedCapacityBackupRestore::Backup                                     *)
BackupCapacity ==
  /\ at = "capacity" /\ step = "read" /\ job = "backup"
  /\ \/ /\ cap_counter + 1 < kLCBackupTrigger
        /\ cap_counter' = cap_counter + 1
        /\ Finish("capacity") /\ UNCHANGED <<persist, sysfs>>
     \/ /\ cap_counter + 1 >= kLCBackupTrigger
        /\ cap_counter' = 0
        /\ \E s \in {driver["capacity"], sysfs["capacity"]} :
             UpdateAndSave("capacity", persist["capacity"], s)
  /\ UNCHANGED <<driver, file, saved_soc, soc_inc, job, unread, unwritten>>
---------------------------------------------------------------------------
(* The write into the persist file: it is truncated when it is opened, and  *)
(* removed again when writing into it fails.                                *)
OpenFile(i) ==
  /\ at = i /\ step = "save"
  /\ \/ /\ file' = [file EXCEPT ![i] = 0]
        /\ step' = "fill" /\ UNCHANGED <<at, unwritten>>
     \/ /\ Finish(i)
        /\ unwritten' = unwritten \cup {i} /\ UNCHANGED file
  /\ UNCHANGED <<driver, persist, sysfs, countVars, job, unread>>

FillFile(i) ==
  /\ at = i /\ step = "fill"
  /\ Finish(i)
  /\ \/ file' = [file EXCEPT ![i] = persist[i]] /\ UNCHANGED unwritten
     \/ unwritten' = unwritten \cup {i} /\ UNCHANGED file
  /\ UNCHANGED <<driver, persist, sysfs, countVars, job, unread>>

(* The write into the driver.                                               *)
PushDriver(i) ==
  /\ at = i /\ step = "push"
  /\ Finish(i)
  /\ \/ driver' = [driver EXCEPT ![i] = sysfs[i]] /\ UNCHANGED unwritten
     \/ unwritten' = unwritten \cup {i} /\ UNCHANGED driver
  /\ UNCHANGED <<file, persist, sysfs, countVars, job, unread>>
---------------------------------------------------------------------------
(* The driver counts a cycle or learns a capacity; either takes hours, the  *)
(* service is idle then.                                                    *)
Charge ==
  /\ at = "idle" /\ driver["cycles"] < MaxCycles
  /\ driver' = [driver EXCEPT !["cycles"] = @ + 1]
  /\ UNCHANGED <<file, persist, sysfs, countVars, pcVars, unread, unwritten>>

Learn ==
  /\ at = "idle"
  /\ \E c \in 1..MaxCapacity : driver' = [driver EXCEPT !["capacity"] = c]
  /\ UNCHANGED <<file, persist, sysfs, countVars, pcVars, unread, unwritten>>

(* The service is started again, perhaps after a reboot in which the driver *)
(* has lost its values.                                                     *)
Restart ==
  /\ driver' \in {driver, Nothing}
  /\ persist' = Nothing /\ sysfs' = Nothing
  /\ saved_soc' = -1 /\ soc_inc' = 0 /\ cap_counter' = 0
  /\ at' = "cycles" /\ step' = "read" /\ job' = "restore"
  /\ unread' = {} /\ unwritten' = {}
  /\ UNCHANGED file

Next == \/ \E i \in Items : \/ Restore(i) \/ OpenFile(i) \/ FillFile(i)
                            \/ PushDriver(i)
        \/ \E level \in Levels : BackupCycles(level)
        \/ BackupCapacity \/ Charge \/ Learn \/ Restart

Spec == Init /\ [][Next]_vars
---------------------------------------------------------------------------
(* Type correctness.                                                        *)
TypeOK ==
  /\ driver \in [Items -> Nat] /\ file \in [Items -> Nat]
  /\ persist \in [Items -> Nat] /\ sysfs \in [Items -> Nat]
  /\ saved_soc \in Levels \cup {-1} /\ soc_inc \in Nat /\ cap_counter \in Nat
  /\ at \in Items \cup {"idle"} /\ step \in {"read", "save", "fill", "push"}
  /\ job \in {"restore", "backup"}
  /\ unread \subseteq Items \X {"file", "driver"} /\ unwritten \subseteq Items

(* b is no worse a value of item i than a.                                  *)
NoWorse(i, b, a) == IF i = "cycles" THEN b >= a ELSE a = 0 \/ (b # 0 /\ b <= a)

(* What the file of i holds, or is about to hold.                           *)
Held(i) == IF at = i /\ step = "fill" THEN persist[i] ELSE file[i]

(* A write that never got beyond the truncation of the file.                *)
Torn(i) == at = i /\ step = "fill" /\ file'[i] = 0

(* "restore the higher value", "restore the lower value": the persist file  *)
(* never loses what it holds to a worse value, over restarts, reboots and   *)
(* failing accesses, except for a write torn between truncation and data    *)
(* and for a file that was there but could not be read.                     *)
KeepsBest == \A i \in Items : \/ NoWorse(i, Held(i)', Held(i))
                              \/ Torn(i) \/ <<i, "file">> \in unread

FileKeepsBest == [][KeepsBest]_vars

(* The service never takes cycles away from the driver, nor makes the       *)
(* capacity it has learned larger, unless it could not read the driver's    *)
(* value when it restored.                                                  *)
DriverNotSpoiled ==
  [][\A i \in Items : at = i /\ step = "push" /\ at' # "cycles" =>
       NoWorse(i, driver'[i], driver[i]) \/ <<i, "driver">> \in unread]_vars

(* Between jobs, and if every access succeeded, the file holds the value    *)
(* that memory takes it to hold, and the driver is not behind it: a process *)
(* that starts now finds all there is.                                      *)
Agreement ==
  at = "idle" => \A i \in Items \ unwritten :
    /\ <<i, "file">> \notin unread => file[i] = persist[i]
    /\ i = "cycles" /\ <<i, "driver">> \notin unread => driver[i] >= persist[i]
=============================================================================
