---------------------------- MODULE HealthProofs ----------------------------
(***************************************************************************)
(* Theorems about HealthBackup, for every bound, every set of levels and   *)
(* every trigger.                                                          *)
(***************************************************************************)
EXTENDS HealthBackup, TLAPS

(* This process has read the values of item i.                              *)
Handled(i) == job = "restore" => /\ at = i => step # "read"
                                 /\ at = "cycles" => i = "cycles"

(* What this process knows of item i.                                       *)
ItemOK(i) ==
  /\ ~Handled(i) => /\ persist[i] = 0 /\ sysfs[i] = 0
                    /\ i \notin unwritten
                    /\ <<i, "file">> \notin unread /\ <<i, "driver">> \notin unread
  /\ Handled(i) => \/ sysfs[i] = persist[i]
                   \/ i = "capacity" /\ sysfs[i] = 0
  /\ Handled(i) /\ <<i, "file">> \notin unread =>
       /\ NoWorse(i, persist[i], file[i])
       /\ \/ i \in unwritten \/ file[i] = persist[i]
          \/ at = i /\ step \in {"save", "fill"}
  /\ at = i /\ step = "fill" => file[i] = 0
  /\ at = i /\ step = "push" /\ <<i, "driver">> \notin unread =>
       NoWorse(i, sysfs[i], driver[i])
  /\ Handled(i) /\ i = "cycles" /\ <<i, "driver">> \notin unread =>
       \/ i \in unwritten \/ driver[i] >= persist[i]
       \/ at = i /\ step = "push"

(* A step is pending only for an item.                                      *)
IdleOK == at = "idle" => step = "read"

(* The inductive invariant.                                                 *)
IInv == TypeOK /\ IdleOK /\ \A i \in Items : ItemOK(i)
---------------------------------------------------------------------------
(* What UpdateAndSave does with the values p and s it has brought together. *)
LEMMA UpdateOutcome ==
  ASSUME TypeOK, NEW i \in Items, NEW p \in Nat, NEW s \in Nat,
         UpdateAndSave(i, p, s)
  PROVE  /\ persist' \in [Items -> Nat] /\ sysfs' \in [Items -> Nat]
         /\ \A j \in Items \ {i} : persist'[j] = persist[j] /\ sysfs'[j] = sysfs[j]
         /\ sysfs'[i] = persist'[i] \/ (i = "capacity" /\ sysfs'[i] = 0)
         /\ NoWorse(i, persist'[i], p)
         /\ persist'[i] = p \/ (at' = i /\ step' = "save" /\ persist'[i] = s)
         /\ at' = i /\ step' = "push" => NoWorse(i, sysfs'[i], s)
         /\ i = "cycles" => s >= persist'[i] \/ (at' = i /\ step' = "push")
         /\ (at' = i /\ step' \in {"save", "push"}) \/ Finish(i)
  <1>1. persist' \in [Items -> Nat] /\ sysfs' \in [Items -> Nat]
    BY DEF UpdateAndSave, TypeOK
  <1>2. /\ persist'[i] = IF Saves(i, p, s) THEN s ELSE p
        /\ sysfs'[i] = IF Pushes(i, p, s) THEN p ELSE s
        /\ \A j \in Items \ {i} : persist'[j] = persist[j] /\ sysfs'[j] = sysfs[j]
    BY DEF UpdateAndSave, TypeOK
  <1>3. Saves(i, p, s) => ~Pushes(i, p, s)
    BY DEF Saves, Pushes
  <1>4. \/ Saves(i, p, s) /\ at' = i /\ step' = "save"
        \/ ~Saves(i, p, s) /\ Pushes(i, p, s) /\ at' = i /\ step' = "push"
        \/ ~Saves(i, p, s) /\ ~Pushes(i, p, s) /\ Finish(i)
    BY DEF UpdateAndSave
  <1>5. sysfs'[i] = persist'[i] \/ (i = "capacity" /\ sysfs'[i] = 0)
    BY <1>2 DEF Saves, Pushes, Items
  <1>6. NoWorse(i, persist'[i], p)
    BY <1>2 DEF Saves, NoWorse
  <1>7. at' = i /\ step' = "push" => NoWorse(i, sysfs'[i], s)
    BY <1>2, <1>4 DEF Pushes, NoWorse, Finish, Items
  <1>8. i = "cycles" => s >= persist'[i] \/ (at' = i /\ step' = "push")
    BY <1>2, <1>4 DEF Saves, Pushes
  <1> QED
    BY <1>1, <1>2, <1>4, <1>5, <1>6, <1>7, <1>8

(* A step of another item leaves item j as it is.                           *)
LEMMA OtherItem ==
  ASSUME NEW j \in Items, ItemOK(j), Handled(j)' <=> Handled(j),
         persist'[j] = persist[j], sysfs'[j] = sysfs[j],
         file'[j] = file[j], driver'[j] = driver[j],
         (j \in unwritten)' = (j \in unwritten),
         (<<j, "file">> \in unread)' = (<<j, "file">> \in unread),
         (<<j, "driver">> \in unread)' = (<<j, "driver">> \in unread),
         at = j => step = "read", at' = j => step' = "read"
  PROVE  ItemOK(j)'
  BY DEF ItemOK, NoWorse

(* An item whose values have been brought together is in order, if p was    *)
(* what its file is taken to hold and s what its driver is.                 *)
LEMMA OwnItem ==
  ASSUME TypeOK, NEW i \in Items, NEW p \in Nat, NEW s \in Nat,
         UpdateAndSave(i, p, s),
         file' = file, driver' = driver, unwritten' = unwritten,
         <<i, "file">> \notin unread' =>
           NoWorse(i, p, file[i]) /\ (i \in unwritten \/ file[i] = p),
         <<i, "driver">> \notin unread' =>
           \/ s = driver[i]
           \/ /\ s = p \/ (i = "capacity" /\ s = 0)
              /\ i = "cycles" => i \in unwritten \/ driver[i] >= p
  PROVE  ItemOK(i)' /\ IdleOK'
  <1>1. /\ sysfs'[i] = persist'[i] \/ (i = "capacity" /\ sysfs'[i] = 0)
        /\ NoWorse(i, persist'[i], p)
        /\ persist'[i] = p \/ (at' = i /\ step' = "save" /\ persist'[i] = s)
        /\ at' = i /\ step' = "push" => NoWorse(i, sysfs'[i], s)
        /\ i = "cycles" => s >= persist'[i] \/ (at' = i /\ step' = "push")
        /\ (at' = i /\ step' \in {"save", "push"}) \/ Finish(i)
    BY UpdateOutcome
  <1>2. /\ persist'[i] \in Nat /\ sysfs'[i] \in Nat
        /\ file[i] \in Nat /\ driver[i] \in Nat
    BY UpdateOutcome DEF TypeOK
  <1>3. (at' = i /\ step' \in {"save", "push"}) \/ (at' # i /\ step' = "read")
    BY <1>1 DEF Finish, Items
  <1>4. Handled(i)'
    BY <1>1 DEF Handled, Finish, Items
  <1>5. IdleOK'
    BY <1>1 DEF IdleOK, Finish, Items
  <1>6. <<i, "file">> \notin unread' => NoWorse(i, persist'[i], file[i])
    BY <1>1, <1>2 DEF NoWorse
  <1>7. <<i, "file">> \notin unread' =>
          \/ i \in unwritten \/ file[i] = persist'[i]
          \/ at' = i /\ step' = "save"
    BY <1>1
  <1>8. ASSUME at' = i, step' = "push", <<i, "driver">> \notin unread'
        PROVE  NoWorse(i, sysfs'[i], driver[i])
    <2>1. Pushes(i, p, s)
      BY <1>8 DEF UpdateAndSave, Finish, Items
    <2>2. s = driver[i]
      BY <2>1, <1>8 DEF Pushes
    <2> QED
      BY <2>2, <1>1, <1>8
  <1>9. ASSUME i = "cycles", <<i, "driver">> \notin unread'
        PROVE  \/ i \in unwritten \/ driver[i] >= persist'[i]
               \/ at' = i /\ step' = "push"
    <2>1. CASE s = driver[i]
      BY <2>1, <1>1, <1>9
    <2>2. CASE s = p /\ (i \in unwritten \/ driver[i] >= p)
      BY <2>2, <1>1
    <2> QED
      BY <2>1, <2>2, <1>9
  <1> QED
    BY <1>1, <1>3, <1>4, <1>5, <1>6, <1>7, <1>8, <1>9 DEF ItemOK, NoWorse

LEMMA InitIInv == Init => IInv
  BY DEF Init, Started, IInv, TypeOK, IdleOK, ItemOK, Handled, NoWorse, Nothing, Items
---------------------------------------------------------------------------
LEMMA NextTypeOK == TypeOK /\ [Next]_vars => TypeOK'
  <1> SUFFICES ASSUME TypeOK, [Next]_vars PROVE TypeOK'
    OBVIOUS
  <1>1. ASSUME NEW i \in Items, Restore(i) PROVE TypeOK'
    <2>1. PICK p \in {file[i], 0}, s \in {driver[i], 0} :
            /\ UpdateAndSave(i, p, s)
            /\ unread' = unread \cup {<<i, x>> : x \in
                            (IF p = file[i] THEN {} ELSE {"file"}) \cup
                            (IF s = driver[i] THEN {} ELSE {"driver"})}
      BY <1>1 DEF Restore
    <2>2. p \in Nat /\ s \in Nat
      BY DEF TypeOK
    <2>3. persist' \in [Items -> Nat] /\ sysfs' \in [Items -> Nat]
      BY <2>1, <2>2, UpdateOutcome
    <2>4. at' \in Items \cup {"idle"} /\ step' \in {"read", "save", "fill", "push"}
      BY <2>1 DEF UpdateAndSave, Finish, Items
    <2>5. unread' \subseteq Items \X {"file", "driver"}
      BY <2>1 DEF TypeOK
    <2> QED
      BY <1>1, <2>3, <2>4, <2>5 DEF TypeOK, Restore, countVars
  <1>2. ASSUME NEW i \in Items, OpenFile(i) PROVE TypeOK'
    <2>1. file' \in [Items -> Nat]
      BY <1>2 DEF OpenFile, TypeOK
    <2>2. at' \in Items \cup {"idle"} /\ step' \in {"read", "save", "fill", "push"}
      BY <1>2 DEF OpenFile, TypeOK, Finish, Items
    <2>3. unwritten' \subseteq Items
      BY <1>2 DEF OpenFile, TypeOK
    <2> QED
      BY <1>2, <2>1, <2>2, <2>3 DEF OpenFile, TypeOK, countVars
  <1>3. ASSUME NEW i \in Items, FillFile(i) PROVE TypeOK'
    BY <1>3 DEF FillFile, TypeOK, Finish, Items, countVars
  <1>4. ASSUME NEW i \in Items, PushDriver(i) PROVE TypeOK'
    BY <1>4 DEF PushDriver, TypeOK, Finish, Items, countVars
  <1>5. ASSUME NEW level \in Levels, BackupCycles(level) PROVE TypeOK'
    <2>1. soc_inc' \in Nat
      <3>1. saved_soc # -1 => Gained(level) \in Nat
        BY LevelAssumption DEF Gained, TypeOK
      <3> QED
        BY <1>5, <3>1 DEF BackupCycles, TypeOK
    <2>2. persist' \in [Items -> Nat] /\ sysfs' \in [Items -> Nat]
      <3>1. \A s \in {driver["cycles"], sysfs["cycles"]} : s \in Nat
        BY DEF TypeOK, Items
      <3>2. persist["cycles"] \in Nat /\ "cycles" \in Items
        BY DEF TypeOK, Items
      <3> QED
        BY <1>5, <3>1, <3>2, UpdateOutcome DEF BackupCycles, TypeOK
    <2>3. at' \in Items \cup {"idle"} /\ step' \in {"read", "save", "fill", "push"}
      BY <1>5 DEF BackupCycles, UpdateAndSave, Finish, Items
    <2> QED
      BY <1>5, <2>1, <2>2, <2>3 DEF BackupCycles, TypeOK
  <1>6. CASE BackupCapacity
    <2>1. persist' \in [Items -> Nat] /\ sysfs' \in [Items -> Nat]
      <3>1. \A s \in {driver["capacity"], sysfs["capacity"]} : s \in Nat
        BY DEF TypeOK, Items
      <3>2. persist["capacity"] \in Nat /\ "capacity" \in Items
        BY DEF TypeOK, Items
      <3> QED
        BY <1>6, <3>1, <3>2, UpdateOutcome DEF BackupCapacity, TypeOK
    <2>2. at' \in Items \cup {"idle"} /\ step' \in {"read", "save", "fill", "push"}
      BY <1>6 DEF BackupCapacity, UpdateAndSave, Finish, Items
    <2>3. cap_counter' \in Nat
      BY <1>6 DEF BackupCapacity, TypeOK
    <2> QED
      BY <1>6, <2>1, <2>2, <2>3 DEF BackupCapacity, TypeOK
  <1>7. CASE Charge
    BY <1>7 DEF Charge, TypeOK, Items, countVars, pcVars
  <1>8. CASE Learn
    <2>1. PICK c \in 1..MaxCapacity : driver' = [driver EXCEPT !["capacity"] = c]
      BY <1>8 DEF Learn
    <2>2. c \in Nat
      BY BoundAssumption
    <2>3. driver' \in [Items -> Nat]
      BY <2>1, <2>2 DEF TypeOK
    <2> QED
      BY <1>8, <2>3 DEF Learn, TypeOK, countVars, pcVars
  <1>9. CASE Restart
    BY <1>9 DEF Restart, TypeOK, Nothing, Items
  <1>10. CASE UNCHANGED vars
    BY <1>10 DEF vars, TypeOK, countVars, pcVars
  <1> QED
    BY <1>1, <1>2, <1>3, <1>4, <1>5, <1>6, <1>7, <1>8, <1>9, <1>10 DEF Next
---------------------------------------------------------------------------
LEMMA NextItems ==
  IInv /\ [Next]_vars => IdleOK' /\ \A i \in Items : ItemOK(i)'
  <1> SUFFICES ASSUME IInv, [Next]_vars
               PROVE  IdleOK' /\ \A i \in Items : ItemOK(i)'
    OBVIOUS
  <1>0. TypeOK /\ IdleOK /\ \A i \in Items : ItemOK(i)
    BY DEF IInv
  <1>1. ASSUME NEW i \in Items, Restore(i)
        PROVE  IdleOK' /\ \A j \in Items : ItemOK(j)'
    <2>1. PICK p \in {file[i], 0}, s \in {driver[i], 0} :
            /\ UpdateAndSave(i, p, s)
            /\ unread' = unread \cup {<<i, x>> : x \in
                            (IF p = file[i] THEN {} ELSE {"file"}) \cup
                            (IF s = driver[i] THEN {} ELSE {"driver"})}
      BY <1>1 DEF Restore
    <2>2. /\ at = i /\ step = "read" /\ job = "restore" /\ job' = job
          /\ file' = file /\ driver' = driver /\ unwritten' = unwritten
          /\ p \in Nat /\ s \in Nat /\ file[i] \in Nat
      BY <1>0, <1>1 DEF Restore, TypeOK
    <2>3. /\ <<i, "file">> \notin unread' => p = file[i]
          /\ <<i, "driver">> \notin unread' => s = driver[i]
      BY <2>1
    <2>4. NoWorse(i, file[i], file[i])
      BY <2>2 DEF NoWorse
    <2>5. ItemOK(i)' /\ IdleOK'
      BY <1>0, <2>1, <2>2, <2>3, <2>4, OwnItem
    <2>6. ASSUME NEW j \in Items, j # i PROVE ItemOK(j)'
      <3>1. /\ persist'[j] = persist[j] /\ sysfs'[j] = sysfs[j]
            /\ (at' = i /\ step' \in {"save", "push"}) \/ Finish(i)
        BY <1>0, <2>1, <2>2, <2>6, UpdateOutcome
      <3>2. Handled(j)' <=> Handled(j)
        BY <2>2, <2>6, <3>1 DEF Handled, Finish, Items
      <3>3. /\ (<<j, "file">> \in unread)' = (<<j, "file">> \in unread)
            /\ (<<j, "driver">> \in unread)' = (<<j, "driver">> \in unread)
        BY <2>1, <2>6
      <3>4. at = j => step = "read"
        BY <2>2, <2>6
      <3>5. at' = j => step' = "read"
        BY <2>6, <3>1 DEF Finish
      <3> QED
        BY <1>0, <2>2, <3>1, <3>2, <3>3, <3>4, <3>5, OtherItem
    <2> QED
      BY <2>5, <2>6
  <1>2. ASSUME NEW i \in Items, OpenFile(i)
        PROVE  IdleOK' /\ \A j \in Items : ItemOK(j)'
    <2>1. IdleOK'
      BY <1>2 DEF OpenFile, IdleOK, Finish, Items
    <2>2. ItemOK(i)'
      <3>1. Handled(i) /\ Handled(i)'
        BY <1>2 DEF OpenFile, Handled, Finish, Items
      <3>2. ItemOK(i) /\ persist[i] \in Nat /\ file[i] \in Nat /\ driver[i] \in Nat
        BY <1>0 DEF TypeOK
      <3>3. CASE file' = [file EXCEPT ![i] = 0] /\ step' = "fill" /\ UNCHANGED <<at, unwritten>>
        <4>1. file'[i] = 0
          BY <1>0, <3>3 DEF TypeOK
        <4> QED
          BY <1>2, <3>1, <3>2, <3>3, <4>1 DEF OpenFile, ItemOK, NoWorse
      <3>4. CASE Finish(i) /\ unwritten' = unwritten \cup {i} /\ UNCHANGED file
        BY <1>2, <3>1, <3>2, <3>4 DEF OpenFile, ItemOK, NoWorse, Finish, Items
      <3> QED
        BY <1>2, <3>3, <3>4 DEF OpenFile
    <2>3. ASSUME NEW j \in Items, j # i PROVE ItemOK(j)'
      <3>1. file'[j] = file[j] /\ (j \in unwritten)' = (j \in unwritten)
        BY <1>0, <1>2, <2>3 DEF OpenFile, TypeOK
      <3>2. Handled(j)' <=> Handled(j)
        BY <1>2, <2>3 DEF OpenFile, Handled, Finish, Items
      <3>3. (at = j => step = "read") /\ (at' = j => step' = "read")
        BY <1>2, <2>3 DEF OpenFile, Finish
      <3>4. UNCHANGED <<driver, persist, sysfs, unread>>
        BY <1>2 DEF OpenFile
      <3> QED
        BY <1>0, <3>1, <3>2, <3>3, <3>4, OtherItem
    <2> QED
      BY <2>1, <2>2, <2>3
  <1>3. ASSUME NEW i \in Items, FillFile(i)
        PROVE  IdleOK' /\ \A j \in Items : ItemOK(j)'
    <2>1. IdleOK'
      BY <1>3 DEF FillFile, IdleOK, Finish, Items
    <2>2. ItemOK(i)'
      <3>1. Handled(i) /\ Handled(i)'
        BY <1>3 DEF FillFile, Handled, Finish, Items
      <3>2. ItemOK(i) /\ persist[i] \in Nat /\ file[i] \in Nat /\ driver[i] \in Nat
        BY <1>0 DEF TypeOK
      <3>3. file'[i] = persist[i] \/ (unwritten' = unwritten \cup {i} /\ file' = file)
        BY <1>0, <1>3 DEF FillFile, TypeOK
      <3>4. at' # i
        BY <1>3 DEF FillFile, Finish, Items
      <3>5. i \in unwritten => i \in unwritten'
        BY <1>3 DEF FillFile
      <3> QED
        BY <1>3, <3>1, <3>2, <3>3, <3>4, <3>5 DEF FillFile, ItemOK, NoWorse
    <2>3. ASSUME NEW j \in Items, j # i PROVE ItemOK(j)'
      <3>1. file'[j] = file[j] /\ (j \in unwritten)' = (j \in unwritten)
        BY <1>0, <1>3, <2>3 DEF FillFile, TypeOK
      <3>2. Handled(j)' <=> Handled(j)
        BY <1>3, <2>3 DEF FillFile, Handled, Finish, Items
      <3>3. (at = j => step = "read") /\ (at' = j => step' = "read")
        BY <1>3, <2>3 DEF FillFile, Finish
      <3>4. UNCHANGED <<driver, persist, sysfs, unread>>
        BY <1>3 DEF FillFile
      <3> QED
        BY <1>0, <3>1, <3>2, <3>3, <3>4, OtherItem
    <2> QED
      BY <2>1, <2>2, <2>3
  <1>4. ASSUME NEW i \in Items, PushDriver(i)
        PROVE  IdleOK' /\ \A j \in Items : ItemOK(j)'
    <2>1. IdleOK'
      BY <1>4 DEF PushDriver, IdleOK, Finish, Items
    <2>2. ItemOK(i)'
      <3>1. Handled(i) /\ Handled(i)'
        BY <1>4 DEF PushDriver, Handled, Finish, Items
      <3>2. /\ ItemOK(i)
            /\ persist[i] \in Nat /\ sysfs[i] \in Nat
            /\ file[i] \in Nat /\ driver[i] \in Nat
        BY <1>0 DEF TypeOK
      <3>3. driver'[i] = sysfs[i] \/ (unwritten' = unwritten \cup {i} /\ driver' = driver)
        BY <1>0, <1>4 DEF PushDriver, TypeOK
      <3>4. at' # i
        BY <1>4 DEF PushDriver, Finish, Items
      <3>5. i \in unwritten => i \in unwritten'
        BY <1>4 DEF PushDriver
      <3> QED
        BY <1>4, <3>1, <3>2, <3>3, <3>4, <3>5 DEF PushDriver, ItemOK, NoWorse
    <2>3. ASSUME NEW j \in Items, j # i PROVE ItemOK(j)'
      <3>1. driver'[j] = driver[j] /\ (j \in unwritten)' = (j \in unwritten)
        BY <1>0, <1>4, <2>3 DEF PushDriver, TypeOK
      <3>2. Handled(j)' <=> Handled(j)
        BY <1>4, <2>3 DEF PushDriver, Handled, Finish, Items
      <3>3. (at = j => step = "read") /\ (at' = j => step' = "read")
        BY <1>4, <2>3 DEF PushDriver, Finish
      <3>4. UNCHANGED <<file, persist, sysfs, unread>>
        BY <1>4 DEF PushDriver
      <3> QED
        BY <1>0, <3>1, <3>2, <3>3, <3>4, OtherItem
    <2> QED
      BY <2>1, <2>2, <2>3
  <1>5. ASSUME NEW level \in Levels, BackupCycles(level)
        PROVE  IdleOK' /\ \A j \in Items : ItemOK(j)'
    <2>1. /\ at = "idle" /\ step = "read" /\ job' = "backup"
          /\ UNCHANGED <<driver, file, unread, unwritten>>
      BY <1>0, <1>5 DEF BackupCycles, IdleOK
    <2>2. \A j \in Items : Handled(j) /\ Handled(j)'
      BY <2>1 DEF Handled, Items
    <2>3. CASE Finish("cycles") /\ UNCHANGED <<persist, sysfs>>
      <3>1. IdleOK'
        BY <2>3 DEF Finish, IdleOK
      <3>2. ASSUME NEW j \in Items PROVE ItemOK(j)'
        <4>1. (at = j => step = "read") /\ (at' = j => step' = "read")
          BY <2>1, <2>3 DEF Finish
        <4>2. Handled(j)' <=> Handled(j)
          BY <2>2
        <4> QED
          BY <1>0, <2>1, <2>3, <4>1, <4>2, OtherItem
      <3> QED
        BY <3>1, <3>2
    <2>4. ASSUME NEW s \in {driver["cycles"], sysfs["cycles"]},
                 UpdateAndSave("cycles", persist["cycles"], s)
          PROVE  IdleOK' /\ \A j \in Items : ItemOK(j)'
      <3>1. /\ "cycles" \in Items /\ s \in Nat /\ persist["cycles"] \in Nat
            /\ ItemOK("cycles")
        BY <1>0 DEF TypeOK, Items
      <3>2. <<"cycles", "file">> \notin unread' =>
              /\ NoWorse("cycles", persist["cycles"], file["cycles"])
              /\ "cycles" \in unwritten \/ file["cycles"] = persist["cycles"]
        BY <2>1, <2>2, <3>1 DEF ItemOK
      <3>3. <<"cycles", "driver">> \notin unread' =>
              \/ s = driver["cycles"]
              \/ /\ s = persist["cycles"]
                 /\ "cycles" \in unwritten \/ driver["cycles"] >= persist["cycles"]
        BY <2>1, <2>2, <3>1 DEF ItemOK
      <3>4. ItemOK("cycles")' /\ IdleOK'
        BY <1>0, <2>1, <2>4, <3>1, <3>2, <3>3, OwnItem
      <3>5. ASSUME NEW j \in Items, j # "cycles" PROVE ItemOK(j)'
        <4>1. /\ persist'[j] = persist[j] /\ sysfs'[j] = sysfs[j]
              /\ (at' = "cycles" /\ step' \in {"save", "push"}) \/ Finish("cycles")
          BY <1>0, <2>4, <3>1, <3>5, UpdateOutcome
        <4>2. (at = j => step = "read") /\ (at' = j => step' = "read")
          BY <2>1, <3>5, <4>1 DEF Finish
        <4>3. Handled(j)' <=> Handled(j)
          BY <2>2
        <4> QED
          BY <1>0, <2>1, <4>1, <4>2, <4>3, OtherItem
      <3> QED
        BY <3>4, <3>5
    <2> QED
      BY <1>5, <2>3, <2>4 DEF BackupCycles
  <1>6. ASSUME BackupCapacity
        PROVE  IdleOK' /\ \A j \in Items : ItemOK(j)'
    <2>1. /\ at = "capacity" /\ step = "read" /\ job = "backup" /\ job' = job
          /\ UNCHANGED <<driver, file, unread, unwritten>>
      BY <1>6 DEF BackupCapacity
    <2>2. \A j \in Items : Handled(j) /\ Handled(j)'
      BY <2>1 DEF Handled
    <2>3. CASE Finish("capacity") /\ UNCHANGED <<persist, sysfs>>
      <3>1. IdleOK'
        BY <2>3 DEF Finish, IdleOK
      <3>2. ASSUME NEW j \in Items PROVE ItemOK(j)'
        <4>1. (at = j => step = "read") /\ (at' = j => step' = "read")
          BY <2>1, <2>3 DEF Finish
        <4>2. Handled(j)' <=> Handled(j)
          BY <2>2
        <4> QED
          BY <1>0, <2>1, <2>3, <4>1, <4>2, OtherItem
      <3> QED
        BY <3>1, <3>2
    <2>4. ASSUME NEW s \in {driver["capacity"], sysfs["capacity"]},
                 UpdateAndSave("capacity", persist["capacity"], s)
          PROVE  IdleOK' /\ \A j \in Items : ItemOK(j)'
      <3>1. /\ "capacity" \in Items /\ s \in Nat /\ persist["capacity"] \in Nat
            /\ ItemOK("capacity")
        BY <1>0 DEF TypeOK, Items
      <3>2. <<"capacity", "file">> \notin unread' =>
              /\ NoWorse("capacity", persist["capacity"], file["capacity"])
              /\ "capacity" \in unwritten \/ file["capacity"] = persist["capacity"]
        BY <2>1, <2>2, <3>1 DEF ItemOK
      <3>3. s = driver["capacity"] \/ s = persist["capacity"] \/ s = 0
        BY <2>2, <3>1 DEF ItemOK
      <3>4. ItemOK("capacity")' /\ IdleOK'
        BY <1>0, <2>1, <2>4, <3>1, <3>2, <3>3, OwnItem
      <3>5. ASSUME NEW j \in Items, j # "capacity" PROVE ItemOK(j)'
        <4>1. /\ persist'[j] = persist[j] /\ sysfs'[j] = sysfs[j]
              /\ \/ at' = "capacity" /\ step' \in {"save", "push"}
                 \/ Finish("capacity")
          BY <1>0, <2>4, <3>1, <3>5, UpdateOutcome
        <4>2. (at = j => step = "read") /\ (at' = j => step' = "read")
          BY <2>1, <3>5, <4>1 DEF Finish
        <4>3. Handled(j)' <=> Handled(j)
          BY <2>2
        <4> QED
          BY <1>0, <2>1, <4>1, <4>2, <4>3, OtherItem
      <3> QED
        BY <3>4, <3>5
    <2> QED
      BY <1>6, <2>3, <2>4 DEF BackupCapacity
  <1>7. ASSUME Charge PROVE IdleOK' /\ \A j \in Items : ItemOK(j)'
    <2>1. /\ at = "idle" /\ driver'["cycles"] = driver["cycles"] + 1
          /\ driver'["capacity"] = driver["capacity"]
          /\ driver["cycles"] \in Nat /\ persist["cycles"] \in Nat
      BY <1>0, <1>7 DEF Charge, TypeOK, Items
    <2>2. UNCHANGED <<file, persist, sysfs, pcVars, unread, unwritten>>
      BY <1>7 DEF Charge
    <2>3. ItemOK("cycles") /\ ItemOK("capacity")
      BY <1>0 DEF Items
    <2>4. ItemOK("cycles")' /\ ItemOK("capacity")'
      BY <2>1, <2>2, <2>3 DEF ItemOK, Handled, NoWorse, pcVars
    <2> QED
      BY <1>0, <2>2, <2>4 DEF Items, IdleOK, pcVars
  <1>8. ASSUME Learn PROVE IdleOK' /\ \A j \in Items : ItemOK(j)'
    <2>1. at = "idle" /\ driver'["cycles"] = driver["cycles"]
      BY <1>0, <1>8 DEF Learn, TypeOK, Items
    <2>2. UNCHANGED <<file, persist, sysfs, pcVars, unread, unwritten>>
      BY <1>8 DEF Learn
    <2>3. ItemOK("cycles") /\ ItemOK("capacity")
      BY <1>0 DEF Items
    <2>4. ItemOK("cycles")' /\ ItemOK("capacity")'
      BY <2>1, <2>2, <2>3 DEF ItemOK, Handled, NoWorse, pcVars
    <2> QED
      BY <1>0, <2>2, <2>4 DEF Items, IdleOK, pcVars
  <1>9. CASE Restart
    BY <1>9 DEF Restart, Nothing, Items, IdleOK, ItemOK, Handled
  <1>10. CASE UNCHANGED vars
    BY <1>0, <1>10 DEF vars, pcVars, IdleOK, ItemOK, Handled, NoWorse
  <1> QED
    BY <1>1, <1>2, <1>3, <1>4, <1>5, <1>6, <1>7, <1>8, <1>9, <1>10 DEF Next
---------------------------------------------------------------------------
LEMMA Inductive == IInv /\ [Next]_vars => IInv'
  BY NextTypeOK, NextItems DEF IInv

(* Every process knows what file and driver hold, as far as it could read   *)
(* and write them, at every step of a restoration or backup: the combined   *)
(* invariant all other results are read off.                                *)
THEOREM Invariance == Spec => []IInv
  BY InitIInv, Inductive, PTL DEF Spec

(* The values of battery, files and objects are natural numbers, also the   *)
(* percent counted up by CycleCountBackupRestore::Backup.                   *)
THEOREM TypeCorrect == Spec => []TypeOK
  <1>1. IInv => TypeOK
    BY DEF IInv
  <1> QED
    BY <1>1, Invariance, PTL

(* After every restoration or backup whose accesses succeeded, the persist  *)
(* file, the process and the driver agree.                                  *)
THEOREM FilesAgree == Spec => []Agreement
  <1>1. IInv => Agreement
    <2> SUFFICES ASSUME IInv, at = "idle", NEW i \in Items \ unwritten
                 PROVE  /\ <<i, "file">> \notin unread => file[i] = persist[i]
                        /\ i = "cycles" /\ <<i, "driver">> \notin unread =>
                             driver[i] >= persist[i]
      BY DEF Agreement
    <2>1. Handled(i) /\ ItemOK(i) /\ at # i
      BY DEF IInv, Handled, Items
    <2> QED
      BY <2>1 DEF ItemOK
  <1> QED
    BY <1>1, Invariance, PTL

(* UpdateAndSave never writes into the driver what is worse than the value  *)
(* the driver has, whatever a reboot has left there.                        *)
THEOREM DriverIsNotSpoiled == Spec => DriverNotSpoiled
  <1>1. IInv /\ [Next]_vars =>
          [\A i \in Items : at = i /\ step = "push" /\ at' # "cycles" =>
             NoWorse(i, driver'[i], driver[i]) \/ <<i, "driver">> \in unread]_vars
    <2> SUFFICES ASSUME IInv, Next, NEW i \in Items,
                        at = i, step = "push", at' # "cycles",
                        <<i, "driver">> \notin unread
                 PROVE  NoWorse(i, driver'[i], driver[i])
      BY DEF vars
    <2>1. /\ NoWorse(i, sysfs[i], driver[i]) /\ driver[i] \in Nat
          /\ driver \in [Items -> Nat]
      BY DEF IInv, ItemOK, TypeOK
    <2>2. PushDriver(i)
      BY DEF Next, Restore, OpenFile, FillFile, PushDriver, BackupCycles,
             BackupCapacity, Charge, Learn, Restart, Items
    <2>3. driver'[i] = sysfs[i] \/ driver'[i] = driver[i]
      BY <2>1, <2>2 DEF PushDriver
    <2> QED
      BY <2>1, <2>3 DEF NoWorse
  <1> QED
    BY <1>1, Invariance, PTL DEF Spec, DriverNotSpoiled

(* No sequence of restarts, reboots and failing accesses makes UpdateAndSave *)
(* replace what a persist file holds by a worse value, but for a torn write  *)
(* and a file that could not be read.                                        *)
THEOREM FileIsKept == Spec => FileKeepsBest
  <1>1. IInv /\ [Next]_vars => [KeepsBest]_vars
    <2> SUFFICES ASSUME IInv, Next, NEW i \in Items, ~Torn(i),
                        <<i, "file">> \notin unread
                 PROVE  NoWorse(i, Held(i)', Held(i))
      BY DEF vars, KeepsBest
    <2>1. /\ TypeOK /\ ItemOK(i) /\ (at = i /\ step = "fill" => file[i] = 0)
          /\ persist[i] \in Nat /\ file[i] \in Nat /\ file \in [Items -> Nat]
      BY DEF IInv, ItemOK, TypeOK
    <2>2. NoWorse(i, file[i], file[i]) /\ NoWorse(i, persist[i], persist[i])
      BY <2>1 DEF NoWorse
    <2>3. ASSUME file'[i] = file[i], ~(at = i /\ step = "fill"),
                 ~(at' = i /\ step' = "fill")
          PROVE  NoWorse(i, Held(i)', Held(i))
      BY <2>2, <2>3 DEF Held
    <2>4. ASSUME NEW j \in Items, Restore(j) PROVE NoWorse(i, Held(i)', Held(i))
      BY <2>3, <2>4 DEF Restore, UpdateAndSave, Finish
    <2>5. ASSUME NEW j \in Items, OpenFile(j) PROVE NoWorse(i, Held(i)', Held(i))
      <3>1. CASE i # j
        BY <2>1, <2>3, <2>5, <3>1 DEF OpenFile, Finish
      <3>2. CASE i = j /\ Finish(i) /\ file' = file
        BY <2>3, <2>5, <3>2 DEF OpenFile, Finish
      <3>3. CASE i = j /\ step' = "fill" /\ UNCHANGED <<at, persist>>
        <4>1. Handled(i)
          BY <2>5, <3>3 DEF OpenFile, Handled, Items
        <4>2. NoWorse(i, persist[i], file[i])
          BY <2>1, <4>1 DEF ItemOK
        <4>3. Held(i) = file[i] /\ Held(i)' = persist[i]
          BY <2>5, <3>3 DEF OpenFile, Held
        <4> QED
          BY <4>2, <4>3
      <3> QED
        BY <2>5, <3>1, <3>2, <3>3 DEF OpenFile
    <2>6. ASSUME NEW j \in Items, FillFile(j) PROVE NoWorse(i, Held(i)', Held(i))
      <3>1. CASE i # j
        BY <2>1, <2>3, <2>6, <3>1 DEF FillFile, Finish
      <3>2. CASE i = j
        <4>1. Held(i) = persist[i] /\ Held(i)' = file'[i]
          BY <2>6, <3>2 DEF FillFile, Finish, Held
        <4>2. file'[i] = persist[i]
          BY <2>1, <2>6, <3>2 DEF FillFile, Torn
        <4> QED
          BY <2>2, <4>1, <4>2
      <3> QED
        BY <3>1, <3>2
    <2>7. ASSUME NEW j \in Items, PushDriver(j) PROVE NoWorse(i, Held(i)', Held(i))
      BY <2>3, <2>7 DEF PushDriver, Finish
    <2>8. ASSUME NEW level \in Levels, BackupCycles(level)
          PROVE  NoWorse(i, Held(i)', Held(i))
      BY <2>3, <2>8 DEF BackupCycles, UpdateAndSave, Finish, Items
    <2>9. CASE BackupCapacity
      BY <2>3, <2>9 DEF BackupCapacity, UpdateAndSave, Finish
    <2>10. CASE Charge \/ Learn
      BY <2>3, <2>10 DEF Charge, Learn, pcVars, Items
    <2>11. CASE Restart
      <3>1. ~(at = i /\ step = "fill")
        BY <2>1, <2>11 DEF Restart, Torn
      <3> QED
        BY <2>3, <2>11, <3>1 DEF Restart
    <2> QED
      BY <2>4, <2>5, <2>6, <2>7, <2>8, <2>9, <2>10, <2>11 DEF Next
  <1> QED
    BY <1>1, Invariance, PTL DEF Spec, FileKeepsBest
=============================================================================
