# Verification of the Loire device services

The repository is the common device tree of Sony's Loire platform. Most of its
files are vendored Qualcomm HALs or configuration data; its own programs are the
small native and Java services under `hardware/`. This directory holds TLA+
models of those services, the TLC runs that check them on small instances, and
proofs checked by TLAPS. Paths in this file are relative to the repository.

## 1. Inventory

| Component | State it keeps | Operations | Hard about it | What makes it correct |
|---|---|---|---|---|
| **Fingerprint HAL** `hardware/fingerprint` | `worker.running_state`, the counter of `worker.event_fd`, `mClientCallback` and its mutex, the sensor's supply; the template database, its temporary file, the cached authenticator id | `setNotify`, `enroll`, `authenticate`, `cancel`, `setActiveGroup`, `remove`, `getAuthenticatorId`; the worker's loop with `process_enroll`, `process_auth` | two threads, unsynchronised `running_state`, requests that add up in one counter, a mutex held for a whole operation, edge-triggered polling; two threads that store one file | a request is read; a cancel ends its operation; the callback is used under its mutex and never null; the sensor is off between operations; each operation has one result; prints stay with their user and survive a crash |
| **Thermal manager** `hardware/thermanager` | per configuration two lists of thresholds, the current one and the last value; per control votes and a level; tickets of timers; trip edges of zones | a round over all configurations, votes, level changes, enabling and disabling resources, setting trip points, sleeping on the watch | order of votes, shared resources, hysteresis with several thresholds crossed at once, a daemon that sleeps until something it armed fires | a control's level is the highest one asked for, also while votes change; thresholds switch with hysteresis; a hot sensor is mitigated; a mitigation in force keeps its timer |
| **Power HAL** `hardware/power` | the list of active hints with their perf locks, the last display message, launch mode and handle | `power_hint`, `set_interactive`, `setMode` (launch), `setBoost` | locks taken under one governor and released under another, failing acquisitions, locks that run out | the hint list is exactly the resource locks the library holds for the display; a boost belongs to a launch in progress |
| **Transmit power** `hardware/transpower` | observers with the value last sent, the mediator's features, sensors that are observed, the stored audio route | call, Wi-Fi, battery, screen and sensor events, service start and stop, phone state | broadcasts delivered later and together, features that come late, a process that dies, failed requests | the modem has what each observer takes for sent; no sensor is on without the service; a call is told only for its route |
| **Health HAL backup** `hardware/health` | charge cycles and learned capacity, in the driver and in a file | backup at intervals, restore at start | restarts between two backups, failed reads and writes | cycles never decrease, capacity never increases |
| **Lights HAL** `hardware/lights` | requested state of battery and notification, the files of the LED's driver, the panel's range | `setLight` | two clients for one LED with two drivers' ways to blink; scaling by shifts | each LED was last told the lit light of the highest priority; the brightness is exact to one step |
| **Timekeep** `hardware/timekeep` | offset of the RTC in a property and a file | `onReceive` at time changes, `restore_time` at boot | daemon and Java receiver interleave, unsigned arithmetic, power lost at any time | the restored time is never a whole second ahead of the one the user set; file and property agree |
| **MAC address setup**, **glove mode** | none | one pass at boot; one file per call | | |
| vendored: `hardware/camera`, `hardware/qcom`, `hardware/dataservices` | | | | not this repository's logic |
| data: `rootdir`, `audio`, `gps`, `configs`, `sepolicy`, `overlay`, ... | | | | no program |

**How the parts interact.** The services do not call one another. Each talks to
the Android framework (binder calls in, callbacks out), to the kernel (sysfs,
eventfd, input and uevents) and some to TrustZone or the modem. Within the
fingerprint HAL the binder thread and the worker share `running_state`, the
eventfd and the mutex. Within the thermal manager configurations share controls,
and controls share resources. In the transmit power service the observers share
a mediator. Those are the places where the models look.

The hazards, each at its line with the properties that cover it, are listed in
`PROJECT.json`.

## 2. The modules

| Component | Modules | Abstract specification | Instance, runs | Proofs |
|---|---|---|---|---|
| fingerprint HAL: threads, sensor | `FingerprintWorker` | `FingerprintSession` | `MCFingerprintWorker`: `Fingerprint`, `FingerprintCancelHonoured` | `FingerprintProofs` |
| fingerprint HAL: template database | `FingerprintStore` | | `MCFingerprintStore`: `StoreSafety` | `StoreProofs` |
| thermal manager | `Thermanager` | `ThermalHysteresis` | `MCThermanager`: 5 runs | `ThermalProofs` |
| health HAL | `HealthBackup` | | `MCPersist`: `PersistSafety` | `HealthProofs` |
| power HAL | `PowerHints` | | `MCServices`: `ServicesSafety` | `PowerProofs` |
| timekeep | `Timekeep` | | `MCPersist`: `PersistSafety`; `MCTimekeep`: `TimekeepOffset` | `TimekeepProofs` |
| lights HAL | `Lights`, `Backlight` | | `MCServices`: `ServicesSafety` | `LightsProofs` |
| transmit power | `TransmitPower` | | `MCServices`: `ServicesSafety`; `MCTransmitPower`: `TransmitActiveCall` | `TransmitProofs` |

Services that share no state share a run: `MCPersist` has the two that keep values
over a reboot, `MCServices` the small ones and transmit power. A behaviour of all
of them is an interleaving of theirs, and a safety property of one holds in it if
it holds while the others stand still. Each behaviour of such a run therefore moves
one service (`service`), and the numbers of states add up.

No module declares a RECURSIVE operator. What is left to do is in section 10.

## 3. The fingerprint HAL: threads

### Modules

* `FingerprintWorker.tla` - both threads. `bpc` is where the binder thread is,
  `wpc` where the worker is. There is one action per access to state the two
  threads share:

  | Code (`BiometricsFingerprint.cpp` unless named) | Actions |
  |---|---|
  | `enroll`, `authenticate`, `cancel` | `Enroll`, `Authenticate`, `Cancel`: the call begins |
  | `setState` | `CheckState` (first read of `running_state`), `RecheckState` (second read), `WriteState` (`eventfd_write`) |
  | `setNotify` | `CallSetNotify`, `SetNotify` (waits for the mutex) |
  | `worker_thread` | `LoopHead`, `EpollWait`, `GetNextState`, `Dispatch` |
  | `process_enroll`, `process_auth` | `LockCallback`, `PowerOn`, the capture loop (`WaitFinger`, `EventfdWakes`, `Finger`, `IsCanceled`, `EnrollStep`, `AuthStep`, `AuthTzError`), `PowerOff`, `Unlock` |
  | `fpc_poll_event` (`common.c`), `fpc_capture_image` (`fpc_imp_loire_tone.c`) | `EventfdWakes`, `WaitFinger`, `Finger` |
  | `fpc_close` after an error, starts by init (`main`, `openHal`, `fpc_init`) | `AuthTzError`, `Restart`, `FailedStart` |

  `EventfdWrite` and `Drain` are the kernel's eventfd: a write adds, a read
  takes the whole sum. `image` keeps of an acquired status only what the loop
  tells apart. `asked`, `collided` and `outcome` are history variables; no guard
  reads them.
* `FingerprintSession.tla` - what the client is promised: one operation at a
  time for one registered client, one final result that fits the operation, and
  nothing after it. It also shows what is *not* promised: an operation may end
  `"silent"`, and the service may die in an authentication.
* `MCFingerprintWorker.tla` - the instance TLC checks.
* `FingerprintProofs.tla` - the theorems.

### Runs

| Run | Checks | Shows |
|---|---|---|
| `Fingerprint` | `TypeOK`, `NoLostWakeup`, `OperationOwnsCallback`, `PoweredOnlyInOperation`, `ExitOnlyByCollision`, `SessionSpec` | every interleaving is safe in these respects and implements the session |
| | `CancelEndsOperation`, `RequestsAreRead`, `BinderReturns` | what must happen does |
| `FingerprintCancelHonoured` | `CancelHonoured` | **violated**: a cancel that collides with another request is dropped although it was answered with success |

*Bounds* (409,411 states). `Clients`: two (one callback can replace another), one
for the violation. `MaxCount`, the capacity of the eventfd, is 8: every sum of two
requests fits, and those of three with at most one cancel; another cancel overflows.
The real capacity is 2^64 - 2; the overflow branch of
`WriteState` therefore stands for `eventfd_write` failing. The worker reads the
counter in every round, so larger sums only repeat the ones that are already
none of the named states (`Dispatch` treats them alike). Nothing else is bounded.

*Deadlock* is checked and does not occur: the binder thread can always be
called, or is held by an operation that a finger can end. Once the worker has
exited the binder thread still answers.

*Fairness.* `WF(WorkerStep)` and `WF(BinderStep)`: both are threads the kernel
schedules, and a TrustZone command or binder callback returns. `WF(Restart)`:
init restarts the service (its `.rc` file does not make it `oneshot`), also
after a start that failed, until one succeeds. A failed start may leave the
sensor on, as `fpc_init` does; `PoweredOnlyInOperation` excepts a service that
is not up. The mutex
needs no strong fairness: only the binder thread and the worker take it, and the
binder thread is required to return only while no operation waits for a finger.
No fairness on `Call` or on `Finger`.

An identification that fails takes the process down (`AuthTzError`): `process_auth`
means to "Reinitialize the TZ app and parameters to clear the TZ error"
(`BiometricsFingerprint.cpp:599-600`), but `fpc_close` casts its argument to another
type and calls through a pointer made of other fields. `SessionSpec` allows the
service to die there, and there only.

`CancelEndsOperation` is stated for a cancel that is alone in the counter and
nothing more is added: that is exactly what that violation leaves.

### Proofs

`Invariance` proves the inductive invariant `IInv` for every set of clients and
every capacity. `NoLostWakeup` and `PoweredOnlyInOperation` are inductive
together with types; three more parts are needed:

* `Accounting`: the counter equals 1, 2 and 4 times the requests counted by
  `asked`. Without it `ExitOnlyByCollision` is not inductive: that 3 needs two
  requests is a fact about sums.
* `CallOK`: a call in progress carries the argument its steps use.
* `RunningOK`, `OutcomeOK`: what `running` and `outcome` are at each place of
  the worker, which the refinement needs (`Session!Begin` and `Session!Finish`).

From `IInv` follow `TypeCorrect`, `WakeupIsNotLost`, `CallbackIsOwned`,
`IdleIsPoweredOff`, `ExitNeedsCollision`; `ImplementsSession` proves the
refinement, with `SessionStep` mapping each action to a session step or a
stutter. Assumptions: `NoClient` is not a client, `MaxCount` is a natural
number. Liveness stays with TLC.

## 4. The thermal manager

### Modules

* `Thermanager.tla` - the daemon's single thread, and temperatures that drift
  between any two of its steps:

  | Code | Definitions |
  |---|---|
  | `configuration_manager_run` | `List`, `GroupNext` (configurations of a sensor brought together), `ReadSensor`, `SkipConfiguration`, `EndOfRound`, `NextConfiguration` |
  | `configuration_add_threshold` | `AddThreshold`, `Sort` |
  | `configuration_run` | `Filter`, `RunConfiguration` (the two lists), `ChangeOver` (which votes), `ConfigurationDone` (`current`, trip points) |
  | `threshold.c` | `Entered`, `Exited`, `VotesOf` |
  | `control.c` | `ControlVoteLevel`, `ControlUnvoteLevel`, `ControlUpdateLevel`, `SwitchMitigation` (one mitigation of the control per step) |
  | `mitigation.c`, enable and disable in `resource.c` | `MitigationActivate`, `MitigationDeactivate` |
  | `resource_tz_set_edges`, `thermal_zone_set_trip` | `SetEdges` |
  | `watch_wait` | `TimerRuns`, `Wake` |
  | `resource_halt_enable` | `Halt` |
  | kernel thermal zones | `Drift`, `Crosses` (external) |

  The objects of the configuration file are constants: what each threshold wants
  (`Wants`), which resources a mitigation uses (`Uses`), which resources are
  polled, halt the system, or are zones with trip points. A ticket is two
  Booleans per resource: `held` (the resource points to a running timer) and
  `leaked` (one runs that nothing points to).
* `ThermalHysteresis.tla` - the abstract promise: every threshold is a switch
  with hysteresis, independent of the others. The lists of the daemon implement it.
* `MCThermanager.tla` - three configurations on two sensors and two controls.

### Runs

| Run | Checks | Shows |
|---|---|---|
| `ThermalSafety` | `TypeOK`, `NeverCrashes`, `HighestSelected`, `NeverBelowDemand`, `NoVoteIsMissing`, `MitigationInForce`, `HysteresisSpec`, `OneReadingPerRound` | the lists, votes, levels and timers are right although resources are shared and readings fail |
| `ThermalLiveness` | `HotIsMitigated` | a sensor that stays hot has its threshold in force for good |
| `ThermalClear` | `ClearDeactivates` | **violated** without a default threshold |
| `ThermalTrigger` | `TriggerActivates` | **violated** when nothing polls: the trip window only narrows |
| `ThermalHalt` | `HaltGoesOn` | **violated** when two controls share the halt resource |

*Bounds.* Temperatures `0..3` (`0..4` for the trip window): enough to be below,
at, between and above all triggers and clear values of the three thresholds of a
configuration, and to cross several in one step. Two sensors and three
configurations make one sensor with two configurations that the file does not
list next to each other. `cpu` has three levels on one resource, so that a level
change walks over a mitigation that is neither the old nor the new one; both
controls share `power` in their highest level. `Flaky` and `Unions` let readings
fail both ways. `MitigationInForce` is about the resources that only one control
writes for the value, and about all for the timer.

What the parser does not check of a file, but files have, is stated in
`Thermanager` and used by the two theorems that need it; `MCThermanager` has TLC
evaluate it on every instance (`FileAssumption`):

* `Nested`: a larger trigger has no smaller clear value, as in
  `hardware/thermanager/example-config.xml`. With clear values in another order
  `list_remove` meets an incomplete link and `NeverCrashes` fails, as it does when
  one of several thresholds that a reading clears stays behind (its mutant).
* `Apart`: a clear value is below its trigger. Otherwise one reading both enters
  and leaves a threshold. The defaults (`main.c:286-289`) are apart.
* `NoTriggerIsCold`: no trigger is reached by a reading below -1. That is the last
  value of a configuration that has not run, so that a lower first reading counts
  as a fall and enters nothing. The default trigger is 0.

*Deadlock* is checked and does not occur: also after `Halt`, and when nothing is
armed, temperatures still drift.

*Fairness.* `WF(DaemonStep)`: the daemon is scheduled and its timers end. No
temperature has to change. `HotIsMitigated` needs a sensor that can be read and
a polled resource in some level, as the fan and the frequencies of the example file are;
`ThermalTrigger` shows what is lost without.

### Proofs

`ThermalProofs` proves every safety property of `ThermalSafety`, for every set of
sensors, configurations, thresholds, controls and levels. Only two theorems have
hypotheses, those of the file above: `NoListIsBroken` (`Nested`) and
`ImplementsHysteresis` (`Apart`, `NoTriggerIsCold`). All others hold of every
file, also of one that breaks a list: the daemon then ends.

The daemon's steps walk over lists, so the proofs need to know what a walk
returns. Each walk (`Sort`, `List`, `Filter`) is a function that gives the result
after `i` elements, and its lemma an induction over `i`. The library's induction
theorems cannot be used (they take a predicate as a parameter); `Induction` is
stated for a *set* of numbers and follows from `Least`: a set of naturals that is
not empty has a least member. On it rest `SortIsInOrder`, `ListIsGrouped`,
`FilterIsList` and `FilterInterval`, and `HighestLevel`, which says what
`control_update_level` finds.

The inductive invariant `ThermalInv` has three parts.

`TypeInv`: `TypeOK`, whose sensor `res` holds in a round (`RoundOK`), and that the
two lists of a configuration hold its thresholds and no others (`ListsOK`). It is
what makes a vote name a control. It is inductive only with `SwitchInv`: that
`written` is a mitigation of the file is a fact about the ladder. `TypesAreOK` and
`OneReading` follow.

`SwitchInv`: `MitigationInForce` says nothing while a control is on its way from
one level to another; this says what holds then.

* `LadderOK`: the levels the control has yet to visit are levels of it, each once.
* `Active`: the mitigations that are in force at this moment, which may be two,
  one or none of the control's. `SwitchActive` shows how one step of the walk
  changes the set, in any order of the file.
* `TimersRun` and `TimersOutlive`: a polled resource of an active mitigation has a
  timer; if two active ones use it, one of its timers is a leaked one. Without the
  second part the first is not inductive, because a deactivation stops the timer
  without counting. So the leak in `resource_sysfs_enable` is what keeps a shared
  resource polled.
* `ValuesWritten`: an active mitigation's values stand unless the target's have
  been written over them.

`VoteInv`: the counts and the levels.

* `Cast`: the votes that are cast at this moment, as a set: those of the thresholds
  in force, and during a change over those of the new threshold dealt with so far
  and of the old one not yet withdrawn. Each vote is a threshold and an index, so
  that a threshold that wants one level twice counts twice.
* `VotesCounted`: a count is the number of cast votes for it (`Tally`). One vote
  adds one member (`TallyMore`), one withdrawal removes one that was there
  (`TallyLess`). Hence `NoVoteIsMissing`: the floor of the counter at 0
  (`control.c:132`) is never used.
* `TodoOK`: what is left of the change over is the end of it.
* `LevelsFollow`: a control is at its highest level with votes, or walks there.

`HighestIsSelected`, `NoUnbalancedVote`, `DemandIsMet` and `MitigationsAreInForce`
follow. `DemandIsMet` rests on the order of the change over: the new threshold's
votes are all cast before the first of the old one's is withdrawn.

Two more invariants are proved with `TypeInv`. `Stacks` (with `Nested`): the two
lists are one sorted list split in two, so that thresholds enter and leave at the
heads and no incomplete link is met. `SwitchesOK`: a satisfied threshold is above
its clear value at the last value seen and an unsatisfied one below its trigger;
with it each `RunConfiguration` is a step of `ThermalHysteresis` (`HysteresisStep`)
and every other step a stutter, whether the lists are nested or not.

Assumptions: a threshold belongs to one configuration; a control has a mitigation
for each of its levels once, and the levels are not negative ("should start at 0
and increase", `hardware/thermanager/README.md:47`); mitigations use declared
resources. Liveness stays with TLC.

## 5. The health HAL

### Modules

* `HealthBackup.tla` - the two static objects of `HealthService.cpp`, their
  persist files and the driver's values, as functions of the item (`"cycles"` or
  `"capacity"`). `at`, `step` and `job` say where the single thread is:

  | Code | Actions |
  |---|---|
  | constructors, `healthd_board_init` at a start of the service or a reboot | `Init`, `Restart` |
  | `Restore` of both classes: two reads and `UpdateAndSave` | `Restore` |
  | `CycleCountBackupRestore::Backup` | `BackupCycles`, with `Gained` |
  | `LearnedCapacityBackupRestore::Backup` | `BackupCapacity` |
  | `UpdateAndSave`: which way the values go | `Saves`, `Pushes`, `UpdateAndSave` |
  | writing a persist file (`WriteStringToFile`: open with truncation, write, unlink on failure) | `OpenFile`, `FillFile` |
  | writing into sysfs | `PushDriver` |
  | the battery driver | `Charge`, `Learn` (external) |

  The two reads of `Restore` are one step: nothing else writes the file, and the
  driver's values change over hours, so they change only between jobs. Any read
  or write may fail. `unread` and `unwritten` are history variables; no guard
  reads them. A file holds its number, or 0 when there is nothing to parse.
* `MCPersist.tla` - the instance TLC checks, with timekeep beside it (section 6);
  `HealthProofs.tla` - the theorems.

### Run

`PersistSafety` checks `TypeOK`, `Agreement`, `FileKeepsBest` and
`DriverNotSpoiled` (756,839 of its 2,386,365 states). *Bounds:* up to three cycles, capacities 1 to 3 and three
battery levels, with both triggers at 2 (20 and 8 in the code): a rise of one
level does not reach the trigger, two do, and two values of an item can be
less, equal, greater or absent. Restarts are not bounded. Only safety is
claimed, so no fairness is assumed. Deadlock is checked; a restart is always possible.

What the run does **not** promise is written into the properties: a crash
between truncation and write loses the file's value (`Torn`), and a file that
exists but cannot be read counts as 0 and is overwritten (`unread`).

### Proofs

`Invariance` proves `IInv` for all bounds, levels and triggers. The four
properties are not inductive: they need that an item not yet restored has a
blank object (`~Handled`), that after `UpdateAndSave` the object's two values
are equal (or the driver has no capacity yet), that its persist value is no
worse than the file's, and that a pending write into the driver improves it.
`OwnItem` shows this for the item a step handles, `OtherItem` frames the other.
`TypeCorrect`, `FilesAgree`, `FileIsKept` and `DriverIsNotSpoiled` follow.

## 6. The small services

The power HAL and the lights are checked in the run `ServicesSafety` (7,039 of its
376,686 states, the others are those of section 7), timekeep in `PersistSafety`
(1,629,526 of 2,386,365), the template database in one of its own.

### Template database: `FingerprintStore`

The binder thread (`setActiveGroup`, `remove`, `getAuthenticatorId`) and the
worker (enrolment, and an authentication that stores the updated templates) work
on one path, one temporary file and one set of prints in TrustZone.

| Code | Actions |
|---|---|
| `setActiveGroup`, `__setActiveGroup` (`BiometricsFingerprint.cpp`) | `SetActiveGroup` (the path changes), `Load` (a file that is missing makes an empty database that is stored and loaded), `Reload` |
| `fpc_load_user_db`, `fpc_load_empty_db` | `Holds`, `LoadFails` |
| `fpc_store_user_db` | `Store` (into the temporary file), `Rename` |
| `remove`, `fpc_del_print_id` | `remove`, `Forget`, `Reset` (the cached id) |
| `getAuthenticatorId`, `fpc_load_db_id` | `AskId`, `CacheId` |
| enrolment and authentication in the worker | `StartOperation`, `EnrollEnd`, `ForgetId`, `OperationEnds` |
| a crash and the restart by init | `Crash` |

A file holds a set of prints, or is missing (`None`) or cut short (`Torn`).
`owner` notes for whom a print was enrolled. `mishaps` is a history variable, and
each of its members is a hole in the code that the properties leave out by name:

* `"mixed"`: the path changes before the prints are loaded, and a failed load is
  not undone; or the group changes during an operation. The next store then puts
  one user's prints into another's file. `OwnPrints` and `Saved` hold without it.
* `"stores"`: both threads store at once; one can cut short the temporary file
  the other renames. `NeverTorn` holds without it.

* `"cached"`, `"asked"`: the group changes and keeps the cached authenticator id,
  or prints change while the answer is on its way. `AuthIdFresh` holds without them.
* `unsaved`: a store has failed, and the caller goes on.

A store that fails, and a crash during one, may leave a torn temporary file with or
without these (`MayTear`); nothing removes it, and a later start still finds it.
A command fails with a negative status, as `fpc_store_user_db` takes it.

*Run:* `StoreSafety` (3,600,431 states up to symmetry). *Bounds:* two groups, two
prints: one user's prints can meet the other's path, and a print can stay while
another goes. *Proof:* `StoreInv` for all groups and prints; of a thread that is
about to rename it says that its temporary file is whole (`WholeFiles`).
`Saved` is about threads at rest; the invariant says where the prints are on
their way (`SaveUnderWay`: in the temporary file that is renamed next, or in the
database), who may be in which step with the other (`OneGroup`), and that
every print in TrustZone belongs to the present path (`PrintsOwned`).

### Perf locks: `PowerHints`

`perform_hint_action`, `undo_hint_action` and the hint list of `utils.c`;
`set_interactive` with the hint of `perf_hint_enable` and
`set_interactive_override` (`SetInteractive`, with any governor each time); the
launch of `power-mode.cpp` (`LaunchStarts`, `LaunchEnds`), and the library, which
may refuse a lock or a release and lets a launch's lock run out (`LaunchExpires`).

`set_interactive` takes two kinds of locks. The resource locks of `power-8952.c`
are in the hint list (`display_locks`, `hint_list`): `HintListExact` and
`ListBounded` are about these. `missed` counts display-on messages that found
another governor than the lock was taken under, `unreleased` the releases that
were refused; what these leave behind is excepted, and shown to be all that is.
The hint that the display is on or off is a lock, too, one without a limit whose
handle is dropped (`hint_locks`): every call may take one more, also a repeated
display-off that a comment means to ignore (`power-common.c:113` comes before the
check at 123), and none is ever released. As far as the HAL can tell these locks
pile up; whether the library replaces a hint of the same kind is not in this
repository, and no property speaks of them but as locks that are not those of the
list. `LaunchLockOwned` holds for handles that the
library does not give out again while the HAL still knows them (`Fresh`).
`SUSTAINED_PERFORMANCE` and `FIXED_PERFORMANCE`
pass `NULL` to switch on as well as off (`power-common.c:79`), so they never
change this state; the video hints are unreachable through the AIDL interface,
and `power-boost.cpp` is not compiled.
*Bounds:* four handles: a lock each for the display and
for a launch and two more that are left behind or are hints. *Proof:* `PowerInv`
adds that the locks of the display, of its hints, of the launch and the unreleased
ones are different locks.

### Time offset: `Timekeep`

`restore_time` (property, RTC, file, clock: `ReadProperty`, `ReadEpoch`,
`OpenAts`, `FillAts`, `SetClock`, `RestoreEnds`) against `onReceive` of the Java
receiver (`ReadClock`, `SubtractEpoch`, `SetProperty`, `TruncateAts`, `WriteAts`),
with time that passes (`Tick`), a user or network that sets the time, and power
lost between any two steps. RTC and clock count fractions of a second (`Second`)
and change their seconds at different moments, while both programs read whole
seconds (`Secs`) and lose the rest (`Part`). Numbers wrap as in the code (`Wrap`,
`Signed`, `Millis`, modulo `Width`).

History variables: `good` notes which of the values descend from a time that was
set, `late` how much they may have lost since (time that passed between the two
accesses of one of the programs, and cut fractions), `synced` that the file was
written by one of the two alone. A read that fails, and a boot, take a value out of
`good`. `NeverAhead`: over any number of boots a good clock or offset is never
ahead of what the user set by a whole second, and behind by no more than `late`.
It says nothing of values that are not good, and those matter: a receiver that runs
after a boot before `restore_time` has set the clock replaces a good offset by that
of the kernel's clock. The run `TimekeepOffset` shows this, also when the RTC can
always be read (`ReadableSpec`): `OffsetKept` is **violated**.

*Bounds:* `MaxRtc` 2 and `MaxTime` 1
seconds, `Second` 2 (the two clocks can be in step or not), `MaxLate` 3 fractions,
which bounds what several boots and receivers cut off; `Width` 65536 (2^64 in the
code; offsets are negative, zero and positive). *Proof:* `TimekeepInv`, for every
`Second` and every `Width` that times fit into with half of it to spare; it carries
the offset each value in progress stands for through both programs, rounded as they
round. `store_time` is not modelled: no `.rc` file of the tree calls it.

### Lights: `Lights`, `Backlight`

`Lights` has the two lights of the LED and the files of its driver, synchronised
or not; a blink file that cannot be written switches the LED off. A steady state
writes the brightness files only and a blinking one only blink files, so that both
kinds keep earlier values; `last` notes which kind each LED was last told by.
`LedShowsFirst` compares what the LEDs were last told with the first lit light
after every call and across restarts of the service. Which kind of file wins is the
driver's. An unsynchronised blink does not write the LEDs whose colour is 0
(`Light.cpp:265-279`): they go on with an earlier state, the code promises nothing
of them, and nothing is claimed. The instance has six states of a light: off, steady, blinking,
and blinking without a colour. `Backlight` checks the scale of the brightness for
twelve panel ranges (2^x - 1 and others, a missing file, 0) and 25 colours.
*Proofs:* `LightsInv` (`LightsTypeOK`, which no run checks on its own, and
`LedShowsFirst`); `BacklightIsExact` for every range, where the part with
shifts is arithmetic of the finitely many shifts 1 to 8 and the part without of
one division.

## 7. The transmit power service

`TransmitPower` is the application that `loire.mk:336` installs
(`TransPowerSensors`); it shares the phone process and its main thread, so a
handler is one step. Local broadcasts are delivered later, in order, and all that
wait at once (`draining`).

| Code | Definitions |
|---|---|
| `PowerObserverBase` | `Set` (`update`), `transmitPower` |
| `ObserverMediator`, the service | `Create`, `Destroy`; `Kill` (external) |
| `SensorFeature`, `FeatureIntentReceiver` | `AddFeature` |
| `TelephonyStateObserver` | `SubscriptionsChanged`, `ServiceStateChanged` |
| `BatteryObserver`, `WifiObserver` | `transmitPowerByIntent`, `ByState`, `ByP2p`, `BatteryChanged`, `WifiChanged`, `UpdateBattery`, `UpdateWifi` |
| `SensorObserver`, `SensorState`, `SensorBase` | `SensorValues`, `PowerOn`, `Listen`, `ScreenOrDataChanged`, `ProximityChanged`, `MotionChanged` |
| `InCallObserverService` | `CallAdded`, `CallStateChanged`, `CallRemoved`, `Unbind` (some time after the last call), `CallAudioStateChanged`, `Broadcast` |
| `TelecommObserver`, `VoiceCallObserver` | `DeliverRoute`, `DeliverCall` |
| `Transmitter` | `DeliverToModem` |

The states of battery, Wi-Fi, screen and data are free inputs of each handler;
nothing is claimed of them but what the code does with what it reads. A feature
that was cleaned stays in the mediator's list in the code, inert; the model drops
it. That a removed subscription listener is called no more is taken from Android.

`ServicesSafety` (with 370,417 states up to symmetry) checks the observers in three parts, since
no property relates two keys: battery and Wi-Fi; the sensors of two features; two
calls. *Bounds:* events come while fewer than two broadcasts wait (one handler
may send several more), two features on their way. The parts are cut in
`MCTransmitPower`: in the sensors' one broadcasts wait one at a time; in the calls' only requests
of the call fail. The proofs need none of these cuts.

`ModemFollows` leaves out three things the code really does: a request that failed is
only logged (`lost`, until the phone is in service anew); `SensorObserver.update`
sets a new value that is then found unchanged and never sent (`masked`,
`SensorObserver.java:65`); two features can report the same sensor when one
arrives late. `EarpieceOnly` says that a call told to the modem is one of a bound
in-call service whose route is the earpiece; it leaves out a route that was
broadcast while nobody listened (`unheard`).

It does not say that a call is active. The in-call service is to "report a state
only during a phone call taken through the earpiece"
(`InCallObserverService.java:23-25`), but `VoiceCallObserver.java:43` tells the
modem the value of a route alone. The run `TransmitActiveCall` shows it:
`ActiveCallOnly` is **violated** by a call that was never active.

*Proof:* `TransmitInv`. `ModemFollows` and `EarpieceOnly` speak of a program in
which nothing waits; the invariant says for each key (`Holds`) and for the route
(`RouteOK`) that the last broadcast that waits carries the value the sender takes for
sent, and only if none waits the receiver has it. `BoundOK` says of an in-call service
that is gone that what waits ends with the end of its last call, or that no call is
reported any more. The lemmas `Appended` and
`Delivered` say what sending and delivering do to "the last that waits". Two
sensors of different features share a key: `Alone` observers are unique, which is
why the third exception is needed. `ModemIsTold`, `SensorsAreOff`,
`CallsAreOnTheEarpiece` follow for all calls, features and bounds.

## 8. What the proofs rest on

Every proof is checked by tlapm from nothing, with no axioms but the named
assumptions on constants, which TLC evaluates in the runs. Each component has one
inductive invariant (`IInv`, `StoreInv`, `PowerInv`, `TimekeepInv`, `LightsInv`,
`BacklightInv`, `TransmitInv`, `ThermalInv`), one lemma per part with one step per action,
and the properties as corollaries. Two theorems have hypotheses about the
configuration file (section 4), which TLC evaluates on the instances.

Every invariant and every action property of a passing run is a theorem, and both
refinements. Out of reach and left to TLC: what rests on fairness
(`CancelEndsOperation`, `RequestsAreRead`, `BinderReturns`, `HotIsMitigated`), and
the six violations, which are counterexamples.

## 9. Not modelled, and why

* The camera, audio, display, media and data HALs are Qualcomm's, carried
  unchanged; they are nearly all of the tree's 900,000 lines. The share of the
  tree that the models cover is therefore small and cannot be otherwise: the
  modelled services are a few thousand lines.
* Straight I/O without state of its own: parsing of the thermal configuration,
  the QSEECom loader, MAC address setup, glove mode.
* Timing (how long timers, boosts and delays last) is abstracted to the order of
  events. Logging and formats are left out, and failures of memory allocation.
* Fingerprint: challenges and the verification of the token, and two threads in one
  TrustZone command buffer (`fpc_imp_loire_tone.c:78`): what TrustZone makes of a
  mixed command is not in this repository.
* Transmit power: the averaging of accelerometer samples (`Accelerometer.java:98-103`);
  `TransPowerAcc` and `TransPowerProx` are the same code with one sensor each.
* The power HAL's modes that never change state (section 6), and `store_time`.

## 10. What is left

An abstract specification of the modem's view (one register per key) that
`TransmitPower` could be shown to implement, first in safety and then under
fairness of delivery; one of the LED that `Lights` implements.
