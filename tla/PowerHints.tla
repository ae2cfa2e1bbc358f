----------------------------- MODULE PowerHints -----------------------------
(***************************************************************************)
(* The power HAL: one binder thread turns the framework's modes into perf  *)
(* locks of Qualcomm's perf library, and has to give each of them back.    *)
(* INTERACTIVE takes two kinds of locks.  Those for resources are kept in  *)
(* the active hint list and released when the display comes on; the hint   *)
(* that the display is on or off is a lock of no limited duration, too,    *)
(* and its handle is dropped.  LAUNCH keeps one lock in a static variable. *)
(* SUSTAINED_PERFORMANCE and FIXED_PERFORMANCE pass NULL whether they are  *)
(* switched on or off, so they only ever release a handle that nobody      *)
(* acquires.                                                               *)
(***************************************************************************)
EXTENDS Integers, Sequences, Functions

CONSTANTS
  Handles,           \* the perf library's lock handles, a bound on the locks
  FailedHandle       \* a handle that CHECK_HANDLE refuses

ASSUME HandleAssumption == FailedHandle \notin Handles

VARIABLES
  display_locks,     \* resource locks the library holds for the display: indefinite
  hint_locks,        \* locks it holds for display hints: indefinite, no handle kept
  launch_locks,      \* locks it holds for a launch: they run out after 5 s
  hint_list,         \* handles of active_hint_list_head, the newest first
  display_hint_sent, \* set_interactive's memory of the last call it acted on
  launch_handle, launch_mode,
  missed,            \* history: display locks left behind when the display
                     \*   came on under another governor
  unreleased         \* history: locks whose release the library refused

powerVars == <<display_locks, hint_locks, launch_locks, hint_list, display_hint_sent,
               launch_handle, launch_mode, missed, unreleased>>

PowerInit ==
  /\ display_locks = {} /\ hint_locks = {} /\ launch_locks = {} /\ hint_list = <<>>
  /\ display_hint_sent = FALSE
  /\ launch_handle = FailedHandle /\ launch_mode = FALSE
  /\ missed = 0 /\ unreleased = {}
---------------------------------------------------------------------------
(* The library hands out a handle that neither it nor the HAL still knows.  *)
Fresh == Handles \ (display_locks \cup hint_locks \cup launch_locks
                    \cup Range(hint_list) \cup {launch_handle})

(* The hint that the display is on, or off, with a duration of 0: a lock    *)
(* without a limit, whose handle set_interactive does not look at.          *)
perf_hint_enable ==
  \/ \E h \in Fresh : hint_locks' = hint_locks \cup {h}
  \/ UNCHANGED hint_locks

perform_unchecked ==                      \* mutant: a failed lock is listed, too
  \/ \E h \in Fresh \ hint_locks' : /\ display_locks' = display_locks \cup {h}
                                     /\ hint_list' = <<h>> \o hint_list
  \/ hint_list' = <<FailedHandle>> \o hint_list /\ UNCHANGED display_locks

(* perf_lock_acq and the list node for its lock.  Acquiring may fail; so    *)
(* may malloc, and the lock is given back then.                             *)
perform_hint_action ==
  \/ \E h \in Fresh \ hint_locks' : /\ display_locks' = display_locks \cup {h}
                                     /\ hint_list' = <<h>> \o hint_list
  \/ UNCHANGED <<display_locks, hint_list>>

undo_forgets ==                           \* mutant: the lock is not released
  /\ hint_list # <<>>
  /\ hint_list' = Tail(hint_list) /\ UNCHANGED <<display_locks, unreleased>>

(* The newest lock of the list is released, and forgotten even if releasing *)
(* it fails.                                                                *)
undo_hint_action ==
  \/ hint_list = <<>> /\ UNCHANGED <<display_locks, hint_list, unreleased>>
  \/ /\ hint_list # <<>>
     /\ hint_list' = Tail(hint_list)
     /\ \/ /\ display_locks' = display_locks \ {Head(hint_list)}
           /\ UNCHANGED unreleased
        \/ /\ unreleased' = unreleased \cup {Head(hint_list)}
           /\ UNCHANGED display_locks

(* set_interactive_override under the governor found at that moment.        *)
set_interactive_override(on, governor) ==
  \/ /\ governor # "interactive"          \* another one, or it cannot be read
     /\ UNCHANGED <<display_locks, hint_list, unreleased>>
  \/ governor = "interactive" /\ ~on /\ perform_hint_action /\ UNCHANGED unreleased
  \/ governor = "interactive" /\ on /\ undo_hint_action

Left(governor, list) ==                   \* what an "on" leaves behind
  IF governor = "interactive" /\ Len(list) > missed THEN missed ELSE Len(list)

SetInteractiveAlways(on, governor) ==     \* mutant: repeated offs are not ignored
  /\ perf_hint_enable
  /\ display_hint_sent' = ~on
  /\ set_interactive_override(on, governor)
  /\ missed' = IF on THEN Left(governor, hint_list') ELSE missed
  /\ UNCHANGED <<launch_locks, launch_handle, launch_mode>>

(* setMode(INTERACTIVE, on).  The hint is given each time; a display-off    *)
(* that follows another does nothing after it.                              *)
SetInteractive(on, governor) ==
  /\ perf_hint_enable
  /\ \/ /\ display_hint_sent /\ ~on
        /\ UNCHANGED <<display_locks, hint_list, display_hint_sent, missed, unreleased>>
     \/ /\ on \/ ~display_hint_sent
        /\ display_hint_sent' = ~on
        /\ set_interactive_override(on, governor)
        /\ missed' = IF on THEN Left(governor, hint_list') ELSE missed
  /\ UNCHANGED <<launch_locks, launch_handle, launch_mode>>
---------------------------------------------------------------------------
(* setMode(LAUNCH, TRUE): no second boost while launch_mode is set.         *)
LaunchStartsAnyway ==                     \* mutant: launch_mode is not looked at
  /\ \E h \in Fresh : /\ launch_locks' = launch_locks \cup {h}
                      /\ launch_handle' = h /\ launch_mode' = TRUE
  /\ UNCHANGED <<display_locks, hint_locks, hint_list, display_hint_sent,
                 missed, unreleased>>

LaunchStarts ==
  /\ ~launch_mode
  /\ \/ \E h \in Fresh : /\ launch_locks' = launch_locks \cup {h}
                         /\ launch_handle' = h /\ launch_mode' = TRUE
     \/ launch_handle' = FailedHandle /\ UNCHANGED <<launch_locks, launch_mode>>
  /\ UNCHANGED <<display_locks, hint_locks, hint_list, display_hint_sent,
                 missed, unreleased>>

(* setMode(LAUNCH, FALSE): the handle is released although its lock may     *)
(* have run out meanwhile; the result is not looked at.                     *)
LaunchEnds ==
  /\ launch_mode' = FALSE
  /\ \/ /\ launch_handle # FailedHandle
        /\ launch_handle' = FailedHandle
        /\ \/ /\ launch_locks' = launch_locks \ {launch_handle}
              /\ UNCHANGED unreleased
           \/ /\ launch_handle \in launch_locks
              /\ unreleased' = unreleased \cup {launch_handle}
              /\ UNCHANGED launch_locks
     \/ launch_handle = FailedHandle
        /\ UNCHANGED <<launch_handle, launch_locks, unreleased>>
  /\ UNCHANGED <<display_locks, hint_locks, hint_list, display_hint_sent, missed>>

(* kMaxLaunchDuration is over: the library drops the lock by itself.        *)
LaunchExpires ==
  /\ \E h \in launch_locks : /\ launch_locks' = launch_locks \ {h}
                             /\ unreleased' = unreleased \ {h}
  /\ UNCHANGED <<display_locks, hint_locks, hint_list, display_hint_sent,
                 launch_handle, launch_mode, missed>>

Governors == {"interactive", "other", "unreadable"}

PowerNext ==
  \/ \E on \in BOOLEAN, governor \in Governors : SetInteractive(on, governor)
  \/ LaunchStarts \/ LaunchEnds \/ LaunchExpires

PowerSpec == PowerInit /\ [][PowerNext]_powerVars
---------------------------------------------------------------------------
(* Type correctness.                                                        *)
PowerTypeOK ==
  /\ display_locks \subseteq Handles /\ hint_locks \subseteq Handles
  /\ launch_locks \subseteq Handles
  /\ hint_list \in Seq(Handles)
  /\ display_hint_sent \in BOOLEAN /\ launch_mode \in BOOLEAN
  /\ launch_handle \in Handles \cup {FailedHandle}
  /\ missed \in Nat /\ unreleased \subseteq Handles

(* The hint list is exact: whatever the order of display and launch         *)
(* requests, failures and governors, it holds the resource locks that the   *)
(* library holds for the display and no other, none of them twice, so that  *)
(* a release never meets another's lock.  It leaves out those whose release *)
(* was refused, and says nothing of hint_locks, which no list holds.        *)
HintListExact ==
  /\ Range(hint_list) = display_locks \ unreleased
  /\ \A i, j \in DOMAIN hint_list : hint_list[i] = hint_list[j] => i = j

(* Only an "on" that finds another governor than interactive makes the hint *)
(* list longer for good: missed counts what such messages left behind.      *)
(* However often the display is reported off or on, it holds one resource   *)
(* lock more than that while the display is off, and none more while it is  *)
(* on.                                                                      *)
ListBounded == Len(hint_list) <= missed + (IF display_hint_sent THEN 1 ELSE 0)

(* A launch boost that has not run out belongs to the launch in progress:   *)
(* two launches never boost twice, an end without a start, a failed start   *)
(* and a start after the boost ran out leave none behind.                   *)
LaunchLockOwned ==
  \A h \in launch_locks \ unreleased : launch_mode /\ h = launch_handle
=============================================================================
