----------------------------- MODULE PowerProofs -----------------------------
(***************************************************************************)
(* Theorems about PowerHints, for every set of handles.                    *)
(***************************************************************************)
EXTENDS PowerHints, TLAPS

Distinct(list) == \A i, j \in DOMAIN list : list[i] = list[j] => i = j

(* Locks of the display, of its hints and of launches are kept apart, and a *)
(* lock whose release was refused is no longer a launch's.                  *)
LocksApart ==
  /\ launch_locks \cap display_locks = {}
  /\ hint_locks \cap (display_locks \cup launch_locks \cup {launch_handle}) = {}
  /\ unreleased \subseteq display_locks \cup launch_locks
  /\ launch_handle \notin display_locks \cup unreleased

(* The inductive invariant.                                                 *)
PowerInv == PowerTypeOK /\ LocksApart /\ HintListExact /\ ListBounded /\ LaunchLockOwned
---------------------------------------------------------------------------
(* add_list_node: what the hint list holds with a new handle at its head.   *)
LEMMA Pushed ==
  ASSUME NEW list \in Seq(Handles), NEW h \in Handles
  PROVE  /\ <<h>> \o list \in Seq(Handles)
         /\ Len(<<h>> \o list) = Len(list) + 1
         /\ Range(<<h>> \o list) = Range(list) \cup {h}
         /\ Distinct(list) /\ h \notin Range(list) => Distinct(<<h>> \o list)
<1> DEFINE new == <<h>> \o list
<1>1. new \in Seq(Handles) /\ Len(new) = Len(list) + 1 /\ DOMAIN new = 1..(Len(list) + 1)
  OBVIOUS
<1>2. new[1] = h /\ \A i \in 1..Len(list) : new[i + 1] = list[i]
  OBVIOUS
<1>3. \A k \in DOMAIN new : k = 1 \/ (k - 1 \in 1..Len(list) /\ new[k] = list[k - 1])
  BY <1>1, <1>2
<1>4. DOMAIN list = 1..Len(list)
  OBVIOUS
<1> HIDE DEF new
<1>5. Range(new) = Range(list) \cup {h}
  <2>1. \A x \in Range(new) : x \in Range(list) \cup {h}
    BY <1>2, <1>3, <1>4 DEF Range
  <2>2. h \in Range(new)
    BY <1>1, <1>2 DEF Range
  <2>3. ASSUME NEW i \in 1..Len(list) PROVE list[i] \in Range(new)
    <3>1. i + 1 \in DOMAIN new
      BY <1>1
    <3>2. QED
      BY <1>2, <3>1 DEF Range
  <2>4. QED
    BY <2>1, <2>2, <2>3, <1>4 DEF Range
<1>6. ASSUME Distinct(list), h \notin Range(list) PROVE Distinct(new)
  <2>1. \A i \in 1..Len(list) : list[i] # h
    BY <1>6, <1>4 DEF Range
  <2> SUFFICES ASSUME NEW i \in DOMAIN new, NEW j \in DOMAIN new, new[i] = new[j]
               PROVE  i = j
    BY DEF Distinct
  <2>2. CASE i = 1 \/ j = 1
    BY <1>2, <1>3, <2>1, <2>2
  <2>3. CASE i # 1 /\ j # 1
    <3>1. i - 1 = j - 1
      BY <1>3, <1>4, <1>6, <2>3 DEF Distinct
    <3>2. QED
      BY <3>1, <1>1
  <2>4. QED
    BY <2>2, <2>3
<1>7. QED
  BY <1>1, <1>5, <1>6 DEF new

(* remove_list_node: what it holds without its head.                        *)
LEMMA Popped ==
  ASSUME NEW list \in Seq(Handles), list # <<>>, Distinct(list)
  PROVE  /\ Head(list) \in Range(list) /\ Head(list) \in Handles
         /\ Tail(list) \in Seq(Handles)
         /\ Len(Tail(list)) = Len(list) - 1
         /\ Range(Tail(list)) = Range(list) \ {Head(list)}
         /\ Distinct(Tail(list))
<1>1. /\ Len(list) \in Nat \ {0} /\ Head(list) = list[1] /\ DOMAIN list = 1..Len(list)
      /\ Head(list) \in Handles
  OBVIOUS
<1>2. /\ Tail(list) \in Seq(Handles) /\ Len(Tail(list)) = Len(list) - 1
      /\ DOMAIN Tail(list) = 1..(Len(list) - 1)
      /\ \A i \in 1..(Len(list) - 1) : Tail(list)[i] = list[i + 1]
  BY <1>1
<1>3. Head(list) \in Range(list)
  BY <1>1 DEF Range
<1>4. Distinct(Tail(list))
  BY <1>1, <1>2 DEF Distinct
<1>5. \A x \in Range(Tail(list)) : x \in Range(list) \ {Head(list)}
  <2> SUFFICES ASSUME NEW i \in 1..(Len(list) - 1)
               PROVE  Tail(list)[i] \in Range(list) \ {Head(list)}
    BY <1>2 DEF Range
  <2>1. i + 1 \in DOMAIN list /\ 1 \in DOMAIN list /\ i + 1 # 1
    BY <1>1
  <2>2. QED
    BY <1>1, <1>2, <2>1 DEF Range, Distinct
<1>6. \A x \in Range(list) \ {Head(list)} : x \in Range(Tail(list))
  <2> SUFFICES ASSUME NEW i \in 1..Len(list), list[i] # Head(list)
               PROVE  list[i] \in Range(Tail(list))
    BY <1>1 DEF Range
  <2>1. i - 1 \in 1..(Len(list) - 1)
    BY <1>1
  <2>2. Tail(list)[i - 1] = list[i]
    BY <1>2, <2>1
  <2>3. QED
    BY <1>2, <2>1, <2>2 DEF Range
<1>7. QED
  BY <1>1, <1>2, <1>3, <1>4, <1>5, <1>6
---------------------------------------------------------------------------
LEMMA PowerInitially == PowerInit => PowerInv
<1> SUFFICES ASSUME PowerInit PROVE PowerInv
  OBVIOUS
<1>1. PowerTypeOK /\ LocksApart /\ LaunchLockOwned
  <2>1. hint_list \in Seq(Handles)
    BY DEF PowerInit
  <2>2. QED
    BY <2>1, HandleAssumption DEF PowerInit, PowerTypeOK, LocksApart, LaunchLockOwned
<1>2. HintListExact /\ ListBounded
  <2>1. DOMAIN hint_list = {} /\ Len(hint_list) = 0
    BY DEF PowerInit
  <2>2. QED
    BY <2>1 DEF PowerInit, HintListExact, ListBounded, Range
<1>3. QED
  BY <1>1, <1>2 DEF PowerInv

LEMMA SetInteractiveKeeps ==
  ASSUME PowerInv, NEW on \in BOOLEAN, NEW governor \in Governors,
         SetInteractive(on, governor)
  PROVE  PowerInv'
<1> USE DEF PowerInv
<1>1. PowerTypeOK /\ LocksApart /\ HintListExact /\ ListBounded /\ LaunchLockOwned
  OBVIOUS
<1>hint. /\ hint_locks' \subseteq Handles
      /\ hint_locks' \cap (display_locks \cup launch_locks \cup {launch_handle}) = {}
  <2>1. CASE UNCHANGED hint_locks
    BY <1>1, <2>1 DEF PowerTypeOK, LocksApart
  <2>2. CASE \E h \in Fresh : hint_locks' = hint_locks \cup {h}
    BY <1>1, <2>2 DEF PowerTypeOK, LocksApart, Fresh
  <2>3. QED
    BY <2>1, <2>2 DEF SetInteractive, perf_hint_enable
<1>ignored. CASE /\ display_hint_sent /\ ~on
           /\ UNCHANGED <<display_locks, hint_list, display_hint_sent, missed, unreleased>>
  <2>1. UNCHANGED <<launch_locks, launch_handle, launch_mode>>
    BY DEF SetInteractive
  <2>2. PowerTypeOK' /\ LocksApart'
    BY <1>hint, <1>1, <1>ignored, <2>1 DEF PowerTypeOK, LocksApart
  <2>3. HintListExact' /\ ListBounded' /\ LaunchLockOwned'
    BY <1>1, <1>ignored, <2>1 DEF HintListExact, ListBounded, LaunchLockOwned, Range
  <2>4. QED
    BY <2>2, <2>3
<1>acted. SUFFICES ASSUME /\ on \/ ~display_hint_sent
                      /\ display_hint_sent' = ~on
                      /\ set_interactive_override(on, governor)
                      /\ missed' = IF on THEN Left(governor, hint_list') ELSE missed
               PROVE  PowerInv'
  BY <1>ignored DEF SetInteractive
<1>2. /\ display_hint_sent' = ~on /\ display_hint_sent' \in BOOLEAN
      /\ UNCHANGED <<launch_locks, launch_handle, launch_mode>>
      /\ missed' = IF on THEN Left(governor, hint_list') ELSE missed
  BY <1>acted DEF SetInteractive
<1>3. Distinct(hint_list) /\ hint_list \in Seq(Handles) /\ Len(hint_list) \in Nat /\ missed \in Nat
  BY DEF PowerTypeOK, HintListExact, Distinct
<1>4. Len(hint_list) <= missed + 1
  BY <1>3 DEF ListBounded
<1> DEFINE Kept == /\ display_locks' \subseteq Handles /\ unreleased' \subseteq Handles
                   /\ hint_list' \in Seq(Handles)
                   /\ LocksApart' /\ HintListExact' /\ LaunchLockOwned'
<1>5. CASE /\ UNCHANGED <<display_locks, hint_list, unreleased>>
           /\ governor = "interactive" /\ on => hint_list = <<>>
  <2>1. Kept
    BY <1>hint, <1>1, <1>2, <1>5 DEF PowerTypeOK, LocksApart, HintListExact, LaunchLockOwned, Range
  <2>2. missed' \in Nat
    BY <1>2, <1>3, <1>5 DEF Left
  <2>3. ListBounded'
    <3>1. CASE on
      <4>1. display_hint_sent' = FALSE /\ missed' = Left(governor, hint_list) /\ hint_list' = hint_list
        BY <3>1, <1>2, <1>5
      <4>2. governor = "interactive" => Len(hint_list) = 0
        BY <3>1, <1>5
      <4>3. Left(governor, hint_list) = Len(hint_list)
        BY <4>2, <1>3 DEF Left
      <4>4. QED
        BY <4>1, <4>3, <1>3 DEF ListBounded
    <3>2. CASE ~on
      BY <3>2, <1>2, <1>3, <1>4, <1>5 DEF ListBounded
    <3>3. QED
      BY <3>1, <3>2
  <2>4. QED
    BY <1>hint, <1>1, <1>2, <2>1, <2>2, <2>3 DEF PowerTypeOK
<1>6. CASE /\ ~on /\ UNCHANGED unreleased
           /\ \E h \in Fresh \ hint_locks' : /\ display_locks' = display_locks \cup {h}
                                             /\ hint_list' = <<h>> \o hint_list
  <2>1. PICK h \in Fresh \ hint_locks' : display_locks' = display_locks \cup {h} /\ hint_list' = <<h>> \o hint_list
    BY <1>6
  <2>2. /\ h \in Handles
        /\ h \notin display_locks \cup launch_locks \cup Range(hint_list) \cup {launch_handle}
        /\ h \notin hint_locks'
    BY DEF Fresh
  <2>3. /\ hint_list' \in Seq(Handles) /\ Len(hint_list') = Len(hint_list) + 1
        /\ Range(hint_list') = Range(hint_list) \cup {h} /\ Distinct(hint_list')
    BY <1>3, <2>1, <2>2, Pushed
  <2>4. Kept
    BY <1>hint, <1>1, <1>2, <1>6, <2>1, <2>2, <2>3
       DEF PowerTypeOK, LocksApart, HintListExact, LaunchLockOwned, Distinct
  <2>5. ~display_hint_sent /\ missed' = missed
    BY <1>2, <1>6, <1>acted
  <2>6. ListBounded'
    <3>1. Len(hint_list) <= missed
      BY <1>1, <1>3, <2>5 DEF ListBounded
    <3>2. display_hint_sent' = TRUE
      BY <1>2, <1>6
    <3>3. Len(hint_list') <= missed' + 1
      BY <1>3, <2>3, <2>5, <3>1
    <3>4. QED
      BY <3>2, <3>3 DEF ListBounded
  <2>7. QED
    BY <1>hint, <1>1, <1>2, <1>3, <2>4, <2>5, <2>6 DEF PowerTypeOK
<1>7. CASE governor = "interactive" /\ on /\ hint_list # <<>> /\ undo_hint_action
  <2>1. /\ Head(hint_list) \in Range(hint_list) /\ Head(hint_list) \in Handles
        /\ hint_list' \in Seq(Handles) /\ Len(hint_list') = Len(hint_list) - 1
        /\ Range(hint_list') = Range(hint_list) \ {Head(hint_list)}
        /\ Distinct(hint_list')
    BY <1>3, <1>7, Popped DEF undo_hint_action
  <2>2. Head(hint_list) \in display_locks \ unreleased
    BY <1>1, <2>1 DEF HintListExact
  <2>3. Kept
    <3>1. CASE display_locks' = display_locks \ {Head(hint_list)} /\ UNCHANGED unreleased
      BY <1>hint, <1>1, <1>2, <2>1, <2>2, <3>1
         DEF PowerTypeOK, LocksApart, HintListExact, LaunchLockOwned, Distinct
    <3>2. CASE unreleased' = unreleased \cup {Head(hint_list)} /\ UNCHANGED display_locks
      BY <1>hint, <1>1, <1>2, <2>1, <2>2, <3>2
         DEF PowerTypeOK, LocksApart, HintListExact, LaunchLockOwned, Distinct
    <3>3. QED
      BY <1>7, <3>1, <3>2 DEF undo_hint_action
  <2>4. missed' \in Nat /\ ListBounded'
    <3>1. display_hint_sent' = FALSE /\ missed' = Left(governor, hint_list')
      BY <1>2, <1>7
    <3>2. Len(hint_list') \in Nat /\ Len(hint_list') <= missed
      BY <1>3, <1>4, <2>1
    <3>3. missed' = Len(hint_list')
      BY <1>3, <3>1, <3>2 DEF Left
    <3>4. QED
      BY <3>1, <3>2, <3>3, <1>3 DEF ListBounded
  <2>5. QED
    BY <1>hint, <1>1, <1>2, <1>3, <2>3, <2>4 DEF PowerTypeOK
<1>8. QED
  BY <1>acted, <1>5, <1>6, <1>7
     DEF set_interactive_override, perform_hint_action, undo_hint_action

LEMMA LaunchStartsKeeps ==
  ASSUME PowerInv, LaunchStarts
  PROVE  PowerInv'
<1>1. /\ ~launch_mode
      /\ UNCHANGED <<display_locks, hint_locks, hint_list, display_hint_sent, missed, unreleased>>
  BY DEF LaunchStarts
<1>2. launch_locks \subseteq unreleased
  BY <1>1 DEF PowerInv, LaunchLockOwned
<1>3. CASE \E h \in Fresh : /\ launch_locks' = launch_locks \cup {h}
                            /\ launch_handle' = h /\ launch_mode' = TRUE
  BY <1>1, <1>2, <1>3 DEF PowerInv, PowerTypeOK, LocksApart, HintListExact, ListBounded,
     LaunchLockOwned, Fresh, Range
<1>4. CASE launch_handle' = FailedHandle /\ UNCHANGED <<launch_locks, launch_mode>>
  BY <1>1, <1>2, <1>4, HandleAssumption
     DEF PowerInv, PowerTypeOK, LocksApart, HintListExact, ListBounded, LaunchLockOwned, Range
<1>5. QED
  BY <1>3, <1>4 DEF LaunchStarts

LEMMA LaunchEndsKeeps ==
  ASSUME PowerInv, LaunchEnds
  PROVE  PowerInv'
<1>1. /\ launch_mode' = FALSE
      /\ UNCHANGED <<display_locks, hint_locks, hint_list, display_hint_sent, missed>>
  BY DEF LaunchEnds
<1>2. launch_locks \subseteq unreleased \cup {launch_handle}
  BY DEF PowerInv, LaunchLockOwned
<1> USE HandleAssumption DEF PowerInv, PowerTypeOK, LocksApart, HintListExact, ListBounded,
     LaunchLockOwned, Range
<1>3. CASE /\ launch_handle' = FailedHandle
           /\ launch_locks' = launch_locks \ {launch_handle} /\ UNCHANGED unreleased
  BY <1>1, <1>2, <1>3
<1>4. CASE /\ launch_handle' = FailedHandle /\ launch_handle \in launch_locks
           /\ unreleased' = unreleased \cup {launch_handle} /\ UNCHANGED launch_locks
  <2>1. launch_handle \in Handles /\ launch_handle \notin display_locks
    BY <1>4
  <2>2. PowerTypeOK' /\ LocksApart'
    BY <1>1, <1>4, <2>1
  <2>3. HintListExact' /\ ListBounded'
    BY <1>1, <1>4, <2>1
  <2>4. LaunchLockOwned'
    BY <1>1, <1>2, <1>4
  <2>5. QED
    BY <2>2, <2>3, <2>4
<1>5. CASE /\ launch_handle = FailedHandle
           /\ UNCHANGED <<launch_handle, launch_locks, unreleased>>
  BY <1>1, <1>2, <1>5
<1>6. QED
  BY <1>3, <1>4, <1>5 DEF LaunchEnds

LEMMA PowerStep == PowerInv /\ [PowerNext]_powerVars => PowerInv'
<1> SUFFICES ASSUME PowerInv, [PowerNext]_powerVars PROVE PowerInv'
  OBVIOUS
<1>1. ASSUME NEW on \in BOOLEAN, NEW governor \in Governors, SetInteractive(on, governor)
      PROVE  PowerInv'
  BY <1>1, SetInteractiveKeeps
<1>2. CASE LaunchStarts
  BY <1>2, LaunchStartsKeeps
<1>3. CASE LaunchEnds
  BY <1>3, LaunchEndsKeeps
<1>4. CASE LaunchExpires
  BY <1>4 DEF LaunchExpires, PowerInv, PowerTypeOK, LocksApart, HintListExact, ListBounded,
     LaunchLockOwned, Range
<1>5. CASE UNCHANGED powerVars
  BY <1>5 DEF powerVars, PowerInv, PowerTypeOK, LocksApart, HintListExact, ListBounded,
     LaunchLockOwned, Range
<1>6. QED
  BY <1>1, <1>2, <1>3, <1>4, <1>5 DEF PowerNext

(* Locks, handles and flags agree at every step.                            *)
THEOREM PowerInvariance == PowerSpec => []PowerInv
BY PowerInitially, PowerStep, PTL DEF PowerSpec

(* Every lock handle the HAL keeps is one the library gave it: a failed     *)
(* acquisition never gets into the hint list.                               *)
THEOREM PowerTypeCorrect == PowerSpec => []PowerTypeOK
<1>1. PowerInv => PowerTypeOK
  BY DEF PowerInv
<1>2. QED
  BY <1>1, PowerInvariance, PTL

(* The hint list holds exactly the resource locks held for the display, but *)
(* for those whose release was refused.                                     *)
THEOREM HintListIsExact == PowerSpec => []HintListExact
<1>1. PowerInv => HintListExact
  BY DEF PowerInv
<1>2. QED
  BY <1>1, PowerInvariance, PTL

(* The hint list grows for good only by what an "on" leaves behind under     *)
(* another governor.                                                        *)
THEOREM HintListIsBounded == PowerSpec => []ListBounded
<1>1. PowerInv => ListBounded
  BY DEF PowerInv
<1>2. QED
  BY <1>1, PowerInvariance, PTL

(* A boost in force is that of the launch in progress.                      *)
THEOREM BoostIsOwned == PowerSpec => []LaunchLockOwned
<1>1. PowerInv => LaunchLockOwned
  BY DEF PowerInv
<1>2. QED
  BY <1>1, PowerInvariance, PTL
=============================================================================
