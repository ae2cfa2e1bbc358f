------------------------------- MODULE Lights -------------------------------
(***************************************************************************)
(* The lights HAL.  Battery and notification light share one RGB LED: each *)
(* call stores its state and, under one mutex, shows the state that goes   *)
(* first.  What the LED shows is spread over many files of its driver,     *)
(* which differ with the driver's RGB synchronisation, and which stay as   *)
(* they are when the service is started again.  The backlight is a module  *)
(* of its own: it has its own mutex and shares nothing with the LED.       *)
(***************************************************************************)
EXTENDS Integers

CONSTANT
  LightStates    \* what the framework sends for a light

Channels == {"red", "green", "blue"}
Colors   == [Channels -> 0..255]
Flashes  == [on : Nat, off : Nat]                     \* 0 for Flash::NONE

ASSUME StateAssumption ==
  LightStates \subseteq [color : Colors, flash : Flashes]

Dark == [c \in Channels |-> 0]
Off  == [color |-> Dark, flash |-> [on |-> 0, off |-> 0]]
ASSUME OffAssumption == Off \in LightStates

VARIABLES
  batteryState, notificationState,
  rgb_sync,      \* isRgbSyncAvailable: the driver has RGB_BLINK_FILE
  rgb_blink,     \* what RGB_BLINK_FILE holds
  duty, pauses,  \* the files of a synchronised blink
  brightness,    \* RED_LED_FILE, GREEN_LED_FILE and BLUE_LED_FILE
  blinking,      \* without synchronisation: what each LED's blink file holds
  last,          \* history: which kind of file each LED was last told by
  called         \* history: the service was called since it started

lightVars == <<batteryState, notificationState, rgb_sync, rgb_blink, duty,
               pauses, brightness, blinking, last, called>>

LightsInit ==
  /\ batteryState = Off /\ notificationState = Off
  /\ rgb_sync \in BOOLEAN /\ rgb_blink = 0
  /\ duty = Dark /\ pauses = Off.flash
  /\ brightness = Dark /\ blinking = Dark
  /\ last = [c \in Channels |-> "brightness"]
  /\ called = FALSE
---------------------------------------------------------------------------
isLit(state)  == state.color # Dark
Blinks(state) == state.flash.on > 0 /\ state.flash.off > 0

BlinkMode(flash) == IF flash.on = flash.off THEN 2 ELSE 1

(* setSpeakerLightLocked.  A steady state writes no blink file but that of  *)
(* all LEDs, a blinking one no brightness: the files of the other kind keep *)
(* what they held.  Without synchronisation a LED of colour 0 is not        *)
(* written, and one whose blink file cannot be written is turned off.       *)
setSpeakerLightLocked(state) ==
  \/ /\ Blinks(state) /\ rgb_sync
     /\ duty' = state.color /\ pauses' = state.flash
     /\ rgb_blink' = 1 /\ last' = [c \in Channels |-> "blink"]
     /\ UNCHANGED <<brightness, blinking>>
  \/ /\ Blinks(state) /\ ~rgb_sync
     /\ \E failed \in SUBSET {c \in Channels : state.color[c] > 0} :
          LET told == {c \in Channels : state.color[c] > 0} \ failed IN
          /\ blinking' = [c \in Channels |->
               IF c \in told THEN BlinkMode(state.flash) ELSE blinking[c]]
          /\ brightness' = [c \in Channels |-> IF c \in failed THEN 0 ELSE brightness[c]]
          /\ last' = [c \in Channels |-> IF c \in told THEN "blink"
                                         ELSE IF c \in failed THEN "brightness" ELSE last[c]]
     /\ UNCHANGED <<rgb_blink, duty, pauses>>
  \/ /\ ~Blinks(state)
     /\ brightness' = state.color
     /\ rgb_blink' = 0 /\ last' = [c \in Channels |-> "brightness"]
     /\ UNCHANGED <<blinking, duty, pauses>>

First(battery, notification) == IF isLit(battery) THEN battery ELSE notification

SetNotificationsOnly(state) ==            \* mutant: the battery is forgotten
  /\ notificationState' = state
  /\ setSpeakerLightLocked(state)
  /\ called' = TRUE /\ UNCHANGED <<batteryState, rgb_sync>>

setLightBattery(state) ==
  /\ batteryState' = state
  /\ setSpeakerLightLocked(First(state, notificationState))
  /\ called' = TRUE /\ UNCHANGED <<notificationState, rgb_sync>>

setLightNotifications(state) ==
  /\ notificationState' = state
  /\ setSpeakerLightLocked(First(batteryState, state))
  /\ called' = TRUE /\ UNCHANGED <<batteryState, rgb_sync>>

(* The service dies and is started again: both lights are unlit as far as   *)
(* it knows, but the driver's files still hold what they held.              *)
LightsRestart ==
  /\ batteryState' = Off /\ notificationState' = Off /\ called' = FALSE
  /\ UNCHANGED <<rgb_sync, rgb_blink, duty, pauses, brightness, blinking, last>>

LightsNext ==
  \/ \E state \in LightStates : setLightBattery(state) \/ setLightNotifications(state)
  \/ LightsRestart

LightsSpec == LightsInit /\ [][LightsNext]_lightVars
---------------------------------------------------------------------------
(* Type correctness.                                                        *)
LightsTypeOK ==
  /\ batteryState \in LightStates /\ notificationState \in LightStates
  /\ rgb_sync \in BOOLEAN /\ rgb_blink \in {0, 1}
  /\ duty \in Colors /\ pauses \in Flashes
  /\ brightness \in Colors /\ blinking \in [Channels -> 0..2]
  /\ last \in [Channels -> {"brightness", "blink"}]
  /\ called \in BOOLEAN

(* A blinking LED of an unsynchronised driver: told to blink in the state's *)
(* mode, or, if that failed, to be dark.                                    *)
BlinksAlone(c, flash) ==
  \/ last[c] = "blink" /\ blinking[c] = BlinkMode(flash)
  \/ last[c] = "brightness" /\ brightness[c] = 0

(* What the LEDs were last told if they were told a state.                  *)
Told(state) ==
  IF ~Blinks(state)
  THEN /\ \A c \in Channels : last[c] = "brightness"
       /\ brightness = state.color /\ rgb_blink = 0
  ELSE IF rgb_sync
  THEN /\ \A c \in Channels : last[c] = "blink"
       /\ duty = state.color /\ pauses = state.flash /\ rgb_blink = 1
  ELSE \A c \in Channels : state.color[c] > 0 => BlinksAlone(c, state.flash)

(* After any sequence of calls and restarts, each call leaves the LEDs told *)
(* the battery's state if it is lit and the notification's otherwise; so    *)
(* switching the battery light off brings back the notification that was    *)
(* hidden.  A steady state and a synchronised blink are the last thing each *)
(* LED was told; the files of the other kind keep an earlier state, and the *)
(* driver has to go by the last write.  An unsynchronised blink is the last *)
(* thing the LEDs of its colour were told, and nothing holds for the others:*)
(* they go on with what an earlier state told them, and shine through.      *)
LedShowsFirst == called => Told(First(batteryState, notificationState))
=============================================================================
