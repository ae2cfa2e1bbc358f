---------------------------- MODULE LightsProofs ----------------------------
(***************************************************************************)
(* Theorems about Lights, for every set of states the framework may send,  *)
(* and about Backlight, for every panel range and all colours.             *)
(***************************************************************************)
EXTENDS Lights, Backlight, TLAPS

(* The inductive invariant of the LED.                                      *)
LightsInv == LightsTypeOK /\ LedShowsFirst

LEMMA LightStateShape ==
  ASSUME NEW state \in LightStates
  PROVE  /\ state.color \in Colors /\ state.flash \in Flashes
         /\ \A c \in Channels : state.color[c] \in 0..255
         /\ state.flash.on \in Nat /\ state.flash.off \in Nat
<1>1. state \in [color : Colors, flash : Flashes]
  BY StateAssumption
<1>2. QED
  BY <1>1 DEF Colors, Flashes

LEMMA DarkShape == Dark \in Colors /\ Dark \in [Channels -> 0..2] /\ Off.flash \in Flashes
BY DEF Dark, Off, Colors, Flashes

(* setSpeakerLightLocked: whatever the files held before, and whichever of  *)
(* the blink files cannot be written, the LEDs are told the state.          *)
LEMMA LedIsSet ==
  ASSUME LightsTypeOK, NEW state \in LightStates, setSpeakerLightLocked(state),
         rgb_sync' = rgb_sync
  PROVE  /\ Told(state)'
         /\ rgb_blink' \in {0, 1} /\ duty' \in Colors /\ pauses' \in Flashes
         /\ brightness' \in Colors /\ blinking' \in [Channels -> 0..2]
         /\ last' \in [Channels -> {"brightness", "blink"}]
<1> DEFINE Kept == /\ rgb_blink' \in {0, 1} /\ duty' \in Colors /\ pauses' \in Flashes
                   /\ brightness' \in Colors /\ blinking' \in [Channels -> 0..2]
                   /\ last' \in [Channels -> {"brightness", "blink"}]
<1>1. /\ state.color \in Colors /\ state.flash \in Flashes
      /\ \A c \in Channels : state.color[c] \in 0..255
  BY LightStateShape
<1>2. /\ rgb_blink \in {0, 1} /\ duty \in Colors /\ pauses \in Flashes
      /\ brightness \in Colors /\ blinking \in [Channels -> 0..2]
      /\ last \in [Channels -> {"brightness", "blink"}]
  BY DEF LightsTypeOK
<1>3. CASE /\ Blinks(state) /\ rgb_sync
           /\ duty' = state.color /\ pauses' = state.flash /\ rgb_blink' = 1
           /\ last' = [c \in Channels |-> "blink"]
           /\ UNCHANGED <<brightness, blinking>>
  <2>1. Kept
    BY <1>1, <1>2, <1>3
  <2>2. Told(state)'
    BY <1>3 DEF Told, Blinks
  <2>3. QED
    BY <2>1, <2>2
<1>4. ASSUME Blinks(state), ~rgb_sync, UNCHANGED <<rgb_blink, duty, pauses>>,
             NEW failed \in SUBSET {c \in Channels : state.color[c] > 0},
             NEW told, told = {c \in Channels : state.color[c] > 0} \ failed,
             blinking' = [c \in Channels |->
               IF c \in told THEN BlinkMode(state.flash) ELSE blinking[c]],
             brightness' = [c \in Channels |-> IF c \in failed THEN 0 ELSE brightness[c]],
             last' = [c \in Channels |-> IF c \in told THEN "blink"
                                        ELSE IF c \in failed THEN "brightness" ELSE last[c]]
      PROVE  Told(state)' /\ Kept
  <2>1. BlinkMode(state.flash) \in {1, 2}
    BY DEF BlinkMode
  <2>2. blinking' \in [Channels -> 0..2]
    BY <1>2, <1>4, <2>1
  <2>3. brightness' \in Colors /\ last' \in [Channels -> {"brightness", "blink"}]
    BY <1>2, <1>4 DEF Colors
  <2>4. ASSUME NEW c \in Channels, state.color[c] > 0
        PROVE  BlinksAlone(c, state.flash)'
    <3>1. CASE c \in failed
      BY <1>4, <3>1 DEF BlinksAlone
    <3>2. CASE c \notin failed
      BY <1>4, <2>4, <3>2 DEF BlinksAlone
    <3>3. QED
      BY <3>1, <3>2
  <2>5. Told(state)'
    BY <1>4, <2>4 DEF Told, Blinks
  <2>6. QED
    BY <1>2, <1>4, <2>2, <2>3, <2>5
<1>5. CASE /\ ~Blinks(state)
           /\ brightness' = state.color /\ rgb_blink' = 0
           /\ last' = [c \in Channels |-> "brightness"]
           /\ UNCHANGED <<blinking, duty, pauses>>
  <2>1. Kept
    BY <1>1, <1>2, <1>5
  <2>2. Told(state)'
    BY <1>5 DEF Told, Blinks
  <2>3. QED
    BY <2>1, <2>2
<1>6. QED
  BY <1>3, <1>4, <1>5 DEF setSpeakerLightLocked
---------------------------------------------------------------------------
LEMMA LightsInitially == LightsInit => LightsInv
BY OffAssumption, DarkShape DEF LightsInit, LightsInv, LightsTypeOK, LedShowsFirst

LEMMA LightsStep == LightsInv /\ [LightsNext]_lightVars => LightsInv'
<1> SUFFICES ASSUME LightsInv, [LightsNext]_lightVars PROVE LightsInv'
  OBVIOUS
<1>1. LightsTypeOK
  BY DEF LightsInv
<1>2. ASSUME NEW state \in LightStates, setLightBattery(state)
      PROVE  LightsInv'
  <2>1. First(state, notificationState) \in LightStates
    BY <1>1 DEF First, LightsTypeOK
  <2>2. Told(First(batteryState, notificationState))'
    BY <1>1, <1>2, <2>1, LedIsSet DEF setLightBattery, Told
  <2>3. LightsTypeOK'
    BY <1>1, <1>2, <2>1, LedIsSet DEF setLightBattery, LightsTypeOK
  <2>4. QED
    BY <2>2, <2>3 DEF LightsInv, LedShowsFirst
<1>3. ASSUME NEW state \in LightStates, setLightNotifications(state)
      PROVE  LightsInv'
  <2>1. First(batteryState, state) \in LightStates
    BY <1>1 DEF First, LightsTypeOK
  <2>2. Told(First(batteryState, notificationState))'
    BY <1>1, <1>3, <2>1, LedIsSet DEF setLightNotifications, Told
  <2>3. LightsTypeOK'
    BY <1>1, <1>3, <2>1, LedIsSet DEF setLightNotifications, LightsTypeOK
  <2>4. QED
    BY <2>2, <2>3 DEF LightsInv, LedShowsFirst
<1>4. CASE LightsRestart
  BY <1>4, OffAssumption DEF LightsRestart, LightsInv, LightsTypeOK, LedShowsFirst
<1>5. CASE UNCHANGED lightVars
  BY <1>5 DEF lightVars, LightsInv, LightsTypeOK, LedShowsFirst, Told, BlinksAlone
<1>6. QED
  BY <1>2, <1>3, <1>4, <1>5 DEF LightsNext

(* The LED's driver and the service agree at every step.                    *)
THEOREM LightsInvariance == LightsSpec => []LightsInv
BY LightsInitially, LightsStep, PTL DEF LightsSpec

(* Whatever the framework sends, the files get colours, times and one of    *)
(* the two blink modes.                                                     *)
THEOREM LightsTypeCorrect == LightsSpec => []LightsTypeOK
<1>1. LightsInv => LightsTypeOK
  BY DEF LightsInv
<1>2. QED
  BY <1>1, LightsInvariance, PTL

(* Each call leaves the LEDs told the first of the two lights that is lit,  *)
(* but for those that an unsynchronised blink leaves out.                   *)
THEOREM LedIsTheFirst == LightsSpec => []LedShowsFirst
<1>1. LightsInv => LedShowsFirst
  BY DEF LightsInv
<1>2. QED
  BY <1>1, LightsInvariance, PTL
---------------------------------------------------------------------------
(* The inductive invariant of the backlight.                                *)
BacklightInv ==
  /\ mBacklightMax \in Nat /\ shift = ShiftOf(mBacklightMax)
  /\ sent \in (0..255) \X (0..255) \X (0..255)
  /\ lcd = Scaled(rgbToBrightness(sent), mBacklightMax, shift)
---------------------------------------------------------------------------
LEMMA Brightness ==
  ASSUME NEW color \in (0..255) \X (0..255) \X (0..255)
  PROVE  rgbToBrightness(color) \in 0..255
<1>1. color[1] \in 0..255 /\ color[2] \in 0..255 /\ color[3] \in 0..255
  OBVIOUS
<1>2. PICK r \in 0..255, g \in 0..255, b \in 0..255 :
        color[1] = r /\ color[2] = g /\ color[3] = b
  BY <1>1
<1>3. (77 * r + 150 * g + 29 * b) \div 256 \in 0..255
  OBVIOUS
<1>4. QED
  BY <1>2, <1>3 DEF rgbToBrightness

(* The eight shifts there are, with their powers of 2: 2^s steps of the      *)
(* panel for one of the brightness, and the high bits of b once more.       *)
ShiftPair(p, q) ==
  \/ (p = 2 /\ q = 128) \/ (p = 4 /\ q = 64) \/ (p = 8 /\ q = 32) \/ (p = 16 /\ q = 16)
  \/ (p = 32 /\ q = 8) \/ (p = 64 /\ q = 4) \/ (p = 128 /\ q = 2) \/ (p = 256 /\ q = 1)

LEMMA Powers ==
  ASSUME NEW s \in 1..8
  PROVE  \E p, q \in Nat :
           /\ ShiftPair(p, q)
           /\ 2^s = p /\ 2^(8 - s) = q /\ 2^(8 + s) = 256 * p
<1>1. CASE s = 1
  <2>1. 2^s = 2 /\ 2^(8 - s) = 128 /\ 2^(8 + s) = 256 * 2
    BY <1>1
  <2>2. QED
    BY <2>1 DEF ShiftPair
<1>2. CASE s = 2
  <2>1. 2^s = 4 /\ 2^(8 - s) = 64 /\ 2^(8 + s) = 256 * 4
    BY <1>2
  <2>2. QED
    BY <2>1 DEF ShiftPair
<1>3. CASE s = 3
  <2>1. 2^s = 8 /\ 2^(8 - s) = 32 /\ 2^(8 + s) = 256 * 8
    BY <1>3
  <2>2. QED
    BY <2>1 DEF ShiftPair
<1>4. CASE s = 4
  <2>1. 2^s = 16 /\ 2^(8 - s) = 16 /\ 2^(8 + s) = 256 * 16
    BY <1>4
  <2>2. QED
    BY <2>1 DEF ShiftPair
<1>5. CASE s = 5
  <2>1. 2^s = 32 /\ 2^(8 - s) = 8 /\ 2^(8 + s) = 256 * 32
    BY <1>5
  <2>2. QED
    BY <2>1 DEF ShiftPair
<1>6. CASE s = 6
  <2>1. 2^s = 64 /\ 2^(8 - s) = 4 /\ 2^(8 + s) = 256 * 64
    BY <1>6
  <2>2. QED
    BY <2>1 DEF ShiftPair
<1>7. CASE s = 7
  <2>1. 2^s = 128 /\ 2^(8 - s) = 2 /\ 2^(8 + s) = 256 * 128
    BY <1>7
  <2>2. QED
    BY <2>1 DEF ShiftPair
<1>8. CASE s = 8
  <2>1. 2^s = 256 /\ 2^(8 - s) = 1 /\ 2^(8 + s) = 256 * 256
    BY <1>8
  <2>2. QED
    BY <2>1 DEF ShiftPair
<1>9. QED
  BY <1>1, <1>2, <1>3, <1>4, <1>5, <1>6, <1>7, <1>8

LEMMA ShiftedInRange ==
  ASSUME NEW b \in 0..255, NEW p \in Nat, NEW q \in Nat, ShiftPair(p, q)
  PROVE  0 <= b * p + b \div q /\ b * p + b \div q <= 256 * p - 1
<1>1. CASE p = 2 /\ q = 128
  <2>1. 0 <= b * 2 + b \div 128 /\ b * 2 + b \div 128 <= 256 * 2 - 1
    OBVIOUS
  <2>2. QED
    BY <1>1, <2>1
<1>2. CASE p = 4 /\ q = 64
  <2>1. 0 <= b * 4 + b \div 64 /\ b * 4 + b \div 64 <= 256 * 4 - 1
    OBVIOUS
  <2>2. QED
    BY <1>2, <2>1
<1>3. CASE p = 8 /\ q = 32
  <2>1. 0 <= b * 8 + b \div 32 /\ b * 8 + b \div 32 <= 256 * 8 - 1
    OBVIOUS
  <2>2. QED
    BY <1>3, <2>1
<1>4. CASE p = 16 /\ q = 16
  <2>1. 0 <= b * 16 + b \div 16 /\ b * 16 + b \div 16 <= 256 * 16 - 1
    OBVIOUS
  <2>2. QED
    BY <1>4, <2>1
<1>5. CASE p = 32 /\ q = 8
  <2>1. 0 <= b * 32 + b \div 8 /\ b * 32 + b \div 8 <= 256 * 32 - 1
    OBVIOUS
  <2>2. QED
    BY <1>5, <2>1
<1>6. CASE p = 64 /\ q = 4
  <2>1. 0 <= b * 64 + b \div 4 /\ b * 64 + b \div 4 <= 256 * 64 - 1
    OBVIOUS
  <2>2. QED
    BY <1>6, <2>1
<1>7. CASE p = 128 /\ q = 2
  <2>1. 0 <= b * 128 + b \div 2 /\ b * 128 + b \div 2 <= 256 * 128 - 1
    OBVIOUS
  <2>2. QED
    BY <1>7, <2>1
<1>8. CASE p = 256 /\ q = 1
  <2>1. 0 <= b * 256 + b \div 1 /\ b * 256 + b \div 1 <= 256 * 256 - 1
    OBVIOUS
  <2>2. QED
    BY <1>8, <2>1
<1>9. QED
  BY <1>1, <1>2, <1>3, <1>4, <1>5, <1>6, <1>7, <1>8 DEF ShiftPair

LEMMA ShiftedIsExact ==
  ASSUME NEW b \in 0..255, NEW p \in Nat, NEW q \in Nat, ShiftPair(p, q)
  PROVE  Distance(255 * (b * p + b \div q), b * (256 * p - 1)) < 255
<1>1. CASE p = 2 /\ q = 128
  <2>1. Distance(255 * (b * 2 + b \div 128), b * (256 * 2 - 1)) < 255
    BY DEF Distance
  <2>2. QED
    BY <1>1, <2>1
<1>2. CASE p = 4 /\ q = 64
  <2>1. Distance(255 * (b * 4 + b \div 64), b * (256 * 4 - 1)) < 255
    BY DEF Distance
  <2>2. QED
    BY <1>2, <2>1
<1>3. CASE p = 8 /\ q = 32
  <2>1. Distance(255 * (b * 8 + b \div 32), b * (256 * 8 - 1)) < 255
    BY DEF Distance
  <2>2. QED
    BY <1>3, <2>1
<1>4. CASE p = 16 /\ q = 16
  <2>1. Distance(255 * (b * 16 + b \div 16), b * (256 * 16 - 1)) < 255
    BY DEF Distance
  <2>2. QED
    BY <1>4, <2>1
<1>5. CASE p = 32 /\ q = 8
  <2>1. Distance(255 * (b * 32 + b \div 8), b * (256 * 32 - 1)) < 255
    BY DEF Distance
  <2>2. QED
    BY <1>5, <2>1
<1>6. CASE p = 64 /\ q = 4
  <2>1. Distance(255 * (b * 64 + b \div 4), b * (256 * 64 - 1)) < 255
    BY DEF Distance
  <2>2. QED
    BY <1>6, <2>1
<1>7. CASE p = 128 /\ q = 2
  <2>1. Distance(255 * (b * 128 + b \div 2), b * (256 * 128 - 1)) < 255
    BY DEF Distance
  <2>2. QED
    BY <1>7, <2>1
<1>8. CASE p = 256 /\ q = 1
  <2>1. Distance(255 * (b * 256 + b \div 1), b * (256 * 256 - 1)) < 255
    BY DEF Distance
  <2>2. QED
    BY <1>8, <2>1
<1>9. QED
  BY <1>1, <1>2, <1>3, <1>4, <1>5, <1>6, <1>7, <1>8 DEF ShiftPair

LEMMA ShiftedIsMonotone ==
  ASSUME NEW b \in 0..255, NEW c \in 0..255, b <= c,
         NEW p \in Nat, NEW q \in Nat, ShiftPair(p, q)
  PROVE  b * p + b \div q <= c * p + c \div q
<1>1. CASE p = 2 /\ q = 128
  <2>1. b * 2 + b \div 128 <= c * 2 + c \div 128
    OBVIOUS
  <2>2. QED
    BY <1>1, <2>1
<1>2. CASE p = 4 /\ q = 64
  <2>1. b * 4 + b \div 64 <= c * 4 + c \div 64
    OBVIOUS
  <2>2. QED
    BY <1>2, <2>1
<1>3. CASE p = 8 /\ q = 32
  <2>1. b * 8 + b \div 32 <= c * 8 + c \div 32
    OBVIOUS
  <2>2. QED
    BY <1>3, <2>1
<1>4. CASE p = 16 /\ q = 16
  <2>1. b * 16 + b \div 16 <= c * 16 + c \div 16
    OBVIOUS
  <2>2. QED
    BY <1>4, <2>1
<1>5. CASE p = 32 /\ q = 8
  <2>1. b * 32 + b \div 8 <= c * 32 + c \div 8
    OBVIOUS
  <2>2. QED
    BY <1>5, <2>1
<1>6. CASE p = 64 /\ q = 4
  <2>1. b * 64 + b \div 4 <= c * 64 + c \div 4
    OBVIOUS
  <2>2. QED
    BY <1>6, <2>1
<1>7. CASE p = 128 /\ q = 2
  <2>1. b * 128 + b \div 2 <= c * 128 + c \div 2
    OBVIOUS
  <2>2. QED
    BY <1>7, <2>1
<1>8. CASE p = 256 /\ q = 1
  <2>1. b * 256 + b \div 1 <= c * 256 + c \div 1
    OBVIOUS
  <2>2. QED
    BY <1>8, <2>1
<1>9. QED
  BY <1>1, <1>2, <1>3, <1>4, <1>5, <1>6, <1>7, <1>8 DEF ShiftPair

LEMMA ShiftChosen ==
  ASSUME NEW max \in Nat
  PROVE  \/ ShiftOf(max) = 0
         \/ ShiftOf(max) \in 1..8 /\ max = 2^(8 + ShiftOf(max)) - 1
BY DEF ShiftOf

(* The product of the other ranges, as a linear fact for the provers.       *)
LEMMA ProductBounds ==
  ASSUME NEW max \in Nat, NEW b \in 0..255, NEW c \in 0..255, b <= c
  PROVE  b * max \in 0..(255 * max) /\ b * max <= c * max
<1>1. (c - b) * max >= 0
  OBVIOUS
<1>2. (255 - b) * max >= 0 /\ b * max >= 0
  OBVIOUS
<1>3. QED
  BY <1>1, <1>2

(* The scale is exact to less than one step, and never falls.               *)
LEMMA ScaleIsExact ==
  ASSUME NEW max \in Nat, NEW b \in 0..255
  PROVE  /\ Scaled(b, max, ShiftOf(max)) \in 0..max
         /\ Distance(255 * Scaled(b, max, ShiftOf(max)), b * max) < 255
<1> DEFINE s == ShiftOf(max)
           v == Scaled(b, max, s)
<1>1. CASE s \in 1..8 /\ max = 2^(8 + s) - 1
  <2>1. v = b * 2^s + b \div 2^(8 - s)
    BY <1>1 DEF Scaled
  <2>2. PICK p \in Nat, q \in Nat :
          /\ ShiftPair(p, q)
          /\ 2^s = p /\ 2^(8 - s) = q /\ 2^(8 + s) = 256 * p
    BY <1>1, Powers
  <2>3. v = b * p + b \div q /\ max = 256 * p - 1
    BY <1>1, <2>1, <2>2
  <2>4. ShiftPair(p, q)
    BY <2>2
  <2>5. v \in 0..max
    <3>1. 0 <= b * p + b \div q /\ b * p + b \div q <= 256 * p - 1
      BY <2>4, ShiftedInRange
    <3>2. v \in Int
      BY <2>2, <2>3 DEF ShiftPair
    <3>3. QED
      BY <2>3, <3>1, <3>2
  <2>6. Distance(255 * v, b * max) < 255
    <3>1. Distance(255 * (b * p + b \div q), b * (256 * p - 1)) < 255
      BY <2>4, ShiftedIsExact
    <3>2. QED
      BY <2>3, <3>1, Zenon
  <2>7. QED
    BY <2>5, <2>6
<1>2. CASE s = 0 /\ max # 255
  <2>1. PICK p \in Int : p = b * max
    OBVIOUS
  <2>2. p \in 0..(255 * max)
    <3>1. b <= b
      OBVIOUS
    <3>2. b * max \in 0..(255 * max)
      BY <3>1, ProductBounds
    <3>3. QED
      BY <2>1, <3>2
  <2>3. v = (p + 127) \div 255
    BY <1>2, <2>1 DEF Scaled
  <2>4. v \in 0..max /\ 255 * v <= p + 127 /\ p + 127 < 255 * v + 255
    BY <2>2, <2>3
  <2>5. QED
    BY <2>1, <2>4 DEF Distance
<1>3. CASE s = 0 /\ max = 255
  BY <1>3 DEF Scaled, Distance
<1>4. QED
  BY <1>1, <1>2, <1>3, ShiftChosen

LEMMA ScaleIsMonotone ==
  ASSUME NEW max \in Nat, NEW b \in 0..255, NEW c \in 0..255, b <= c
  PROVE  Scaled(b, max, ShiftOf(max)) <= Scaled(c, max, ShiftOf(max))
<1> DEFINE s == ShiftOf(max)
<1>1. CASE s \in 1..8 /\ max = 2^(8 + s) - 1
  <2>1. /\ Scaled(b, max, s) = b * 2^s + b \div 2^(8 - s)
        /\ Scaled(c, max, s) = c * 2^s + c \div 2^(8 - s)
    BY <1>1 DEF Scaled
  <2>2. PICK p \in Nat, q \in Nat :
          /\ ShiftPair(p, q)
          /\ 2^s = p /\ 2^(8 - s) = q
    BY <1>1, Powers
  <2>3. b * p + b \div q <= c * p + c \div q
    BY <2>2, ShiftedIsMonotone
  <2>4. QED
    BY <2>1, <2>2, <2>3
<1>2. CASE s = 0 /\ max # 255
  <2>1. PICK p \in Int, q \in Int : p = b * max /\ q = c * max
    OBVIOUS
  <2>2. p <= q
    BY <2>1, ProductBounds
  <2>3. Scaled(b, max, s) = (p + 127) \div 255 /\ Scaled(c, max, s) = (q + 127) \div 255
    BY <1>2, <2>1 DEF Scaled
  <2>4. QED
    BY <2>2, <2>3
<1>3. CASE s = 0 /\ max = 255
  BY <1>3 DEF Scaled
<1>4. QED
  BY <1>1, <1>2, <1>3, ShiftChosen
---------------------------------------------------------------------------
LEMMA BacklightInitially == BacklightInit => BacklightInv
<1> SUFFICES ASSUME BacklightInit PROVE BacklightInv
  OBVIOUS
<1>1. mBacklightMax \in Nat /\ shift = ShiftOf(mBacklightMax)
  <2>1. PICK file \in MaxFile : mBacklightMax = MaxOf(file)
    BY DEF BacklightInit
  <2>2. file \in Int
    BY PanelAssumption
  <2>3. QED
    BY <2>1, <2>2 DEF BacklightInit, MaxOf
<1>2. sent = <<0, 0, 0>> /\ lcd = 0 /\ rgbToBrightness(sent) = 0
  BY DEF BacklightInit, rgbToBrightness
<1>3. Scaled(0, mBacklightMax, shift) = 0
  <2>1. 0 \in 0..255
    OBVIOUS
  <2>2. /\ Scaled(0, mBacklightMax, shift) \in 0..mBacklightMax
        /\ Distance(255 * Scaled(0, mBacklightMax, shift), 0 * mBacklightMax) < 255
    BY <1>1, <2>1, ScaleIsExact
  <2>3. QED
    BY <1>1, <2>2 DEF Distance
<1>4. QED
  BY <1>1, <1>2, <1>3 DEF BacklightInv

LEMMA BacklightStep == BacklightInv /\ [BacklightNext]_backlightVars => BacklightInv'
<1> SUFFICES ASSUME BacklightInv, [BacklightNext]_backlightVars PROVE BacklightInv'
  OBVIOUS
<1>1. ASSUME NEW color \in BacklightColors, setLightBacklight(color)
      PROVE  BacklightInv'
  BY <1>1, ColorAssumption DEF setLightBacklight, BacklightInv
<1>2. CASE UNCHANGED backlightVars
  BY <1>2 DEF backlightVars, BacklightInv
<1>3. QED
  BY <1>1, <1>2 DEF BacklightNext

(* The panel always shows the scaled brightness of the last colour.         *)
THEOREM BacklightInvariance == BacklightSpec => []BacklightInv
BY BacklightInitially, BacklightStep, PTL DEF BacklightSpec

(* On every panel, whatever its range, the value is in range, less than one *)
(* step from the exact one, and does not fall when the brightness rises.    *)
THEOREM BacklightIsExact == BacklightSpec => []BacklightExact
<1>1. BacklightInv => BacklightExact
  <2> SUFFICES ASSUME BacklightInv PROVE BacklightExact
    OBVIOUS
  <2>1. rgbToBrightness(sent) \in 0..255 /\ mBacklightMax \in Nat
    BY Brightness DEF BacklightInv
  <2>2. ASSUME NEW color \in BacklightColors, rgbToBrightness(color) >= rgbToBrightness(sent)
        PROVE  Scaled(rgbToBrightness(color), mBacklightMax, shift) >= lcd
    <3>1. rgbToBrightness(color) \in 0..255
      BY ColorAssumption, Brightness
    <3>2. /\ Scaled(rgbToBrightness(sent), mBacklightMax, shift)
               <= Scaled(rgbToBrightness(color), mBacklightMax, shift)
          /\ Scaled(rgbToBrightness(sent), mBacklightMax, shift) \in 0..mBacklightMax
          /\ Scaled(rgbToBrightness(color), mBacklightMax, shift) \in 0..mBacklightMax
      BY <2>1, <2>2, <3>1, ScaleIsMonotone, ScaleIsExact DEF BacklightInv
    <3>3. QED
      BY <2>1, <3>2 DEF BacklightInv
  <2>3. /\ lcd \in 0..mBacklightMax
        /\ Distance(255 * lcd, rgbToBrightness(sent) * mBacklightMax) < 255
    BY <2>1, ScaleIsExact DEF BacklightInv
  <2>4. QED
    BY <2>2, <2>3 DEF BacklightExact
<1>2. QED
  BY <1>1, BacklightInvariance, PTL
=============================================================================
