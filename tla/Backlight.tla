----------------------------- MODULE Backlight -----------------------------
(***************************************************************************)
(* The backlight of the lights HAL: a brightness of 8 bits is scaled to    *)
(* the panel's range, by shifts if the range is 2^x - 1.                   *)
(***************************************************************************)
EXTENDS Integers

CONSTANTS
  MaxFile,       \* what LCD_MAX_FILE may hold; negative: it cannot be read
  BacklightColors \* colours the framework sends: <<red, green, blue>>

ASSUME PanelAssumption == MaxFile \subseteq Int
ASSUME ColorAssumption == BacklightColors \subseteq (0..255) \X (0..255) \X (0..255)

VARIABLES
  mBacklightMax,
  shift,         \* mBacklightShift
  sent,          \* history: the colour that was shown last
  lcd            \* LCD_FILE

backlightVars == <<mBacklightMax, shift, sent, lcd>>

(* The constructor: 255 if the file cannot be read; a shift of x - 8 if the *)
(* maximum is 2^x - 1, for at most 16 bits.                                 *)
MaxOf(file) == IF file < 0 THEN 255 ELSE file

ShiftOf(max) ==
  IF \E s \in 1..8 : max = 2^(8 + s) - 1
  THEN CHOOSE s \in 1..8 : max = 2^(8 + s) - 1 ELSE 0

BacklightInit ==
  /\ mBacklightMax \in {MaxOf(file) : file \in MaxFile}
  /\ shift = ShiftOf(mBacklightMax)
  /\ sent = <<0, 0, 0>> /\ lcd = 0

rgbToBrightness(color) == (77 * color[1] + 150 * color[2] + 29 * color[3]) \div 256

ShiftedOnly(b, max, s) ==                 \* mutant: the low bits stay empty
  IF s > 0 THEN b * 2^s ELSE (b * max + 127) \div 255

(* b's high bits go once more where the shift leaves zeros.                 *)
Scaled(b, max, s) ==
  IF s > 0 THEN b * 2^s + b \div 2^(8 - s)
  ELSE IF max # 255 THEN (b * max + 127) \div 255 ELSE b

(* A write that fails leaves the panel as it was and is left out.           *)
setLightBacklight(color) ==
  /\ sent' = color
  /\ lcd' = Scaled(rgbToBrightness(color), mBacklightMax, shift)
  /\ UNCHANGED <<mBacklightMax, shift>>

BacklightNext == \E color \in BacklightColors : setLightBacklight(color)

BacklightSpec == BacklightInit /\ [][BacklightNext]_backlightVars
---------------------------------------------------------------------------
Distance(x, y) == IF x < y THEN y - x ELSE x - y

(* "Bit-shift optimization scales to full 2^x-1", "proper rounding": for    *)
(* every panel the value is in range and less than one step away from the   *)
(* exact share brightness / 255 of the range (so 0 is off and 255 is the    *)
(* maximum), and a brighter colour never gets a lower value.                *)
BacklightExact ==
  LET b == rgbToBrightness(sent) IN
  /\ lcd \in 0..mBacklightMax
  /\ Distance(255 * lcd, b * mBacklightMax) < 255
  /\ \A color \in BacklightColors : rgbToBrightness(color) >= b =>
       Scaled(rgbToBrightness(color), mBacklightMax, shift) >= lcd
=============================================================================
