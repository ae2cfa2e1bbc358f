----------------------------- MODULE MCServices -----------------------------
(* The services that are small, in one run.  They share no state, so a      *)
(* behaviour of all of them is an interleaving of theirs, and a safety      *)
(* property of one holds in it if it holds while the others stand still:    *)
(* each behaviour here runs one service, and the numbers of states add up   *)
(* instead of being multiplied.                                             *)
EXTENDS PowerHints, Lights, Backlight, MCTransmitPower

VARIABLE service       \* the one that runs

Light(r, g, b, on, off) ==
  [color |-> [c \in Channels |-> IF c = "red" THEN r ELSE IF c = "green" THEN g ELSE b],
   flash |-> [on |-> on, off |-> off]]

(* Unlit, a full battery, a low one that blinks, notifications, and a light *)
(* that blinks without a colour.                                            *)
MCLightStates == {Off, Light(0, 255, 0, 0, 0), Light(255, 0, 0, 500, 500),
                  Light(0, 0, 255, 1000, 2000), Light(128, 0, 128, 0, 0),
                  Light(0, 0, 0, 500, 500)}

(* No file, panels of 7, 8, 9, 12 and 16 bits, and ranges that are no       *)
(* 2^x - 1; sixteen grays and those at the edges of bits, a few colours.    *)
MCMaxFile == {-2, 0, 1, 100, 127, 255, 256, 511, 1000, 4095, 65535, 65536}
MCBacklightColors == {<<i, i, i>> : i \in {17 * j : j \in 0..15} \cup {1, 16, 127, 128, 254}} \cup
                     {<<255, 0, 0>>, <<0, 255, 0>>, <<0, 0, 255>>, <<10, 200, 3>>}

ServicesInit ==
  /\ service \in {"power", "lights", "backlight", "transmit"}
  /\ PowerInit
  /\ LightsInit /\ (service = "lights" \/ rgb_sync)
  /\ BacklightInit /\ (service = "backlight" \/ mBacklightMax = 255)
  /\ MCInit /\ (service = "transmit" \/ part = "basic")

ServicesNext ==
  /\ UNCHANGED service
  /\ \/ /\ service = "transmit" /\ MCNext
        /\ UNCHANGED <<powerVars, lightVars, backlightVars>>
     \/ /\ service = "power" /\ PowerNext
        /\ UNCHANGED <<lightVars, backlightVars, part, transmitVars>>
     \/ /\ service = "lights" /\ LightsNext
        /\ UNCHANGED <<powerVars, backlightVars, part, transmitVars>>
     \/ /\ service = "backlight" /\ BacklightNext
        /\ UNCHANGED <<powerVars, lightVars, part, transmitVars>>

ServicesSpec ==
  ServicesInit /\ [][ServicesNext]_<<service, powerVars, lightVars, backlightVars,
                                    part, transmitVars>>
=============================================================================
