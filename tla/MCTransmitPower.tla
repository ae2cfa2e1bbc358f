--------------------------- MODULE MCTransmitPower --------------------------
(* The observers, in three parts: no property relates two keys, and the     *)
(* observers of one key take no notice of another's.  In the sensors' part  *)
(* broadcasts wait one at a time; the calls' part fails no request but the  *)
(* call's, and leaves the battery full and the Wi-Fi off.                   *)
EXTENDS TransmitPower, TLC

VARIABLE part

Symmetry == Permutations(Calls) \cup Permutations(Features)

MCInit == part \in {"basic", "sensors", "calls"} /\ TransmitInit

MCNext ==
  /\ UNCHANGED part
  /\ \/ part = "basic" /\ (ServiceNext \/ PhoneNext \/ BasicNext)
     \/ part = "sensors" /\ (ServiceNext \/ (queue = <<>> /\ SensorNext))
     \/ /\ part = "calls"
        /\ ServiceNext \/ SubscriptionsChanged \/ ServiceStateChanged \/ VoiceNext
        /\ value'[Battery] # "off" /\ value'[Wifi] # "on"
        /\ lost' \subseteq lost \cup {"voice"}

MCSpec == MCInit /\ [][MCNext]_<<part, transmitVars>>
=============================================================================
