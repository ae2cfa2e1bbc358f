------------------------------ MODULE MCTimekeep ------------------------------
(* Two halves make a second, so that RTC and clock change their seconds      *)
(* together or not.                                                          *)
EXTENDS Timekeep

(* A phone whose RTC the receiver can always read.                           *)
Readable == receiver = "epoch" /\ receiver' = "property" => seconds' = seconds - Secs(rtc)

ReadableSpec == TimekeepInit /\ [][TimekeepNext /\ Readable]_timeVars
=============================================================================
