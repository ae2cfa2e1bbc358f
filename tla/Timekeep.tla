------------------------------ MODULE Timekeep ------------------------------
(***************************************************************************)
(* The RTC of the SoC counts on while the phone is off but cannot be set.  *)
(* TimeKeep keeps what has to be added to it in a persistent property: a   *)
(* Java receiver stores clock - rtc on every change of the time and at     *)
(* shutdown, and "timekeep restore", once per boot, sets the clock to      *)
(* rtc + property.  Both also leave the offset, in milliseconds, in a file *)
(* for the modem's time service.  Time goes on, the other process runs and *)
(* the power may fail between any two of their reads and writes.  RTC and  *)
(* clock change their seconds at different moments, and whoever reads them *)
(* gets whole seconds: both are counted here in fractions of a second.     *)
(***************************************************************************)
EXTENDS Integers

CONSTANTS
  MaxRtc,    \* bound on the seconds the RTC counts
  MaxTime,   \* bound on the times the user sets
  Second,    \* fractions that make a second
  MaxLate,   \* bound on late, where it is not bounded by MaxRtc
  Width,     \* number of values of an unsigned 64-bit integer
  Absent     \* a property that was never set, a file without contents

ASSUME TimeAssumption  == MaxRtc \in Nat /\ MaxTime \in Nat /\ MaxLate \in Nat
ASSUME SecondAssumption == Second \in Nat \ {0}
ASSUME WidthAssumption == Width \in Nat /\ MaxRtc + MaxTime < Width \div 2
ASSUME AbsentAssumption == Absent \notin Int

VARIABLES
  rtc, clock,          \* the RTC and the system's time, in fractions of a second
  adjust,              \* persist.vendor.timeadjust
  ats,                 \* the file ats_2, in milliseconds
  restore, r_adjust, r_epoch,    \* where restore_time is, and its variables
  receiver, seconds,             \* where onReceive is, and its variable
  wanted,              \* history: clock - rtc as the user last set it
  late,                \* history: what the values may have lost since then
  good,                \* history: which of "clock", "adjust", "restore" and
                       \*   "receiver" hold a value that goes back to wanted
  synced               \* history: the file was written after the property

restoreVars  == <<restore, r_adjust, r_epoch>>
receiverVars == <<receiver, seconds>>
timeVars == <<rtc, clock, adjust, ats, restoreVars, receiverVars,
              wanted, late, good, synced>>

Secs(x)   == x \div Second                               \* whole seconds
Part(x)   == x % Second                                 \* what they cut off
Wrap(x)   == x % Width                                  \* uint64_t
Signed(x) == IF x >= Width \div 2 THEN x - Width ELSE x \* as a time_t
MillisSigned(x) == 1000 * x               \* mutant: a negative one is written
Millis(x) == Wrap(1000 * x)

With(place, ok) == IF ok THEN good \cup {place} ELSE good \ {place}

On      == restore # "off"
Running == {"epoch", "file", "fill", "set"}             \* of restore_time

(* One of the two has made the first of its two accesses to RTC and clock.  *)
AtWork  == receiver = "epoch" \/ restore \in {"file", "fill", "set"}

TimekeepInit ==
  /\ rtc = 0 /\ clock = 0 /\ adjust = Absent /\ ats = Absent
  /\ restore = "off" /\ r_adjust = 0 /\ r_epoch = 0
  /\ receiver = "idle" /\ seconds = 0
  /\ wanted = 0 /\ late = 0 /\ good = {} /\ synced = TRUE
---------------------------------------------------------------------------
Tick == /\ rtc < Second * MaxRtc
        /\ rtc' = rtc + 1
        /\ clock' = IF On THEN clock + 1 ELSE clock
        /\ late' = IF AtWork THEN late + 1 ELSE late
        /\ UNCHANGED <<adjust, ats, restoreVars, receiverVars, wanted, good, synced>>

(* The kernel starts with the RTC's time or with 0, init starts the service.*)
Boot == /\ ~On
        /\ clock' \in {0, rtc}
        /\ restore' = "property"
        /\ UNCHANGED <<rtc, adjust, ats, r_adjust, r_epoch, receiverVars, wanted,
                       late, good, synced>>

(* The phone is switched off at any moment; without a battery the RTC loses *)
(* its count, and no offset fits it any more.                               *)
PowerOff == /\ On
            /\ restore' = "off" /\ r_adjust' = 0 /\ r_epoch' = 0
            /\ receiver' = "idle" /\ seconds' = 0 /\ clock' = 0
            /\ \/ good' = good \cap {"adjust"} /\ UNCHANGED <<rtc, late>>
               \/ good' = {} /\ rtc' = 0 /\ late' = 0
            /\ UNCHANGED <<adjust, ats, wanted, synced>>

(* The user, or the network, sets the time.                                 *)
SetTime == /\ On
           /\ clock' \in 0..(Second * MaxTime)
           /\ wanted' = clock' - rtc /\ late' = 0 /\ good' = {"clock"}
           /\ UNCHANGED <<rtc, adjust, ats, restoreVars, receiverVars, synced>>
---------------------------------------------------------------------------
RestoreEnds == /\ r_adjust' = 0 /\ r_epoch' = 0
               /\ good' = good \ {"restore"}

(* restore_time.  Without an offset, or with offset 0, there is nothing to  *)
(* do; strtoull takes a negative offset modulo 2^64.                        *)
ReadProperty ==
  /\ restore = "property"
  /\ \/ /\ adjust \in {Absent, 0}
        /\ restore' = "done" /\ UNCHANGED <<r_adjust, good>>
     \/ /\ adjust \notin {Absent, 0}
        /\ r_adjust' = Wrap(adjust) /\ restore' = "epoch"
        /\ good' = With("restore", "adjust" \in good)
  /\ UNCHANGED <<rtc, clock, adjust, ats, r_epoch, receiverVars, wanted, late, synced>>

(* read_epoch.  A read that returns nothing is no error: the epoch stays 0. *)
ReadEpoch ==
  /\ restore = "epoch"
  /\ \/ /\ restore' = "file" /\ r_epoch' = Secs(rtc)
        /\ late + Part(rtc) <= MaxLate /\ late' = late + Part(rtc)
        /\ UNCHANGED <<r_adjust, good>>
     \/ /\ restore' = "file" /\ r_epoch' = 0
        /\ good' = good \ {"restore"} /\ UNCHANGED <<r_adjust, late>>
     \/ restore' = "done" /\ RestoreEnds /\ UNCHANGED late   \* it cannot be read
  /\ UNCHANGED <<rtc, clock, adjust, ats, receiverVars, wanted, synced>>

(* restore_ats: fopen truncates the file, fwrite fills it.                  *)
OpenAts ==
  /\ restore = "file"
  /\ \/ restore' = "fill" /\ ats' = Absent /\ synced' = FALSE
     \/ restore' = "set" /\ UNCHANGED <<ats, synced>>
  /\ UNCHANGED <<rtc, clock, adjust, r_adjust, r_epoch, receiverVars, wanted, late, good>>

FillAts ==
  /\ restore = "fill" /\ restore' = "set"
  /\ \/ /\ ats' = Millis(r_adjust)
        /\ synced' = (receiver = "idle" /\ r_adjust = Wrap(adjust))
     \/ UNCHANGED <<ats, synced>>
  /\ UNCHANGED <<rtc, clock, adjust, r_adjust, r_epoch, receiverVars, wanted, late, good>>

(* settimeofday takes whole seconds.  It refuses a time before 1970, and    *)
(* may fail with any.                                                       *)
SetClockUnwrapped ==                      \* mutant: the sum does not wrap
  /\ restore = "set" /\ restore' = "done"
  /\ clock' = Second * (r_epoch + r_adjust)
  /\ r_adjust' = 0 /\ r_epoch' = 0
  /\ good' = With("clock", "restore" \in good) \ {"restore"}
  /\ UNCHANGED <<rtc, adjust, ats, receiverVars, wanted, late, synced>>

SetClock ==
  /\ restore = "set" /\ restore' = "done"
  /\ \/ RestoreEnds /\ UNCHANGED clock
     \/ LET t == Signed(Wrap(r_epoch + r_adjust)) IN
          /\ t >= 0 /\ clock' = Second * t
          /\ r_adjust' = 0 /\ r_epoch' = 0
          /\ good' = With("clock", "restore" \in good) \ {"restore"}
  /\ UNCHANGED <<rtc, adjust, ats, receiverVars, wanted, late, synced>>
---------------------------------------------------------------------------
(* onReceive: ACTION_TIME_CHANGED, ACTION_TIMEZONE_CHANGED, ACTION_SHUTDOWN *)
ReadClock ==
  /\ On /\ receiver = "idle"
  /\ receiver' = "epoch" /\ seconds' = Secs(clock)
  /\ late + Part(clock) <= MaxLate /\ late' = late + Part(clock)
  /\ good' = With("receiver", "clock" \in good)
  /\ UNCHANGED <<rtc, clock, adjust, ats, restoreVars, wanted, synced>>

(* readEpoch, which returns 0 if the RTC cannot be read: the whole time is  *)
(* taken for the offset, and would be again after the next restore; the     *)
(* guard MaxTime bounds that.                                               *)
SubtractEpoch ==
  /\ receiver = "epoch" /\ receiver' = "property"
  /\ \/ seconds' = seconds - Secs(rtc) /\ UNCHANGED good
     \/ /\ seconds <= MaxTime
        /\ UNCHANGED seconds /\ good' = good \ {"receiver"}
  /\ UNCHANGED <<rtc, clock, adjust, ats, restoreVars, wanted, late, synced>>

SetProperty ==
  /\ receiver = "property" /\ receiver' = "file"
  /\ adjust' = seconds
  /\ synced' = FALSE
  /\ good' = With("adjust", "receiver" \in good)
  /\ UNCHANGED <<rtc, clock, ats, restoreVars, seconds, wanted, late>>

(* writeATS: FileOutputStream truncates the file, or cannot open it.        *)
TruncateAts ==
  /\ receiver = "file"
  /\ \/ receiver' = "fill" /\ ats' = Absent
     \/ receiver' = "idle" /\ UNCHANGED ats
  /\ UNCHANGED <<rtc, clock, adjust, restoreVars, seconds, wanted, late, good, synced>>

WriteSeconds ==                           \* mutant: not in milliseconds
  /\ receiver = "fill" /\ receiver' = "idle"
  /\ ats' = Wrap(seconds) /\ synced' = (restore \notin Running)
  /\ UNCHANGED <<rtc, clock, adjust, restoreVars, seconds, wanted, late, good>>

WriteAts ==
  /\ receiver = "fill" /\ receiver' = "idle"
  /\ \/ ats' = Millis(seconds) /\ synced' = (restore \notin Running)
     \/ UNCHANGED <<ats, synced>>
  /\ UNCHANGED <<rtc, clock, adjust, restoreVars, seconds, wanted, late, good>>

TimekeepNext ==
  \/ Tick \/ Boot \/ PowerOff \/ SetTime
  \/ ReadProperty \/ ReadEpoch \/ OpenAts \/ FillAts \/ SetClock
  \/ ReadClock \/ SubtractEpoch \/ SetProperty \/ TruncateAts \/ WriteAts

TimekeepSpec == TimekeepInit /\ [][TimekeepNext]_timeVars
---------------------------------------------------------------------------
(* Type correctness.                                                        *)
TimekeepTypeOK ==
  /\ rtc \in Nat /\ clock \in Nat /\ wanted \in Int /\ late \in Nat
  /\ adjust = Absent \/ adjust \in Int
  /\ ats = Absent \/ ats \in 0..(Width - 1)
  /\ restore \in {"off", "property", "done"} \cup Running
  /\ r_adjust \in 0..(Width - 1) /\ r_epoch \in Nat
  /\ receiver \in {"idle", "epoch", "property", "file", "fill"}
  /\ seconds \in Int
  /\ good \subseteq {"clock", "adjust", "restore", "receiver"}
  /\ synced \in BOOLEAN

(* off is less than a second more than the wanted offset, and less than it  *)
(* by no more than was lost.                                                *)
Follows(off) == wanted - late <= off /\ off < wanted + Second

(* "settimeofday is set with the sum of the two": over any number of boots, *)
(* with the receiver and restore_time interleaved, with time passing        *)
(* between their reads and offsets below 0, a clock and an offset that go   *)
(* back to what the user set are never ahead of it by a whole second, and   *)
(* behind it only by the time that passed between the two accesses of one   *)
(* of them and by the fractions that were cut off a clock or RTC it read.   *)
(* What is stored before the clock is restored, or computed from an RTC     *)
(* that could not be read, does not go back to what the user set: see       *)
(* OffsetKept.                                                              *)
NeverAhead ==
  /\ "clock" \in good  => Follows(clock - rtc)
  /\ "adjust" \in good => Follows(Second * adjust)

(* "TimeKeep is a small utility to keep track of time & date" (README.md):  *)
(* the receiver does not replace an offset that goes back to what the user  *)
(* set by one that does not follow it.  It does, when it runs before        *)
(* restore_time has set the clock.                                          *)
OffsetKept ==
  [][receiver = "property" /\ receiver' = "file" /\ "adjust" \in good
       => Follows(Second * adjust)']_timeVars

(* The file agrees with the property modulo 2^64 once it has been written,  *)
(* unless the receiver and restore_time were at it together.                *)
FileAgrees == synced /\ adjust # Absent => ats = Millis(adjust)
=============================================================================
