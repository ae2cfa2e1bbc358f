---------------------------- MODULE TimekeepProofs ----------------------------
(***************************************************************************)
(* Theorems about Timekeep, for every bound on the times, every width of   *)
(* the integers that holds them, and any number of boots.                  *)
(***************************************************************************)
EXTENDS Timekeep, TLAPS

Bounded == /\ rtc <= Second * MaxRtc
           /\ wanted \in (-(Second * MaxRtc))..(Second * MaxTime)

(* The wanted offset in whole seconds, rounded up: no offset that goes back *)
(* to it is larger.                                                         *)
RoundUp(w) == -((-w) \div Second)

(* An offset in fractions of a second, and one in seconds, that goes back   *)
(* to the wanted offset w and may have lost l since.                        *)
ClockFollows(off, w, l)  == w - l <= off /\ off <= Second * RoundUp(w)
AdjustFollows(off, w, l) ==
  off \in (-MaxRtc)..MaxTime /\ w - l <= Second * off /\ off <= RoundUp(w)

(* An epoch e and an offset a make a time that is not too early at time t   *)
(* of the RTC; a time s the receiver has read is none that is too late.     *)
SumFollows(e, a, t, w, l) ==
  Second * e <= t /\ e <= MaxRtc /\ w - l <= Second * (e + a) - t
ReadFollows(s, t, w, l) ==
  s \in Nat /\ w - l <= Second * s - t /\ s <= Secs(t) + RoundUp(w)

ClockOK == /\ ~On => good \subseteq {"adjust"}
           /\ "clock" \in good => ClockFollows(clock - rtc, wanted, late)

AdjustOK == "adjust" \in good => AdjustFollows(adjust, wanted, late)

(* What restore_time has read stands for an offset that follows the wanted  *)
(* one, and with the RTC it has read for a time that is not too early.      *)
RestoreOK == "restore" \in good =>
  /\ restore \in Running
  /\ AdjustFollows(Signed(r_adjust), wanted, late)
  /\ restore # "epoch" => SumFollows(r_epoch, Signed(r_adjust), rtc, wanted, late)

(* The receiver has read the clock, and then subtracted the RTC.            *)
ReceiverOK == "receiver" \in good =>
  /\ receiver = "epoch" => ReadFollows(seconds, rtc, wanted, late)
  /\ receiver = "property" => AdjustFollows(seconds, wanted, late)

(* Between the property and the file the receiver holds the property.       *)
FileOK == /\ receiver \in {"file", "fill"} => adjust = seconds /\ ~synced
          /\ FileAgrees

(* The inductive invariant.                                                 *)
TimekeepInv == /\ TimekeepTypeOK /\ Bounded /\ ClockOK /\ AdjustOK
               /\ RestoreOK /\ ReceiverOK /\ FileOK
---------------------------------------------------------------------------
LEMMA WidthIsPositive == Width \in Nat /\ Width > 0
BY TimeAssumption, WidthAssumption

LEMMA WrapRange == \A x \in Int : Wrap(x) \in 0..(Width - 1)
BY WidthIsPositive DEF Wrap

(* Whole seconds and what they cut off.                                     *)
LEMMA SecondsOf ==
  ASSUME NEW x \in Int
  PROVE  /\ Secs(x) \in Int /\ Part(x) \in 0..(Second - 1) /\ x = Second * Secs(x) + Part(x)
         /\ Second * Secs(x) <= x
         /\ x >= 0 => Secs(x) \in Nat
BY SecondAssumption DEF Secs, Part

LEMMA Fractions == \A x \in Int : Part(x) \in Nat
BY SecondAssumption DEF Part

(* Products with a second keep the order, up to a second.                   *)
LEMMA SecondsOrder ==
  ASSUME NEW a \in Int, NEW b \in Int, Second * a < Second * b + Second
  PROVE  a <= b
<1>1. a - b >= 1 => Second * (a - b) >= Second
  BY SecondAssumption
<1>2. Second * (a - b) = Second * a - Second * b
  BY SecondAssumption
<1>3. QED
  BY <1>1, <1>2, SecondAssumption

LEMMA SecondsMonotone ==
  ASSUME NEW x \in Int, NEW y \in Int, x <= y
  PROVE  Secs(x) <= Secs(y)
<1>1. Second * Secs(x) < Second * Secs(y) + Second
  BY SecondsOf, SecondAssumption
<1>2. QED
  BY <1>1, SecondsOf, SecondsOrder

LEMMA SecondsRange == \A x \in 0..(Second * MaxRtc) : Secs(x) \in 0..MaxRtc
<1> SUFFICES ASSUME NEW x \in 0..(Second * MaxRtc) PROVE Secs(x) \in 0..MaxRtc
  OBVIOUS
<1>1. Second * MaxRtc \in Int /\ x \in Int
  BY TimeAssumption, SecondAssumption
<1>2. Secs(x) \in Nat /\ Second * Secs(x) <= x
  BY <1>1, SecondsOf
<1>3. Second * Secs(x) < Second * MaxRtc + Second
  BY <1>1, <1>2, SecondAssumption
<1>4. QED
  BY <1>2, <1>3, SecondsOrder, TimeAssumption

LEMMA RoundedUp ==
  ASSUME NEW w \in Int
  PROVE  /\ RoundUp(w) \in Int /\ w <= Second * RoundUp(w) /\ Second * RoundUp(w) < w + Second
         /\ w <= Second * MaxTime => RoundUp(w) <= MaxTime
<1> DEFINE q == (-w) \div Second
<1>1. q \in Int /\ Second * q <= -w /\ -w < Second * q + Second
  BY SecondAssumption
<1>2. RoundUp(w) = -q /\ Second * RoundUp(w) = -(Second * q)
  BY <1>1, SecondAssumption DEF RoundUp
<1> HIDE DEF q
<1>3. ASSUME w <= Second * MaxTime PROVE RoundUp(w) <= MaxTime
  <2>1. Second * RoundUp(w) < Second * MaxTime + Second
    BY <1>1, <1>2, <1>3, SecondAssumption, TimeAssumption
  <2>2. QED
    BY <1>1, <1>2, <2>1, SecondsOrder, TimeAssumption
<1>4. QED
  BY <1>1, <1>2, <1>3, SecondAssumption

(* What follows an offset follows it when more may have been lost, and the  *)
(* time that passes while one is at work is lost.                           *)
LEMMA MoreIsLost ==
  ASSUME NEW w \in Int, NEW l \in Nat, NEW m \in Nat, l <= m
  PROVE  /\ \A off \in Int : ClockFollows(off, w, l) => ClockFollows(off, w, m)
         /\ \A off \in Int : AdjustFollows(off, w, l) => AdjustFollows(off, w, m)
         /\ \A e \in Nat, a \in Int, t \in Nat :
              SumFollows(e, a, t, w, l) => SumFollows(e, a, t, w, m)
         /\ \A s \in Int, t \in Nat : ReadFollows(s, t, w, l) => ReadFollows(s, t, w, m)
BY SecondAssumption, RoundedUp DEF ClockFollows, AdjustFollows, SumFollows, ReadFollows

LEMMA TimePasses ==
  ASSUME NEW w \in Int, NEW l \in Nat, NEW t \in Nat
  PROVE  /\ \A e \in Nat, a \in Int :
              SumFollows(e, a, t, w, l) => SumFollows(e, a, t + 1, w, l + 1)
         /\ \A s \in Int : ReadFollows(s, t, w, l) => ReadFollows(s, t + 1, w, l + 1)
<1>1. Secs(t) <= Secs(t + 1) /\ Secs(t) \in Int /\ Secs(t + 1) \in Int /\ RoundUp(w) \in Int
  BY SecondsMonotone, SecondsOf, RoundedUp
<1>2. ASSUME NEW e \in Nat, NEW a \in Int, SumFollows(e, a, t, w, l)
      PROVE  SumFollows(e, a, t + 1, w, l + 1)
  BY <1>2, SecondAssumption DEF SumFollows
<1>3. ASSUME NEW s \in Int, ReadFollows(s, t, w, l) PROVE ReadFollows(s, t + 1, w, l + 1)
  BY <1>1, <1>3, SecondAssumption DEF ReadFollows
<1>4. QED
  BY <1>2, <1>3

(* Reading the clock, and subtracting the RTC.                              *)
LEMMA ClockRead ==
  ASSUME NEW w \in Int, NEW l \in Nat, NEW c \in Nat, NEW t \in Nat, ClockFollows(c - t, w, l)
  PROVE  ReadFollows(Secs(c), t, w, l + Part(c))
<1>1. /\ Secs(c) \in Nat /\ c = Second * Secs(c) + Part(c) /\ Part(c) \in 0..(Second - 1)
      /\ Second * Secs(c) <= c
  <2>1. c \in Int /\ c >= 0
    OBVIOUS
  <2>2. QED
    BY <2>1, SecondsOf, Zenon
<1>2. /\ Secs(t) \in Int /\ t < Second * Secs(t) + Second /\ RoundUp(w) \in Int
  <2>1. /\ Secs(t) \in Int /\ Part(t) \in 0..(Second - 1) /\ t = Second * Secs(t) + Part(t)
    <3>1. t \in Int
      OBVIOUS
    <3>2. QED
      BY <3>1, SecondsOf, Zenon
  <2>2. t < Second * Secs(t) + Second
    BY <2>1, SecondAssumption
  <2>3. QED
    BY <2>1, <2>2, RoundedUp
<1>3. Second * (Secs(t) + RoundUp(w)) = Second * Secs(t) + Second * RoundUp(w)
  BY <1>2, SecondAssumption
<1>4. Second * Secs(c) < Second * (Secs(t) + RoundUp(w)) + Second
  <2>1. PICK p \in Int, q \in Int, r \in Int :
          p = Second * Secs(c) /\ q = Second * Secs(t) /\ r = Second * RoundUp(w)
    BY <1>1, <1>2, SecondAssumption
  <2>2. p <= c /\ t < q + Second /\ c - t <= r
    BY <1>1, <1>2, <2>1 DEF ClockFollows
  <2>3. p < q + r + Second
    BY <2>2, SecondAssumption
  <2>4. QED
    BY <1>3, <2>1, <2>3
<1>5. Secs(c) <= Secs(t) + RoundUp(w)
  BY <1>1, <1>2, <1>4, SecondsOrder
<1>6. w - (l + Part(c)) <= Second * Secs(c) - t
  <2>1. PICK p \in Int : p = Second * Secs(c)
    BY <1>1, SecondAssumption
  <2>2. c = p + Part(c) /\ w - l <= c - t /\ Part(c) \in Int
    BY <1>1, <2>1, SecondAssumption DEF ClockFollows
  <2>3. w - (l + Part(c)) <= p - t
    BY <2>2
  <2>4. QED
    BY <2>1, <2>3
<1>7. QED
  BY <1>1, <1>5, <1>6 DEF ReadFollows

LEMMA EpochSubtracted ==
  ASSUME NEW w \in Int, NEW l \in Nat, NEW s \in Int, NEW t \in 0..(Second * MaxRtc),
         w <= Second * MaxTime, ReadFollows(s, t, w, l)
  PROVE  AdjustFollows(s - Secs(t), w, l)
<1>1. Secs(t) \in 0..MaxRtc /\ Second * Secs(t) <= t /\ t \in Int
  BY SecondsRange, SecondsOf, SecondAssumption, TimeAssumption
<1>2. RoundUp(w) \in Int /\ RoundUp(w) <= MaxTime
  BY RoundedUp
<1>3. Second * (s - Secs(t)) = Second * s - Second * Secs(t)
  BY <1>1, SecondAssumption, TimeAssumption
<1>4. QED
  BY <1>1, <1>2, <1>3, SecondAssumption, TimeAssumption DEF ReadFollows, AdjustFollows

(* Reading the RTC, and adding the offset.                                  *)
LEMMA EpochRead ==
  ASSUME NEW w \in Int, NEW l \in Nat, NEW a \in Int, NEW t \in 0..(Second * MaxRtc),
         AdjustFollows(a, w, l)
  PROVE  SumFollows(Secs(t), a, t, w, l + Part(t))
<1>1. /\ Secs(t) \in 0..MaxRtc /\ t = Second * Secs(t) + Part(t) /\ Part(t) \in Nat /\ t \in Int
      /\ Second * Secs(t) <= t
  <2>1. t \in Int
    BY SecondAssumption, TimeAssumption
  <2>2. /\ t = Second * Secs(t) + Part(t) /\ Part(t) \in 0..(Second - 1)
        /\ Second * Secs(t) <= t
    BY <2>1, SecondsOf, Zenon
  <2>3. Part(t) \in Nat
    BY <2>2, SecondAssumption
  <2>4. QED
    BY <2>1, <2>2, <2>3, SecondsRange
<1>2. Second * (Secs(t) + a) = Second * Secs(t) + Second * a
  BY <1>1, SecondAssumption, TimeAssumption
<1>3. QED
  BY <1>1, <1>2, SecondAssumption, TimeAssumption DEF SumFollows, AdjustFollows

LEMMA EpochAdded ==
  ASSUME NEW w \in Int, NEW l \in Nat, NEW a \in Int, NEW e \in Nat, NEW t \in Nat,
         AdjustFollows(a, w, l), SumFollows(e, a, t, w, l)
  PROVE  ClockFollows(Second * (e + a) - t, w, l)
<1>1. RoundUp(w) \in Int /\ Second * (e + a) = Second * e + Second * a
  BY RoundedUp, SecondAssumption
<1>2. Second * a <= Second * RoundUp(w)
  <2>1. RoundUp(w) - a \in Nat
    BY <1>1 DEF AdjustFollows
  <2>2. Second * (RoundUp(w) - a) \in Nat
    BY <2>1, SecondAssumption
  <2>3. Second * (RoundUp(w) - a) = Second * RoundUp(w) - Second * a
    BY <1>1, SecondAssumption
  <2>4. QED
    BY <1>1, <2>2, <2>3, SecondAssumption
<1>3. QED
  BY <1>1, <1>2, SecondAssumption DEF SumFollows, ClockFollows

(* A multiple of the width makes no difference.                             *)
LEMMA WrapShift ==
  ASSUME NEW x \in Int, NEW k \in Int
  PROVE  Wrap(x + Width * k) = Wrap(x)
<1> DEFINE y == x + Width * k
           d == (y \div Width) - (x \div Width) - k
<1>1. /\ x = Width * (x \div Width) + (x % Width) /\ x % Width \in 0..(Width - 1)
      /\ x \div Width \in Int
  BY WidthIsPositive
<1>2. y \in Int
  BY WidthIsPositive
<1>3. /\ y = Width * (y \div Width) + (y % Width) /\ y % Width \in 0..(Width - 1)
      /\ y \div Width \in Int
  BY <1>2, WidthIsPositive
<1>4. PICK u \in Int, v \in Int, r \in 0..(Width - 1), s \in 0..(Width - 1) :
        u = x \div Width /\ v = y \div Width /\ r = x % Width /\ s = y % Width
  BY <1>1, <1>3
<1>5. Width * (v - u - k) = r - s
  BY <1>1, <1>3, <1>4, WidthIsPositive
<1>6. v - u - k = 0
  <2>1. v - u - k >= 1 => Width * (v - u - k) >= Width
    BY WidthIsPositive
  <2>2. v - u - k <= -1 => Width * (v - u - k) <= -Width
    BY WidthIsPositive
  <2>3. QED
    BY <1>5, <2>1, <2>2, WidthIsPositive
<1>7. QED
  BY <1>4, <1>5, <1>6, WidthIsPositive DEF Wrap

(* The file does not tell an offset from what strtoull makes of it.         *)
LEMMA MillisOfWrapped == \A x \in Int : Millis(Wrap(x)) = Millis(x)
<1> SUFFICES ASSUME NEW x \in Int PROVE Millis(Wrap(x)) = Millis(x)
  OBVIOUS
<1>1. PICK u \in Int, r \in Int : u = x \div Width /\ r = Wrap(x) /\ x = Width * u + r
  BY WidthIsPositive DEF Wrap
<1>2. 1000 * x = 1000 * r + Width * (1000 * u)
  BY <1>1, WidthIsPositive
<1>3. Wrap(1000 * r + Width * (1000 * u)) = Wrap(1000 * r)
  BY WrapShift
<1>4. QED
  BY <1>1, <1>2, <1>3 DEF Millis

(* An offset below 0 comes out of the conversions as what it was.           *)
LEMMA OffsetComesBack == \A x \in (-MaxRtc)..MaxTime : Signed(Wrap(x)) = x
<1> SUFFICES ASSUME NEW x \in (-MaxRtc)..MaxTime PROVE Signed(Wrap(x)) = x
  OBVIOUS
<1>1. CASE x >= 0
  BY <1>1, TimeAssumption, WidthAssumption DEF Wrap, Signed
<1>2. CASE x < 0
  <2>1. x % Width = x + Width
    BY <1>2, TimeAssumption, WidthAssumption
  <2>2. QED
    BY <1>2, <2>1, TimeAssumption, WidthAssumption DEF Wrap, Signed
<1>3. QED
  BY <1>1, <1>2, TimeAssumption

(* So does the sum that settimeofday is given.                              *)
LEMMA SumComesOut ==
  ASSUME NEW r \in 0..(Width - 1), Signed(r) \in (-MaxRtc)..MaxTime, NEW e \in 0..MaxRtc
  PROVE  Signed(Wrap(e + r)) = e + Signed(r)
<1> USE TimeAssumption, WidthAssumption
<1>1. CASE r < Width \div 2
  <2>1. Signed(r) = r
    BY <1>1 DEF Signed
  <2>2. e + r \in 0..(Width - 1) /\ e + r < Width \div 2
    BY <2>1
  <2>3. (e + r) % Width = e + r
    BY <2>2
  <2>4. QED
    BY <2>1, <2>2, <2>3 DEF Wrap, Signed
<1>2. CASE r >= Width \div 2
  <2>1. Signed(r) = r - Width
    BY <1>2 DEF Signed
  <2>2. CASE e + r < Width
    <3>1. (e + r) % Width = e + r
      BY <2>2
    <3>2. QED
      BY <1>2, <2>1, <2>2, <3>1 DEF Wrap, Signed
  <2>3. CASE e + r >= Width
    <3>1. (e + r) % Width = e + r - Width
      BY <2>3
    <3>2. e + r - Width < Width \div 2
      BY <2>1
    <3>3. QED
      BY <2>1, <2>3, <3>1, <3>2 DEF Wrap, Signed
  <2>4. QED
    BY <2>2, <2>3
<1>3. QED
  BY <1>1, <1>2
---------------------------------------------------------------------------
(* Every step keeps the types.                                              *)
LEMMA Types ==
  ASSUME TimekeepTypeOK, [TimekeepNext]_timeVars
  PROVE  TimekeepTypeOK'
<1> USE TimeAssumption, SecondAssumption, AbsentAssumption DEF TimekeepTypeOK, Running, restoreVars, receiverVars
<1>1. CASE Tick
  BY <1>1 DEF Tick, On
<1>2. CASE Boot
  BY <1>2 DEF Boot, On
<1>3. CASE PowerOff
  <2>1. rtc' \in Nat /\ good' \subseteq {"clock", "adjust", "restore", "receiver"}
    BY <1>3 DEF PowerOff
  <2>2. QED
    BY <1>3, <2>1, WidthIsPositive DEF PowerOff
<1>4. CASE SetTime
  <2>1. PICK t \in 0..(Second * MaxTime) : clock' = t /\ wanted' = t - rtc
    BY <1>4 DEF SetTime
  <2>2. clock' \in Nat /\ wanted' \in Int
    BY <2>1
  <2>3. QED
    BY <1>4, <2>2 DEF SetTime, On
<1>5. CASE ReadProperty
  <2>1. r_adjust' \in 0..(Width - 1)
    BY <1>5, WrapRange DEF ReadProperty
  <2>2. good' \subseteq {"clock", "adjust", "restore", "receiver"}
    BY <1>5 DEF ReadProperty, With
  <2>3. restore' \in {"epoch", "done"}
    BY <1>5 DEF ReadProperty
  <2>4. QED
    BY <1>5, <2>1, <2>2, <2>3 DEF ReadProperty
<1>6. CASE ReadEpoch
  <2>1. Secs(rtc) \in Nat /\ Part(rtc) \in Nat
    BY SecondsOf, Fractions
  <2>2. r_adjust' \in 0..(Width - 1) /\ r_epoch' \in Nat
    BY <1>6, <2>1, WidthIsPositive DEF ReadEpoch, RestoreEnds
  <2>3. late' \in Nat /\ good' \subseteq {"clock", "adjust", "restore", "receiver"}
    <3>1. late' = late \/ late' = late + Part(rtc)
      BY <1>6 DEF ReadEpoch
    <3>2. good' = good \/ good' = good \ {"restore"}
      BY <1>6 DEF ReadEpoch, RestoreEnds
    <3>3. late' \in Nat
      <4>1. late \in Nat
        OBVIOUS
      <4>2. ASSUME NEW l \in Nat, NEW p \in Nat PROVE l + p \in Nat
        OBVIOUS
      <4>3. QED
        BY <2>1, <3>1, <4>1, <4>2, Zenon
    <3>4. good' \subseteq {"clock", "adjust", "restore", "receiver"}
      BY <3>2
    <3>5. QED
      BY <3>3, <3>4
  <2>4. restore' \in {"file", "done"}
    BY <1>6 DEF ReadEpoch
  <2>5. QED
    BY <1>6, <2>2, <2>3, <2>4 DEF ReadEpoch
<1>7. CASE OpenAts
  BY <1>7 DEF OpenAts
<1>8. CASE FillAts
  <2>1. Millis(r_adjust) \in 0..(Width - 1)
    BY WrapRange DEF Millis
  <2>2. ats' = Absent \/ ats' \in 0..(Width - 1)
    BY <1>8, <2>1 DEF FillAts
  <2>3. synced' \in BOOLEAN
    BY <1>8 DEF FillAts
  <2>4. QED
    BY <1>8, <2>2, <2>3 DEF FillAts
<1>9. CASE SetClock
  <2>1. Signed(Wrap(r_epoch + r_adjust)) \in Int
    <3>1. Wrap(r_epoch + r_adjust) \in 0..(Width - 1)
      BY WrapRange
    <3>2. QED
      BY <3>1, WidthIsPositive DEF Signed
  <2>2. r_adjust' = 0 /\ r_epoch' = 0
    BY <1>9 DEF SetClock, RestoreEnds
  <2>3. clock' \in Nat
    <3>1. CASE clock' = clock
      BY <3>1
    <3>2. ASSUME NEW t \in Int, t >= 0, clock' = Second * t PROVE clock' \in Nat
      BY <3>2
    <3>3. QED
      BY <1>9, <2>1, <3>1, <3>2 DEF SetClock
  <2>4. good' \subseteq {"clock", "adjust", "restore", "receiver"}
    BY <1>9 DEF SetClock, RestoreEnds, With
  <2>5. QED
    BY <1>9, <2>2, <2>3, <2>4, WidthIsPositive DEF SetClock
<1>10. CASE ReadClock
  <2>1. Secs(clock) \in Int /\ Part(clock) \in Nat
    BY SecondsOf, Fractions
  <2>2. seconds' \in Int /\ late' \in Nat /\ receiver' = "epoch"
    BY <1>10, <2>1 DEF ReadClock
  <2>3. good' \subseteq {"clock", "adjust", "restore", "receiver"}
    BY <1>10 DEF ReadClock, With
  <2>4. QED
    BY <1>10, <2>2, <2>3 DEF ReadClock
<1>11. CASE SubtractEpoch
  <2>1. seconds' = seconds - Secs(rtc) \/ seconds' = seconds
    BY <1>11 DEF SubtractEpoch
  <2>2. seconds' \in Int
    BY <2>1, SecondsOf
  <2>3. good' \subseteq {"clock", "adjust", "restore", "receiver"}
    BY <1>11 DEF SubtractEpoch
  <2>4. QED
    BY <1>11, <2>2, <2>3 DEF SubtractEpoch
<1>12. CASE SetProperty
  BY <1>12 DEF SetProperty, With
<1>13. CASE TruncateAts
  BY <1>13 DEF TruncateAts
<1>14. CASE WriteAts
  <2>1. Millis(seconds) \in 0..(Width - 1)
    BY WrapRange DEF Millis
  <2>2. ats' = Absent \/ ats' \in 0..(Width - 1)
    BY <1>14, <2>1 DEF WriteAts
  <2>3. synced' \in BOOLEAN
    BY <1>14 DEF WriteAts
  <2>4. QED
    BY <1>14, <2>2, <2>3 DEF WriteAts
<1>15. CASE UNCHANGED timeVars
  BY <1>15 DEF timeVars
<1>16. QED
  BY <1>1, <1>2, <1>3, <1>4, <1>5, <1>6, <1>7, <1>8, <1>9, <1>10, <1>11, <1>12, <1>13,
     <1>14, <1>15 DEF TimekeepNext

(* The clock and the bounds.                                                *)
LEMMA ClockKept ==
  ASSUME TimekeepTypeOK, Bounded, ClockOK, RestoreOK, [TimekeepNext]_timeVars
  PROVE  (Bounded /\ ClockOK)'
<1> USE TimeAssumption, AbsentAssumption DEF Bounded, ClockOK, RestoreOK, TimekeepTypeOK, On, Running, restoreVars, receiverVars
<1>1. CASE Tick
  <2>1. late' \in Nat /\ late <= late'
    BY <1>1 DEF Tick
  <2>2. wanted' = wanted /\ On' = On /\ good' = good /\ rtc' \in Nat /\ rtc' <= Second * MaxRtc
    BY <1>1, SecondAssumption DEF Tick
  <2>3. "clock" \in good => clock' - rtc' = clock - rtc
    BY <1>1 DEF Tick
  <2>4. "clock" \in good => ClockFollows(clock - rtc, wanted, late')
    BY <2>1, MoreIsLost
  <2>5. QED
    BY <2>2, <2>3, <2>4
<1>2. CASE Boot
  BY <1>2 DEF Boot, On
<1>3. CASE PowerOff
  <2>1. Second * MaxRtc \in Nat
    BY SecondAssumption
  <2>2. Bounded'
    BY <1>3, <2>1 DEF PowerOff
  <2>3. ~On' /\ good' \subseteq {"adjust"}
    BY <1>3 DEF PowerOff
  <2>4. QED
    BY <2>2, <2>3
<1>4. CASE SetTime
  <2>1. PICK t \in 0..(Second * MaxTime) : clock' = t /\ wanted' = t - rtc
    BY <1>4 DEF SetTime
  <2>2. wanted' \in (-(Second * MaxRtc))..(Second * MaxTime)
    <3>1. PICK m \in Nat, n \in Nat : m = Second * MaxRtc /\ n = Second * MaxTime
      BY SecondAssumption
    <3>2. t - rtc \in (-m)..n
      BY <2>1, <3>1
    <3>3. QED
      BY <2>1, <3>1, <3>2
  <2>3. clock' - rtc = wanted' /\ wanted' \in Int /\ late' = 0
    BY <1>4, <2>1 DEF SetTime
  <2>4. UNCHANGED <<rtc, restore>> /\ rtc \in Nat /\ On /\ On' /\ good' = {"clock"}
    BY <1>4 DEF SetTime
  <2>5. Bounded'
    BY <2>2, <2>4
  <2>6. ClockFollows(clock' - rtc, wanted', late')
    BY <2>3, RoundedUp DEF ClockFollows
  <2>7. QED
    BY <2>4, <2>5, <2>6
<1>5. CASE ReadProperty
  BY <1>5 DEF ReadProperty, With
<1>6. CASE ReadEpoch
  <2>1. Part(rtc) \in Nat
    BY Fractions
  <2>2. late' \in Nat /\ late <= late'
    BY <1>6, <2>1 DEF ReadEpoch
  <2>3. UNCHANGED <<rtc, clock, wanted>> /\ On /\ On' /\ good' \subseteq good
    BY <1>6 DEF ReadEpoch, RestoreEnds
  <2>4. "clock" \in good => ClockFollows(clock - rtc, wanted, late')
    BY <2>2, MoreIsLost
  <2>5. QED
    BY <2>3, <2>4
<1>7. CASE OpenAts
  BY <1>7 DEF OpenAts
<1>8. CASE FillAts
  BY <1>8 DEF FillAts
<1>9. CASE SetClock
  <2>1. ASSUME "restore" \in good
        PROVE  /\ Signed(Wrap(r_epoch + r_adjust)) = r_epoch + Signed(r_adjust)
               /\ ClockFollows(Second * (r_epoch + Signed(r_adjust)) - rtc, wanted, late)
    <3>1. /\ SumFollows(r_epoch, Signed(r_adjust), rtc, wanted, late)
          /\ AdjustFollows(Signed(r_adjust), wanted, late)
      BY <1>9, <2>1 DEF SetClock
    <3>2. r_epoch \in 0..MaxRtc /\ Signed(r_adjust) \in (-MaxRtc)..MaxTime
      BY <3>1 DEF SumFollows, AdjustFollows
    <3>3. Signed(Wrap(r_epoch + r_adjust)) = r_epoch + Signed(r_adjust)
      BY <3>2, SumComesOut
    <3>4. ClockFollows(Second * (r_epoch + Signed(r_adjust)) - rtc, wanted, late)
      <4>1. Signed(r_adjust) \in Int /\ r_epoch \in Nat /\ rtc \in Nat /\ wanted \in Int /\ late \in Nat
        BY <3>2
      <4>2. QED
        BY <3>1, <4>1, EpochAdded
    <3>5. QED
      BY <3>3, <3>4
  <2>2. On /\ On' /\ UNCHANGED <<rtc, wanted, late>>
    BY <1>9 DEF SetClock
  <2>3. "clock" \in good' =>
          \/ clock' = clock /\ "clock" \in good
          \/ "restore" \in good /\ clock' = Second * Signed(Wrap(r_epoch + r_adjust))
    BY <1>9 DEF SetClock, RestoreEnds, With
  <2>4. "clock" \in good' => ClockFollows(clock' - rtc, wanted, late)
    BY <2>1, <2>3
  <2>5. QED
    BY <2>2, <2>4
<1>10. CASE ReadClock
  <2>1. Part(clock) \in Nat
    BY Fractions
  <2>2. late' \in Nat /\ late <= late'
    BY <1>10, <2>1 DEF ReadClock
  <2>3. /\ UNCHANGED <<rtc, clock, wanted>> /\ On /\ On'
        /\ "clock" \in good' => "clock" \in good
    BY <1>10 DEF ReadClock, With, On
  <2>4. "clock" \in good => ClockFollows(clock - rtc, wanted, late')
    BY <2>2, MoreIsLost
  <2>5. QED
    BY <2>3, <2>4
<1>11. CASE SubtractEpoch
  BY <1>11 DEF SubtractEpoch
<1>12. CASE SetProperty
  BY <1>12 DEF SetProperty, With
<1>13. CASE TruncateAts
  BY <1>13 DEF TruncateAts
<1>14. CASE WriteAts
  BY <1>14 DEF WriteAts
<1>15. CASE UNCHANGED timeVars
  BY <1>15 DEF timeVars
<1>16. QED
  BY <1>1, <1>2, <1>3, <1>4, <1>5, <1>6, <1>7, <1>8, <1>9, <1>10, <1>11, <1>12, <1>13,
     <1>14, <1>15 DEF TimekeepNext

(* The property.                                                            *)
LEMMA AdjustKept ==
  ASSUME TimekeepTypeOK, Bounded, AdjustOK, ReceiverOK, [TimekeepNext]_timeVars
  PROVE  AdjustOK'
<1> USE TimeAssumption, AbsentAssumption DEF Bounded, AdjustOK, ReceiverOK, TimekeepTypeOK, Running, restoreVars, receiverVars
<1>1. CASE Tick
  <2>1. late' \in Nat /\ late <= late'
    BY <1>1, Fractions DEF Tick
  <2>2. "adjust" \in good => AdjustFollows(adjust, wanted, late')
    <3>1. "adjust" \in good => adjust \in Int
      BY DEF AdjustFollows
    <3>2. QED
      BY <2>1, <3>1, MoreIsLost
  <2>3. UNCHANGED <<adjust, wanted>> /\ ("adjust" \in good' => "adjust" \in good)
    BY <1>1 DEF Tick
  <2>4. QED
    BY <2>2, <2>3
<1>2. CASE Boot
  BY <1>2 DEF Boot, On
<1>3. CASE PowerOff
  BY <1>3 DEF PowerOff, On
<1>4. CASE SetTime
  BY <1>4 DEF SetTime, On
<1>5. CASE ReadProperty
  BY <1>5 DEF ReadProperty, With
<1>6. CASE ReadEpoch
  <2>1. late' \in Nat /\ late <= late'
    BY <1>6, Fractions DEF ReadEpoch
  <2>2. "adjust" \in good => AdjustFollows(adjust, wanted, late')
    <3>1. "adjust" \in good => adjust \in Int
      BY DEF AdjustFollows
    <3>2. QED
      BY <2>1, <3>1, MoreIsLost
  <2>3. UNCHANGED <<adjust, wanted>> /\ ("adjust" \in good' => "adjust" \in good)
    BY <1>6 DEF ReadEpoch, RestoreEnds
  <2>4. QED
    BY <2>2, <2>3
<1>7. CASE OpenAts
  BY <1>7 DEF OpenAts
<1>8. CASE FillAts
  BY <1>8 DEF FillAts
<1>9. CASE SetClock
  BY <1>9 DEF SetClock, RestoreEnds, With
<1>10. CASE ReadClock
  <2>1. late' \in Nat /\ late <= late'
    BY <1>10, Fractions DEF ReadClock
  <2>2. "adjust" \in good => AdjustFollows(adjust, wanted, late')
    <3>1. "adjust" \in good => adjust \in Int
      BY DEF AdjustFollows
    <3>2. QED
      BY <2>1, <3>1, MoreIsLost
  <2>3. UNCHANGED <<adjust, wanted>> /\ ("adjust" \in good' => "adjust" \in good)
    BY <1>10 DEF ReadClock, With
  <2>4. QED
    BY <2>2, <2>3
<1>11. CASE SubtractEpoch
  BY <1>11 DEF SubtractEpoch
<1>12. CASE SetProperty
  BY <1>12 DEF SetProperty, With
<1>13. CASE TruncateAts
  BY <1>13 DEF TruncateAts
<1>14. CASE WriteAts
  BY <1>14 DEF WriteAts
<1>15. CASE UNCHANGED timeVars
  BY <1>15 DEF timeVars
<1>16. QED
  BY <1>1, <1>2, <1>3, <1>4, <1>5, <1>6, <1>7, <1>8, <1>9, <1>10, <1>11, <1>12, <1>13,
     <1>14, <1>15 DEF TimekeepNext

(* What restore_time has read.                                              *)
LEMMA RestoreKept ==
  ASSUME TimekeepTypeOK, Bounded, ClockOK, AdjustOK, RestoreOK, [TimekeepNext]_timeVars
  PROVE  RestoreOK'
<1> USE TimeAssumption, AbsentAssumption DEF Bounded, AdjustOK, ClockOK, RestoreOK, TimekeepTypeOK, Running, restoreVars, receiverVars
<1>1. CASE Tick
  <2>1. late' \in Nat /\ late <= late' /\ UNCHANGED <<restore, r_adjust, r_epoch, wanted, good>>
    BY <1>1 DEF Tick
  <2>2. ASSUME "restore" \in good
        PROVE  AdjustFollows(Signed(r_adjust), wanted, late')
    <3>1. Signed(r_adjust) \in Int
      BY <2>2 DEF AdjustFollows
    <3>2. QED
      BY <2>1, <2>2, <3>1, MoreIsLost
  <2>3. ASSUME "restore" \in good, restore # "epoch"
        PROVE  SumFollows(r_epoch, Signed(r_adjust), rtc', wanted, late')
    <3>1. rtc' = rtc + 1 /\ late' = late + 1
      BY <1>1, <2>3 DEF Tick, AtWork
    <3>2. Signed(r_adjust) \in Int
      BY <2>3 DEF AdjustFollows
    <3>3. QED
      BY <2>3, <3>1, <3>2, TimePasses
  <2>4. QED
    BY <2>1, <2>2, <2>3
<1>2. CASE Boot
  BY <1>2 DEF Boot, On
<1>3. CASE PowerOff
  BY <1>3 DEF PowerOff, On
<1>4. CASE SetTime
  BY <1>4 DEF SetTime, On
<1>5. CASE ReadProperty
  <2>1. "restore" \in good' => \/ restore' = "epoch" /\ "adjust" \in good /\ r_adjust' = Wrap(adjust)
                               \/ "restore" \in good
    BY <1>5 DEF ReadProperty, With
  <2>2. "restore" \notin good
    BY <1>5 DEF ReadProperty
  <2>3. "adjust" \in good => Signed(Wrap(adjust)) = adjust
    BY OffsetComesBack DEF AdjustFollows
  <2>4. QED
    BY <1>5, <2>1, <2>2, <2>3 DEF ReadProperty
<1>6. CASE ReadEpoch
  <2> SUFFICES ASSUME "restore" \in good' PROVE RestoreOK'
    OBVIOUS
  <2>1. /\ restore' = "file" /\ r_epoch' = Secs(rtc) /\ late' = late + Part(rtc)
        /\ UNCHANGED <<rtc, r_adjust, wanted, good>>
    BY <1>6 DEF ReadEpoch, RestoreEnds
  <2>2. /\ AdjustFollows(Signed(r_adjust), wanted, late) /\ Signed(r_adjust) \in Int
        /\ rtc \in 0..(Second * MaxRtc)
    BY <2>1 DEF AdjustFollows
  <2>3. SumFollows(Secs(rtc), Signed(r_adjust), rtc, wanted, late')
    BY <2>1, <2>2, EpochRead
  <2>4. AdjustFollows(Signed(r_adjust), wanted, late')
    <3>1. Part(rtc) \in Nat
      BY <2>2, Fractions, TimeAssumption, SecondAssumption
    <3>2. /\ late \in Nat /\ late' \in Nat /\ late <= late'
          /\ wanted \in Int
      BY <2>1, <3>1
    <3>3. QED
      BY <2>2, <3>2, MoreIsLost
  <2>5. QED
    BY <2>1, <2>3, <2>4
<1>7. CASE OpenAts
  BY <1>7 DEF OpenAts
<1>8. CASE FillAts
  BY <1>8 DEF FillAts
<1>9. CASE SetClock
  BY <1>9 DEF SetClock, RestoreEnds, With
<1>10. CASE ReadClock
  <2>1. late' \in Nat /\ late <= late'
    BY <1>10, Fractions DEF ReadClock
  <2>2. /\ UNCHANGED <<restore, r_adjust, r_epoch, rtc, wanted>>
        /\ "restore" \in good' => "restore" \in good
    BY <1>10 DEF ReadClock, With
  <2>3. "restore" \in good =>
          /\ AdjustFollows(Signed(r_adjust), wanted, late')
          /\ restore # "epoch" => SumFollows(r_epoch, Signed(r_adjust), rtc, wanted, late')
    <3>1. "restore" \in good => Signed(r_adjust) \in Int
      BY DEF AdjustFollows
    <3>2. QED
      BY <2>1, <3>1, MoreIsLost
  <2>4. QED
    BY <2>2, <2>3
<1>11. CASE SubtractEpoch
  BY <1>11 DEF SubtractEpoch
<1>12. CASE SetProperty
  BY <1>12 DEF SetProperty, With
<1>13. CASE TruncateAts
  BY <1>13 DEF TruncateAts
<1>14. CASE WriteAts
  BY <1>14 DEF WriteAts
<1>15. CASE UNCHANGED timeVars
  BY <1>15 DEF timeVars
<1>16. QED
  BY <1>1, <1>2, <1>3, <1>4, <1>5, <1>6, <1>7, <1>8, <1>9, <1>10, <1>11, <1>12, <1>13,
     <1>14, <1>15 DEF TimekeepNext

(* What the receiver has read.                                              *)
LEMMA ReceiverKept ==
  ASSUME TimekeepTypeOK, Bounded, ClockOK, ReceiverOK, [TimekeepNext]_timeVars
  PROVE  ReceiverOK'
<1> USE TimeAssumption, AbsentAssumption DEF Bounded, ClockOK, ReceiverOK, TimekeepTypeOK, Running, restoreVars, receiverVars
<1>1. CASE Tick
  <2>1. late' \in Nat /\ late <= late' /\ UNCHANGED <<receiver, seconds, wanted, good>>
    BY <1>1 DEF Tick
  <2>2. ASSUME "receiver" \in good, receiver = "epoch"
        PROVE  ReadFollows(seconds, rtc', wanted, late')
    <3>1. rtc' = rtc + 1 /\ late' = late + 1
      BY <1>1, <2>2 DEF Tick, AtWork
    <3>2. QED
      BY <2>2, <3>1, TimePasses
  <2>3. ASSUME "receiver" \in good, receiver = "property"
        PROVE  AdjustFollows(seconds, wanted, late')
    BY <2>1, <2>3, MoreIsLost
  <2>4. QED
    BY <2>1, <2>2, <2>3
<1>2. CASE Boot
  BY <1>2 DEF Boot, On
<1>3. CASE PowerOff
  BY <1>3 DEF PowerOff, On
<1>4. CASE SetTime
  BY <1>4 DEF SetTime, On
<1>5. CASE ReadProperty
  BY <1>5 DEF ReadProperty, With
<1>6. CASE ReadEpoch
  <2>1. late' \in Nat /\ late <= late'
    BY <1>6, Fractions DEF ReadEpoch
  <2>2. /\ UNCHANGED <<receiver, seconds, rtc, wanted>>
        /\ "receiver" \in good' => "receiver" \in good
    BY <1>6 DEF ReadEpoch, RestoreEnds
  <2>3. QED
    BY <2>1, <2>2, MoreIsLost
<1>7. CASE OpenAts
  BY <1>7 DEF OpenAts
<1>8. CASE FillAts
  BY <1>8 DEF FillAts
<1>9. CASE SetClock
  BY <1>9 DEF SetClock, RestoreEnds, With
<1>10. CASE ReadClock
  <2>1. /\ receiver' = "epoch" /\ seconds' = Secs(clock) /\ late' = late + Part(clock)
        /\ UNCHANGED <<rtc, wanted>>
        /\ "receiver" \in good' => "clock" \in good
    BY <1>10 DEF ReadClock, With
  <2>2. "clock" \in good => ReadFollows(Secs(clock), rtc, wanted, late + Part(clock))
    BY ClockRead
  <2>3. QED
    BY <2>1, <2>2
<1>11. CASE SubtractEpoch
  <2> SUFFICES ASSUME "receiver" \in good' PROVE ReceiverOK'
    OBVIOUS
  <2>1. /\ receiver = "epoch" /\ receiver' = "property" /\ seconds' = seconds - Secs(rtc)
        /\ UNCHANGED <<rtc, wanted, late, good>>
    BY <1>11 DEF SubtractEpoch
  <2>2. ReadFollows(seconds, rtc, wanted, late) /\ rtc \in 0..(Second * MaxRtc)
    BY <2>1
  <2>3. AdjustFollows(seconds - Secs(rtc), wanted, late)
    BY <2>2, EpochSubtracted
  <2>4. QED
    BY <2>1, <2>3
<1>12. CASE SetProperty
  BY <1>12 DEF SetProperty, With
<1>13. CASE TruncateAts
  BY <1>13 DEF TruncateAts
<1>14. CASE WriteAts
  BY <1>14 DEF WriteAts
<1>15. CASE UNCHANGED timeVars
  BY <1>15 DEF timeVars
<1>16. QED
  BY <1>1, <1>2, <1>3, <1>4, <1>5, <1>6, <1>7, <1>8, <1>9, <1>10, <1>11, <1>12, <1>13,
     <1>14, <1>15 DEF TimekeepNext

(* The file.                                                                *)
LEMMA FileKept ==
  ASSUME TimekeepTypeOK, FileOK, [TimekeepNext]_timeVars
  PROVE  FileOK'
<1> USE TimeAssumption, AbsentAssumption DEF FileOK, FileAgrees, TimekeepTypeOK, Running, restoreVars, receiverVars
<1>1. CASE Tick
  BY <1>1 DEF Tick, On
<1>2. CASE Boot
  BY <1>2 DEF Boot, On
<1>3. CASE PowerOff
  BY <1>3 DEF PowerOff, On
<1>4. CASE SetTime
  BY <1>4 DEF SetTime, On
<1>5. CASE ReadProperty
  BY <1>5 DEF ReadProperty, With
<1>6. CASE ReadEpoch
  BY <1>6 DEF ReadEpoch, RestoreEnds
<1>7. CASE OpenAts
  BY <1>7 DEF OpenAts
<1>8. CASE FillAts
  <2>1. CASE ats' = Millis(r_adjust) /\ synced' = (receiver = "idle" /\ r_adjust = Wrap(adjust))
    BY <1>8, <2>1, MillisOfWrapped DEF FillAts
  <2>2. CASE UNCHANGED <<ats, synced>>
    BY <1>8, <2>2 DEF FillAts
  <2>3. QED
    BY <1>8, <2>1, <2>2 DEF FillAts
<1>9. CASE SetClock
  BY <1>9 DEF SetClock, RestoreEnds, With
<1>10. CASE ReadClock
  BY <1>10 DEF ReadClock, With, On
<1>11. CASE SubtractEpoch
  BY <1>11 DEF SubtractEpoch
<1>12. CASE SetProperty
  BY <1>12 DEF SetProperty, With
<1>13. CASE TruncateAts
  BY <1>13 DEF TruncateAts
<1>14. CASE WriteAts
  BY <1>14 DEF WriteAts
<1>15. CASE UNCHANGED timeVars
  BY <1>15 DEF timeVars
<1>16. QED
  BY <1>1, <1>2, <1>3, <1>4, <1>5, <1>6, <1>7, <1>8, <1>9, <1>10, <1>11, <1>12, <1>13,
     <1>14, <1>15 DEF TimekeepNext

---------------------------------------------------------------------------
LEMMA TimekeepInitially == TimekeepInit => TimekeepInv
BY TimeAssumption, SecondAssumption, AbsentAssumption, WidthIsPositive
   DEF TimekeepInit, TimekeepInv, TimekeepTypeOK, Bounded, ClockOK, AdjustOK, RestoreOK,
       ReceiverOK, FileOK, FileAgrees, Running

LEMMA TimekeepStep == TimekeepInv /\ [TimekeepNext]_timeVars => TimekeepInv'
BY Types, ClockKept, AdjustKept, RestoreKept, ReceiverKept, FileKept DEF TimekeepInv

(* Clock, property, file and both programs agree at every step.             *)
THEOREM TimekeepInvariance == TimekeepSpec => []TimekeepInv
BY TimekeepInitially, TimekeepStep, PTL DEF TimekeepSpec

(* The conversions keep everything in range, the file's milliseconds too.   *)
THEOREM TimekeepTypeCorrect == TimekeepSpec => []TimekeepTypeOK
<1>1. TimekeepInv => TimekeepTypeOK
  BY DEF TimekeepInv
<1>2. QED
  BY <1>1, TimekeepInvariance, PTL

(* A clock and a property that go back to what the user set are not ahead   *)
(* of it by a whole second, and behind by no more than late: the time that  *)
(* passed between two accesses and the fractions that were cut off.         *)
THEOREM ClockIsNotAhead == TimekeepSpec => []NeverAhead
<1>1. ASSUME TimekeepInv PROVE NeverAhead
  <2>1. /\ RoundUp(wanted) \in Int /\ Second * RoundUp(wanted) < wanted + Second
        /\ wanted \in Int /\ late \in Nat /\ clock \in Nat /\ rtc \in Nat
    BY <1>1, RoundedUp DEF TimekeepInv, TimekeepTypeOK
  <2>2. ASSUME "clock" \in good PROVE Follows(clock - rtc)
    <3>1. ClockFollows(clock - rtc, wanted, late)
      BY <1>1, <2>2 DEF TimekeepInv, ClockOK
    <3>2. QED
      BY <2>1, <3>1, SecondAssumption DEF ClockFollows, Follows
  <2>3. ASSUME "adjust" \in good PROVE Follows(Second * adjust)
    <3>1. AdjustFollows(adjust, wanted, late)
      BY <1>1, <2>3 DEF TimekeepInv, AdjustOK
    <3>2. adjust \in Int /\ wanted - late <= Second * adjust /\ RoundUp(wanted) - adjust \in Nat
      BY <2>1, <3>1, TimeAssumption DEF AdjustFollows
    <3>3. Second * (RoundUp(wanted) - adjust) \in Nat
      BY <3>2, SecondAssumption
    <3>4. Second * adjust = Second * RoundUp(wanted) - Second * (RoundUp(wanted) - adjust)
      BY <2>1, <3>2, SecondAssumption
    <3>5. Second * adjust < wanted + Second
      BY <2>1, <3>2, <3>3, <3>4, SecondAssumption
    <3>6. QED
      BY <3>2, <3>5 DEF Follows
  <2>4. QED
    BY <2>2, <2>3 DEF NeverAhead
<1>2. TimekeepInv => NeverAhead
  BY <1>1
<1>3. QED
  BY <1>2, TimekeepInvariance, PTL

(* The modem's file agrees with the property once it is written.            *)
THEOREM FileIsProperty == TimekeepSpec => []FileAgrees
<1>1. TimekeepInv => FileAgrees
  BY DEF TimekeepInv, FileOK
<1>2. QED
  BY <1>1, TimekeepInvariance, PTL
=============================================================================
