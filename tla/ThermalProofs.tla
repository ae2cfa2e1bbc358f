---------------------------- MODULE ThermalProofs ---------------------------
(***************************************************************************)
(* What the runs check of the thermal daemon on one configuration file,    *)
(* proved for every set of sensors, configurations, thresholds, controls   *)
(* and levels: types, the two lists of a configuration, the reading they   *)
(* share in a round, the votes and the levels that follow them, and the    *)
(* mitigations in force.                                                   *)
(*                                                                         *)
(* An induction is one over the set of numbers up to which a fact holds    *)
(* (Least, Induction); a walk of the code over a list is the function that *)
(* gives the result after i elements.  The invariant has three parts.      *)
(* TypeInv: types, and what a list may hold.  SwitchInv: which mitigations *)
(* are active while a control is on its ladder.  VoteInv: the counts of a  *)
(* control are the votes cast, and its level follows them.  TypeInv needs  *)
(* SwitchInv (a mitigation that is switched is one of the file's), and     *)
(* both others need TypeInv.                                               *)
(***************************************************************************)
EXTENDS Thermanager, FiniteSetTheorems, SequenceTheorems, TLAPS

---------------------------------------------------------------------------
(* Induction over the natural numbers by the least member of a set, and   *)
(* what a walk over a list keeps of it (Filter, that is                   *)
(* configuration_run).                                                    *)

(* A set of natural numbers that is not empty has a least member:         *)
(* induction is what this library fact of intervals gives.                *)
LEMMA Least ==
  ASSUME NEW T, T \subseteq Nat, T # {}
  PROVE  \E x \in T : \A y \in T : x <= y
<1> DEFINE Below == {ss \in Nat \X Nat : ss[1] < ss[2]}
<1>1. IsWellFoundedOn(Below, Nat)
  BY NatLessThanWellFounded DEF OpToRel
<1>2. PICK x \in T : \A y \in T : <<y, x>> \notin Below
  <2> HIDE DEF Below
  <2>1. QED
    BY <1>1, WFMin
<1>3. \A y \in T : y < x => <<y, x>> \in Below
  <2> SUFFICES ASSUME NEW y \in T, y < x PROVE <<y, x>> \in Below
    OBVIOUS
  <2>1. <<y, x>> \in Nat \X Nat /\ <<y, x>>[1] < <<y, x>>[2]
    OBVIOUS
  <2>2. QED
    BY <2>1
<1> HIDE DEF Below
<1>4. \A y \in T : ~(y < x)
  BY <1>2, <1>3, Zenon
<1>5. QED
  BY <1>4

(* Induction, over a set of numbers instead of a predicate.               *)
LEMMA Induction ==
  ASSUME NEW S, 0 \in S, \A n \in Nat : n \in S => n + 1 \in S
  PROVE  \A n \in Nat : n \in S
<1> SUFFICES ASSUME Nat \ S # {} PROVE FALSE
  OBVIOUS
<1>1. PICK x \in Nat \ S : \A y \in Nat \ S : x <= y
  BY Least
<1>2. x # 0 /\ x - 1 \in Nat
  BY <1>1
<1>3. x - 1 \in S
  BY <1>1, <1>2
<1>4. QED
  BY <1>1, <1>2, <1>3

(* The members of a list that has grown by one.                           *)
LEMMA AppendToSet ==
  ASSUME NEW X, NEW s \in Seq(X), NEW x \in X
  PROVE  ToSet(Append(s, x)) = ToSet(s) \cup {x}
<1>1. DOMAIN s = 1..Len(s) /\ DOMAIN Append(s, x) = 1..(Len(s) + 1) /\ Len(s) \in Nat
  OBVIOUS
<1>2. \A i \in 1..Len(s) : Append(s, x)[i] = s[i]
  OBVIOUS
<1>3. Append(s, x)[Len(s) + 1] = x
  OBVIOUS
<1>4. 1..(Len(s) + 1) = 1..Len(s) \cup {Len(s) + 1}
  BY <1>1
<1> DEFINE a == Append(s, x)
<1> HIDE DEF a
<1>5. ToSet(a) = ToSet(s) \cup {x}
  BY <1>1, <1>2, <1>3, <1>4 DEF ToSet, a
<1>6. QED
  BY <1>5 DEF a

(* The walk of Filter, one element at a time.                             *)
LEMMA FilterSteps ==
  ASSUME NEW s, Len(s) \in Nat, NEW S
  PROVE  \E f : /\ f[0] = <<>>
                /\ \A i \in 1..Len(s) : f[i] = IF s[i] \in S THEN Append(f[i-1], s[i]) ELSE f[i-1]
                /\ Filter(s, S) = f[Len(s)]
<1> DEFINE F(f, i) == IF i = 0 THEN <<>>
                      ELSE IF s[i] \in S THEN Append(f[i - 1], s[i]) ELSE f[i - 1]
           Defined(n) == \E f : f = [i \in 0..n |-> F(f, i)]
           D == {n \in Nat : Defined(n)}
<1>1. 0 \in D
  <2> DEFINE f == [i \in 0..0 |-> <<>>]
  <2>1. f = [i \in 0..0 |-> F(f, i)]
    OBVIOUS
  <2>2. QED
    BY <2>1
<1>2. ASSUME NEW n \in Nat, n \in D PROVE n + 1 \in D
  <2>1. PICK f : f = [i \in 0..n |-> F(f, i)]
    BY <1>2
  <2> DEFINE g == [i \in 0..(n + 1) |-> IF i = n + 1 THEN F(f, n + 1) ELSE f[i]]
  <2>2. \A i \in 0..(n + 1) : g[i] = F(g, i)
    <3> SUFFICES ASSUME NEW i \in 0..(n + 1) PROVE g[i] = F(g, i)
      OBVIOUS
    <3>1. CASE i = 0
      BY <2>1, <3>1
    <3>2. CASE i \in 1..n
      <4>1. i \in 0..n /\ i - 1 \in 0..n /\ i # n + 1 /\ i - 1 # n + 1 /\ i - 1 \in 0..(n + 1)
        BY <3>2
      <4>2. f[i] = F(f, i) /\ g[i] = f[i] /\ g[i - 1] = f[i - 1]
        BY <2>1, <4>1
      <4>3. QED
        BY <3>2, <4>2
    <3>3. CASE i = n + 1
      BY <2>1, <3>3
    <3>4. QED
      BY <3>1, <3>2, <3>3
  <2>3. g = [i \in 0..(n + 1) |-> F(g, i)]
    BY <2>2
  <2>4. Defined(n + 1)
    <3> HIDE DEF g
    <3>1. QED
      BY <2>3
  <2>5. QED
    BY <2>4, SMTT(30)
<1>3. Defined(Len(s))
  <2> HIDE DEF Defined
  <2>1. \A n \in Nat : n \in D
    <3> HIDE DEF D
    <3>1. QED
      BY <1>1, <1>2, Induction
  <2>2. QED
    BY <2>1
<1> DEFINE f == CHOOSE f : f = [i \in 0..Len(s) |-> F(f, i)]
<1>4. f = [i \in 0..Len(s) |-> F(f, i)]
  BY <1>3
<1>5. Filter(s, S) = f[Len(s)]
  BY DEF Filter
<1> HIDE DEF f
<1>6. \A i \in 0..Len(s) : f[i] = F(f, i)
  <2> HIDE DEF F
  <2>1. QED
    BY <1>4
<1>6a. /\ f[0] = <<>>
       /\ \A i \in 1..Len(s) :
            f[i] = IF s[i] \in S THEN Append(f[i-1], s[i]) ELSE f[i-1]
  BY <1>6
<1>7. QED
  BY <1>5, <1>6a

(* A walk keeps exactly the members it looks for.                         *)
LEMMA FilterIsList ==
  ASSUME NEW X, NEW s \in Seq(X), NEW S
  PROVE  Filter(s, S) \in Seq(X) /\ ToSet(Filter(s, S)) = ToSet(s) \cap S
<1>0. Len(s) \in Nat /\ DOMAIN s = 1..Len(s)
  OBVIOUS
<1>1. PICK f : /\ f[0] = <<>>
               /\ \A i \in 1..Len(s) : f[i] = IF s[i] \in S THEN Append(f[i-1], s[i]) ELSE f[i-1]
               /\ Filter(s, S) = f[Len(s)]
  BY <1>0, FilterSteps
<1> DEFINE Upto(n) == {s[i] : i \in 1..n} \cap S
           P(n) == n <= Len(s) => f[n] \in Seq(X) /\ ToSet(f[n]) = Upto(n)
           D == {n \in Nat : P(n)}
<1>2. 0 \in D
  <2>1. ToSet(<<>>) = {} /\ <<>> \in Seq(X) /\ Upto(0) = {}
    BY DEF ToSet
  <2>2. QED
    BY <1>1, <2>1
<1>3. ASSUME NEW n \in Nat, n \in D PROVE n + 1 \in D
  <2> SUFFICES ASSUME n + 1 <= Len(s) PROVE f[n + 1] \in Seq(X) /\ ToSet(f[n + 1]) = Upto(n + 1)
    OBVIOUS
  <2>1. f[n] \in Seq(X) /\ ToSet(f[n]) = Upto(n) /\ n + 1 \in 1..Len(s) /\ s[n + 1] \in X
    BY <1>0, <1>3
  <2>2. f[n + 1] = IF s[n + 1] \in S THEN Append(f[n], s[n + 1]) ELSE f[n]
    BY <1>1, <2>1
  <2>3. Upto(n + 1) = Upto(n) \cup ({s[n + 1]} \cap S)
    <3>1. 1..(n + 1) = (1..n) \cup {n + 1}
      OBVIOUS
    <3>2. QED
      BY <3>1
  <2>4. ToSet(Append(f[n], s[n + 1])) = ToSet(f[n]) \cup {s[n + 1]}
    BY <2>1, AppendToSet
  <2>5. QED
    BY <2>1, <2>2, <2>3, <2>4
<1>4. Len(s) \in D
  <2> HIDE DEF D
  <2>1. QED
    BY <1>0, <1>2, <1>3, Induction
<1>5. QED
  <2>1. ToSet(s) \cap S = Upto(Len(s)) /\ P(Len(s))
    BY <1>0, <1>4 DEF ToSet
  <2>2. QED
    BY <1>0, <1>1, <2>1

---------------------------------------------------------------------------
(* Sequences: joining, inserting, removing, and a walk that keeps an      *)
(* interval.                                                              *)

LEMMA MinIsLeast ==
  ASSUME NEW T, T \subseteq Nat, T # {}
  PROVE  Min(T) \in T /\ \A y \in T : Min(T) <= y
BY Least DEF Min

(* A list put before another, as list_prepend does one by one.            *)
LEMMA Joined ==
  ASSUME NEW X, NEW a \in Seq(X), NEW b \in Seq(X)
  PROVE  /\ a \o b \in Seq(X) /\ Len(a \o b) = Len(a) + Len(b)
         /\ \A i \in 1..Len(a) : (a \o b)[i] = a[i]
         /\ \A i \in 1..Len(b) : (a \o b)[Len(a) + i] = b[i]
<1>1. Len(a) \in Nat /\ Len(b) \in Nat
  OBVIOUS
<1>2. /\ a \o b \in Seq(X) /\ Len(a \o b) = Len(a) + Len(b)
      /\ \A i \in 1..(Len(a) + Len(b)) :
           (a \o b)[i] = IF i <= Len(a) THEN a[i] ELSE b[i - Len(a)]
  BY ConcatProperties
<1>3. ASSUME NEW i \in 1..Len(b) PROVE (a \o b)[Len(a) + i] = b[i]
  <2>1. Len(a) + i \in 1..(Len(a) + Len(b)) /\ ~(Len(a) + i <= Len(a))
        /\ (Len(a) + i) - Len(a) = i
    BY <1>1
  <2>2. QED
    BY <1>2, <2>1
<1>4. QED
  BY <1>1, <1>2, <1>3

(* list_insert: the elements from p on move up by one.                    *)
LEMMA Inserted ==
  ASSUME NEW X, NEW s \in Seq(X), NEW x \in X, NEW p \in 1..(Len(s) + 1)
  PROVE  LET r == InsertAt(s, p, x)
         IN  /\ r \in Seq(X) /\ Len(r) = Len(s) + 1
             /\ \A i \in 1..(p - 1) : r[i] = s[i]
             /\ r[p] = x
             /\ \A i \in (p + 1)..(Len(s) + 1) : r[i] = s[i - 1]
<1> DEFINE a == SubSeq(s, 1, p - 1)
           b == <<x>>
           c == SubSeq(s, p, Len(s))
<1>1. a \in Seq(X) /\ Len(a) = p - 1 /\ \A i \in 1..(p - 1) : a[i] = s[i]
  OBVIOUS
<1>2. b \in Seq(X) /\ Len(b) = 1 /\ b[1] = x
  OBVIOUS
<1>3. c \in Seq(X) /\ Len(c) = Len(s) + 1 - p /\ \A i \in 1..Len(c) : c[i] = s[i + p - 1]
  OBVIOUS
<1> HIDE DEF a, b, c
<1>4. a \o b \in Seq(X) /\ Len(a \o b) = p
  <2>1. a \o b \in Seq(X) /\ Len(a \o b) = Len(a) + Len(b)
    BY <1>1, <1>2, Joined
  <2>2. QED
    BY <1>1, <1>2, <2>1
<1>5. \A i \in 1..(p - 1) : (a \o b)[i] = s[i]
  BY <1>1, <1>2, Joined
<1>6. (a \o b)[p] = x
  <2>1. (a \o b)[Len(a) + 1] = b[1]
    BY <1>1, <1>2, Joined
  <2>2. Len(a) + 1 = p
    BY <1>1
  <2>3. QED
    BY <1>2, <2>1, <2>2
<1> DEFINE d == a \o b
           r == d \o c
<1> HIDE DEF d
<1>7. /\ r \in Seq(X) /\ Len(r) = Len(s) + 1
      /\ \A i \in 1..p : r[i] = d[i]
      /\ \A i \in 1..Len(c) : r[p + i] = c[i]
  BY <1>3, <1>4, Joined, SMTT(30) DEF d
<1>8. ASSUME NEW i \in (p + 1)..(Len(s) + 1) PROVE r[i] = s[i - 1]
  <2>1. i - p \in 1..Len(c) /\ p + (i - p) = i /\ (i - p) + p - 1 = i - 1
    BY <1>3
  <2>2. QED
    BY <1>3, <1>7, <2>1, ZenonT(60)
<1>9. InsertAt(s, p, x) = r
  BY DEF InsertAt, a, b, c, d
<1> HIDE DEF r
<1>10. ASSUME NEW i \in 1..(p - 1) PROVE r[i] = s[i]
  <2>1. i \in 1..p
    OBVIOUS
  <2>2. QED
    BY <1>5, <1>7, <2>1 DEF d
<1>11. r[p] = x
  <2>1. p \in 1..p
    OBVIOUS
  <2>2. QED
    BY <1>6, <1>7, <2>1 DEF d
<1>12. QED
  BY <1>7, <1>8, <1>9, <1>10, <1>11

(* list_remove: the elements behind p move down by one.                   *)
LEMMA Removed ==
  ASSUME NEW X, NEW s \in Seq(X), NEW p \in 1..Len(s)
  PROVE  LET r == RemoveAt(s, p)
         IN  /\ r \in Seq(X) /\ Len(r) = Len(s) - 1
             /\ \A i \in 1..(p - 1) : r[i] = s[i]
             /\ \A i \in p..(Len(s) - 1) : r[i] = s[i + 1]
<1> DEFINE a == SubSeq(s, 1, p - 1)
           c == SubSeq(s, p + 1, Len(s))
           r == a \o c
<1>1. a \in Seq(X) /\ Len(a) = p - 1 /\ \A i \in 1..(p - 1) : a[i] = s[i]
  OBVIOUS
<1>2. c \in Seq(X) /\ Len(c) = Len(s) - p /\ \A i \in 1..Len(c) : c[i] = s[i + p]
  OBVIOUS
<1> HIDE DEF a, c
<1>3. /\ r \in Seq(X) /\ Len(r) = Len(s) - 1
      /\ \A i \in 1..(p - 1) : r[i] = a[i]
      /\ \A i \in 1..Len(c) : r[p - 1 + i] = c[i]
  BY <1>1, <1>2, Joined
<1>4. ASSUME NEW i \in p..(Len(s) - 1) PROVE r[i] = s[i + 1]
  <2>1. i - p + 1 \in 1..Len(c) /\ p - 1 + (i - p + 1) = i /\ (i - p + 1) + p = i + 1
    BY <1>2
  <2>2. r[p - 1 + (i - p + 1)] = c[i - p + 1] /\ c[i - p + 1] = s[(i - p + 1) + p]
    BY <1>2, <1>3, <2>1
  <2>3. QED
    BY <2>1, <2>2
<1>5. RemoveAt(s, p) = r
  BY DEF RemoveAt, a, c
<1> HIDE DEF r
<1>6. QED
  BY <1>1, <1>3, <1>4, <1>5

(* If what a walk looks for lies in one stretch of the list, it returns   *)
(* that stretch.                                                          *)
LEMMA FilterInterval ==
  ASSUME NEW X, NEW s \in Seq(X), NEW S, NEW a \in Nat \ {0}, NEW b \in 0..Len(s), a <= b + 1,
         \A i \in 1..Len(s) : s[i] \in S <=> i \in a..b
  PROVE  Filter(s, S) = SubSeq(s, a, b)
<1>0. Len(s) \in Nat /\ DOMAIN s = 1..Len(s)
  OBVIOUS
<1>1. PICK f : /\ f[0] = <<>>
               /\ \A i \in 1..Len(s) : f[i] = IF s[i] \in S THEN Append(f[i-1], s[i]) ELSE f[i-1]
               /\ Filter(s, S) = f[Len(s)]
  BY <1>0, FilterSteps
<1> DEFINE P(n) == n <= Len(s) => f[n] = SubSeq(s, a, IF n <= b THEN n ELSE b)
           D == {n \in Nat : P(n)}
<1>2. 0 \in D
  <2>1. SubSeq(s, a, 0) = <<>> /\ (IF 0 <= b THEN 0 ELSE b) = 0
    BY SubSeqEmpty
  <2>2. QED
    BY <1>1, <2>1
<1>3. ASSUME NEW n \in Nat, n \in D PROVE n + 1 \in D
  <2> SUFFICES ASSUME n + 1 <= Len(s) PROVE P(n + 1)
    OBVIOUS
  <2>1. f[n] = SubSeq(s, a, IF n <= b THEN n ELSE b) /\ n + 1 \in 1..Len(s) /\ s[n + 1] \in X
    BY <1>0, <1>3
  <2>2. f[n + 1] = IF s[n + 1] \in S THEN Append(f[n], s[n + 1]) ELSE f[n]
    <3>1. (n + 1) - 1 = n
      OBVIOUS
    <3>2. QED
      BY <1>1, <2>1, <3>1
  <2>3. CASE n + 1 > b
    <3>1. f[n + 1] = f[n]
      BY <2>1, <2>2, <2>3
    <3>2. (IF n <= b THEN n ELSE b) = b /\ (IF n + 1 <= b THEN n + 1 ELSE b) = b
      BY <2>3, <1>0
    <3>3. QED
      BY <2>1, <3>1, <3>2
  <2>4. CASE n + 1 < a
    <3>1. SubSeq(s, a, n) = <<>> /\ SubSeq(s, a, n + 1) = <<>>
      BY <2>4, SubSeqEmpty
    <3>2. n + 1 <= b
      BY <2>4, <1>0
    <3>3. f[n + 1] = f[n]
      BY <2>1, <2>2, <2>4
    <3>4. n <= b
      BY <3>2
    <3>5. QED
      BY <2>1, <3>1, <3>2, <3>3, <3>4
  <2>5. CASE n + 1 \in a..b
    <3>1. Append(SubSeq(s, a, n), s[n + 1]) = SubSeq(s, a, n + 1)
      <4>1. CASE a = n + 1
        BY <4>1, <2>1, <1>0
      <4>2. CASE a <= n
        BY <4>2, <2>5, <2>1, <1>0
      <4>3. QED
        BY <4>1, <4>2, <2>5
    <3>2. f[n + 1] = Append(f[n], s[n + 1]) /\ f[n] = SubSeq(s, a, n)
      BY <2>1, <2>2, <2>5
    <3>3. QED
      BY <2>5, <3>1, <3>2
  <2>6. QED
    BY <2>3, <2>4, <2>5
<1>4. Len(s) \in D
  <2> HIDE DEF D
  <2>1. QED
    BY <1>0, <1>2, <1>3, Induction
<1>5. QED
  BY <1>0, <1>1, <1>4

---------------------------------------------------------------------------
(* configuration_add_threshold: the unsatisfied list starts in the order  *)
(* of the triggers.                                                       *)

(* By trigger, and by the order of the file where two are equal.          *)
InOrder(list) ==
  \A i, j \in 1..Len(list) : i < j => Trigger[list[i]] <= Trigger[list[j]]

(* The assumption about one threshold.                                    *)
LEMMA ThresholdFacts ==
  ASSUME NEW t \in Thresholds
  PROVE  /\ Trigger[t] \in Int /\ Clear[t] \in Int
         /\ Wants[t] \in Seq(Controls \X Int)
BY ThresholdAssumption

(* configuration_add_threshold puts a threshold where the list stays in   *)
(* order, and loses none.                                                 *)
LEMMA AddedInOrder ==
  ASSUME NEW list \in Seq(Thresholds), InOrder(list), NEW t \in Thresholds
  PROVE  LET r == AddThreshold(list, t)
         IN  r \in Seq(Thresholds) /\ InOrder(r) /\ ToSet(r) = ToSet(list) \cup {t}
<1> DEFINE I == {i \in 1..Len(list) : Trigger[list[i]] > Trigger[t]}
           r == AddThreshold(list, t)
<1>0. /\ Len(list) \in Nat /\ DOMAIN list = 1..Len(list)
      /\ \A i \in 1..Len(list) : list[i] \in Thresholds /\ Trigger[list[i]] \in Int
      /\ Trigger[t] \in Int
  BY ThresholdFacts, ElementOfSeq
<1>1. r = IF (IF I # {} THEN Min(I) ELSE 0) = 0 THEN Append(list, t)
          ELSE InsertAt(list, IF I # {} THEN Min(I) ELSE 0, t)
  BY DEF AddThreshold, SelectInSeq
<1>2. PICK p \in 1..(Len(list) + 1) :
        /\ \A i \in 1..(p - 1) : Trigger[list[i]] <= Trigger[t]
        /\ \A i \in p..Len(list) : Trigger[list[i]] > Trigger[t]
        /\ r \in Seq(Thresholds) /\ Len(r) = Len(list) + 1
        /\ \A i \in 1..(p - 1) : r[i] = list[i]
        /\ r[p] = t
        /\ \A i \in (p + 1)..(Len(list) + 1) : r[i] = list[i - 1]
  <2>1. CASE I = {}
    <3>1. r = Append(list, t)
      BY <1>1, <2>1
    <3>2. /\ Append(list, t) \in Seq(Thresholds) /\ Len(Append(list, t)) = Len(list) + 1
          /\ \A i \in 1..Len(list) : Append(list, t)[i] = list[i]
          /\ Append(list, t)[Len(list) + 1] = t
      OBVIOUS
    <3>3. \A i \in 1..Len(list) : Trigger[list[i]] <= Trigger[t]
      BY <1>0, <2>1
    <3> WITNESS Len(list) + 1 \in 1..(Len(list) + 1)
    <3>4. QED
      BY <1>0, <3>1, <3>2, <3>3
  <2>2. CASE I # {}
    <3> DEFINE q == Min(I)
    <3>1. q \in I /\ \A i \in I : q <= i
      <4>1. I \subseteq Nat
        OBVIOUS
      <4> HIDE DEF I
      <4>2. QED
        BY <2>2, <4>1, MinIsLeast
    <3> HIDE DEF q
    <3>2. q \in 1..Len(list) /\ q # 0 /\ Trigger[list[q]] > Trigger[t]
      BY <3>1
    <3>3. r = InsertAt(list, q, t)
      BY <1>1, <2>2, <3>2 DEF q
    <3>4. \A i \in 1..(q - 1) : Trigger[list[i]] <= Trigger[t]
      BY <1>0, <3>1, <3>2
    <3>5. \A i \in q..Len(list) : Trigger[list[i]] > Trigger[t]
      BY <1>0, <3>2 DEF InOrder
    <3>6. q \in 1..(Len(list) + 1)
      BY <3>2
    <3>7. /\ r \in Seq(Thresholds) /\ Len(r) = Len(list) + 1
          /\ \A i \in 1..(q - 1) : r[i] = list[i]
          /\ r[q] = t
          /\ \A i \in (q + 1)..(Len(list) + 1) : r[i] = list[i - 1]
      <4>1. QED
        <5> DEFINE u == InsertAt(list, q, t)
        <5>1. /\ u \in Seq(Thresholds) /\ Len(u) = Len(list) + 1
              /\ \A i \in 1..(q - 1) : u[i] = list[i]
              /\ u[q] = t
              /\ \A i \in (q + 1)..(Len(list) + 1) : u[i] = list[i - 1]
          BY <3>6, Inserted
        <5>2. r = u
          BY <3>3
        <5> HIDE DEF u
        <5>3. QED
          BY <5>1, <5>2
    <3>8. QED
      BY <3>4, <3>5, <3>6, <3>7
  <2>3. QED
    BY <2>1, <2>2
<1> HIDE DEF r, I
<1>3. InOrder(r)
  <2> SUFFICES ASSUME NEW i \in 1..(Len(list) + 1), NEW j \in 1..(Len(list) + 1), i < j
               PROVE  Trigger[r[i]] <= Trigger[r[j]]
    BY <1>2 DEF InOrder
  <2>1. CASE i < p /\ j < p
    BY <1>0, <1>2, <2>1 DEF InOrder
  <2>2. CASE i < p /\ j = p
    BY <1>0, <1>2, <2>2
  <2>3. CASE i < p /\ j > p
    <3>1. r[i] = list[i] /\ r[j] = list[j - 1] /\ j - 1 \in p..Len(list) /\ i \in 1..Len(list)
      BY <1>0, <1>2, <2>3
    <3>2. Trigger[list[i]] <= Trigger[t] /\ Trigger[list[j - 1]] > Trigger[t]
      BY <1>2, <2>3, <3>1
    <3>3. QED
      BY <1>0, <3>1, <3>2
  <2>4. CASE i = p
    <3>1. r[i] = t /\ r[j] = list[j - 1] /\ j - 1 \in p..Len(list)
      BY <1>0, <1>2, <2>4
    <3>2. QED
      BY <1>0, <1>2, <3>1
  <2>5. CASE i > p
    <3>1. /\ r[i] = list[i - 1] /\ r[j] = list[j - 1]
          /\ i - 1 \in 1..Len(list) /\ j - 1 \in 1..Len(list) /\ i - 1 < j - 1
      BY <1>0, <1>2, <2>5
    <3>2. QED
      BY <3>1 DEF InOrder
  <2>6. QED
    BY <2>1, <2>2, <2>3, <2>4, <2>5
<1>4. ToSet(r) = ToSet(list) \cup {t}
  <2>1. DOMAIN r = 1..(Len(list) + 1)
    BY <1>2
  <2>2. ASSUME NEW i \in 1..(Len(list) + 1) PROVE r[i] \in ToSet(list) \cup {t}
    <3>1. CASE i < p
      BY <1>0, <1>2, <3>1 DEF ToSet
    <3>2. CASE i = p
      BY <1>2, <3>2
    <3>3. CASE i > p
      <4>1. i - 1 \in 1..Len(list) /\ r[i] = list[i - 1]
        BY <1>0, <1>2, <3>3
      <4>2. QED
        BY <1>0, <4>1 DEF ToSet
    <3>4. QED
      BY <3>1, <3>2, <3>3
  <2>3. ASSUME NEW i \in 1..Len(list) PROVE list[i] \in ToSet(r)
    <3>1. CASE i < p
      BY <1>0, <1>2, <2>1, <3>1 DEF ToSet
    <3>2. CASE i >= p
      <4>1. i + 1 \in (p + 1)..(Len(list) + 1) /\ (i + 1) - 1 = i
        BY <1>0, <3>2
      <4>2. r[i + 1] = list[i] /\ i + 1 \in DOMAIN r
        BY <1>2, <2>1, <4>1
      <4>3. QED
        BY <4>2 DEF ToSet
    <3>3. QED
      BY <1>0, <1>2, <3>1, <3>2
  <2>4. t \in ToSet(r)
    BY <1>2, <2>1 DEF ToSet
  <2>5. QED
    BY <1>0, <2>1, <2>2, <2>3, <2>4 DEF ToSet
<1>5. QED
  BY <1>2, <1>3, <1>4 DEF r

(* The thresholds of the file, one at a time.                             *)
LEMMA SortSteps ==
  ASSUME NEW s, Len(s) \in Nat
  PROVE  \E f : /\ f[0] = <<>>
                /\ \A i \in 1..Len(s) : f[i] = AddThreshold(f[i - 1], s[i])
                /\ Sort(s) = f[Len(s)]
<1> DEFINE F(f, i) == IF i = 0 THEN <<>> ELSE AddThreshold(f[i - 1], s[i])
           Defined(n) == \E f : f = [i \in 0..n |-> F(f, i)]
           D == {n \in Nat : Defined(n)}
<1>1. 0 \in D
  <2> DEFINE f == [i \in 0..0 |-> <<>>]
  <2>1. f = [i \in 0..0 |-> F(f, i)]
    OBVIOUS
  <2>2. QED
    BY <2>1
<1>2. ASSUME NEW n \in Nat, n \in D PROVE n + 1 \in D
  <2>1. PICK f : f = [i \in 0..n |-> F(f, i)]
    BY <1>2
  <2> DEFINE g == [i \in 0..(n + 1) |-> IF i = n + 1 THEN F(f, n + 1) ELSE f[i]]
  <2>2. \A i \in 0..(n + 1) : g[i] = F(g, i)
    <3> SUFFICES ASSUME NEW i \in 0..(n + 1) PROVE g[i] = F(g, i)
      OBVIOUS
    <3>1. CASE i = 0
      BY <2>1, <3>1
    <3>2. CASE i \in 1..n
      <4>1. i \in 0..n /\ i - 1 \in 0..n /\ i # n + 1 /\ i - 1 # n + 1 /\ i - 1 \in 0..(n + 1)
        BY <3>2
      <4>2. f[i] = F(f, i) /\ g[i] = f[i] /\ g[i - 1] = f[i - 1]
        BY <2>1, <4>1
      <4>3. QED
        BY <3>2, <4>2
    <3>3. CASE i = n + 1
      BY <2>1, <3>3
    <3>4. QED
      BY <3>1, <3>2, <3>3
  <2>3. g = [i \in 0..(n + 1) |-> F(g, i)]
    BY <2>2
  <2>4. Defined(n + 1)
    <3> HIDE DEF g
    <3>1. QED
      BY <2>3
  <2>5. QED
    BY <2>4
<1>3. Defined(Len(s))
  <2> HIDE DEF Defined
  <2>1. \A n \in Nat : n \in D
    <3> HIDE DEF D
    <3>1. QED
      BY <1>1, <1>2, Induction
  <2>2. QED
    BY <2>1
<1> DEFINE f == CHOOSE f : f = [i \in 0..Len(s) |-> F(f, i)]
<1>4. f = [i \in 0..Len(s) |-> F(f, i)]
  BY <1>3
<1>5. Sort(s) = f[Len(s)]
  BY DEF Sort
<1> HIDE DEF f
<1>6. \A i \in 0..Len(s) : f[i] = F(f, i)
  <2> HIDE DEF F
  <2>1. QED
    BY <1>4
<1>7. f[0] = <<>> /\ \A i \in 1..Len(s) : f[i] = AddThreshold(f[i - 1], s[i])
  BY <1>6
<1>8. QED
  BY <1>5, <1>7

(* The list of a configuration starts with all its thresholds, the        *)
(* lowest trigger first.                                                  *)
LEMMA SortIsInOrder ==
  ASSUME NEW s \in Seq(Thresholds)
  PROVE  Sort(s) \in Seq(Thresholds) /\ InOrder(Sort(s)) /\ ToSet(Sort(s)) = ToSet(s)
<1>0. Len(s) \in Nat /\ DOMAIN s = 1..Len(s)
  OBVIOUS
<1>1. PICK f : /\ f[0] = <<>>
               /\ \A i \in 1..Len(s) : f[i] = AddThreshold(f[i - 1], s[i])
               /\ Sort(s) = f[Len(s)]
  BY <1>0, SortSteps
<1> DEFINE Upto(n) == {s[i] : i \in 1..n}
           P(n) == n <= Len(s) =>
                     f[n] \in Seq(Thresholds) /\ InOrder(f[n]) /\ ToSet(f[n]) = Upto(n)
           D == {n \in Nat : P(n)}
<1>2. 0 \in D
  <2>1. ToSet(<<>>) = {} /\ <<>> \in Seq(Thresholds) /\ Upto(0) = {} /\ InOrder(<<>>)
    BY DEF ToSet, InOrder
  <2>2. QED
    BY <1>1, <2>1
<1>3. ASSUME NEW n \in Nat, n \in D PROVE n + 1 \in D
  <2> SUFFICES ASSUME n + 1 <= Len(s) PROVE P(n + 1)
    OBVIOUS
  <2>1. f[n] \in Seq(Thresholds) /\ InOrder(f[n]) /\ ToSet(f[n]) = Upto(n)
        /\ n + 1 \in 1..Len(s) /\ s[n + 1] \in Thresholds
    BY <1>0, <1>3
  <2>2. f[n + 1] = AddThreshold(f[n], s[n + 1])
    <3>1. (n + 1) - 1 = n
      OBVIOUS
    <3>2. QED
      BY <1>1, <2>1, <3>1
  <2>3. Upto(n + 1) = Upto(n) \cup {s[n + 1]}
    <3>1. 1..(n + 1) = (1..n) \cup {n + 1}
      OBVIOUS
    <3>2. QED
      BY <3>1
  <2>4. QED
    BY <2>1, <2>2, <2>3, AddedInOrder
<1>4. Len(s) \in D
  <2> HIDE DEF D
  <2>1. QED
    BY <1>0, <1>2, <1>3, Induction
<1>5. P(Len(s))
  BY <1>4
<1>6. ToSet(s) = Upto(Len(s))
  BY <1>0 DEF ToSet
<1> HIDE DEF Upto
<1>7. Len(s) <= Len(s)
  BY <1>0
<1>8. QED
  BY <1>1, <1>5, <1>6, <1>7

---------------------------------------------------------------------------
(* configuration_manager_run groups the configurations by their sensor.   *)

Sensor(list, i) == SensorOf[list[i]]

(* Up to n, a configuration whose sensor has come before follows one of   *)
(* its own.                                                               *)
Grouped(list, n) ==
  \A a \in 1..n : \/ a < Len(list) /\ Sensor(list, a + 1) = Sensor(list, a)
                  \/ \A b \in (a + 1)..Len(list) : Sensor(list, b) # Sensor(list, a)

(* Moving up the next configuration of a sensor groups one more.          *)
LEMMA OneGrouped ==
  ASSUME NEW list \in Seq(Configurations), NEW i \in 1..Len(list), Grouped(list, i - 1)
  PROVE  LET r == GroupNext(list, i)
         IN  r \in Seq(Configurations) /\ Len(r) = Len(list) /\ Grouped(r, i)
<1> DEFINE I == {j \in (i + 1)..Len(list) : SensorOf[list[j]] = SensorOf[list[i]]}
           j == Min(I)
           s == RemoveAt(list, j)
           r == InsertAt(s, i + 1, list[j])
<1>0. Len(list) \in Nat /\ I \subseteq Nat
  OBVIOUS
<1>1. CASE I = {}
  <2>1. GroupNext(list, i) = list
    BY <1>1 DEF GroupNext, SelectInSubSeq
  <2>2. \A b \in (i + 1)..Len(list) : Sensor(list, b) # Sensor(list, i)
    BY <1>1 DEF Sensor
  <2>3. \A a \in 1..i : a \in 1..(i - 1) \/ a = i
    OBVIOUS
  <2>4. Grouped(list, i)
    BY <2>2, <2>3 DEF Grouped
  <2>5. QED
    BY <2>1, <2>4
<1>2. CASE I # {}
  <2>1. j \in I
    <3> HIDE DEF I
    <3>1. QED
      BY <1>0, <1>2, MinIsLeast
  <2> HIDE DEF j
  <2>2. j \in (i + 1)..Len(list) /\ j # 0 /\ SensorOf[list[j]] = SensorOf[list[i]]
    BY <2>1
  <2>3. GroupNext(list, i) = r
    BY <1>2, <2>2 DEF GroupNext, SelectInSubSeq, j
  <2>4. list[j] \in Configurations /\ j \in 1..Len(list)
    BY <2>2, ElementOfSeq
  <2>5. /\ s \in Seq(Configurations) /\ Len(s) = Len(list) - 1
        /\ \A k \in 1..(j - 1) : s[k] = list[k]
        /\ \A k \in j..(Len(list) - 1) : s[k] = list[k + 1]
    BY <2>4, Removed
  <2> HIDE DEF s
  <2>6. i + 1 \in 1..(Len(s) + 1)
    BY <2>2, <2>5
  <2>7. /\ r \in Seq(Configurations) /\ Len(r) = Len(s) + 1
        /\ \A k \in 1..((i + 1) - 1) : r[k] = s[k]
        /\ r[i + 1] = list[j]
        /\ \A k \in ((i + 1) + 1)..(Len(s) + 1) : r[k] = s[k - 1]
    <3> DEFINE x == list[j]
               p == i + 1
               u == InsertAt(s, p, x)
    <3>1. x \in Configurations /\ p \in 1..(Len(s) + 1)
      BY <2>4, <2>6
    <3> HIDE DEF x, p
    <3>2. /\ u \in Seq(Configurations) /\ Len(u) = Len(s) + 1
          /\ \A k \in 1..(p - 1) : u[k] = s[k]
          /\ u[p] = x
          /\ \A k \in (p + 1)..(Len(s) + 1) : u[k] = s[k - 1]
      BY <2>5, <3>1, Inserted
    <3>3. u = r
      BY DEF x, p
    <3> HIDE DEF u
    <3>4. QED
      BY <3>2, <3>3 DEF x, p
  <2> HIDE DEF r
  <2>8. Len(r) = Len(list)
    BY <2>5, <2>7
  <2>9. \A k \in 1..i : r[k] = list[k]
    BY <2>2, <2>5, <2>7
  <2>10. ASSUME NEW b \in (i + 1)..Len(list)
         PROVE  \E c \in (i + 1)..Len(list) : r[b] = list[c]
    <3>1. CASE b = i + 1
      BY <2>2, <2>7, <3>1
    <3>2. CASE b > i + 1
      <4>1. r[b] = s[b - 1]
        BY <2>5, <2>7, <3>2
      <4>2. CASE b - 1 < j
        <5>0. b - 1 \in (i + 1)..Len(list) /\ b - 1 \in 1..(j - 1)
          BY <1>0, <2>2, <3>2, <4>2
        <5>1. s[b - 1] = list[b - 1] /\ b - 1 \in (i + 1)..Len(list)
          BY <2>5, <5>0
        <5>2. QED
          BY <4>1, <5>1
      <4>3. CASE b - 1 >= j
        <5>1. s[b - 1] = list[(b - 1) + 1] /\ (b - 1) + 1 = b
          BY <2>2, <2>5, <3>2, <4>3
        <5>2. QED
          BY <4>1, <5>1
      <4>4. QED
        BY <2>2, <4>2, <4>3
    <3>3. QED
      BY <3>1, <3>2
  <2>11. Grouped(r, i)
    <3> SUFFICES ASSUME NEW a \in 1..i
                 PROVE  \/ a < Len(r) /\ Sensor(r, a + 1) = Sensor(r, a)
                        \/ \A b \in (a + 1)..Len(r) : Sensor(r, b) # Sensor(r, a)
      BY DEF Grouped
    <3>1. r[a] = list[a]
      BY <2>9
    <3>2. CASE a = i
      <4>1. Sensor(r, a + 1) = Sensor(r, a) /\ a < Len(r)
        BY <2>2, <2>7, <2>8, <3>1, <3>2 DEF Sensor
      <4>2. QED
        BY <4>1
    <3>3. CASE a # i
      <4>1. a \in 1..(i - 1) /\ a + 1 \in 1..i
        BY <3>3
      <4>2. r[a + 1] = list[a + 1]
        BY <2>9, <4>1
      <4>3. CASE a < Len(list) /\ Sensor(list, a + 1) = Sensor(list, a)
        BY <2>8, <3>1, <4>2, <4>3 DEF Sensor
      <4>4. CASE \A b \in (a + 1)..Len(list) : Sensor(list, b) # Sensor(list, a)
        <5>1. ASSUME NEW b \in (a + 1)..Len(list) PROVE Sensor(r, b) # Sensor(r, a)
          <6>1. CASE b <= i
            BY <2>9, <3>1, <4>4, <5>1, <6>1 DEF Sensor
          <6>2. CASE b > i
            <7>1. PICK c \in (i + 1)..Len(list) : r[b] = list[c]
              BY <2>10, <5>1, <6>2
            <7>2. c \in (a + 1)..Len(list)
              BY <4>1, <7>1
            <7>3. QED
              BY <3>1, <4>4, <7>1, <7>2 DEF Sensor
          <6>3. QED
            BY <6>1, <6>2
        <5>2. QED
          BY <2>8, <5>1
      <4>5. QED
        BY <4>1, <4>3, <4>4 DEF Grouped
    <3>4. QED
      BY <3>2, <3>3
  <2>12. QED
    BY <2>3, <2>7, <2>8, <2>11
<1>3. QED
  BY <1>1, <1>2

(* The list of the file, grouped from its head on.                        *)
LEMMA ListSteps ==
  ASSUME NEW L, L = Len(Declared), L \in Nat
  PROVE  \E f : /\ f[0] = Declared
                /\ \A i \in 1..L : f[i] = GroupNext(f[i - 1], i)
                /\ List = f[L]
<1> DEFINE F(f, i) == IF i = 0 THEN Declared ELSE GroupNext(f[i - 1], i)
           Defined(n) == \E f : f = [i \in 0..n |-> F(f, i)]
           D == {n \in Nat : Defined(n)}
<1>1. 0 \in D
  <2> DEFINE f == [i \in 0..0 |-> Declared]
  <2>1. f = [i \in 0..0 |-> F(f, i)]
    OBVIOUS
  <2>2. QED
    BY <2>1
<1>2. ASSUME NEW n \in Nat, n \in D PROVE n + 1 \in D
  <2>1. PICK f : f = [i \in 0..n |-> F(f, i)]
    BY <1>2
  <2> DEFINE g == [i \in 0..(n + 1) |-> IF i = n + 1 THEN F(f, n + 1) ELSE f[i]]
  <2>2. \A i \in 0..(n + 1) : g[i] = F(g, i)
    <3> SUFFICES ASSUME NEW i \in 0..(n + 1) PROVE g[i] = F(g, i)
      OBVIOUS
    <3>1. CASE i = 0
      BY <2>1, <3>1
    <3>2. CASE i \in 1..n
      <4>1. i \in 0..n /\ i - 1 \in 0..n /\ i # n + 1 /\ i - 1 # n + 1 /\ i - 1 \in 0..(n + 1)
        BY <3>2
      <4>2. f[i] = F(f, i) /\ g[i] = f[i] /\ g[i - 1] = f[i - 1]
        BY <2>1, <4>1
      <4>3. QED
        BY <3>2, <4>2
    <3>3. CASE i = n + 1
      BY <2>1, <3>3
    <3>4. QED
      BY <3>1, <3>2, <3>3
  <2>3. g = [i \in 0..(n + 1) |-> F(g, i)]
    BY <2>2
  <2>4. Defined(n + 1)
    <3> HIDE DEF g
    <3>1. QED
      BY <2>3
  <2>5. QED
    BY <2>4
<1>3. Defined(L)
  <2> HIDE DEF Defined
  <2>1. \A n \in Nat : n \in D
    <3> HIDE DEF D
    <3>1. QED
      BY <1>1, <1>2, Induction
  <2>2. QED
    BY <2>1
<1> DEFINE f == CHOOSE f : f = [i \in 0..Len(Declared) |-> F(f, i)]
<1>4. f = [i \in 0..L |-> F(f, i)]
  BY <1>3
<1>5. List = f[L]
  BY DEF List
<1> HIDE DEF f
<1>6. \A i \in 0..L : f[i] = F(f, i)
  <2> HIDE DEF F
  <2>1. QED
    BY <1>4
<1>7. f[0] = Declared /\ \A i \in 1..L : f[i] = GroupNext(f[i - 1], i)
  BY <1>6
<1>8. QED
  BY <1>5, <1>7

(* In the list the daemon walks, the configurations of a sensor are       *)
(* neighbours.                                                            *)
LEMMA ListIsGrouped ==
  List \in Seq(Configurations) /\ Len(List) \in Nat /\ Grouped(List, Len(List))
<1>0. Declared \in Seq(Configurations) /\ Len(Declared) \in Nat
  BY ConfigurationAssumption
<1> DEFINE L == Len(Declared)
<1>1. PICK f : /\ f[0] = Declared
               /\ \A i \in 1..L : f[i] = GroupNext(f[i - 1], i)
               /\ List = f[L]
  BY <1>0, ListSteps
<1> HIDE DEF L
<1> DEFINE P(n) == n <= L => f[n] \in Seq(Configurations) /\ Len(f[n]) = L /\ Grouped(f[n], n)
           D == {n \in Nat : P(n)}
<1>2. 0 \in D
  BY <1>0, <1>1 DEF L, Grouped
<1>3. ASSUME NEW n \in Nat, n \in D PROVE n + 1 \in D
  <2> SUFFICES ASSUME n + 1 <= L PROVE P(n + 1)
    OBVIOUS
  <2>1. f[n] \in Seq(Configurations) /\ Len(f[n]) = L /\ Grouped(f[n], n) /\ n + 1 \in 1..L
    BY <1>0, <1>3 DEF L
  <2>2. (n + 1) - 1 = n
    OBVIOUS
  <2>3. f[n + 1] = GroupNext(f[n], n + 1)
    BY <1>1, <2>1, <2>2
  <2>4. Grouped(f[n], (n + 1) - 1)
    BY <2>1, <2>2
  <2>5. QED
    BY <2>1, <2>3, <2>4, OneGrouped
<1>4. L \in D
  <2> HIDE DEF D
  <2>1. QED
    BY <1>0, <1>2, <1>3, Induction DEF L
<1>5. L <= L /\ L \in Nat
  BY <1>0 DEF L
<1>6. QED
  BY <1>1, <1>4, <1>5

(* So one that reads a sensor read before in the round finds it in res.   *)
LEMMA EarlierIsNeighbour ==
  ASSUME NEW p \in 1..Len(List), NEW i \in 1..(p - 1),
         Sensor(List, i) = Sensor(List, p)
  PROVE  Sensor(List, p - 1) = Sensor(List, p)
<1> DEFINE T == {d \in 1..(p - 1) : Sensor(List, p - d) = Sensor(List, p)}
<1>0. Len(List) \in Nat /\ p \in Nat
  BY ListIsGrouped
<1>1. p - i \in T
  <2>1. p - (p - i) = i /\ p - i \in 1..(p - 1)
    BY <1>0
  <2>2. QED
    BY <2>1
<1>2. PICK d \in T : \A e \in T : d <= e
  <2>1. T \subseteq Nat
    BY <1>0
  <2>0. T # {}
    <3> HIDE DEF T
    <3>1. QED
      BY <1>1
  <2> HIDE DEF T
  <2>2. QED
    BY <2>0, <2>1, Least
<1> DEFINE a == p - d
<1>3. /\ d \in 1..(p - 1) /\ a \in 1..Len(List)
      /\ Sensor(List, a) = Sensor(List, p) /\ p \in (a + 1)..Len(List)
  BY <1>0, <1>2
<1>4. Sensor(List, a + 1) = Sensor(List, a)
  <2> HIDE DEF a
  <2>1. QED
    BY <1>3, ListIsGrouped DEF Grouped
<1>5. d = 1
  <2> SUFFICES ASSUME d # 1 PROVE FALSE
    OBVIOUS
  <2>1. d - 1 \in 1..(p - 1) /\ p - (d - 1) = a + 1
    BY <1>0, <1>3
  <2>2. Sensor(List, p - (d - 1)) = Sensor(List, p)
    BY <1>3, <1>4, <2>1
  <2>3. d - 1 \in T
    BY <2>1, <2>2
  <2>4. QED
    BY <1>2, <1>3, <2>3
<1>6. QED
  BY <1>3, <1>5

---------------------------------------------------------------------------
(* The levels of a control and the highest of them.                       *)

LEMMA LevelFacts ==
  ASSUME NEW k \in Controls
  PROVE  /\ Levels[k] \in Seq(Nat) /\ Levels[k] # <<>>
         /\ LevelsOf(k) = {Levels[k][i] : i \in 1..Len(Levels[k])}
         /\ LevelsOf(k) \subseteq Nat
         /\ \A i, j \in 1..Len(Levels[k]) : Levels[k][i] = Levels[k][j] => i = j
<1>1. Levels[k] \in Seq(Nat) /\ Levels[k] # <<>> /\ IsInjective(Levels[k])
  BY LevelAssumption
<1>2. DOMAIN Levels[k] = 1..Len(Levels[k])
  BY <1>1
<1>3. LevelsOf(k) = {Levels[k][i] : i \in 1..Len(Levels[k])}
  BY <1>2 DEF LevelsOf
<1>4. LevelsOf(k) \subseteq Nat
  BY <1>1, <1>3
<1>5. \A i, j \in 1..Len(Levels[k]) : Levels[k][i] = Levels[k][j] => i = j
  BY <1>1, <1>2 DEF IsInjective
<1>6. QED
  BY <1>1, <1>3, <1>4, <1>5


(* A bounded set of natural numbers has a greatest member.                *)
LEMMA Greatest ==
  ASSUME NEW T, T \subseteq Nat, T # {}, NEW b \in Nat, \A x \in T : x <= b
  PROVE  Max(T) \in T /\ \A y \in T : y <= Max(T)
<1> DEFINE D == {d \in 0..b : b - d \in T}
<1>1. D \subseteq Nat
  OBVIOUS
<1>2. D # {}
  <2>1. PICK x \in T : TRUE
    OBVIOUS
  <2>2. b - x \in 0..b /\ b - (b - x) = x
    OBVIOUS
  <2>3. b - x \in D
    BY <2>2
  <2>4. QED
    BY <2>3
<1>3. PICK d \in D : \A e \in D : d <= e
  <2> HIDE DEF D
  <2>1. QED
    BY <1>1, <1>2, Least
<1>4. b - d \in T
  BY <1>3
<1>5. ASSUME NEW y \in T PROVE b - d >= y
  <2>1. b - y \in 0..b /\ b - (b - y) = y
    OBVIOUS
  <2>2. b - y \in D
    BY <2>1
  <2>3. QED
    BY <1>3, <2>2
<1>6. \E x \in T : \A y \in T : x >= y
  BY <1>4, <1>5
<1>7. Max(T) \in T /\ \A y \in T : Max(T) >= y
  BY <1>6 DEF Max
<1>8. QED
  BY <1>7

(* The members of a list of natural numbers are bounded.                  *)
LEMMA Bounded ==
  ASSUME NEW s \in Seq(Nat)
  PROVE  \E b \in Nat : \A i \in 1..Len(s) : s[i] <= b
<1> DEFINE P(n) == \E b \in Nat : \A i \in 1..Len(s) : i <= n => s[i] <= b
           D == {n \in Nat : P(n)}
<1>0. Len(s) \in Nat /\ \A i \in 1..Len(s) : s[i] \in Nat
  OBVIOUS
<1>1. 0 \in D
  BY <1>0
<1>2. ASSUME NEW n \in Nat, n \in D PROVE n + 1 \in D
  <2>1. PICK b \in Nat : \A i \in 1..Len(s) : i <= n => s[i] <= b
    BY <1>2
  <2>2. \E c \in Nat : \A i \in 1..Len(s) : i <= n + 1 => s[i] <= c
    <3>1. CASE n + 1 \in 1..Len(s)
      <4> DEFINE c == b + s[n + 1]
      <4>1. c \in Nat /\ \A i \in 1..Len(s) : i <= n + 1 => s[i] <= c
        BY <1>0, <2>1, <3>1
      <4> HIDE DEF c
      <4>2. QED
        BY <4>1
    <3>2. CASE n + 1 \notin 1..Len(s)
      <4>1. \A i \in 1..Len(s) : i <= n + 1 => i <= n
        BY <1>0, <3>2
      <4>2. QED
        BY <2>1, <4>1
    <3>3. QED
      BY <3>1, <3>2
  <2>3. P(n + 1)
    BY <2>2
  <2> HIDE DEF P
  <2>4. QED
    BY <2>3
<1>3. P(Len(s))
  <2>1. Len(s) \in D
    <3> HIDE DEF D
    <3>1. QED
      BY <1>0, <1>1, <1>2, Induction
  <2>2. QED
    BY <2>1
<1>4. PICK b \in Nat : \A i \in 1..Len(s) : i <= Len(s) => s[i] <= b
  BY <1>3
<1>5. \A i \in 1..Len(s) : s[i] <= b
  BY <1>0, <1>4
<1>6. QED
  BY <1>5

(* The highest of some levels of a control, or 0, is what                 *)
(* control_update_level takes.                                            *)
LEMMA HighestLevel ==
  ASSUME NEW k \in Controls, NEW T, T \subseteq LevelsOf(k)
  PROVE  /\ Max({0} \cup T) \in {0} \cup T /\ Max({0} \cup T) \in Nat
         /\ \A y \in {0} \cup T : y <= Max({0} \cup T)
<1>1. PICK b \in Nat : \A i \in 1..Len(Levels[k]) : Levels[k][i] <= b
  BY LevelFacts, Bounded
<1>2. {0} \cup T \subseteq Nat /\ \A x \in {0} \cup T : x <= b
  BY <1>1, LevelFacts, SMTT(30)
<1> DEFINE U == {0} \cup T
<1>3. U # {}
  OBVIOUS
<1> HIDE DEF U
<1>4. Max(U) \in U /\ \A y \in U : y <= Max(U)
  BY <1>2, <1>3, Greatest DEF U
<1>5. QED
  BY <1>2, <1>4 DEF U

---------------------------------------------------------------------------
(* Mitigations: which of them are active while a control walks its        *)
(* ladder, and what their timers and resources hold.                      *)

(* The levels the control that changes its level has yet to visit.          *)
Left         == {ladder[i] : i \in 1..Len(ladder)}
Switching(k) == ladder # <<>> /\ target[1] = k

LadderOK ==
  /\ ladder = <<>> \/ pc = "apply"
  /\ ladder # <<>> =>
       /\ target[1] \in Controls /\ target = <<target[1], target[2]>>
       /\ target[2] \in Nat /\ target[2] # current_level[target[1]]
       /\ ladder \in Seq(Nat) /\ Left \subseteq LevelsOf(target[1])
       /\ \A i, j \in 1..Len(ladder) : ladder[i] = ladder[j] => i = j

(* The mitigation is activated and not deactivated since.                   *)
Active(m) ==
  IF Switching(m[1])
  THEN \/ m[2] = current_level[m[1]] /\ m[2] \in Left
       \/ m = target /\ m[2] \notin Left
  ELSE m[2] = current_level[m[1]]

(* Its control has written the values of the next level over its own.       *)
Superseded(m) == Switching(m[1]) /\ m # target /\ target \in Mitigations /\ Active(target)

Owned(r, k) == \A n \in Mitigations : r \in Uses[n] => n[1] = k

(* A polled resource of an active mitigation has a timer; one of two active *)
(* ones has a timer that no deactivation ends.                              *)
TimersRun ==
  \A m \in Mitigations : Active(m) => \A r \in Uses[m] \cap Polled : held[r] \/ leaked[r]

TimersOutlive ==
  \A m, n \in Mitigations : Active(m) /\ Active(n) /\ m # n =>
    \A r \in Uses[m] \cap Uses[n] \cap Polled : leaked[r]

ValuesWritten ==
  \A m \in Mitigations : Active(m) /\ ~Superseded(m) =>
    \A r \in Uses[m] : Owned(r, m[1]) => written[r] = m

(* The invariant, inductive in states of the right types.                   *)
SwitchInv == LadderOK /\ TimersRun /\ TimersOutlive /\ ValuesWritten
---------------------------------------------------------------------------
LEMMA MitigationIsPair ==
  ASSUME NEW m \in Mitigations
  PROVE  m = <<m[1], m[2]>> /\ m[1] \in Controls /\ m[2] \in LevelsOf(m[1])
BY DEF Mitigations

(* A step that switches nothing.                                            *)
LEMMA SwitchFrame ==
  ASSUME SwitchInv, UNCHANGED <<ladder, target, current_level, timerVars>>,
         ladder # <<>> => pc' = "apply"
  PROVE  SwitchInv'
BY SMTT(30) DEF SwitchInv, LadderOK, TimersRun, TimersOutlive, ValuesWritten, Active,
       Superseded, Switching, Left, Owned, timerVars

(* A vote that sends the control up or down its mitigations ends none yet.  *)
LEMMA VoteStep ==
  ASSUME SwitchInv, TypeOK, ControlVoteLevel \/ ControlUnvoteLevel
  PROVE  SwitchInv'
<1>1. PICK k, level :
        /\ k \in Controls /\ pc = "apply" /\ ladder = <<>>
        /\ UNCHANGED <<pc, current_level, timerVars>>
        /\ \/ UNCHANGED <<ladder, target>>
           \/ /\ level \in Nat /\ level # current_level[k]
              /\ ladder' = Levels[k] /\ target' = <<k, level>>
  <2> DEFINE V == [kind : {"vote", "unvote"}, control : Controls, level : Int]
             k == Head(todo).control
  <2>1. todo # <<>> /\ todo \in Seq(V)
    BY DEF TypeOK, ControlVoteLevel, ControlUnvoteLevel, Vote
  <2>2. k \in Controls
    <3> HIDE DEF V
    <3>1. Head(todo) \in V
      BY <2>1
    <3>2. QED
      BY <3>1 DEF V
  <2> HIDE DEF k
  <2>3. PICK votes : /\ pc = "apply" /\ ladder = <<>>
                     /\ UNCHANGED <<pc, current_level, timerVars>>
                     /\ ControlUpdateLevel(k, votes)
    BY DEF ControlVoteLevel, ControlUnvoteLevel, Vote, k
  <2> DEFINE T == {l \in LevelsOf(k) : votes[l] > 0}
  <2>4. Max({0} \cup T) \in Nat
    <3>1. T \subseteq LevelsOf(k)
      OBVIOUS
    <3> HIDE DEF T
    <3>2. QED
      BY <2>2, <3>1, HighestLevel
  <2>5. \/ UNCHANGED <<ladder, target>>
        \/ /\ Max({0} \cup T) # current_level[k]
           /\ ladder' = Levels[k] /\ target' = <<k, Max({0} \cup T)>>
    BY <2>3 DEF ControlUpdateLevel
  <2> HIDE DEF T
  <2>6. QED
    BY <2>2, <2>3, <2>4, <2>5
<1>2. CASE UNCHANGED <<ladder, target>>
  BY <1>1, <1>2, SwitchFrame
<1>3. CASE /\ level \in Nat /\ level # current_level[k]
           /\ ladder' = Levels[k] /\ target' = <<k, level>>
  <2>1. Left' = LevelsOf(k) /\ ladder' # <<>>
    BY <1>1, <1>3, LevelFacts DEF Left
  <2>2. LadderOK'
    BY <1>1, <1>3, <2>1, LevelFacts DEF LadderOK
  <2>3. \A m \in Mitigations : Active(m)' <=> Active(m)
    BY <1>1, <1>3, <2>1, MitigationIsPair DEF Active, Switching
  <2>4. \A m \in Mitigations : ~Superseded(m)
    BY <1>1 DEF Superseded, Switching
  <2>5. QED
    BY <1>1, <2>2, <2>3, <2>4
       DEF SwitchInv, TimersRun, TimersOutlive, ValuesWritten, Owned, timerVars
<1>4. QED
  BY <1>1, <1>2, <1>3

(* A mitigation is switched: what becomes active is the new level's, what   *)
(* is no longer active the old one's.                                       *)
LEMMA SwitchActive ==
  ASSUME SwitchInv, TypeOK, SwitchMitigation
  PROVE  LET k == target[1]
             m == <<k, Head(ladder)>>
         IN  /\ k \in Controls /\ m \in Mitigations
             /\ \A n \in Mitigations :
                  Active(n)' <=> (Active(n) /\ n # m) \/ (n = m /\ m = target)
             /\ LadderOK'
             /\ ladder' # <<>> => target' = target
             /\ ladder' = <<>> => \A n \in Mitigations :
                                    n[1] = k /\ Active(n)' => n = target
<1> DEFINE k == target[1]
           h == Head(ladder)
           m == <<k, h>>
<1> USE DEF SwitchInv
<1>1. /\ pc = "apply" /\ ladder # <<>> /\ k \in Controls /\ target = <<k, target[2]>>
      /\ target[2] \in Nat /\ target[2] # current_level[k]
      /\ ladder \in Seq(Nat) /\ Left \subseteq LevelsOf(k)
      /\ \A i, j \in 1..Len(ladder) : ladder[i] = ladder[j] => i = j
  BY DEF SwitchMitigation, LadderOK
<1>2. /\ ladder' = Tail(ladder) /\ pc' = pc
      /\ IF Len(ladder) = 1
         THEN current_level' = [current_level EXCEPT ![k] = target[2]]
         ELSE UNCHANGED <<current_level, target>>
  BY DEF SwitchMitigation
<1>3. /\ Len(ladder) \in Nat /\ Len(ladder) >= 1 /\ h = ladder[1]
      /\ Tail(ladder) \in Seq(Nat) /\ Len(Tail(ladder)) = Len(ladder) - 1
      /\ \A i \in 1..Len(Tail(ladder)) : Tail(ladder)[i] = ladder[i + 1]
      /\ Tail(ladder) = <<>> <=> Len(ladder) = 1
  <2>1. ladder \in Seq(Nat) /\ ladder # <<>>
    BY <1>1
  <2>2. /\ Len(ladder) \in Nat /\ Len(ladder) >= 1 /\ h = ladder[1]
        /\ Tail(ladder) \in Seq(Nat) /\ Len(Tail(ladder)) = Len(ladder) - 1
        /\ \A i \in 1..Len(Tail(ladder)) : Tail(ladder)[i] = ladder[i + 1]
    BY <2>1
  <2>3. Tail(ladder) = <<>> <=> Len(Tail(ladder)) = 0
    <3> DEFINE t == Tail(ladder)
    <3>1. t \in Seq(Nat)
      BY <2>2
    <3> HIDE DEF t
    <3>2. t = <<>> <=> Len(t) = 0
      BY <3>1
    <3>3. QED
      BY <3>2 DEF t
  <2>4. QED
    BY <2>2, <2>3, SMTT(30)
<1>4. h \in Left /\ h \in LevelsOf(k) /\ m \in Mitigations
  <2>1. 1 \in 1..Len(ladder) /\ h = ladder[1]
    BY <1>3
  <2>2. h \in Left
    BY <2>1 DEF Left
  <2>3. k \in Controls /\ h \in LevelsOf(k)
    BY <1>1, <2>2
  <2> HIDE DEF h, k
  <2>4. QED
    BY <2>2, <2>3 DEF Mitigations
<1>5. Left' = Left \ {h}
  <2>1. \A i \in 1..Len(ladder) : i # 1 =>
          i - 1 \in 1..Len(Tail(ladder)) /\ Tail(ladder)[i - 1] = ladder[i]
    BY <1>3
  <2>2. ASSUME NEW x \in Left, x # h PROVE x \in Left'
    <3>1. PICK i \in 1..Len(ladder) : ladder[i] = x
      BY <2>2 DEF Left
    <3>2. QED
      BY <1>2, <1>3, <2>1, <2>2, <3>1 DEF Left
  <2>3. ASSUME NEW x \in Left' PROVE x \in Left /\ x # h
    <3>1. PICK i \in 1..Len(Tail(ladder)) : Tail(ladder)[i] = x
      BY <1>2, <2>3 DEF Left
    <3>2. i + 1 \in 1..Len(ladder) /\ ladder[i + 1] = x /\ i + 1 # 1 /\ 1 \in 1..Len(ladder)
      BY <1>3, <3>1
    <3>3. QED
      BY <1>1, <1>3, <3>2 DEF Left
  <2>4. QED
    BY <2>2, <2>3
<1>6. LadderOK'
  <2>1. \A i, j \in 1..Len(Tail(ladder)) : Tail(ladder)[i] = Tail(ladder)[j] => i = j
    <3> SUFFICES ASSUME NEW i \in 1..Len(Tail(ladder)), NEW j \in 1..Len(Tail(ladder)),
                        Tail(ladder)[i] = Tail(ladder)[j]
                 PROVE  i = j
      OBVIOUS
    <3>1. i + 1 \in 1..Len(ladder) /\ j + 1 \in 1..Len(ladder)
      BY <1>3
    <3>2. Tail(ladder)[i] = ladder[i + 1] /\ Tail(ladder)[j] = ladder[j + 1]
      BY <1>3
    <3>3. ladder[i + 1] = ladder[j + 1]
      BY <3>2
    <3>4. i + 1 = j + 1
      BY <1>1, <3>1, <3>3
    <3>5. QED
      BY <3>4
  <2>2. QED
    BY <1>1, <1>2, <1>3, <1>5, <2>1 DEF LadderOK
<1>7. ASSUME NEW n \in Mitigations
      PROVE  Active(n)' <=> (Active(n) /\ n # m) \/ (n = m /\ m = target)
  <2>1. n = <<n[1], n[2]>> /\ n[1] \in Controls
    BY MitigationIsPair
  <2>2. CASE Len(ladder) # 1
    <3>1. ladder' # <<>> /\ UNCHANGED <<current_level, target>>
      BY <1>2, <1>3, <2>2
    <3>2. QED
      BY <1>1, <1>4, <1>5, <2>1, <3>1 DEF Active, Switching
  <2>3. CASE Len(ladder) = 1
    <3>1. ladder' = <<>> /\ current_level' = [current_level EXCEPT ![k] = target[2]]
      BY <1>2, <1>3, <2>3
    <3>2. Left = {h}
      BY <1>3, <2>3 DEF Left
    <3>3. CASE n[1] # k
      BY <1>1, <2>1, <3>1, <3>3 DEF Active, Switching
    <3>4. CASE n[1] = k
      <4>1. Active(n)' <=> n[2] = target[2]
        BY <1>1, <2>1, <3>1, <3>4 DEF Active, Switching, TypeOK
      <4>2. n[2] = target[2] <=> n = target
        BY <1>1, <2>1, <3>4
      <4>3. QED
        BY <1>1, <2>1, <3>2, <3>4, <4>1, <4>2 DEF Active, Switching
    <3>5. QED
      BY <3>3, <3>4
  <2>4. QED
    BY <2>2, <2>3
<1>8. ladder' # <<>> => target' = target
  BY <1>2, <1>3
<1>9. ASSUME ladder' = <<>>, NEW n \in Mitigations, n[1] = k, Active(n)'
      PROVE  n = target
  <2>1. n = <<n[1], n[2]>> /\ n[1] \in Controls
    BY MitigationIsPair
  <2>2. current_level' = [current_level EXCEPT ![k] = target[2]]
    BY <1>2, <1>3, <1>9
  <2>3. n[2] = target[2]
    BY <1>1, <1>9, <2>1, <2>2 DEF Active, Switching, TypeOK
  <2>4. QED
    BY <1>1, <1>9, <2>1, <2>3
<1>10. QED
  BY <1>1, <1>4, <1>6, <1>7, <1>8, <1>9

(* The timers and values follow.                                            *)
LEMMA SwitchStep ==
  ASSUME SwitchInv, TypeOK, SwitchMitigation
  PROVE  SwitchInv'
<1> DEFINE k == target[1]
           m == <<k, Head(ladder)>>
<1>1. /\ k \in Controls /\ m \in Mitigations
      /\ \A n \in Mitigations : Active(n)' <=> (Active(n) /\ n # m) \/ (n = m /\ m = target)
      /\ LadderOK'
      /\ ladder' # <<>> => target' = target
      /\ ladder' = <<>> => \A n \in Mitigations : n[1] = k /\ Active(n)' => n = target
  BY SwitchActive
<1>2. /\ held \in [Resources -> BOOLEAN] /\ leaked \in [Resources -> BOOLEAN]
      /\ Polled \subseteq Resources /\ m[1] = k /\ m[2] = Head(ladder)
  BY ResourceAssumption DEF TypeOK
<1>3. \/ m = target /\ MitigationActivate(m)
      \/ m # target /\ m[2] = current_level[k] /\ MitigationDeactivate(m)
      \/ m # target /\ m[2] # current_level[k] /\ UNCHANGED timerVars
  BY DEF SwitchMitigation
<1>4. /\ Switching(k) /\ m[2] \in Left /\ target = <<k, target[2]>>
      /\ target[2] # current_level[k]
  <2>1. /\ ladder # <<>> /\ ladder \in Seq(Nat) /\ target = <<k, target[2]>>
        /\ target[2] # current_level[k]
    BY DEF SwitchMitigation, SwitchInv, LadderOK
  <2>2. Head(ladder) = ladder[1] /\ 1 \in 1..Len(ladder)
    BY <2>1
  <2>3. QED
    BY <1>2, <2>1, <2>2 DEF Switching, Left
<1> HIDE DEF m, k
<1>5. ASSUME m # target, NEW n \in Mitigations, Active(n)', ~Superseded(n)'
      PROVE  Active(n) /\ ~Superseded(n)
  <2>1. Active(n)
    BY <1>1, <1>5
  <2>2. ASSUME Superseded(n) PROVE FALSE
    <3>1. n[1] = k /\ n # target /\ target \in Mitigations /\ Active(target)
      BY <2>2 DEF Superseded, Switching, k
    <3>2. Active(n)' => ladder' # <<>> /\ target' = target
      BY <1>1, <3>1
    <3>3. Active(target)'
      <4>1. \A x : x = target => (Active(x)' <=> (Active(x) /\ x # m) \/ (x = m /\ m = target))
        BY <1>1, <3>1
      <4>2. QED
        BY <1>5, <3>1, <3>2, <4>1 DEF Active, Switching
    <3>4. Superseded(n)'
      BY <1>5, <3>1, <3>2, <3>3 DEF Superseded, Switching, k
    <3>5. QED
      BY <1>5, <3>4
  <2>3. QED
    BY <2>1, <2>2
<1>6. CASE m = target /\ MitigationActivate(m)
  <2>1. \A n \in Mitigations : Active(n)' <=> Active(n) \/ n = m
    BY <1>1, <1>6
  <2>2. \A r \in Uses[m] \cap Polled : held'[r] /\ (held[r] => leaked'[r])
    BY <1>2, <1>6 DEF MitigationActivate
  <2>3. \A r \in Polled : (held[r] => held'[r]) /\ (leaked[r] => leaked'[r])
    BY <1>2, <1>6 DEF MitigationActivate
  <2>4. TimersRun' /\ TimersOutlive'
    BY <2>1, <2>2, <2>3 DEF SwitchInv, TimersRun, TimersOutlive
  <2>5. ASSUME NEW n \in Mitigations, Active(n)', ~Superseded(n)',
               NEW r \in Uses[n], Owned(r, n[1])
        PROVE  written'[r] = n
    <3>1. written'[r] = IF r \in Uses[m] THEN m ELSE written[r]
      BY <1>6, UsesAssumption DEF MitigationActivate
    <3>2. CASE n = m
      BY <3>1, <3>2
    <3>3. CASE n # m
      <4>1. n[1] # k
        <5> SUFFICES ASSUME n[1] = k PROVE FALSE
          OBVIOUS
        <5>1. ladder' # <<>> /\ target' = target
          BY <1>1, <1>6, <2>5, <3>3
        <5>2. Superseded(n)'
          BY <1>1, <1>4, <1>6, <2>1, <3>3, <5>1 DEF Superseded, Switching
        <5>3. QED
          BY <2>5, <5>2
      <4>2. ~Superseded(n)
        BY <4>1 DEF Superseded, Switching, k
      <4>3. r \notin Uses[m]
        BY <1>1, <1>2, <2>5, <4>1 DEF Owned
      <4>4. QED
        BY <2>1, <2>5, <3>1, <3>3, <4>2, <4>3 DEF SwitchInv, ValuesWritten
    <3>4. QED
      BY <3>2, <3>3
  <2>6. QED
    BY <1>1, <2>4, <2>5 DEF SwitchInv, ValuesWritten, Owned
<1>7. CASE m # target /\ written' = written /\ leaked' = leaked
           /\ \A r \in Resources : held'[r] <=> held[r] /\ (Active(m) => r \notin Uses[m])
  <2>1. \A n \in Mitigations : Active(n)' <=> Active(n) /\ n # m
    BY <1>1, <1>7
  <2>2. TimersRun'
    BY <1>1, <1>2, <1>7, <2>1 DEF SwitchInv, TimersRun, TimersOutlive
  <2>3. TimersOutlive'
    BY <1>7, <2>1 DEF SwitchInv, TimersOutlive
  <2>4. ValuesWritten'
    BY <1>5, <1>7 DEF SwitchInv, ValuesWritten, Owned
  <2>5. QED
    BY <1>1, <2>2, <2>3, <2>4 DEF SwitchInv
<1>8. CASE m # target /\ m[2] = current_level[k] /\ MitigationDeactivate(m)
  <2>1. Active(m)
    BY <1>2, <1>4, <1>8 DEF Active
  <2>2. written' = written /\ leaked' = leaked
        /\ \A r \in Resources : held'[r] <=> held[r] /\ r \notin Uses[m]
    BY <1>2, <1>8 DEF MitigationDeactivate
  <2>3. QED
    BY <1>7, <1>8, <2>1, <2>2
<1>9. CASE m # target /\ m[2] # current_level[k] /\ UNCHANGED timerVars
  <2>1. ~Active(m)
    BY <1>2, <1>4, <1>9 DEF Active
  <2>2. QED
    BY <1>2, <1>7, <1>9, <2>1 DEF timerVars
<1>10. QED
  BY <1>3, <1>6, <1>8, <1>9
---------------------------------------------------------------------------
LEMMA SwitchStart == Init => SwitchInv
<1> SUFFICES ASSUME Init PROVE SwitchInv
  OBVIOUS
<1>1. \A m \in Mitigations : ~Active(m)
  <2> SUFFICES ASSUME NEW m \in Mitigations PROVE ~Active(m)
    OBVIOUS
  <2>1. m[1] \in Controls /\ m[2] \in Nat
    BY MitigationIsPair, LevelFacts
  <2>2. current_level[m[1]] = -1 /\ ladder = <<>>
    BY <2>1 DEF Init
  <2>3. QED
    BY <2>1, <2>2 DEF Active, Switching
<1>2. LadderOK
  BY DEF Init, LadderOK
<1>3. QED
  BY <1>1, <1>2 DEF SwitchInv, TimersRun, TimersOutlive, ValuesWritten

LEMMA SwitchInduction ==
  ASSUME SwitchInv, TypeOK, [Next]_vars
  PROVE  SwitchInv'
<1>1. CASE ControlVoteLevel \/ ControlUnvoteLevel
  BY <1>1, VoteStep
<1>2. CASE SwitchMitigation
  BY <1>2, SwitchStep
<1>3. CASE \/ ReadSensor \/ SkipConfiguration \/ RunConfiguration \/ ConfigurationDone
           \/ EndOfRound \/ Wake \/ Halt \/ (\E s \in Sensors : Drift(s))
           \/ UNCHANGED vars
  <2>1. UNCHANGED <<ladder, target, current_level, timerVars>>
    BY <1>3 DEF ReadSensor, SkipConfiguration, RunConfiguration, ConfigurationDone,
                EndOfRound, Wake, Halt, Drift, vars, voteVars, timerVars
  <2>2. ladder # <<>> => pc' = "apply"
    BY <1>3 DEF SwitchInv, LadderOK, ReadSensor, SkipConfiguration, RunConfiguration,
                ConfigurationDone, EndOfRound, Wake, Halt, Drift, vars
  <2>3. QED
    BY <2>1, <2>2, SwitchFrame
<1>4. QED
  BY <1>1, <1>2, <1>3 DEF Next, DaemonStep

---------------------------------------------------------------------------
(* Lists turned round, joined and read at their head; the votes of a      *)
(* threshold.                                                             *)

(* The order in which thresholds moved one by one end up.                 *)
LEMMA Reversed ==
  ASSUME NEW X, NEW s \in Seq(X)
  PROVE  /\ Reverse(s) \in Seq(X) /\ Len(Reverse(s)) = Len(s)
         /\ \A i \in 1..Len(s) : Reverse(s)[i] = s[Len(s) - i + 1]
         /\ ToSet(Reverse(s)) = ToSet(s)
<1>0. Len(s) \in Nat /\ DOMAIN s = 1..Len(s) /\ \A i \in 1..Len(s) : s[i] \in X
  BY ElementOfSeq
<1> DEFINE r == Reverse(s)
<1>1. r = [i \in 1..Len(s) |-> s[(Len(s) - i) + 1]]
  BY DEF Reverse
<1>2. \A i \in 1..Len(s) : (Len(s) - i) + 1 \in 1..Len(s)
  BY <1>0
<1> HIDE DEF r
<1>3. r \in [1..Len(s) -> X]
  BY <1>0, <1>1, <1>2
<1>4. r \in Seq(X) /\ Len(r) = Len(s) /\ DOMAIN r = 1..Len(s)
  BY <1>0, <1>3
<1>5. \A i \in 1..Len(s) : r[i] = s[Len(s) - i + 1]
  BY <1>0, <1>1
<1>6. ToSet(r) = ToSet(s)
  <2>1. ASSUME NEW i \in 1..Len(s) PROVE s[i] \in ToSet(r)
    <3>1. Len(s) - i + 1 \in 1..Len(s) /\ Len(s) - (Len(s) - i + 1) + 1 = i
      BY <1>0
    <3>2. r[Len(s) - i + 1] = s[i]
      BY <1>5, <3>1
    <3>3. QED
      BY <1>4, <3>1, <3>2 DEF ToSet
  <2>2. ASSUME NEW i \in 1..Len(s) PROVE r[i] \in ToSet(s)
    <3>1. r[i] = s[Len(s) - i + 1] /\ Len(s) - i + 1 \in 1..Len(s)
      BY <1>2, <1>5
    <3>2. QED
      BY <1>0, <3>1 DEF ToSet
  <2>3. QED
    BY <1>0, <1>4, <2>1, <2>2 DEF ToSet
<1>7. QED
  BY <1>4, <1>5, <1>6 DEF r

LEMMA JoinedSet ==
  ASSUME NEW X, NEW a \in Seq(X), NEW b \in Seq(X)
  PROVE  a \o b \in Seq(X) /\ ToSet(a \o b) = ToSet(a) \cup ToSet(b)
<1> DEFINE j == a \o b
<1>1. /\ j \in Seq(X) /\ Len(j) = Len(a) + Len(b)
      /\ \A i \in 1..Len(a) : j[i] = a[i]
      /\ \A i \in 1..Len(b) : j[Len(a) + i] = b[i]
  BY Joined
<1>2. /\ DOMAIN a = 1..Len(a) /\ DOMAIN b = 1..Len(b)
      /\ Len(a) \in Nat /\ Len(b) \in Nat
  OBVIOUS
<1> HIDE DEF j
<1>3. DOMAIN j = 1..(Len(a) + Len(b))
  BY <1>1
<1>4. ASSUME NEW i \in DOMAIN j PROVE j[i] \in ToSet(a) \cup ToSet(b)
  <2>1. CASE i <= Len(a)
    BY <1>1, <1>2, <1>3, <2>1 DEF ToSet
  <2>2. CASE i > Len(a)
    <3>1. i - Len(a) \in 1..Len(b) /\ Len(a) + (i - Len(a)) = i
      BY <1>2, <1>3, <2>2
    <3>2. j[i] = b[i - Len(a)]
      BY <1>1, <3>1
    <3>3. QED
      BY <1>2, <3>1, <3>2 DEF ToSet
  <2>3. QED
    BY <1>2, <1>3, <2>1, <2>2
<1>5. \A i \in 1..Len(a) : i \in DOMAIN j
  BY <1>2, <1>3
<1>6. \A i \in 1..Len(b) : Len(a) + i \in DOMAIN j
  BY <1>2, <1>3
<1>7. ToSet(j) = ToSet(a) \cup ToSet(b)
  BY <1>1, <1>2, <1>4, <1>5, <1>6, SMTT(30) DEF ToSet
<1>8. QED
  BY <1>1, <1>7 DEF j

LEMMA Heads ==
  ASSUME NEW X, NEW s \in Seq(X)
  PROVE  /\ ToSet(s) \subseteq X
         /\ s # <<>> => Head(s) = s[1] /\ Head(s) \in ToSet(s)
<1>1. /\ DOMAIN s = 1..Len(s) /\ Len(s) \in Nat
      /\ s # <<>> => Len(s) >= 1 /\ Head(s) = s[1]
      /\ \A i \in 1..Len(s) : s[i] \in X
  BY ElementOfSeq
<1>2. QED
  BY <1>1 DEF ToSet

VoteSet == [kind : {"vote", "unvote"}, control : Controls, level : Int]

(* threshold_activate and threshold_deactivate: one vote for each level   *)
(* the threshold wants.                                                   *)
LEMMA VotesOfThreshold ==
  ASSUME NEW t \in Thresholds, NEW kind \in {"vote", "unvote"}
  PROVE  /\ VotesOf(t, kind) \in Seq(VoteSet) /\ Len(VotesOf(t, kind)) = Len(Wants[t])
         /\ \A i \in 1..Len(Wants[t]) :
              /\ Wants[t][i] = <<Wants[t][i][1], Wants[t][i][2]>>
              /\ Wants[t][i][1] \in Controls /\ Wants[t][i][2] \in Int
              /\ VotesOf(t, kind)[i].kind = kind
              /\ VotesOf(t, kind)[i].control = Wants[t][i][1]
              /\ VotesOf(t, kind)[i].level = Wants[t][i][2]
<1> DEFINE w == Wants[t]
           v == VotesOf(t, kind)
<1>1. w \in Seq(Controls \X Int)
  BY ThresholdFacts
<1>2. v = [i \in DOMAIN w |-> [kind |-> kind, control |-> w[i][1], level |-> w[i][2]]]
  BY DEF VotesOf
<1> HIDE DEF w, v
<1>3. Len(w) \in Nat /\ DOMAIN w = 1..Len(w) /\ \A i \in 1..Len(w) : w[i] \in Controls \X Int
  BY <1>1
<1>4. \A i \in 1..Len(w) : w[i] = <<w[i][1], w[i][2]>> /\ w[i][1] \in Controls /\ w[i][2] \in Int
  BY <1>3
<1>5. \A i \in 1..Len(w) : v[i] = [kind |-> kind, control |-> w[i][1], level |-> w[i][2]]
  BY <1>2, <1>3
<1>6. ASSUME NEW i \in 1..Len(w)
      PROVE  /\ v[i] \in VoteSet /\ v[i].kind = kind
             /\ v[i].control = w[i][1] /\ v[i].level = w[i][2]
  <2> DEFINE c == w[i][1]
             l == w[i][2]
  <2>1. c \in Controls /\ l \in Int
    BY <1>4
  <2>2. v[i] = [kind |-> kind, control |-> c, level |-> l]
    BY <1>5
  <2> HIDE DEF c, l
  <2>3. v[i] \in VoteSet /\ v[i].kind = kind /\ v[i].control = c /\ v[i].level = l
    BY <2>1, <2>2 DEF VoteSet
  <2>4. QED
    BY <2>3 DEF c, l
<1>7. v \in [1..Len(w) -> VoteSet]
  BY <1>2, <1>3, <1>6
<1>8. v \in Seq(VoteSet) /\ Len(v) = Len(w)
  BY <1>3, <1>7
<1>9. QED
  BY <1>4, <1>6, <1>8 DEF w, v

LEMMA ChangeOverType ==
  ASSUME NEW old \in Thresholds \cup {None}, NEW new \in Thresholds
  PROVE  ChangeOver(old, new) \in Seq(VoteSet)
<1>1. VotesOf(new, "vote") \in Seq(VoteSet)
  BY VotesOfThreshold
<1>2. CASE old = None
  <2>1. <<>> \in Seq(VoteSet)
    OBVIOUS
  <2>2. QED
    BY <1>1, <1>2, <2>1, JoinedSet DEF ChangeOver
<1>3. CASE old # None
  <2>1. VotesOf(old, "unvote") \in Seq(VoteSet)
    BY <1>3, VotesOfThreshold
  <2>2. QED
    BY <1>1, <1>3, <2>1, JoinedSet DEF ChangeOver
<1>4. QED
  BY <1>2, <1>3

---------------------------------------------------------------------------
(* Type correctness. No list ever holds a threshold of another            *)
(* configuration, and the daemon's place in its round fits the sensor it  *)
(* read last.                                                             *)

(* res is the sensor of the configuration at pos once that is read, and   *)
(* of the one before it until then.                                       *)
RoundOK ==
  /\ pc \in {"run", "apply"} => pos <= Len(List) /\ res = SensorOf[List[pos]]
  /\ pc = "read" => res = IF pos = 1 THEN None ELSE Sensor(List, pos - 1)

(* A configuration's thresholds are in its lists, and the one in force    *)
(* is one of its own.                                                     *)
ListsOK ==
  \A c \in Configurations :
    /\ ToSet(satisfied[c]) \cup ToSet(unsatisfied[c]) = ToSet(ThresholdsOf[c])
    /\ current[c] \in ToSet(ThresholdsOf[c]) \cup {None}

TypeInv == TypeOK /\ RoundOK /\ ListsOK

(* What the daemon finds at its configuration.                            *)
LEMMA AtConfiguration ==
  ASSUME TypeOK, pos <= Len(List)
  PROVE  /\ pos \in 1..Len(List) /\ List[pos] \in Configurations
         /\ SensorOf[List[pos]] \in Sensors
         /\ satisfied[List[pos]] \in Seq(Thresholds) /\ unsatisfied[List[pos]] \in Seq(Thresholds)
         /\ current[List[pos]] \in Thresholds \cup {None}
         /\ last_value[List[pos]] \in Int
<1>1. pos \in 1..Len(List)
  BY ListIsGrouped DEF TypeOK
<1>2. List[pos] \in Configurations
  BY <1>1, ListIsGrouped, ElementOfSeq
<1>3. \A c \in Configurations :
        /\ SensorOf[c] \in Sensors
        /\ satisfied[c] \in Seq(Thresholds) /\ unsatisfied[c] \in Seq(Thresholds)
        /\ current[c] \in Thresholds \cup {None} /\ last_value[c] \in Int
  <2>1. Temps \cup {-1} \subseteq Int
    BY SensorAssumption
  <2>2. QED
    BY <2>1, SensorAssumption DEF TypeOK
<1>4. QED
  BY <1>1, <1>2, <1>3

(* configuration_run, as sets: a rising value takes the thresholds it     *)
(* has reached from one list to the other, a falling one takes those      *)
(* back that it has left.                                                 *)
LEMMA RunLists ==
  ASSUME TypeInv, RunConfiguration
  PROVE  LET c == List[pos]
             s == satisfied[c]
             u == unsatisfied[c]
             over  == {t \in ToSet(u) : value >= Trigger[t]}
             under == {t \in ToSet(s) : value <= Clear[t]}
         IN  /\ c \in Configurations /\ value \in Int /\ value \in Temps \cup {-1}
             /\ last_value[c] \in Int
             /\ satisfied' = [satisfied EXCEPT ![c] = satisfied'[c]]
             /\ unsatisfied' = [unsatisfied EXCEPT ![c] = unsatisfied'[c]]
             /\ last_value' = [last_value EXCEPT ![c] = value]
             /\ satisfied'[c] \in Seq(Thresholds) /\ unsatisfied'[c] \in Seq(Thresholds)
             /\ value > last_value[c] =>
                  /\ ToSet(satisfied'[c]) = ToSet(s) \cup over
                  /\ ToSet(unsatisfied'[c]) = ToSet(u) \ over
             /\ value < last_value[c] =>
                  /\ ToSet(satisfied'[c]) = ToSet(s) \ under
                  /\ ToSet(unsatisfied'[c]) = ToSet(u) \cup under
             /\ value > last_value[c] \/ value < last_value[c]
<1> DEFINE c == List[pos]
           s == satisfied[c]
           u == unsatisfied[c]
           entered == {t \in Thresholds : Entered(t, value)}
           exited  == {t \in Thresholds : Exited(t, value)}
           enter == Filter(u, entered)
           wait  == Filter(u, Thresholds \ entered)
           leave == Filter(s, exited)
           stay  == Filter(s, Thresholds \ exited)
           over  == {t \in ToSet(u) : value >= Trigger[t]}
           under == {t \in ToSet(s) : value <= Clear[t]}
           rises == value > last_value[c]
<1>1. /\ c \in Configurations /\ s \in Seq(Thresholds) /\ u \in Seq(Thresholds)
      /\ last_value[c] \in Int
  BY AtConfiguration DEF TypeInv, RoundOK, RunConfiguration
<1>2. value \in Temps \cup {-1} /\ value \in Int /\ value # last_value[c]
  BY SensorAssumption DEF TypeInv, TypeOK, RunConfiguration
<1>3. /\ satisfied' = [satisfied EXCEPT ![c] = IF rises THEN Reverse(enter) \o s ELSE stay]
      /\ unsatisfied' = [unsatisfied EXCEPT ![c] = IF rises THEN wait ELSE Reverse(leave) \o u]
      /\ last_value' = [last_value EXCEPT ![c] = value]
  BY DEF RunConfiguration
<1>4. ToSet(s) \subseteq Thresholds /\ ToSet(u) \subseteq Thresholds
  BY <1>1, Heads
<1>5. /\ enter \in Seq(Thresholds) /\ ToSet(enter) = ToSet(u) \cap entered
      /\ wait \in Seq(Thresholds) /\ ToSet(wait) = ToSet(u) \cap (Thresholds \ entered)
      /\ leave \in Seq(Thresholds) /\ ToSet(leave) = ToSet(s) \cap exited
      /\ stay \in Seq(Thresholds) /\ ToSet(stay) = ToSet(s) \cap (Thresholds \ exited)
  <2> HIDE DEF entered, exited, s, u
  <2>1. QED
    BY <1>1, FilterIsList
<1>6. /\ ToSet(u) \cap entered = over /\ ToSet(u) \cap (Thresholds \ entered) = ToSet(u) \ over
      /\ ToSet(s) \cap exited = under /\ ToSet(s) \cap (Thresholds \ exited) = ToSet(s) \ under
  BY <1>4 DEF Entered, Exited
<1> HIDE DEF enter, wait, leave, stay, over, under, entered, exited
<1>7. /\ Reverse(enter) \o s \in Seq(Thresholds)
      /\ ToSet(Reverse(enter) \o s) = ToSet(enter) \cup ToSet(s)
      /\ Reverse(leave) \o u \in Seq(Thresholds)
      /\ ToSet(Reverse(leave) \o u) = ToSet(leave) \cup ToSet(u)
  <2>1. /\ Reverse(enter) \in Seq(Thresholds) /\ ToSet(Reverse(enter)) = ToSet(enter)
        /\ Reverse(leave) \in Seq(Thresholds) /\ ToSet(Reverse(leave)) = ToSet(leave)
    BY <1>5, Reversed
  <2> HIDE DEF s, u
  <2>2. QED
    BY <1>1, <2>1, JoinedSet
<1>8. /\ satisfied'[c] = IF rises THEN Reverse(enter) \o s ELSE stay
      /\ unsatisfied'[c] = IF rises THEN wait ELSE Reverse(leave) \o u
  BY <1>1, <1>3 DEF TypeInv, TypeOK
<1>9. /\ satisfied' = [satisfied EXCEPT ![c] = satisfied'[c]]
      /\ unsatisfied' = [unsatisfied EXCEPT ![c] = unsatisfied'[c]]
  BY <1>3, <1>8
<1>10. rises \/ value < last_value[c]
  BY <1>1, <1>2
<1>11. ~(rises /\ value < last_value[c])
  BY <1>1, <1>2
<1> HIDE DEF s, u, rises
<1>12. satisfied'[c] \in Seq(Thresholds) /\ unsatisfied'[c] \in Seq(Thresholds)
  BY <1>5, <1>7, <1>8
<1>13. rises => /\ ToSet(satisfied'[c]) = ToSet(s) \cup over
                /\ ToSet(unsatisfied'[c]) = ToSet(u) \ over
  BY <1>5, <1>6, <1>7, <1>8
<1>14. ~rises => /\ ToSet(satisfied'[c]) = ToSet(s) \ under
                 /\ ToSet(unsatisfied'[c]) = ToSet(u) \cup under
  BY <1>5, <1>6, <1>7, <1>8
<1>15. QED
  BY <1>1, <1>2, <1>3, <1>9, <1>10, <1>11, <1>12, <1>13, <1>14 DEF s, u, over, under, rises

(* The steps keep the types, one lemma for each that moves more than pc.  *)
LEMMA RunTypes ==
  ASSUME TypeInv, RunConfiguration
  PROVE  TypeInv'
<1> DEFINE c == List[pos]
<1>1. /\ c \in Configurations /\ value \in Int /\ value \in Temps \cup {-1}
      /\ satisfied' = [satisfied EXCEPT ![c] = satisfied'[c]]
      /\ unsatisfied' = [unsatisfied EXCEPT ![c] = unsatisfied'[c]]
      /\ last_value' = [last_value EXCEPT ![c] = value]
      /\ satisfied'[c] \in Seq(Thresholds) /\ unsatisfied'[c] \in Seq(Thresholds)
      /\ ToSet(satisfied'[c]) \cup ToSet(unsatisfied'[c])
           = ToSet(satisfied[c]) \cup ToSet(unsatisfied[c])
  <2>1. CASE value > last_value[c]
    BY <2>1, RunLists
  <2>2. CASE value < last_value[c]
    BY <2>2, RunLists
  <2>3. QED
    BY <2>1, <2>2, RunLists
<1>2. /\ UNCHANGED <<pos, res, value, temp, current, nvotes, current_level, ladder, target,
                     held, leaked, written, notice, seen, low_edge, high_edge>>
      /\ pc = "run" /\ pc' \in {"crashed", "apply"}
  BY DEF RunConfiguration, roundVars, timerVars, zoneVars
<1>3. todo' \in Seq(VoteSet)
  <2>1. todo' = IF satisfied'[c] = <<>> \/ Head(satisfied'[c]) = current[c]
                THEN <<>> ELSE ChangeOver(current[c], Head(satisfied'[c]))
    BY DEF RunConfiguration
  <2>2. <<>> \in Seq(VoteSet)
    OBVIOUS
  <2>3. CASE satisfied'[c] # <<>>
    <3>1. Head(satisfied'[c]) \in Thresholds
      <4> DEFINE n == satisfied'[c]
      <4>1. n \in Seq(Thresholds) /\ n # <<>>
        BY <1>1, <2>3
      <4> HIDE DEF n
      <4>2. Head(n) \in Thresholds
        BY <4>1
      <4>3. QED
        BY <4>2 DEF n
    <3>2. current[c] \in Thresholds \cup {None}
      BY <1>1 DEF TypeInv, TypeOK
    <3>3. QED
      BY <2>1, <2>2, <3>1, <3>2, ChangeOverType
  <2>4. QED
    BY <2>1, <2>2, <2>3
<1> HIDE DEF c
<1>4. TypeOK'
  BY <1>1, <1>2, <1>3 DEF TypeInv, TypeOK, VoteSet
<1>5. RoundOK'
  BY <1>2 DEF TypeInv, RoundOK
<1>6. ListsOK'
  BY <1>1, <1>2 DEF TypeInv, TypeOK, ListsOK
<1>7. QED
  BY <1>4, <1>5, <1>6 DEF TypeInv

LEMMA ReadTypes ==
  ASSUME TypeInv, ReadSensor
  PROVE  TypeInv'
<1>1. /\ UNCHANGED <<pos, temp, last_value, satisfied, unsatisfied, current, todo, nvotes,
                     current_level, ladder, target, held, leaked, written, notice,
                     low_edge, high_edge>>
      /\ pc = "read" /\ pc' = "run" /\ pos <= Len(List)
  BY DEF ReadSensor, configVars, voteVars, timerVars
<1> DEFINE s == SensorOf[List[pos]]
<1>2. s \in Sensors
  BY <1>1, AtConfiguration DEF TypeInv
<1>3. \/ s = res /\ UNCHANGED <<res, value, seen>>
      \/ /\ res' = s
         /\ \/ value' = temp[s] /\ seen' = [z \in Zones |-> IF z = s THEN temp[s] ELSE seen[z]]
            \/ value' \in {-1, Unread} /\ UNCHANGED seen
  BY DEF ReadSensor
<1> HIDE DEF s
<1>4. temp[s] \in Temps /\ temp[s] \in Int
  BY <1>2, SensorAssumption DEF TypeInv, TypeOK
<1>5. value' \in Temps \cup {-1, Unread} /\ res' = s /\ seen' \in [Zones -> Int]
  BY <1>3, <1>4 DEF TypeInv, TypeOK
<1>6. TypeOK'
  BY <1>1, <1>2, <1>5 DEF TypeInv, TypeOK
<1>7. RoundOK' /\ ListsOK'
  BY <1>1, <1>5 DEF TypeInv, RoundOK, ListsOK, s
<1>8. QED
  BY <1>6, <1>7 DEF TypeInv

LEMMA VoteTypes ==
  ASSUME TypeInv, ControlVoteLevel \/ ControlUnvoteLevel
  PROVE  TypeInv'
<1>1. /\ UNCHANGED <<pc, pos, res, value, temp, last_value, satisfied, unsatisfied, current,
                     current_level, held, leaked, written, notice, seen, low_edge, high_edge>>
      /\ todo # <<>> /\ todo' = Tail(todo)
  BY DEF ControlVoteLevel, ControlUnvoteLevel, Vote, roundVars, configVars, timerVars, zoneVars
<1> DEFINE v == Head(todo)
           k == v.control
<1>2. todo \in Seq(VoteSet)
  BY DEF TypeInv, TypeOK, VoteSet
<1>3. v \in VoteSet /\ todo' \in Seq(VoteSet)
  BY <1>1, <1>2
<1>4. k \in Controls /\ v.level \in Int
  <2> HIDE DEF v
  <2>1. QED
    BY <1>3 DEF VoteSet
<1> HIDE DEF k, v
<1>5. nvotes[k] \in [LevelsOf(k) -> Nat]
  BY <1>4 DEF TypeInv, TypeOK
<1>6. PICK votes \in [LevelsOf(k) -> Nat] : ControlUpdateLevel(k, votes)
  <2>1. CASE ControlVoteLevel
    <3> DEFINE w == [l \in LevelsOf(k) |-> nvotes[k][l] + (IF l = v.level THEN 1 ELSE 0)]
    <3>1. w \in [LevelsOf(k) -> Nat]
      BY <1>5
    <3>2. ControlUpdateLevel(k, w)
      BY <2>1 DEF ControlVoteLevel, Vote, k, v
    <3>3. QED
      BY <3>1, <3>2
  <2>2. CASE ControlUnvoteLevel
    <3> DEFINE w == [l \in LevelsOf(k) |-> nvotes[k][l] -
                       (IF l = v.level /\ nvotes[k][l] > 0 THEN 1 ELSE 0)]
    <3>1. w \in [LevelsOf(k) -> Nat]
      BY <1>5
    <3>2. ControlUpdateLevel(k, w)
      BY <2>2 DEF ControlUnvoteLevel, Vote, k, v
    <3>3. QED
      BY <3>1, <3>2
  <2>3. QED
    BY <2>1, <2>2
<1>7. nvotes' = [nvotes EXCEPT ![k] = votes]
  BY <1>6 DEF ControlUpdateLevel
<1>8. target' \in (Controls \X Int) \cup {None}
  <2> DEFINE T == {l \in LevelsOf(k) : votes[l] > 0}
             level == Max({0} \cup T)
  <2>1. level \in Nat
    <3>1. T \subseteq LevelsOf(k)
      OBVIOUS
    <3> HIDE DEF T
    <3>2. QED
      BY <1>4, <3>1, HighestLevel
  <2>2. target' = target \/ target' = <<k, level>>
    BY <1>6 DEF ControlUpdateLevel
  <2> HIDE DEF level
  <2>3. QED
    BY <1>4, <2>1, <2>2 DEF TypeInv, TypeOK
<1>9. TypeOK'
  BY <1>1, <1>3, <1>4, <1>7, <1>8 DEF TypeInv, TypeOK, VoteSet
<1>10. RoundOK' /\ ListsOK'
  BY <1>1 DEF TypeInv, RoundOK, ListsOK
<1>11. QED
  BY <1>9, <1>10 DEF TypeInv

LEMMA SwitchTypes ==
  ASSUME TypeInv, SwitchInv, SwitchMitigation
  PROVE  TypeInv'
<1>1. UNCHANGED <<pc, pos, res, value, temp, last_value, satisfied, unsatisfied, current,
                  todo, nvotes, notice, seen, low_edge, high_edge>>
  BY DEF SwitchMitigation, roundVars, configVars, zoneVars
<1> DEFINE k == target[1]
           m == <<k, Head(ladder)>>
<1>2. k \in Controls /\ m \in Mitigations
  BY SwitchActive DEF TypeInv
<1>3. target[2] \in Int
  BY DEF SwitchInv, LadderOK, SwitchMitigation
<1>4. /\ current_level' \in [Controls -> Int]
      /\ target' \in (Controls \X Int) \cup {None}
  BY <1>2, <1>3 DEF TypeInv, TypeOK, SwitchMitigation
<1>5. MitigationActivate(m) \/ MitigationDeactivate(m) \/ UNCHANGED timerVars
  BY DEF SwitchMitigation
<1> HIDE DEF m, k
<1>6. /\ held' \in [Resources -> BOOLEAN] /\ leaked' \in [Resources -> BOOLEAN]
      /\ written' \in [Resources -> Mitigations \cup {None}]
  <2>1. CASE MitigationActivate(m)
    BY <1>2, <2>1 DEF MitigationActivate, TypeInv, TypeOK
  <2>2. CASE MitigationDeactivate(m)
    BY <2>2 DEF MitigationDeactivate, TypeInv, TypeOK
  <2>3. CASE UNCHANGED timerVars
    BY <2>3 DEF timerVars, TypeInv, TypeOK
  <2>4. QED
    BY <1>5, <2>1, <2>2, <2>3
<1>7. TypeOK'
  BY <1>1, <1>4, <1>6 DEF TypeInv, TypeOK
<1>8. RoundOK' /\ ListsOK'
  BY <1>1 DEF TypeInv, RoundOK, ListsOK
<1>9. QED
  BY <1>7, <1>8 DEF TypeInv

LEMMA DoneTypes ==
  ASSUME TypeInv, ConfigurationDone
  PROVE  TypeInv'
<1> DEFINE c == List[pos]
           s == satisfied[c]
           u == unsatisfied[c]
<1>1. /\ UNCHANGED <<res, value, temp, last_value, satisfied, unsatisfied, todo, nvotes,
                     current_level, ladder, target, held, leaked, written, seen>>
      /\ pc = "apply" /\ pc' = "read" /\ pos' = pos + 1
      /\ current' = [current EXCEPT ![c] = IF s = <<>> THEN @ ELSE Head(s)]
  BY DEF ConfigurationDone, NextConfiguration, voteVars, timerVars
<1>2. /\ pos \in 1..Len(List) /\ c \in Configurations /\ SensorOf[c] \in Sensors
      /\ s \in Seq(Thresholds) /\ u \in Seq(Thresholds) /\ res = SensorOf[c]
  BY <1>1, AtConfiguration DEF TypeInv, RoundOK
<1>3. /\ s # <<>> => Head(s) \in Thresholds /\ Head(s) \in ToSet(ThresholdsOf[c])
      /\ u # <<>> => Head(u) \in Thresholds
  <2>1. ToSet(s) \subseteq ToSet(ThresholdsOf[c])
    BY <1>2 DEF TypeInv, ListsOK
  <2> HIDE DEF s, u
  <2>2. /\ ToSet(s) \subseteq Thresholds /\ ToSet(u) \subseteq Thresholds
        /\ s # <<>> => Head(s) \in ToSet(s)
        /\ u # <<>> => Head(u) \in ToSet(u)
    BY <1>2, Heads
  <2>3. QED
    BY <2>1, <2>2
<1>4. current' \in [Configurations -> Thresholds \cup {None}] /\ ListsOK'
  <2> HIDE DEF s, c
  <2>1. current \in [Configurations -> Thresholds \cup {None}]
    BY DEF TypeInv, TypeOK
  <2>2. QED
    BY <1>1, <1>2, <1>3, <2>1 DEF TypeInv, ListsOK
<1>5. /\ notice' \subseteq Zones
      /\ low_edge' \in [Zones -> Int] /\ high_edge' \in [Zones -> Int]
  <2> DEFINE lower == IF s = <<>> THEN INT_MIN ELSE Clear[Head(s)]
             upper == IF u = <<>> THEN INT_MAX ELSE Trigger[Head(u)]
  <2>1. lower \in Int /\ upper \in Int
    BY <1>3, ThresholdFacts DEF INT_MIN, INT_MAX
  <2>2. CASE SensorOf[c] \notin Zones
    BY <2>2 DEF ConfigurationDone, TypeInv, TypeOK
  <2>3. CASE SensorOf[c] \in Zones
    <3>1. SetEdges(SensorOf[c], lower, upper)
      BY <2>3 DEF ConfigurationDone
    <3> HIDE DEF lower, upper, c
    <3>2. QED
      BY <2>1, <2>3, <3>1 DEF SetEdges, TypeInv, TypeOK
  <2>4. QED
    BY <2>2, <2>3
<1>6. pos' \in 1..(Len(List) + 1)
  BY <1>1, <1>2, ListIsGrouped
<1>7. TypeOK'
  BY <1>1, <1>4, <1>5, <1>6 DEF TypeInv, TypeOK
<1>8. RoundOK'
  <2>1. pos' # 1 /\ pos' - 1 = pos
    BY <1>1, <1>2
  <2>2. QED
    BY <1>1, <1>2, <2>1 DEF RoundOK, Sensor
<1>9. QED
  BY <1>4, <1>7, <1>8 DEF TypeInv

LEMMA OtherTypes ==
  ASSUME TypeInv,
         \/ SkipConfiguration \/ EndOfRound \/ Wake \/ Halt
         \/ (\E s \in Sensors : Drift(s)) \/ UNCHANGED vars
  PROVE  TypeInv'
<1>1. CASE SkipConfiguration
  <2>1. /\ UNCHANGED <<res, value, temp, last_value, satisfied, unsatisfied, current, todo,
                       nvotes, current_level, ladder, target, held, leaked, written,
                       notice, seen, low_edge, high_edge>>
        /\ pc = "run" /\ pc' = "read" /\ pos' = pos + 1
    BY <1>1 DEF SkipConfiguration, NextConfiguration, configVars, voteVars, timerVars, zoneVars
  <2>2. pos \in 1..Len(List) /\ res = SensorOf[List[pos]]
    BY <2>1, AtConfiguration DEF TypeInv, RoundOK
  <2>3. pos' \in 1..(Len(List) + 1) /\ pos' # 1 /\ pos' - 1 = pos
    BY <2>1, <2>2, ListIsGrouped
  <2>4. TypeOK'
    BY <2>1, <2>3 DEF TypeInv, TypeOK
  <2>5. RoundOK' /\ ListsOK'
    BY <2>1, <2>2, <2>3 DEF TypeInv, RoundOK, ListsOK, Sensor
  <2>6. QED
    BY <2>4, <2>5 DEF TypeInv
<1>2. CASE EndOfRound
  BY <1>2 DEF EndOfRound, roundVars, configVars, voteVars, timerVars, zoneVars,
              TypeInv, TypeOK, RoundOK, ListsOK
<1>3. CASE Wake
  <2>1. /\ UNCHANGED <<temp, last_value, satisfied, unsatisfied, current, todo, nvotes,
                       current_level, ladder, target, held, leaked, written, seen,
                       low_edge, high_edge>>
        /\ pc' = "read" /\ pos' = 1 /\ res' = None /\ value' = Unread /\ notice' = {}
    BY <1>3 DEF Wake, configVars, voteVars, timerVars
  <2>2. 1 \in 1..(Len(List) + 1)
    BY ListIsGrouped
  <2>3. QED
    BY <2>1, <2>2 DEF TypeInv, TypeOK, RoundOK, ListsOK
<1>4. CASE Halt
  BY <1>4 DEF Halt, roundVars, configVars, voteVars, timerVars, zoneVars,
              TypeInv, TypeOK, RoundOK, ListsOK
<1>5. ASSUME NEW s \in Sensors, Drift(s) PROVE TypeInv'
  <2>1. PICK v \in Temps :
          /\ temp' = [temp EXCEPT ![s] = v] /\ notice' \subseteq notice \cup (Zones \cap {s})
          /\ UNCHANGED <<pc, roundVars, configVars, voteVars, timerVars, seen, low_edge, high_edge>>
    BY <1>5 DEF Drift
  <2>2. temp' \in [Sensors -> Temps] /\ notice' \subseteq Zones
    BY <2>1 DEF TypeInv, TypeOK
  <2>3. QED
    BY <2>1, <2>2 DEF roundVars, configVars, voteVars, timerVars, TypeInv, TypeOK, RoundOK, ListsOK
<1>6. CASE UNCHANGED vars
  BY <1>6 DEF vars, roundVars, configVars, voteVars, timerVars, zoneVars,
              TypeInv, TypeOK, RoundOK, ListsOK
<1>7. QED
  BY <1>1, <1>2, <1>3, <1>4, <1>5, <1>6

LEMMA TypeStart == Init => TypeInv
<1> SUFFICES ASSUME Init PROVE TypeInv
  OBVIOUS
<1>1. \A c \in Configurations : /\ Sort(ThresholdsOf[c]) \in Seq(Thresholds)
                                /\ ToSet(Sort(ThresholdsOf[c])) = ToSet(ThresholdsOf[c])
  BY ConfigurationAssumption, SortIsInOrder
<1>2. ToSet(<<>>) = {}
  BY DEF ToSet
<1>3. ListsOK
  BY <1>1, <1>2 DEF Init, ListsOK
<1>4. RoundOK
  BY DEF Init, RoundOK
<1>5. 1 \in 1..(Len(List) + 1)
  BY ListIsGrouped
<1>6. TypeOK
  BY <1>1, <1>5 DEF Init, TypeOK, INT_MIN, INT_MAX
<1>7. QED
  BY <1>3, <1>4, <1>6 DEF TypeInv

LEMMA TypeInduction ==
  ASSUME TypeInv, SwitchInv, [Next]_vars
  PROVE  TypeInv'
BY ReadTypes, RunTypes, VoteTypes, SwitchTypes, DoneTypes, OtherTypes DEF Next, DaemonStep

---------------------------------------------------------------------------
(* The two lists as two halves of one: a list that is filtered keeps its  *)
(* unbroken links.                                                        *)

(* The satisfied list is the first k of a list turned round, the          *)
(* unsatisfied list the rest of it.                                       *)
SplitAt(list, k, s, u) ==
  /\ k \in 0..Len(list) /\ Len(s) = k /\ Len(u) = Len(list) - k
  /\ \A i \in 1..k : s[i] = list[k + 1 - i]
  /\ \A i \in 1..(Len(list) - k) : u[i] = list[k + i]

(* If what a walk looks for comes first in a list, it takes the head of   *)
(* the list off and leaves the tail.                                      *)
LEMMA FilterHead ==
  ASSUME NEW X, NEW s \in Seq(X), NEW S,
         \A i, j \in 1..Len(s) : i < j /\ s[j] \in S => s[i] \in S
  PROVE  \E b \in 0..Len(s) :
           /\ Filter(s, S) \in Seq(X) /\ Len(Filter(s, S)) = b
           /\ \A i \in 1..b : Filter(s, S)[i] = s[i]
           /\ Filter(s, X \ S) \in Seq(X) /\ Len(Filter(s, X \ S)) = Len(s) - b
           /\ \A i \in 1..(Len(s) - b) : Filter(s, X \ S)[i] = s[b + i]
           /\ IsPrefix(Filter(s, S), s)
<1>0. Len(s) \in Nat /\ \A i \in 1..Len(s) : s[i] \in X
  BY ElementOfSeq
<1> DEFINE T == {j \in 0..Len(s) : j = Len(s) \/ s[j + 1] \notin S}
<1>1. T \subseteq Nat /\ T # {}
  BY <1>0
<1>2. PICK b \in T : \A j \in T : b <= j
  <2> HIDE DEF T
  <2>1. QED
    BY <1>1, Least
<1>3. b \in 0..Len(s) /\ (b = Len(s) \/ s[b + 1] \notin S)
  BY <1>2
<1>4. ASSUME NEW i \in 1..Len(s), i <= b PROVE s[i] \in S
  <2>1. i - 1 \in 0..Len(s) /\ ~(b <= i - 1) /\ (i - 1) + 1 = i /\ i - 1 # Len(s)
    BY <1>0, <1>3, <1>4
  <2>2. i - 1 \notin T
    BY <1>2, <2>1
  <2>3. s[(i - 1) + 1] \in S
    BY <2>1, <2>2
  <2>4. QED
    BY <2>1, <2>3
<1>5. ASSUME NEW i \in 1..Len(s), i > b PROVE s[i] \notin S
  <2>1. b + 1 \in 1..Len(s) /\ s[b + 1] \notin S
    BY <1>0, <1>3, <1>5
  <2>2. CASE i = b + 1
    BY <2>1, <2>2
  <2>3. CASE b + 1 < i
    BY <2>1, <2>3
  <2>4. QED
    BY <1>3, <1>5, <2>2, <2>3
<1> HIDE DEF T
<1>6. Filter(s, S) = SubSeq(s, 1, b)
  <2>1. \A i \in 1..Len(s) : s[i] \in S <=> i \in 1..b
    BY <1>0, <1>3, <1>4, <1>5
  <2>2. 1 \in Nat \ {0} /\ b \in 0..Len(s) /\ 1 <= b + 1
    BY <1>0, <1>3
  <2>3. QED
    BY <2>1, <2>2, FilterInterval
<1>7. Filter(s, X \ S) = SubSeq(s, b + 1, Len(s))
  <2> DEFINE c == b + 1
             n == Len(s)
  <2>1. \A i \in 1..Len(s) : s[i] \in X \ S <=> i \in c..n
    BY <1>0, <1>3, <1>4, <1>5
  <2>2. c \in Nat \ {0} /\ n \in 0..Len(s) /\ c <= n + 1
    BY <1>0, <1>3
  <2> HIDE DEF c, n
  <2>3. Filter(s, X \ S) = SubSeq(s, c, n)
    BY <2>1, <2>2, FilterInterval
  <2>4. QED
    BY <2>3 DEF c, n
<1> DEFINE p == SubSeq(s, 1, b)
           q == SubSeq(s, b + 1, Len(s))
<1>8. p \in Seq(X) /\ Len(p) = b /\ \A i \in 1..b : p[i] = s[i]
  BY <1>3
<1>9. q \in Seq(X) /\ Len(q) = Len(s) - b /\ \A i \in 1..(Len(s) - b) : q[i] = s[b + i]
  BY <1>0, <1>3
<1>10. IsPrefix(p, s)
  <2>1. p = SubSeq(s, 1, Len(p)) /\ Len(p) <= Len(s)
    BY <1>0, <1>3, <1>8
  <2>2. p = SubSeq(p, 1, Len(p))
    <3> HIDE DEF p
    <3>1. QED
      BY <1>8, SubSeqFull
  <2> HIDE DEF p
  <2>3. QED
    BY <2>1, <2>2 DEF IsPrefix
<1> HIDE DEF p, q
<1>11. QED
  BY <1>3, <1>6, <1>7, <1>8, <1>9, <1>10 DEF p, q
(* A rising value moves the boundary between the two lists up ...         *)
LEMMA Rise ==
  ASSUME NEW S \in Seq(Thresholds), InOrder(S), NEW k, NEW s \in Seq(Thresholds),
         NEW u \in Seq(Thresholds), SplitAt(S, k, s, u), NEW v \in Int
  PROVE  LET E == {t \in Thresholds : Entered(t, v)}
         IN  \E m : SplitAt(S, m, Reverse(Filter(u, E)) \o s, Filter(u, Thresholds \ E))
<1> DEFINE n == Len(S)
           E == {t \in Thresholds : Entered(t, v)}
           enter == Filter(u, E)
           wait == Filter(u, Thresholds \ E)
<1>0. /\ n \in Nat /\ k \in 0..n /\ Len(s) = k /\ Len(u) = n - k
      /\ \A i \in 1..k : s[i] = S[k + 1 - i]
      /\ \A i \in 1..(n - k) : u[i] = S[k + i]
      /\ \A i \in 1..n : S[i] \in Thresholds /\ Trigger[S[i]] \in Int
  BY ElementOfSeq, ThresholdFacts DEF SplitAt
<1>1. ASSUME NEW i \in 1..Len(u), NEW j \in 1..Len(u), i < j, u[j] \in E
      PROVE  u[i] \in E
  <2>1. /\ u[i] = S[k + i] /\ u[j] = S[k + j]
        /\ k + i \in 1..n /\ k + j \in 1..n /\ k + i < k + j
    BY <1>0, <1>1
  <2>2. Trigger[S[k + i]] <= Trigger[S[k + j]]
    BY <2>1 DEF InOrder
  <2>3. v >= Trigger[S[k + j]]
    BY <1>1, <2>1 DEF Entered
  <2>4. v >= Trigger[S[k + i]]
    BY <1>0, <2>1, <2>2, <2>3
  <2>5. QED
    BY <1>0, <2>1, <2>4 DEF Entered
<1> HIDE DEF E
<1>1a. \A i, j \in 1..Len(u) : i < j /\ u[j] \in E => u[i] \in E
  BY <1>1
<1>2. PICK b \in 0..Len(u) :
        /\ enter \in Seq(Thresholds) /\ Len(enter) = b
        /\ \A i \in 1..b : enter[i] = u[i]
        /\ wait \in Seq(Thresholds) /\ Len(wait) = Len(u) - b
        /\ \A i \in 1..(Len(u) - b) : wait[i] = u[b + i]
        /\ IsPrefix(enter, u)
  BY <1>1a, FilterHead
<1> DEFINE r == Reverse(enter)
           j == r \o s
           m == k + b
<1> HIDE DEF enter, wait
<1>3. r \in Seq(Thresholds) /\ Len(r) = b /\ \A i \in 1..b : r[i] = enter[b - i + 1]
  BY <1>2, Reversed
<1> HIDE DEF r
<1>4. /\ Len(j) = b + k
      /\ \A i \in 1..b : j[i] = r[i]
      /\ \A i \in 1..k : j[b + i] = s[i]
  <2>1. /\ Len(j) = Len(r) + Len(s)
        /\ \A i \in 1..Len(r) : j[i] = r[i]
        /\ \A i \in 1..Len(s) : j[Len(r) + i] = s[i]
    <3>1. r \in Seq(Thresholds)
      BY <1>3
    <3>2. QED
      BY <3>1, Joined
  <2> HIDE DEF j
  <2>2. QED
    BY <1>0, <1>3, <2>1
<1> HIDE DEF j
<1>5. m \in 0..n /\ b \in Nat /\ k \in Nat /\ Len(j) = m /\ Len(wait) = n - m
  BY <1>0, <1>2, <1>4
<1>6. ASSUME NEW i \in 1..m PROVE j[i] = S[m + 1 - i]
  <2>1. CASE i <= b
    <3>1. i \in 1..b /\ b - i + 1 \in 1..b /\ b - i + 1 \in 1..(n - k)
      BY <1>0, <1>2, <1>5, <2>1
    <3>2. j[i] = enter[b - i + 1]
      BY <1>3, <1>4, <3>1
    <3>2a. enter[b - i + 1] = u[b - i + 1] /\ u[b - i + 1] = S[k + (b - i + 1)]
      BY <1>0, <1>2, <3>1
    <3>3. k + (b - i + 1) = m + 1 - i
      BY <1>5
    <3>4. QED
      BY <3>2, <3>2a, <3>3
  <2>2. CASE i > b
    <3>1. i - b \in 1..k /\ b + (i - b) = i /\ k + 1 - (i - b) = m + 1 - i
      BY <1>5, <2>2
    <3>2. j[b + (i - b)] = s[i - b] /\ s[i - b] = S[k + 1 - (i - b)]
      BY <1>0, <1>4, <3>1
    <3>3. QED
      BY <3>1, <3>2
  <2>3. QED
    BY <1>5, <2>1, <2>2
<1>7. ASSUME NEW i \in 1..(n - m) PROVE wait[i] = S[m + i]
  <2>1. i \in 1..(Len(u) - b) /\ b + i \in 1..(n - k) /\ k + (b + i) = m + i
    BY <1>0, <1>5
  <2>2. wait[i] = u[b + i] /\ u[b + i] = S[k + (b + i)]
    BY <1>0, <1>2, <2>1
  <2>3. QED
    BY <2>1, <2>2
<1>8. SplitAt(S, m, j, wait)
  BY <1>5, <1>6, <1>7 DEF SplitAt
<1>9. QED
  BY <1>8 DEF j, r, enter, wait, E

(* ... and a falling one moves it down, taking thresholds off the head    *)
(* only.                                                                  *)
LEMMA Fall ==
  ASSUME NEW S \in Seq(Thresholds), ClearInOrder(S), NEW k, NEW s \in Seq(Thresholds),
         NEW u \in Seq(Thresholds), SplitAt(S, k, s, u), NEW v \in Int
  PROVE  LET X == {t \in Thresholds : Exited(t, v)}
         IN  /\ IsPrefix(Filter(s, X), s)
             /\ \E m : SplitAt(S, m, Filter(s, Thresholds \ X), Reverse(Filter(s, X)) \o u)
<1> DEFINE n == Len(S)
           X == {t \in Thresholds : Exited(t, v)}
           leave == Filter(s, X)
           stay == Filter(s, Thresholds \ X)
<1>0. /\ n \in Nat /\ k \in 0..n /\ Len(s) = k /\ Len(u) = n - k
      /\ \A i \in 1..k : s[i] = S[k + 1 - i]
      /\ \A i \in 1..(n - k) : u[i] = S[k + i]
      /\ \A i \in 1..n : S[i] \in Thresholds /\ Clear[S[i]] \in Int
  BY ElementOfSeq, ThresholdFacts DEF SplitAt
<1>1. ASSUME NEW i \in 1..Len(s), NEW j \in 1..Len(s), i < j, s[j] \in X
      PROVE  s[i] \in X
  <2>0. i \in 1..k /\ j \in 1..k
    BY <1>0
  <2>0a. k + 1 - i \in 1..n /\ k + 1 - j \in 1..n /\ k + 1 - j < k + 1 - i
    BY <1>0, <1>1, <2>0
  <2>1. /\ s[i] = S[k + 1 - i] /\ s[j] = S[k + 1 - j]
        /\ k + 1 - i \in 1..n /\ k + 1 - j \in 1..n /\ k + 1 - j < k + 1 - i
    BY <1>0, <2>0, <2>0a
  <2>2. Clear[S[k + 1 - j]] <= Clear[S[k + 1 - i]]
    BY <2>1 DEF ClearInOrder
  <2>3. v <= Clear[S[k + 1 - j]]
    BY <1>1, <2>1 DEF Exited
  <2>4. v <= Clear[S[k + 1 - i]]
    <3>1. Clear[S[k + 1 - i]] \in Int /\ Clear[S[k + 1 - j]] \in Int
      BY <1>0, <2>1
    <3>2. QED
      BY <2>2, <2>3, <3>1
  <2>5. QED
    BY <1>0, <2>1, <2>4 DEF Exited
<1> HIDE DEF X
<1>1a. \A i, j \in 1..Len(s) : i < j /\ s[j] \in X => s[i] \in X
  BY <1>1
<1>2. PICK b \in 0..Len(s) :
        /\ leave \in Seq(Thresholds) /\ Len(leave) = b
        /\ \A i \in 1..b : leave[i] = s[i]
        /\ stay \in Seq(Thresholds) /\ Len(stay) = Len(s) - b
        /\ \A i \in 1..(Len(s) - b) : stay[i] = s[b + i]
        /\ IsPrefix(leave, s)
  BY <1>1a, FilterHead
<1> DEFINE r == Reverse(leave)
           j == r \o u
           m == k - b
<1> HIDE DEF leave, stay
<1>3. r \in Seq(Thresholds) /\ Len(r) = b /\ \A i \in 1..b : r[i] = leave[b - i + 1]
  BY <1>2, Reversed
<1> HIDE DEF r
<1>4. /\ Len(j) = b + (n - k)
      /\ \A i \in 1..b : j[i] = r[i]
      /\ \A i \in 1..(n - k) : j[b + i] = u[i]
  <2>1. /\ Len(j) = Len(r) + Len(u)
        /\ \A i \in 1..Len(r) : j[i] = r[i]
        /\ \A i \in 1..Len(u) : j[Len(r) + i] = u[i]
    <3>1. r \in Seq(Thresholds)
      BY <1>3
    <3>2. QED
      BY <3>1, Joined
  <2> HIDE DEF j
  <2>2. QED
    BY <1>0, <1>3, <2>1
<1> HIDE DEF j
<1>5. m \in 0..n /\ b \in 0..k /\ k \in Nat /\ Len(stay) = m /\ Len(j) = n - m
  BY <1>0, <1>2, <1>4
<1>6. ASSUME NEW i \in 1..m PROVE stay[i] = S[m + 1 - i]
  <2>1. i \in 1..(Len(s) - b) /\ b + i \in 1..k /\ k + 1 - (b + i) = m + 1 - i
    BY <1>0, <1>5
  <2>2. stay[i] = s[b + i] /\ s[b + i] = S[k + 1 - (b + i)]
    BY <1>0, <1>2, <2>1
  <2>3. QED
    BY <2>1, <2>2
<1>7. ASSUME NEW i \in 1..(n - m) PROVE j[i] = S[m + i]
  <2>1. CASE i <= b
    <3>1. i \in 1..b /\ b - i + 1 \in 1..b /\ b - i + 1 \in 1..k
      BY <1>5, <2>1
    <3>2. j[i] = leave[b - i + 1]
      BY <1>3, <1>4, <3>1
    <3>2a. leave[b - i + 1] = s[b - i + 1] /\ s[b - i + 1] = S[k + 1 - (b - i + 1)]
      BY <1>0, <1>2, <3>1
    <3>3. k + 1 - (b - i + 1) = m + i
      BY <1>5
    <3>4. QED
      BY <3>2, <3>2a, <3>3
  <2>2. CASE i > b
    <3>1. i - b \in 1..(n - k) /\ b + (i - b) = i /\ k + (i - b) = m + i
      BY <1>0, <1>5, <2>2
    <3>2. j[b + (i - b)] = u[i - b] /\ u[i - b] = S[k + (i - b)]
      BY <1>0, <1>4, <3>1
    <3>3. QED
      BY <3>1, <3>2
  <2>3. QED
    BY <1>5, <2>1, <2>2
<1>8. SplitAt(S, m, stay, j)
  BY <1>5, <1>6, <1>7 DEF SplitAt
<1>9. QED
  BY <1>2, <1>8 DEF j, r, leave, stay, X

(* No list has been broken, and each pair of lists is one list split in   *)
(* two.                                                                   *)
Stacks ==
  /\ pc # "crashed"
  /\ \A c \in Configurations :
       \E k : SplitAt(Sort(ThresholdsOf[c]), k, satisfied[c], unsatisfied[c])

LEMMA StackStart ==
  ASSUME Init
  PROVE  Stacks
<1> SUFFICES ASSUME NEW c \in Configurations
             PROVE  \E k : SplitAt(Sort(ThresholdsOf[c]), k, satisfied[c], unsatisfied[c])
  BY DEF Stacks, Init
<1> DEFINE S == Sort(ThresholdsOf[c])
<1>1. S \in Seq(Thresholds)
  BY ConfigurationAssumption, SortIsInOrder
<1>2. satisfied[c] = <<>> /\ unsatisfied[c] = S
  BY DEF Init
<1> HIDE DEF S
<1>3. Len(S) \in Nat /\ Len(<<>>) = 0
  BY <1>1
<1>4. SplitAt(S, 0, <<>>, S)
  BY <1>3 DEF SplitAt
<1>5. QED
  BY <1>2, <1>4 DEF S

(* A run of a configuration keeps its lists the two halves of one.        *)
LEMMA StackStep ==
  ASSUME Nested, Stacks, TypeInv, RunConfiguration
  PROVE  Stacks'
<1> DEFINE c == List[pos]
           s == satisfied[c]
           u == unsatisfied[c]
           S == Sort(ThresholdsOf[c])
           E == {t \in Thresholds : Entered(t, value)}
           X == {t \in Thresholds : Exited(t, value)}
           rises == value > last_value[c]
<1>1. /\ c \in Configurations /\ s \in Seq(Thresholds) /\ u \in Seq(Thresholds)
      /\ value \in Int
  BY AtConfiguration, RunLists DEF TypeInv, RoundOK, RunConfiguration
<1>2. S \in Seq(Thresholds) /\ InOrder(S) /\ ClearInOrder(S)
  BY <1>1, ConfigurationAssumption, SortIsInOrder DEF Nested
<1>3. PICK k : SplitAt(S, k, s, u)
  BY <1>1 DEF Stacks
<1>4. /\ satisfied' = [satisfied EXCEPT ![c] =
                         IF rises THEN Reverse(Filter(u, E)) \o s ELSE Filter(s, Thresholds \ X)]
      /\ unsatisfied' = [unsatisfied EXCEPT ![c] =
                         IF rises THEN Filter(u, Thresholds \ E) ELSE Reverse(Filter(s, X)) \o u]
      /\ pc' = IF ~rises /\ ~IsPrefix(Filter(s, X), s) THEN "crashed" ELSE "apply"
  BY DEF RunConfiguration
<1>5. \E m : SplitAt(S, m, Reverse(Filter(u, E)) \o s, Filter(u, Thresholds \ E))
  <2> HIDE DEF s, u, S
  <2>1. QED
    BY <1>1, <1>2, <1>3, Rise, ZenonT(60)
<1>6. /\ IsPrefix(Filter(s, X), s)
      /\ \E m : SplitAt(S, m, Filter(s, Thresholds \ X), Reverse(Filter(s, X)) \o u)
  <2> HIDE DEF s, u, S
  <2>1. QED
    BY <1>1, <1>2, <1>3, Fall
<1>7. /\ satisfied \in [Configurations -> Seq(Thresholds)]
      /\ unsatisfied \in [Configurations -> Seq(Thresholds)]
  BY DEF TypeInv, TypeOK
<1> HIDE DEF s, u, E, X, rises
<1>8. pc' # "crashed"
  BY <1>4, <1>6
<1>9. \E m : SplitAt(S, m, satisfied'[c], unsatisfied'[c])
  BY <1>1, <1>4, <1>5, <1>6, <1>7
<1>10. \A d \in Configurations \ {c} :
         satisfied'[d] = satisfied[d] /\ unsatisfied'[d] = unsatisfied[d]
  BY <1>4, <1>7
<1>11. QED
  BY <1>1, <1>8, <1>9, <1>10 DEF Stacks

LEMMA StackInduction ==
  ASSUME Nested, Stacks, TypeInv, [Next]_vars
  PROVE  Stacks'
<1>1. CASE RunConfiguration
  BY <1>1, StackStep
<1>2. CASE ~RunConfiguration
  <2>1. UNCHANGED <<satisfied, unsatisfied>> /\ (pc' = "crashed" => pc = "crashed")
    BY <1>2 DEF Next, DaemonStep, ReadSensor, SkipConfiguration, ConfigurationDone,
         ControlVoteLevel, ControlUnvoteLevel, Vote, SwitchMitigation, EndOfRound, Wake, Halt,
         Drift, NextConfiguration, vars, configVars
  <2>2. QED
    BY <2>1 DEF Stacks
<1>3. QED
  BY <1>1, <1>2

(* list_remove follows prev, and list_prepend leaves the prev of the old  *)
(* head unset, so that configuration_run is safe only if it takes         *)
(* thresholds off the head of the satisfied list. It does, for every      *)
(* configuration file whose clear values have the order of its triggers:  *)
(* the daemon never follows a link that is not set.                       *)
THEOREM NoListIsBroken ==
  ASSUME Nested
  PROVE  Spec => []NeverCrashes
<1>1. Init => TypeInv /\ SwitchInv /\ Stacks
  BY TypeStart, SwitchStart, StackStart
<1>2. TypeInv /\ SwitchInv /\ Stacks /\ [Next]_vars => (TypeInv /\ SwitchInv /\ Stacks)'
  BY TypeInduction, SwitchInduction, StackInduction DEF TypeInv
<1>3. Stacks => NeverCrashes
  BY DEF Stacks, NeverCrashes
<1>4. QED
  BY <1>1, <1>2, <1>3, PTL DEF Spec

---------------------------------------------------------------------------
(* The lists as switches with hysteresis.                                 *)

(* A satisfied threshold is not to be left, an unsatisfied one not to be  *)
(* entered at the last value seen; but before the first run none is       *)
(* entered.                                                               *)
SwitchesOK ==
  \A c \in Configurations :
    /\ \A t \in ToSet(satisfied[c]) : last_value[c] > Clear[t]
    /\ \A t \in ToSet(unsatisfied[c]) : last_value[c] < Trigger[t] \/ last_value[c] = -1

(* A run of a configuration leaves its thresholds where a switch with     *)
(* hysteresis would.                                                      *)
LEMMA Observed ==
  ASSUME NoTriggerIsCold, Apart, TypeInv, SwitchesOK, RunConfiguration
  PROVE  LET c == List[pos]
         IN  /\ c \in Configurations /\ value \in Temps \cup {-1}
             /\ last_value' = [last_value EXCEPT ![c] = value]
             /\ \A d \in Configurations \ {c} :
                  satisfied'[d] = satisfied[d] /\ unsatisfied'[d] = unsatisfied[d]
             /\ \A t \in ToSet(satisfied'[c]) : value > Clear[t]
             /\ \A t \in ToSet(unsatisfied'[c]) : value < Trigger[t]
             /\ ToSet(satisfied'[c]) =
                  {t \in ToSet(ThresholdsOf[c]) :
                     value >= Trigger[t] \/ (t \in ToSet(satisfied[c]) /\ value > Clear[t])}
<1> DEFINE c == List[pos]
           A == ToSet(satisfied[c])
           B == ToSet(unsatisfied[c])
           over  == {t \in B : value >= Trigger[t]}
           under == {t \in A : value <= Clear[t]}
           AA == ToSet(satisfied'[c])
           BB == ToSet(unsatisfied'[c])
           T == ToSet(ThresholdsOf[c])
<1>1. /\ c \in Configurations /\ value \in Int /\ value \in Temps \cup {-1}
      /\ last_value[c] \in Int /\ last_value' = [last_value EXCEPT ![c] = value]
      /\ satisfied' = [satisfied EXCEPT ![c] = satisfied'[c]]
      /\ unsatisfied' = [unsatisfied EXCEPT ![c] = unsatisfied'[c]]
      /\ value > last_value[c] => AA = A \cup over /\ BB = B \ over
      /\ value < last_value[c] => AA = A \ under /\ BB = B \cup under
      /\ value > last_value[c] \/ value < last_value[c]
  BY RunLists
<1>2. /\ A \cup B = T
      /\ \A t \in A : last_value[c] > Clear[t]
      /\ \A t \in B : last_value[c] < Trigger[t] \/ last_value[c] = -1
  BY <1>1 DEF TypeInv, ListsOK, SwitchesOK
<1>3. \A t \in T : /\ t \in Thresholds /\ Trigger[t] \in Int /\ Clear[t] \in Int
                   /\ Clear[t] < Trigger[t]
  <2>1. ThresholdsOf[c] \in Seq(Thresholds)
    BY <1>1, ConfigurationAssumption
  <2>2. T \subseteq Thresholds
    BY <2>1, Heads
  <2>3. QED
    BY <2>2, ThresholdFacts DEF Apart
<1>4. \A d \in Configurations \ {c} :
        satisfied'[d] = satisfied[d] /\ unsatisfied'[d] = unsatisfied[d]
  BY <1>1 DEF TypeInv, TypeOK
<1> HIDE DEF A, B, AA, BB, T, c
<1>5. CASE value > last_value[c]
  <2>1. AA = A \cup over /\ BB = B \ over
    BY <1>1, <1>5
  <2>2. \A t \in A : value > Clear[t]
    BY <1>1, <1>2, <1>3, <1>5
  <2>3. (\A t \in AA : value > Clear[t]) /\ (\A t \in BB : value < Trigger[t])
    BY <1>1, <1>2, <1>3, <2>1, <2>2
  <2>4. AA = {t \in T : value >= Trigger[t] \/ (t \in A /\ value > Clear[t])}
    BY <1>2, <2>1, <2>2
  <2>5. QED
    BY <1>1, <1>4, <2>3, <2>4 DEF A, B, AA, BB, T, c
<1>6. CASE value < last_value[c]
  <2>1. AA = A \ under /\ BB = B \cup under
    BY <1>1, <1>6
  <2>2. \A t \in B : value < Trigger[t]
    <3> SUFFICES ASSUME NEW t \in B PROVE value < Trigger[t]
      OBVIOUS
    <3>1. CASE last_value[c] < Trigger[t]
      BY <1>1, <1>2, <1>3, <1>6, <3>1
    <3>2. CASE last_value[c] = -1
      <4>1. value \in Temps /\ value < -1
        BY <1>1, <1>6, <3>2
      <4>2. QED
        BY <1>2, <1>3, <4>1 DEF NoTriggerIsCold
    <3>3. QED
      BY <1>2, <3>1, <3>2
  <2>3. (\A t \in AA : value > Clear[t]) /\ (\A t \in BB : value < Trigger[t])
    BY <1>1, <1>2, <1>3, <2>1, <2>2
  <2>4. AA = {t \in T : value >= Trigger[t] \/ (t \in A /\ value > Clear[t])}
    BY <1>1, <1>2, <1>3, <2>1, <2>2
  <2>5. QED
    BY <1>1, <1>4, <2>3, <2>4 DEF A, B, AA, BB, T, c
<1>7. QED
  BY <1>1, <1>5, <1>6

(* Every step is a step or a stutter of the abstract switches.            *)
LEMMA HysteresisStep ==
  ASSUME NoTriggerIsCold, Apart, TypeInv, SwitchesOK, [Next]_vars
  PROVE  /\ SwitchesOK'
         /\ [Hysteresis!Next]_<<last_value, UNION {ToSet(satisfied[c]) : c \in Configurations}>>
<1> DEFINE On == UNION {ToSet(satisfied[c]) : c \in Configurations}
<1>1. CASE RunConfiguration
  <2> DEFINE c == List[pos]
             A == ToSet(satisfied[c])
             AA == ToSet(satisfied'[c])
             T == ToSet(ThresholdsOf[c])
  <2>1. /\ c \in Configurations /\ value \in Temps \cup {-1}
        /\ last_value' = [last_value EXCEPT ![c] = value]
        /\ \A d \in Configurations \ {c} :
             satisfied'[d] = satisfied[d] /\ unsatisfied'[d] = unsatisfied[d]
        /\ \A t \in AA : value > Clear[t]
        /\ \A t \in ToSet(unsatisfied'[c]) : value < Trigger[t]
        /\ AA = {t \in T : value >= Trigger[t] \/ (t \in A /\ value > Clear[t])}
    BY <1>1, Observed
  <2> HIDE DEF c
  <2>2. SwitchesOK'
    <3>1. last_value'[c] = value /\ \A d \in Configurations \ {c} : last_value'[d] = last_value[d]
      BY <2>1 DEF TypeInv, TypeOK
    <3>2. QED
      BY <2>1, <3>1 DEF SwitchesOK
  <2>3. \A d \in Configurations : ToSet(satisfied[d]) \subseteq ToSet(ThresholdsOf[d])
    BY DEF TypeInv, ListsOK
  <2>4. \A d \in Configurations \ {c} : T \cap ToSet(ThresholdsOf[d]) = {}
    BY <2>1, ConfigurationAssumption
  <2>5. On' = AA \cup UNION {ToSet(satisfied[d]) : d \in Configurations \ {c}}
    BY <2>1
  <2>6. On = A \cup UNION {ToSet(satisfied[d]) : d \in Configurations \ {c}}
    BY <2>1
  <2> HIDE DEF A, AA, T
  <2>7. A \subseteq T /\ T \cap UNION {ToSet(satisfied[d]) : d \in Configurations \ {c}} = {}
    BY <2>1, <2>3, <2>4 DEF A, T
  <2> HIDE DEF On
  <2>8. On' = (On \ T) \cup {t \in T : value >= Trigger[t] \/ (t \in On /\ value > Clear[t])}
    BY <2>1, <2>5, <2>6, <2>7
  <2>9. Hysteresis!Observe(c, value)
    <3>1. [d \in Configurations |-> ToSet(ThresholdsOf[d])][c] = T
      BY <2>1 DEF T
    <3>2. QED
      BY <2>1, <2>8, <3>1 DEF Hysteresis!Observe, On
  <2>10. Hysteresis!Next
    BY <2>1, <2>9 DEF Hysteresis!Next
  <2>11. QED
    BY <2>2, <2>10
<1>2. CASE ~RunConfiguration
  <2>1. UNCHANGED <<satisfied, unsatisfied, last_value>>
    BY <1>2 DEF Next, DaemonStep, ReadSensor, SkipConfiguration, ConfigurationDone,
         ControlVoteLevel, ControlUnvoteLevel, Vote, SwitchMitigation, EndOfRound, Wake, Halt,
         Drift, NextConfiguration, vars, configVars
  <2>2. QED
    BY <2>1 DEF SwitchesOK
<1>3. QED
  BY <1>1, <1>2

LEMMA HysteresisStart ==
  ASSUME Init
  PROVE  SwitchesOK /\ Hysteresis!Init
<1>1. \A c \in Configurations : ToSet(satisfied[c]) = {}
  BY DEF Init, ToSet
<1>2. QED
  BY <1>1 DEF Init, SwitchesOK, Hysteresis!Init

(* configuration_run's two lists implement one switch with hysteresis     *)
(* for each threshold: on from its trigger, off from its clear value,     *)
(* whatever number of thresholds a reading passes, and whatever the       *)
(* order of their clear values.                                           *)
THEOREM ImplementsHysteresis ==
  ASSUME NoTriggerIsCold, Apart
  PROVE  Spec => HysteresisSpec
<1>1. Init => TypeInv /\ SwitchInv /\ SwitchesOK /\ Hysteresis!Init
  BY TypeStart, SwitchStart, HysteresisStart
<1>2. TypeInv /\ SwitchInv /\ SwitchesOK /\ [Next]_vars =>
        /\ (TypeInv /\ SwitchInv /\ SwitchesOK)'
        /\ [Hysteresis!Next]_<<last_value, UNION {ToSet(satisfied[c]) : c \in Configurations}>>
  BY TypeInduction, SwitchInduction, HysteresisStep DEF TypeInv
<1>3. QED
  BY <1>1, <1>2, PTL DEF Spec, HysteresisSpec, Hysteresis!Spec

(* Every variable keeps its type: lists hold thresholds only, no count    *)
(* of votes falls below zero, and the mitigation that wrote a resource    *)
(* is one of the file's.                                                  *)
THEOREM TypesAreOK == Spec => []TypeOK
<1>1. TypeInv => TypeOK
  BY DEF TypeInv
<1>2. TypeInv /\ SwitchInv /\ [Next]_vars => (TypeInv /\ SwitchInv)'
  BY TypeInduction, SwitchInduction DEF TypeInv
<1>3. QED
  BY TypeStart, SwitchStart, <1>1, <1>2, PTL DEF Spec

(* All configurations of a sensor act upon the same reading of it in a    *)
(* round (configuration_manager_run groups them, and reads a sensor only  *)
(* if it is not the one read last).                                       *)
THEOREM OneReading == Spec => OneReadingPerRound
<1>1. TypeInv /\ [Next]_vars =>
        [res' \in Sensors \ {res} => \A i \in 1..(pos - 1) : SensorOf[List[i]] # res']_vars
  <2> SUFFICES ASSUME TypeInv, Next, res' \in Sensors \ {res}, NEW i \in 1..(pos - 1),
                      SensorOf[List[i]] = res'
               PROVE  FALSE
    OBVIOUS
  <2>1. ReadSensor
    BY NoneAssumption DEF Next, DaemonStep, SkipConfiguration, RunConfiguration, ConfigurationDone,
         ControlVoteLevel, ControlUnvoteLevel, Vote, SwitchMitigation, EndOfRound, Wake, Halt,
         Drift, roundVars
  <2>2. pos <= Len(List) /\ res' = SensorOf[List[pos]] /\ pc = "read"
    BY <2>1 DEF ReadSensor
  <2>3. pos \in 1..Len(List) /\ pos # 1
    BY <2>2, AtConfiguration DEF TypeInv
  <2>4. Sensor(List, pos - 1) = Sensor(List, pos)
    BY <2>2, <2>3, EarlierIsNeighbour DEF Sensor
  <2>5. res = Sensor(List, pos - 1)
    BY <2>2, <2>3 DEF TypeInv, RoundOK
  <2>6. QED
    BY <2>2, <2>4, <2>5 DEF Sensor
<1>2. TypeInv /\ SwitchInv /\ [Next]_vars => (TypeInv /\ SwitchInv)'
  BY TypeInduction, SwitchInduction DEF TypeInv
<1>3. QED
  BY TypeStart, SwitchStart, <1>1, <1>2, PTL DEF Spec, OneReadingPerRound

---------------------------------------------------------------------------
(* The votes that are cast. A threshold that is in force has all of its   *)
(* votes cast; of the new and the old threshold of a configuration in a   *)
(* change over, the first done votes of the one after the other have      *)
(* been dealt with.                                                       *)

(* The vote of t for the i-th thing it wants is cast: t is in force and   *)
(* not changing, or is the new threshold and among the first done votes,  *)
(* or is the old one and not yet withdrawn.                               *)
IsCast(t, i, others, new, old, done) ==
  \/ t \in others
  \/ t = new /\ i <= done
  \/ t = old /\ i > done - Len(Wants[new])

CastBy(others, new, old, done) ==
  {v \in Thresholds \X Nat : /\ v[2] \in 1..Len(Wants[v[1]])
                            /\ IsCast(v[1], v[2], others, new, old, done)}

(* The cast votes for level l of control k.                               *)
Tally(C, k, l) == {v \in C : Wants[v[1]][v[2]] = <<k, l>>}

LEMMA CastMember ==
  ASSUME NEW others, NEW new, NEW old, NEW done, NEW t \in Thresholds, NEW i \in 1..Len(Wants[t])
  PROVE  <<t, i>> \in CastBy(others, new, old, done) <=> IsCast(t, i, others, new, old, done)
<1> DEFINE v == <<t, i>>
<1>1. v[1] = t /\ v[2] = i
  OBVIOUS
<1>2. v \in Thresholds \X Nat
  <2>1. i \in Nat
    OBVIOUS
  <2>2. QED
    BY <2>1
<1> HIDE DEF v
<1>3. QED
  BY <1>1, <1>2 DEF CastBy, v

AreVotes(C) ==
  \A v \in C : v = <<v[1], v[2]>> /\ v[1] \in Thresholds /\ v[2] \in 1..Len(Wants[v[1]])

LEMMA CastIsVotes ==
  ASSUME NEW others, NEW new, NEW old, NEW done
  PROVE  AreVotes(CastBy(others, new, old, done))
BY DEF CastBy, AreVotes

(* Two sets of votes with the same members in either threshold's order    *)
(* are the same.                                                          *)
LEMMA SameVotes ==
  ASSUME NEW C, AreVotes(C), NEW D, AreVotes(D),
         \A t \in Thresholds : \A i \in 1..Len(Wants[t]) : <<t, i>> \in C <=> <<t, i>> \in D
  PROVE  C = D
<1>1. (\A v \in C : v \in D) /\ (\A v \in D : v \in C)
  BY DEF AreVotes
<1>2. QED
  BY <1>1

LEMMA WantsLen ==
  ASSUME NEW t \in Thresholds
  PROVE  Len(Wants[t]) \in Nat
BY ThresholdFacts

(* While done is below the votes of the new threshold, the next one is    *)
(* cast ...                                                               *)
LEMMA CastNew ==
  ASSUME NEW others, NEW new \in Thresholds, new \notin others, NEW old, old # new,
         NEW d \in Nat, d + 1 <= Len(Wants[new])
  PROVE  LET v == <<new, d + 1>>
         IN  /\ v \notin CastBy(others, new, old, d)
             /\ CastBy(others, new, old, d + 1) = CastBy(others, new, old, d) \cup {v}
<1> DEFINE e == d + 1
           v == <<new, e>>
           C == CastBy(others, new, old, d)
           D == CastBy(others, new, old, e)
<1>1. e \in 1..Len(Wants[new]) /\ e > d /\ e \in Nat /\ Len(Wants[new]) \in Nat
  BY WantsLen
<1> HIDE DEF e
<1>2. v \notin C /\ v \in D
  <2>1. v \in C <=> IsCast(new, e, others, new, old, d)
    BY <1>1, CastMember, Zenon
  <2>2. v \in D <=> IsCast(new, e, others, new, old, e)
    BY <1>1, CastMember, Zenon
  <2>3. QED
    BY <1>1, <2>1, <2>2 DEF IsCast
<1>3. ASSUME NEW t \in Thresholds, NEW i \in 1..Len(Wants[t])
      PROVE  <<t, i>> \in D <=> <<t, i>> \in C \/ <<t, i>> = v
  <2>1. <<t, i>> \in D <=> IsCast(t, i, others, new, old, e)
    BY CastMember, Zenon
  <2>2. <<t, i>> \in C <=> IsCast(t, i, others, new, old, d)
    BY CastMember, Zenon
  <2>3. i > e - Len(Wants[new]) /\ i > d - Len(Wants[new]) /\ (i <= e <=> i <= d \/ i = e)
    <3> DEFINE m == Len(Wants[new])
    <3>1. e = d + 1 /\ i >= 1 /\ i \in Nat /\ m \in Nat /\ e <= m
      BY <1>1 DEF e
    <3> HIDE DEF m
    <3>2. i > e - m /\ i > d - m /\ (i <= e <=> i <= d \/ i = e)
      BY <3>1
    <3>3. QED
      BY <3>2 DEF m
  <2>4. <<t, i>> = v <=> t = new /\ i = e
    OBVIOUS
  <2> HIDE DEF C, D, v
  <2>5. QED
    BY <2>1, <2>2, <2>3, <2>4 DEF IsCast
<1>4. AreVotes(C) /\ AreVotes(D)
  BY CastIsVotes
<1> HIDE DEF C, D, v
<1>5. D \subseteq C \cup {v}
  BY <1>3, <1>4 DEF AreVotes
<1>6. C \subseteq D
  BY <1>3, <1>4 DEF AreVotes
<1>7. D = C \cup {v}
  BY <1>2, <1>5, <1>6
<1>8. QED
  BY <1>2, <1>7 DEF C, D, v, e

(* The j-th vote of the old threshold is the next to be withdrawn.        *)
Withdrawn(j, new, old, d) == j \in 1..Len(Wants[old]) /\ d = Len(Wants[new]) + j - 1

(* ... and after that the next of the old one is withdrawn.               *)
LEMMA CastOld ==
  ASSUME NEW others, NEW new \in Thresholds, NEW old \in Thresholds, old \notin others, old # new,
         NEW j \in Nat, NEW d \in Nat, Withdrawn(j, new, old, d)
  PROVE  LET v == <<old, j>>
         IN  /\ v \notin CastBy(others, new, old, d + 1)
             /\ CastBy(others, new, old, d) = CastBy(others, new, old, d + 1) \cup {v}
<1> DEFINE e == d + 1
           v == <<old, j>>
           C == CastBy(others, new, old, d)
           D == CastBy(others, new, old, e)
<1>0. j \in 1..Len(Wants[old]) /\ d = Len(Wants[new]) + j - 1
  BY DEF Withdrawn
<1>1. /\ e \in Nat /\ d \in Nat /\ Len(Wants[new]) \in Nat
      /\ d - Len(Wants[new]) = j - 1 /\ e - Len(Wants[new]) = j
      /\ e > Len(Wants[new]) /\ d >= Len(Wants[new])
  BY <1>0, WantsLen
<1> HIDE DEF e
<1>2. v \in C /\ v \notin D
  <2>1. v \in C <=> IsCast(old, j, others, new, old, d)
    BY <1>0, CastMember, Zenon
  <2>2. v \in D <=> IsCast(old, j, others, new, old, e)
    BY <1>0, CastMember, Zenon
  <2>3. QED
    BY <1>0, <1>1, <2>1, <2>2 DEF IsCast
<1>3. ASSUME NEW t \in Thresholds, NEW i \in 1..Len(Wants[t])
      PROVE  <<t, i>> \in D <=> <<t, i>> \in C /\ <<t, i>> # v
  <2>1. <<t, i>> \in D <=> IsCast(t, i, others, new, old, e)
    BY CastMember, Zenon
  <2>2. <<t, i>> \in C <=> IsCast(t, i, others, new, old, d)
    BY CastMember, Zenon
  <2>3. (i > j - 1 <=> i > j \/ i = j) /\ (t = new => i <= e /\ i <= d)
    BY <1>0, <1>1
  <2>4. <<t, i>> = v <=> t = old /\ i = j
    OBVIOUS
  <2>5. i > j => i # j
    OBVIOUS
  <2> HIDE DEF C, D, v
  <2>6. QED
    BY <1>1, <2>1, <2>2, <2>3, <2>4, <2>5 DEF IsCast
<1>4. AreVotes(C) /\ AreVotes(D)
  BY CastIsVotes
<1> HIDE DEF C, D, v
<1>5. D \subseteq C \ {v}
  BY <1>3, <1>4 DEF AreVotes
<1>6. C \ {v} \subseteq D
  BY <1>3, <1>4 DEF AreVotes
<1>7. C = D \cup {v}
  BY <1>2, <1>5, <1>6
<1>8. QED
  BY <1>2, <1>7 DEF C, D, v, e

(* A change over begins with the votes of the thresholds in force ...     *)
LEMMA CastStart ==
  ASSUME NEW others, NEW new \in Thresholds, NEW old, NEW forced,
         forced = others \cup ({old} \ {None})
  PROVE  CastBy(forced, None, None, 0) = CastBy(others, new, old, 0)
<1>1. ASSUME NEW t \in Thresholds, NEW i \in 1..Len(Wants[t])
      PROVE  <<t, i>> \in CastBy(forced, None, None, 0) <=> <<t, i>> \in CastBy(others, new, old, 0)
  <2>1. <<t, i>> \in CastBy(forced, None, None, 0) <=>
          IsCast(t, i, forced, None, None, 0)
    BY CastMember, Zenon
  <2>2. <<t, i>> \in CastBy(others, new, old, 0) <=>
          IsCast(t, i, others, new, old, 0)
    BY CastMember, Zenon
  <2>3. t # None /\ ~(i <= 0) /\ i > 0 - Len(Wants[new])
    BY NoneAssumption, WantsLen
  <2>4. QED
    BY <2>1, <2>2, <2>3 DEF IsCast
<1> DEFINE C == CastBy(forced, None, None, 0)
           D == CastBy(others, new, old, 0)
<1>2. AreVotes(C) /\ AreVotes(D)
  BY CastIsVotes
<1>3. \A t \in Thresholds : \A i \in 1..Len(Wants[t]) : <<t, i>> \in C <=> <<t, i>> \in D
  BY <1>1
<1> HIDE DEF C, D
<1>4. C = D
  BY <1>2, <1>3, SameVotes
<1>5. QED
  BY <1>4 DEF C, D

(* ... and ends with those of the thresholds that are in force then.      *)
LEMMA CastEnd ==
  ASSUME NEW others, NEW new \in Thresholds, NEW old \in Thresholds \cup {None},
         NEW d, d = Len(Wants[new]) + (IF old = None THEN 0 ELSE Len(Wants[old])),
         old # new
  PROVE  CastBy(others, new, old, d) = CastBy(others \cup {new}, None, None, 0)
<1>1. ASSUME NEW t \in Thresholds, NEW i \in 1..Len(Wants[t])
      PROVE  <<t, i>> \in CastBy(others \cup {new}, None, None, 0)
               <=> <<t, i>> \in CastBy(others, new, old, d)
  <2>1. <<t, i>> \in CastBy(others \cup {new}, None, None, 0) <=>
          IsCast(t, i, others \cup {new}, None, None, 0)
    BY CastMember, Zenon
  <2>2. <<t, i>> \in CastBy(others, new, old, d) <=>
          IsCast(t, i, others, new, old, d)
    BY CastMember, Zenon
  <2>3. /\ t # None /\ Len(Wants[new]) \in Nat /\ Len(Wants[t]) \in Nat
        /\ old # None => Len(Wants[old]) \in Nat
    BY NoneAssumption, WantsLen
  <2>4. t = new => i <= d
    <3> SUFFICES ASSUME t = new PROVE i <= d
      OBVIOUS
    <3>1. i <= Len(Wants[new]) /\ i \in Nat
      OBVIOUS
    <3>2. CASE old = None
      BY <2>3, <3>1, <3>2
    <3>3. CASE old # None
      <4> DEFINE m == Len(Wants[new])
                 n == Len(Wants[old])
      <4>1. m \in Nat /\ n \in Nat /\ i \in Nat /\ i <= m /\ d = m + n
        BY <2>3, <3>1, <3>3
      <4> HIDE DEF m, n
      <4>2. i <= m + n
        BY <4>1
      <4>3. QED
        BY <4>1, <4>2
    <3>4. QED
      BY <3>2, <3>3
  <2>5. t = old => ~(i > d - Len(Wants[new]))
    <3> SUFFICES ASSUME t = old PROVE ~(i > d - Len(Wants[new]))
      OBVIOUS
    <3>1. d = Len(Wants[new]) + Len(Wants[t]) /\ i <= Len(Wants[t]) /\ i \in Nat
      BY <2>3
    <3>2. QED
      BY <2>3, <3>1
  <2>6. QED
    BY <2>1, <2>2, <2>3, <2>4, <2>5 DEF IsCast
<1> DEFINE C == CastBy(others, new, old, d)
           D == CastBy(others \cup {new}, None, None, 0)
<1>2. AreVotes(C) /\ AreVotes(D)
  BY CastIsVotes
<1>3. \A t \in Thresholds : \A i \in 1..Len(Wants[t]) : <<t, i>> \in C <=> <<t, i>> \in D
  BY <1>1
<1> HIDE DEF C, D
<1>4. C = D
  BY <1>2, <1>3, SameVotes
<1>5. QED
  BY <1>4 DEF C, D

(* A vote more or less changes the tally of its own level by one, and no  *)
(* other.                                                                 *)
LEMMA TallyMore ==
  ASSUME NEW C, NEW v, v \notin C, NEW k, NEW l, IsFiniteSet(Tally(C, k, l))
  PROVE  /\ IsFiniteSet(Tally(C \cup {v}, k, l))
         /\ Cardinality(Tally(C \cup {v}, k, l)) =
              Cardinality(Tally(C, k, l)) + (IF Wants[v[1]][v[2]] = <<k, l>> THEN 1 ELSE 0)
<1> DEFINE T == Tally(C, k, l)
<1>0. Cardinality(T) \in Nat
  BY FS_CardinalityType
<1>1. CASE Wants[v[1]][v[2]] = <<k, l>>
  <2>1. Tally(C \cup {v}, k, l) = T \cup {v} /\ v \notin T
    BY <1>1 DEF Tally
  <2> HIDE DEF T
  <2>2. IsFiniteSet(T \cup {v}) /\ Cardinality(T \cup {v}) = Cardinality(T) + 1
    BY <2>1, FS_AddElement DEF T
  <2>3. QED
    BY <1>1, <2>1, <2>2 DEF T
<1>2. CASE Wants[v[1]][v[2]] # <<k, l>>
  <2>1. Tally(C \cup {v}, k, l) = T
    BY <1>2 DEF Tally
  <2>2. QED
    BY <1>0, <1>2, <2>1
<1>3. QED
  BY <1>1, <1>2

LEMMA TallyLess ==
  ASSUME NEW C, NEW v \in C, NEW k, NEW l, IsFiniteSet(Tally(C, k, l))
  PROVE  /\ IsFiniteSet(Tally(C \ {v}, k, l))
         /\ Cardinality(Tally(C \ {v}, k, l)) =
              Cardinality(Tally(C, k, l)) - (IF Wants[v[1]][v[2]] = <<k, l>> THEN 1 ELSE 0)
         /\ Wants[v[1]][v[2]] = <<k, l>> => Cardinality(Tally(C, k, l)) > 0
<1> DEFINE T == Tally(C, k, l)
<1>0. Cardinality(T) \in Nat
  BY FS_CardinalityType
<1>1. CASE Wants[v[1]][v[2]] = <<k, l>>
  <2>1. Tally(C \ {v}, k, l) = T \ {v} /\ v \in T
    BY <1>1 DEF Tally
  <2> HIDE DEF T
  <2>2. IsFiniteSet(T \ {v}) /\ Cardinality(T \ {v}) = Cardinality(T) - 1
    BY <2>1, FS_RemoveElement DEF T
  <2>3. Cardinality(T \ {v}) \in Nat
    BY <2>2, FS_CardinalityType
  <2>4. Cardinality(T) > 0
    BY <1>0, <2>2, <2>3
  <2>5. QED
    BY <1>1, <2>1, <2>2, <2>4 DEF T
<1>2. CASE Wants[v[1]][v[2]] # <<k, l>>
  <2>1. Tally(C \ {v}, k, l) = T
    BY <1>2 DEF Tally
  <2>2. QED
    BY <1>0, <1>2, <2>1
<1>3. QED
  BY <1>1, <1>2

---------------------------------------------------------------------------
(* How far the change over at pos has come, and the invariant: a level    *)
(* has as many votes as it is wanted by votes that are cast.              *)

(* The threshold that configuration_run ends up at, whether that is a     *)
(* change, the votes of the change, and how many of them have been dealt  *)
(* with.                                                                  *)
NewOf(c)   == Head(satisfied[c])
Changes(c) == satisfied[c] # <<>> /\ NewOf(c) # current[c]
Full(c)    == IF Changes(c) THEN ChangeOver(current[c], NewOf(c)) ELSE <<>>
Done       == Len(Full(List[pos])) - Len(todo)

(* What is left to do is the end of the change over.                      *)
TodoOK ==
  /\ pc \notin {"apply", "crashed"} => todo = <<>>
  /\ pc = "apply" => /\ Done \in Nat
                     /\ \A i \in 1..Len(todo) : todo[i] = Full(List[pos])[Done + i]

Cast ==
  IF pc = "apply" /\ Changes(List[pos])
  THEN CastBy(InForce(Configurations \ {List[pos]}), NewOf(List[pos]), current[List[pos]], Done)
  ELSE CastBy(InForce(Configurations), None, None, 0)

(* nvotes counts the votes that are cast: none is withdrawn that was not  *)
(* cast, none is withdrawn twice, and none stays behind.                  *)
VotesCounted ==
  pc # "crashed" =>
    \A k \in Controls : \A l \in LevelsOf(k) :
      IsFiniteSet(Tally(Cast, k, l)) /\ nvotes[k][l] = Cardinality(Tally(Cast, k, l))

(* A threshold belongs to one configuration: no other one has it in       *)
(* force.                                                                 *)
LEMMA ThresholdsApart ==
  ASSUME TypeInv, NEW c \in Configurations, NEW t \in ToSet(ThresholdsOf[c])
  PROVE  t \in Thresholds /\ t # None /\ t \notin InForce(Configurations \ {c})
<1>1. t \in Thresholds
  BY ConfigurationAssumption, Heads
<1>2. ASSUME NEW d \in Configurations \ {c}, current[d] = t PROVE FALSE
  <2>1. t \in ToSet(ThresholdsOf[d])
    BY <1>1, <1>2, NoneAssumption DEF TypeInv, ListsOK
  <2>2. ToSet(ThresholdsOf[c]) \cap ToSet(ThresholdsOf[d]) = {}
    BY ConfigurationAssumption
  <2>3. QED
    BY <2>1, <2>2
<1>3. QED
  BY <1>1, <1>2, NoneAssumption DEF InForce

LEMMA InForceSplit ==
  ASSUME NEW c \in Configurations
  PROVE  InForce(Configurations) = InForce(Configurations \ {c}) \cup ({current[c]} \ {None})
BY DEF InForce

(* The votes of a change over, first those of the new threshold, then     *)
(* those of the old one.                                                  *)
LEMMA ChangeFacts ==
  ASSUME TypeInv, NEW c \in Configurations, Changes(c)
  PROVE  LET new == NewOf(c)
             old == current[c]
             others == InForce(Configurations \ {c})
             a == Len(Wants[new])
         IN  /\ new \in Thresholds /\ new \notin others
             /\ old \in Thresholds \cup {None} /\ old # new
             /\ old # None => old \in Thresholds /\ old \notin others
             /\ InForce(Configurations) = others \cup ({old} \ {None})
             /\ Full(c) \in Seq(VoteSet)
             /\ Len(Full(c)) = a + (IF old = None THEN 0 ELSE Len(Wants[old]))
             /\ \A i \in 1..a : Full(c)[i] = VotesOf(new, "vote")[i]
             /\ old # None => \A i \in 1..Len(Wants[old]) :
                                Full(c)[a + i] = VotesOf(old, "unvote")[i]
<1> DEFINE new == NewOf(c)
           old == current[c]
           others == InForce(Configurations \ {c})
           a == Len(Wants[new])
<1>1. new \in ToSet(ThresholdsOf[c]) /\ old \in ToSet(ThresholdsOf[c]) \cup {None} /\ old # new
  <2>1. satisfied[c] \in Seq(Thresholds) /\ satisfied[c] # <<>>
    BY DEF TypeInv, TypeOK, Changes
  <2>2. new \in ToSet(satisfied[c])
    BY <2>1, Heads DEF NewOf
  <2>3. QED
    BY <2>2 DEF TypeInv, ListsOK, Changes
<1>2. /\ new \in Thresholds /\ new \notin others
      /\ old # None => old \in Thresholds /\ old \notin others
  BY <1>1, ThresholdsApart
<1>3. InForce(Configurations) = others \cup ({old} \ {None})
  BY InForceSplit
<1>4. Full(c) = VotesOf(new, "vote") \o (IF old = None THEN <<>> ELSE VotesOf(old, "unvote"))
  BY DEF Full, ChangeOver
<1> DEFINE v == VotesOf(new, "vote")
           w == IF old = None THEN <<>> ELSE VotesOf(old, "unvote")
           b == IF old = None THEN 0 ELSE Len(Wants[old])
<1>5. v \in Seq(VoteSet) /\ Len(v) = a
  BY <1>2, VotesOfThreshold
<1>6. w \in Seq(VoteSet) /\ Len(w) = b
  <2>1. CASE old = None
    BY <2>1
  <2>2. CASE old # None
    BY <1>2, <2>2, VotesOfThreshold
  <2>3. QED
    BY <2>1, <2>2
<1>7. old # None => b = Len(Wants[old]) /\ w = VotesOf(old, "unvote")
  OBVIOUS
<1>8. b = IF old = None THEN 0 ELSE Len(Wants[old])
  OBVIOUS
<1> HIDE DEF v, w, b, new, old, others
<1>9. /\ v \o w \in Seq(VoteSet) /\ Len(v \o w) = Len(v) + Len(w)
      /\ \A i \in 1..Len(v) : (v \o w)[i] = v[i]
      /\ \A i \in 1..Len(w) : (v \o w)[Len(v) + i] = w[i]
  <2>1. v \in Seq(VoteSet) /\ w \in Seq(VoteSet)
    BY <1>5, <1>6
  <2>2. QED
    BY <2>1, Joined
<1>10. Full(c) = v \o w
  BY <1>4 DEF v, w
<1> DEFINE f == v \o w
<1> HIDE DEF f, a
<1>11. /\ f \in Seq(VoteSet) /\ Len(f) = a + b
       /\ \A i \in 1..a : f[i] = v[i]
       /\ \A i \in 1..b : f[a + i] = w[i]
  BY <1>5, <1>6, <1>9 DEF f
<1>12. Full(c) = f
  BY <1>10 DEF f
<1>13. QED
  BY <1>1, <1>2, <1>3, <1>7, <1>8, <1>11, <1>12 DEF new, old, others, a, v

(* The next vote to deal with is one of the new threshold to cast, or     *)
(* one of the old threshold to withdraw.                                  *)
LEMMA NextVote ==
  ASSUME TypeInv, RoundOK, TodoOK, pc = "apply", todo # <<>>
  PROVE  LET c == List[pos]
             new == NewOf(c)
             old == current[c]
             v == Head(todo)
             a == Len(Wants[new])
         IN  /\ c \in Configurations /\ Changes(c) /\ Done \in Nat
             /\ v.control \in Controls
             /\ \/ /\ v.kind = "vote" /\ Done + 1 \in 1..a
                   /\ Wants[new][Done + 1] = <<v.control, v.level>>
                \/ /\ v.kind = "unvote" /\ old # None
                   /\ \E j \in 1..Len(Wants[old]) : /\ Done = a + j - 1
                                                    /\ Wants[old][j] = <<v.control, v.level>>
<1> DEFINE c == List[pos]
           new == NewOf(c)
           old == current[c]
           v == Head(todo)
           a == Len(Wants[new])
           d == Done
           f == Full(c)
<1>1. c \in Configurations
  BY AtConfiguration DEF TypeInv, RoundOK
<1>2. todo \in Seq(VoteSet) /\ Len(todo) \in Nat /\ Len(todo) >= 1 /\ v = todo[1]
  BY DEF TypeInv, TypeOK, VoteSet
<1>3. d \in Nat /\ v = f[d + 1] /\ d = Len(f) - Len(todo)
  BY <1>2 DEF TodoOK, Done
<1>4. Changes(c)
  <2> SUFFICES ASSUME ~Changes(c) PROVE FALSE
    OBVIOUS
  <2>1. f = <<>>
    BY DEF Full
  <2>2. Len(f) = 0
    BY <2>1
  <2>3. QED
    BY <1>2, <1>3, <2>2
<1> HIDE DEF d, f, c
<1>5. /\ new \in Thresholds /\ a \in Nat
      /\ Len(f) = a + (IF old = None THEN 0 ELSE Len(Wants[old]))
      /\ \A i \in 1..a : f[i] = VotesOf(new, "vote")[i]
      /\ old # None => /\ old \in Thresholds /\ Len(Wants[old]) \in Nat
                       /\ \A i \in 1..Len(Wants[old]) : f[a + i] = VotesOf(old, "unvote")[i]
  BY <1>1, <1>4, ChangeFacts, WantsLen DEF f
<1> HIDE DEF new, old, v, a
<1>6. d + 1 \in 1..Len(f)
  BY <1>2, <1>3
<1>7. CASE d + 1 <= a
  <2>1. d + 1 \in 1..a /\ v = VotesOf(new, "vote")[d + 1]
    BY <1>3, <1>5, <1>7, SMTT(30)
  <2> DEFINE i == d + 1
             x == VotesOf(new, "vote")[i]
  <2>2. /\ i \in 1..Len(Wants[new]) /\ v = x
    BY <2>1 DEF a
  <2> HIDE DEF i
  <2>3. /\ Wants[new][i] = <<Wants[new][i][1], Wants[new][i][2]>>
        /\ Wants[new][i][1] \in Controls
        /\ x.kind = "vote" /\ x.control = Wants[new][i][1] /\ x.level = Wants[new][i][2]
    BY <1>5, <2>2, VotesOfThreshold
  <2> HIDE DEF x
  <2>4. v.control \in Controls /\ v.kind = "vote" /\ Wants[new][i] = <<v.control, v.level>>
    BY <2>2, <2>3
  <2>5. QED
    BY <1>1, <1>3, <1>4, <2>1, <2>4 DEF c, d, new, old, v, a, i
<1>8. CASE d + 1 > a
  <2> DEFINE j == d + 1 - a
             x == VotesOf(old, "unvote")[j]
  <2>1. old # None
    BY <1>5, <1>6, <1>8
  <2>2. j \in 1..Len(Wants[old]) /\ d + 1 = a + j /\ d = a + j - 1
    <3>1. Len(f) = a + Len(Wants[old]) /\ Len(Wants[old]) \in Nat
      BY <1>5, <2>1
    <3>2. QED
      BY <1>3, <1>5, <1>6, <1>8, <3>1
  <2>3. f[a + j] = x
    BY <1>5, <2>1, <2>2
  <2>4. v = x
    BY <1>3, <2>2, <2>3
  <2> HIDE DEF j
  <2>5. /\ Wants[old][j] = <<Wants[old][j][1], Wants[old][j][2]>>
        /\ Wants[old][j][1] \in Controls
        /\ x.kind = "unvote" /\ x.control = Wants[old][j][1] /\ x.level = Wants[old][j][2]
    BY <1>5, <2>1, <2>2, VotesOfThreshold
  <2> HIDE DEF x
  <2>6. v.control \in Controls /\ v.kind = "unvote" /\ Wants[old][j] = <<v.control, v.level>>
    BY <2>4, <2>5
  <2>7. QED
    BY <1>1, <1>3, <1>4, <2>1, <2>2, <2>6 DEF c, d, new, old, v, a
<1>9. d + 1 <= a \/ d + 1 > a
  BY <1>3, <1>5
<1>10. QED
  BY <1>7, <1>8, <1>9

---------------------------------------------------------------------------
(* Every step keeps the count.                                            *)

(* A vote is dealt with: what it belongs to stays as it is.               *)
LEMMA VoteFrame ==
  ASSUME TypeInv, TodoOK, ControlVoteLevel \/ ControlUnvoteLevel
  PROVE  /\ pc = "apply" /\ todo # <<>> /\ UNCHANGED <<pc, pos, satisfied, current>>
         /\ Full(List[pos])' = Full(List[pos]) /\ Done' = Done + 1 /\ TodoOK'
<1> DEFINE f == Full(List[pos])
<1>1. /\ pc = "apply" /\ todo # <<>> /\ UNCHANGED <<pc, pos, satisfied, current>>
      /\ todo' = Tail(todo)
  BY DEF ControlVoteLevel, ControlUnvoteLevel, Vote, roundVars, configVars
<1>2. f' = f
  BY <1>1 DEF Full, Changes, NewOf
<1>3. /\ Len(todo) \in Nat /\ Len(todo) >= 1 /\ Len(Tail(todo)) = Len(todo) - 1
      /\ \A i \in 1..(Len(todo) - 1) : Tail(todo)[i] = todo[i + 1]
  <2>1. todo \in Seq(VoteSet)
    BY DEF TypeInv, TypeOK, VoteSet
  <2>2. QED
    BY <1>1, <2>1
<1>4. Done = Len(f) - Len(todo) /\ Done' = Len(f) - Len(Tail(todo)) /\ Done \in Nat
  BY <1>1, <1>2 DEF Done, TodoOK
<1>5. Len(f) \in Int
  BY <1>1, AtConfiguration, ChangeFacts DEF TypeInv, RoundOK, Full
<1> HIDE DEF f
<1>6. Done' = Done + 1 /\ Done' \in Nat
  <2> DEFINE d == Done
             e == Done'
             n == Len(todo)
             m == Len(Tail(todo))
             l == Len(f)
  <2>1. /\ n \in Nat /\ m = n - 1 /\ l \in Int
        /\ d = l - n /\ e = l - m /\ d \in Nat
    BY <1>3, <1>4, <1>5
  <2> HIDE DEF d, e, n, m, l
  <2>2. e = d + 1 /\ e \in Nat
    BY <2>1
  <2>3. QED
    BY <2>2 DEF d, e
<1>7. \A i \in 1..Len(todo) : todo[i] = f[Done + i]
  BY <1>1 DEF TodoOK, f
<1>8. ASSUME NEW i \in 1..Len(todo') PROVE todo'[i] = f'[Done' + i]
  <2>1. i \in 1..(Len(todo) - 1) /\ i + 1 \in 1..Len(todo)
    BY <1>1, <1>3
  <2>2. todo'[i] = f[Done + (i + 1)]
    BY <1>1, <1>3, <1>7, <2>1
  <2>3. Done + (i + 1) = Done' + i
    <3> DEFINE d == Done
    <3>1. d \in Nat /\ i \in Int
      BY <1>4, <2>1
    <3> HIDE DEF d
    <3>2. d + (i + 1) = (d + 1) + i
      BY <3>1
    <3>3. QED
      BY <1>6, <3>2 DEF d
  <2>4. QED
    BY <1>2, <2>2, <2>3
<1>9. TodoOK'
  BY <1>1, <1>6, <1>8 DEF TodoOK, f
<1>10. QED
  BY <1>1, <1>2, <1>6, <1>9 DEF f

(* control_vote_level counts the vote it casts.                           *)
LEMMA VoteCounted ==
  ASSUME TypeInv, TodoOK, VotesCounted, ControlVoteLevel
  PROVE  VotesCounted'
<1> DEFINE c == List[pos]
           new == NewOf(c)
           old == current[c]
           others == InForce(Configurations \ {c})
           k == Head(todo).control
           level == Head(todo).level
           v == <<new, Done + 1>>
<1>1. /\ pc = "apply" /\ todo # <<>> /\ UNCHANGED <<pc, pos, satisfied, current>>
      /\ Done' = Done + 1
  BY VoteFrame
<1>2. /\ c \in Configurations /\ Changes(c) /\ Done \in Nat /\ k \in Controls
      /\ Done + 1 \in 1..Len(Wants[new]) /\ Wants[new][Done + 1] = <<k, level>>
  <2>1. Head(todo).kind = "vote"
    BY DEF ControlVoteLevel, Vote
  <2>2. QED
    BY <1>1, <2>1, NextVote DEF TypeInv
<1>3. new \in Thresholds /\ new \notin others /\ old # new
  BY <1>2, ChangeFacts
<1>4. Cast = CastBy(others, new, old, Done)
  BY <1>1, <1>2 DEF Cast
<1>5. Cast' = CastBy(others, new, old, Done + 1)
  <2>1. others' = others /\ new' = new /\ old' = old /\ Changes(c)' = Changes(c)
    BY <1>1 DEF InForce, NewOf, Changes
  <2>2. QED
    BY <1>1, <1>2, <2>1 DEF Cast
<1>6. v \notin Cast /\ Cast' = Cast \cup {v}
  <2> DEFINE d == Done
  <2>1. /\ new \in Thresholds /\ new \notin others /\ old # new
        /\ d \in Nat /\ d + 1 <= Len(Wants[new])
    BY <1>2, <1>3, WantsLen
  <2> HIDE DEF new, old, others, d
  <2>2. /\ <<new, d + 1>> \notin CastBy(others, new, old, d)
        /\ CastBy(others, new, old, d + 1) = CastBy(others, new, old, d) \cup {<<new, d + 1>>}
    BY <2>1, CastNew
  <2>3. QED
    BY <1>4, <1>5, <2>2 DEF d
<1>7. Wants[v[1]][v[2]] = <<k, level>>
  BY <1>2
<1>8. nvotes' = [nvotes EXCEPT ![k] = [l \in LevelsOf(k) |->
                   nvotes[k][l] + (IF l = level THEN 1 ELSE 0)]]
  BY DEF ControlVoteLevel, Vote, ControlUpdateLevel
<1> HIDE DEF v, k, level, c
<1>9. ASSUME NEW h \in Controls, NEW l \in LevelsOf(h)
      PROVE  IsFiniteSet(Tally(Cast, h, l)') /\ nvotes'[h][l] = Cardinality(Tally(Cast, h, l)')
  <2>1. IsFiniteSet(Tally(Cast, h, l)) /\ nvotes[h][l] = Cardinality(Tally(Cast, h, l))
    BY <1>1 DEF VotesCounted
  <2>2. Tally(Cast, h, l)' = Tally(Cast \cup {v}, h, l)
    BY <1>6 DEF Tally
  <2>3. /\ IsFiniteSet(Tally(Cast \cup {v}, h, l))
        /\ Cardinality(Tally(Cast \cup {v}, h, l)) =
             Cardinality(Tally(Cast, h, l)) + (IF Wants[v[1]][v[2]] = <<h, l>> THEN 1 ELSE 0)
    BY <1>6, <2>1, TallyMore
  <2>4. Wants[v[1]][v[2]] = <<h, l>> <=> h = k /\ l = level
    BY <1>7
  <2>5. nvotes'[h][l] = nvotes[h][l] + (IF h = k /\ l = level THEN 1 ELSE 0)
    <3>1. DOMAIN nvotes = Controls /\ nvotes[h][l] \in Nat
      BY DEF TypeInv, TypeOK
    <3>2. CASE h = k
      <4>1. nvotes'[h] = [x \in LevelsOf(k) |-> nvotes[k][x] + (IF x = level THEN 1 ELSE 0)]
        BY <1>8, <3>1, <3>2
      <4>2. QED
        BY <3>2, <4>1
    <3>3. CASE h # k
      BY <1>8, <3>1, <3>3
    <3>4. QED
      BY <3>2, <3>3
  <2>6. QED
    BY <2>1, <2>2, <2>3, <2>4, <2>5
<1>10. QED
  BY <1>9 DEF VotesCounted

(* control_unvote_level finds the vote counted that it withdraws.         *)
LEMMA UnvoteCounted ==
  ASSUME TypeInv, TodoOK, VotesCounted, ControlUnvoteLevel
  PROVE  VotesCounted'
<1> DEFINE c == List[pos]
           new == NewOf(c)
           old == current[c]
           others == InForce(Configurations \ {c})
           k == Head(todo).control
           level == Head(todo).level
<1>1. /\ pc = "apply" /\ todo # <<>> /\ UNCHANGED <<pc, pos, satisfied, current>>
      /\ Done' = Done + 1
  BY VoteFrame
<1>2. PICK j \in 1..Len(Wants[old]) :
        /\ c \in Configurations /\ Changes(c) /\ k \in Controls /\ old # None
        /\ Done = Len(Wants[new]) + j - 1 /\ Wants[old][j] = <<k, level>>
  <2>1. Head(todo).kind = "unvote"
    BY DEF ControlUnvoteLevel, Vote
  <2>2. QED
    BY <1>1, <2>1, NextVote DEF TypeInv
<1> DEFINE v == <<old, j>>
<1>3. new \in Thresholds /\ old \in Thresholds /\ old \notin others /\ old # new
  BY <1>2, ChangeFacts
<1>4. Cast = CastBy(others, new, old, Done)
  BY <1>1, <1>2 DEF Cast
<1>5. Cast' = CastBy(others, new, old, Done + 1)
  <2>1. others' = others /\ new' = new /\ old' = old /\ Changes(c)' = Changes(c)
    BY <1>1 DEF InForce, NewOf, Changes
  <2>2. QED
    BY <1>1, <1>2, <2>1 DEF Cast
<1>6. v \in Cast /\ Cast' = Cast \ {v}
  <2> DEFINE d == Done
             i == j
  <2>1. /\ new \in Thresholds /\ old \in Thresholds /\ old \notin others /\ old # new
        /\ i \in Nat /\ d \in Nat /\ Withdrawn(i, new, old, d)
    BY <1>2, <1>3, WantsLen DEF Withdrawn
  <2> HIDE DEF new, old, others, d, i
  <2>2. /\ <<old, i>> \notin CastBy(others, new, old, d + 1)
        /\ CastBy(others, new, old, d) = CastBy(others, new, old, d + 1) \cup {<<old, i>>}
    BY <2>1, CastOld, SMTT(30)
  <2>3. QED
    BY <1>4, <1>5, <2>2 DEF d, i
<1>7. Wants[v[1]][v[2]] = <<k, level>>
  BY <1>2
<1>8. nvotes' = [nvotes EXCEPT ![k] = [l \in LevelsOf(k) |->
                   nvotes[k][l] - (IF l = level /\ nvotes[k][l] > 0 THEN 1 ELSE 0)]]
  BY DEF ControlUnvoteLevel, Vote, ControlUpdateLevel
<1> HIDE DEF v, k, level, c
<1>9. ASSUME NEW h \in Controls, NEW l \in LevelsOf(h)
      PROVE  IsFiniteSet(Tally(Cast, h, l)') /\ nvotes'[h][l] = Cardinality(Tally(Cast, h, l)')
  <2>1. IsFiniteSet(Tally(Cast, h, l)) /\ nvotes[h][l] = Cardinality(Tally(Cast, h, l))
    BY <1>1 DEF VotesCounted
  <2>2. Tally(Cast, h, l)' = Tally(Cast \ {v}, h, l)
    BY <1>6 DEF Tally
  <2>3. /\ IsFiniteSet(Tally(Cast \ {v}, h, l))
        /\ Cardinality(Tally(Cast \ {v}, h, l)) =
             Cardinality(Tally(Cast, h, l)) - (IF Wants[v[1]][v[2]] = <<h, l>> THEN 1 ELSE 0)
        /\ Wants[v[1]][v[2]] = <<h, l>> => Cardinality(Tally(Cast, h, l)) > 0
    BY <1>6, <2>1, TallyLess
  <2>4. Wants[v[1]][v[2]] = <<h, l>> <=> h = k /\ l = level
    BY <1>7
  <2>5. nvotes'[h][l] = nvotes[h][l] - (IF h = k /\ l = level /\ nvotes[h][l] > 0 THEN 1 ELSE 0)
    <3>1. DOMAIN nvotes = Controls /\ nvotes[h][l] \in Nat
      BY DEF TypeInv, TypeOK
    <3>2. CASE h = k
      <4>1. nvotes'[h] = [x \in LevelsOf(k) |-> nvotes[k][x] -
                            (IF x = level /\ nvotes[k][x] > 0 THEN 1 ELSE 0)]
        BY <1>8, <3>1, <3>2
      <4>2. QED
        BY <3>2, <4>1
    <3>3. CASE h # k
      BY <1>8, <3>1, <3>3
    <3>4. QED
      BY <3>2, <3>3
  <2>6. QED
    BY <2>1, <2>2, <2>3, <2>4, <2>5
<1>10. QED
  BY <1>9 DEF VotesCounted

LEMMA SameVotesCounted ==
  ASSUME VotesCounted, nvotes' = nvotes, pc' # "crashed" => pc # "crashed" /\ Cast' = Cast
  PROVE  VotesCounted'
BY DEF VotesCounted, Tally

(* configuration_run decides what to change: nothing is cast yet.         *)
LEMMA RunVotes ==
  ASSUME TypeInv, TypeInv', TodoOK, VotesCounted, RunConfiguration
  PROVE  TodoOK' /\ VotesCounted'
<1> DEFINE c == List[pos]
<1>1. /\ UNCHANGED <<pos, current, nvotes>> /\ pc = "run" /\ pc' \in {"crashed", "apply"}
  BY DEF RunConfiguration, roundVars
<1>2. c \in Configurations
  BY <1>1, AtConfiguration DEF TypeInv, RoundOK
<1>3. todo' = Full(c)'
  <2>1. c' = c /\ current' = current
    BY <1>1
  <2>2. todo' = IF satisfied'[c] = <<>> \/ Head(satisfied'[c]) = current[c]
                THEN <<>> ELSE ChangeOver(current[c], Head(satisfied'[c]))
    BY DEF RunConfiguration
  <2>3. Full(c)' = IF satisfied'[c] # <<>> /\ Head(satisfied'[c]) # current[c]
                   THEN ChangeOver(current[c], Head(satisfied'[c])) ELSE <<>>
    BY <2>1 DEF Full, Changes, NewOf
  <2>4. QED
    BY <2>2, <2>3
<1>4. todo' \in Seq(VoteSet)
  BY DEF TypeInv, TypeOK, VoteSet
<1>5. Done' = 0
  <2> DEFINE t == todo'
  <2>1. Len(t) \in Nat
    BY <1>4
  <2>2. Done' = Len(t) - Len(t)
    BY <1>1, <1>3 DEF Done
  <2>3. QED
    BY <2>1, <2>2
<1>6. TodoOK'
  <2>1. ASSUME NEW i \in 1..Len(todo') PROVE todo'[i] = (Full(c)')[0 + i]
    BY <1>3
  <2>2. QED
    BY <1>1, <1>5, <2>1 DEF TodoOK
<1>7. Cast = CastBy(InForce(Configurations), None, None, 0)
  BY <1>1 DEF Cast
<1>8. pc' = "apply" => Cast' = Cast
  <2> SUFFICES ASSUME pc' = "apply" PROVE Cast' = Cast
    OBVIOUS
  <2>1. InForce(Configurations)' = InForce(Configurations) /\ current'[c] = current[c]
        /\ InForce(Configurations \ {c})' = InForce(Configurations \ {c})
    BY <1>1 DEF InForce
  <2>2. CASE ~Changes(c)'
    BY <1>1, <1>7, <2>1, <2>2 DEF Cast
  <2>3. CASE Changes(c)'
    <3> DEFINE new == NewOf(c)'
               old == current[c]
               others == InForce(Configurations \ {c})
               forced == InForce(Configurations)
    <3>1. Cast' = CastBy(others, new, old, 0)
      BY <1>1, <1>5, <2>1, <2>3 DEF Cast
    <3>2. new \in Thresholds
      <4>1. satisfied'[c] \in Seq(Thresholds) /\ satisfied'[c] # <<>>
        BY <1>1, <1>2, <2>3 DEF TypeInv, TypeOK, Changes
      <4> DEFINE s == satisfied'[c]
      <4> HIDE DEF s
      <4>2. s \in Seq(Thresholds) /\ s # <<>>
        BY <4>1 DEF s
      <4>3. Head(s) \in Thresholds
        BY <4>2
      <4>4. QED
        BY <1>1, <4>3 DEF NewOf, s
    <3>3. forced = others \cup ({old} \ {None})
      BY <1>2, InForceSplit
    <3> HIDE DEF new, old, others, forced
    <3>4. CastBy(forced, None, None, 0) = CastBy(others, new, old, 0)
      BY <3>2, <3>3, CastStart
    <3>5. QED
      BY <1>7, <3>1, <3>4 DEF forced
  <2>4. QED
    BY <2>2, <2>3
<1>9. QED
  BY <1>1, <1>6, <1>8, SameVotesCounted

(* The change over is complete: the new threshold is in force now.        *)
LEMMA DoneVotes ==
  ASSUME TypeInv, TodoOK, VotesCounted, ConfigurationDone
  PROVE  TodoOK' /\ VotesCounted'
<1> DEFINE c == List[pos]
<1>1. /\ UNCHANGED <<satisfied, nvotes, todo>> /\ pc = "apply" /\ pc' = "read" /\ todo = <<>>
      /\ current' = [current EXCEPT ![c] = IF satisfied[c] = <<>> THEN @ ELSE Head(satisfied[c])]
  BY DEF ConfigurationDone, NextConfiguration, voteVars
<1>2. c \in Configurations
  BY <1>1, AtConfiguration DEF TypeInv, RoundOK
<1>3. TodoOK'
  BY <1>1 DEF TodoOK
<1>4. Cast' = CastBy(InForce(Configurations)', None, None, 0)
  BY <1>1 DEF Cast
<1>5. DOMAIN current = Configurations
  BY DEF TypeInv, TypeOK
<1>6. CASE ~Changes(c)
  <2>1. current' = current
    BY <1>1, <1>2, <1>5, <1>6 DEF Changes, NewOf, TypeInv, TypeOK
  <2>2. Cast' = Cast
    <3>1. Cast = CastBy(InForce(Configurations), None, None, 0)
      BY <1>6 DEF Cast
    <3>2. InForce(Configurations)' = InForce(Configurations)
      BY <2>1 DEF InForce
    <3>3. QED
      BY <1>4, <3>1, <3>2
  <2>3. QED
    BY <1>1, <1>3, <2>2, SameVotesCounted
<1>7. CASE Changes(c)
  <2> DEFINE new == NewOf(c)
             old == current[c]
             others == InForce(Configurations \ {c})
             forced == others \cup {new}
             d == Done
  <2>1. /\ new \in Thresholds /\ old \in Thresholds \cup {None} /\ old # new
        /\ Len(Full(c)) = Len(Wants[new]) + (IF old = None THEN 0 ELSE Len(Wants[old]))
    BY <1>2, <1>7, ChangeFacts
  <2>2. d = Len(Wants[new]) + (IF old = None THEN 0 ELSE Len(Wants[old]))
    <3>1. Len(todo) = 0 /\ d = Len(Full(c)) - Len(todo) /\ d \in Nat
      BY <1>1 DEF Done, TodoOK
    <3>2. Len(Full(c)) \in Nat
      BY <1>2, <1>7, ChangeFacts
    <3>3. d = Len(Full(c))
      BY <3>1, <3>2
    <3>4. QED
      BY <2>1, <3>3
  <2>3. Cast = CastBy(others, new, old, d)
    BY <1>1, <1>7 DEF Cast
  <2>4. InForce(Configurations)' = forced
    <3>1. current' = [current EXCEPT ![c] = new] /\ new # None
      BY <1>1, <1>7, <2>1, NoneAssumption DEF Changes, NewOf
    <3>2. current'[c] = new /\ \A e \in Configurations \ {c} : current'[e] = current[e]
      BY <1>2, <1>5, <3>1
    <3> HIDE DEF new
    <3>3. InForce(Configurations)' = {current'[e] : e \in Configurations} \ {None}
      BY DEF InForce
    <3>4. others = {current[e] : e \in Configurations \ {c}} \ {None}
      BY DEF InForce
    <3> HIDE DEF others, c
    <3>5. QED
      BY <1>2, <3>1, <3>2, <3>3, <3>4
  <2> HIDE DEF new, old, others, d
  <2>5. CastBy(others, new, old, d) = CastBy(others \cup {new}, None, None, 0)
    BY <2>1, <2>2, CastEnd, ZenonT(60)
  <2>6. Cast' = Cast
    BY <1>4, <2>3, <2>4, <2>5
  <2>7. QED
    BY <1>1, <1>3, <2>6, SameVotesCounted
<1>8. QED
  BY <1>6, <1>7

LEMMA OtherVotes ==
  ASSUME TypeInv, TodoOK, VotesCounted,
         \/ ReadSensor \/ SkipConfiguration \/ SwitchMitigation \/ EndOfRound \/ Wake \/ Halt
         \/ (\E s \in Sensors : Drift(s)) \/ UNCHANGED vars
  PROVE  TodoOK' /\ VotesCounted'
<1>1. /\ UNCHANGED <<satisfied, current, todo, nvotes>>
      /\ \/ UNCHANGED <<pc, pos>>
         \/ pc \notin {"apply", "crashed"} /\ pc' \notin {"apply", "crashed"}
  BY DEF ReadSensor, SkipConfiguration, SwitchMitigation, EndOfRound, Wake, Halt, Drift,
         NextConfiguration, vars, roundVars, configVars, voteVars
<1>2. Cast' = Cast /\ TodoOK'
  <2>1. CASE UNCHANGED <<pc, pos>>
    BY <1>1, <2>1 DEF Cast, TodoOK, Done, Full, Changes, NewOf, InForce
  <2>2. CASE pc \notin {"apply", "crashed"} /\ pc' \notin {"apply", "crashed"}
    BY <1>1, <2>2 DEF Cast, TodoOK, InForce
  <2>3. QED
    BY <1>1, <2>1, <2>2
<1>3. QED
  BY <1>1, <1>2, SameVotesCounted

LEMMA VotesInduction ==
  ASSUME TypeInv, TypeInv', TodoOK, VotesCounted, [Next]_vars
  PROVE  TodoOK' /\ VotesCounted'
<1>1. CASE ControlVoteLevel
  BY <1>1, VoteFrame, VoteCounted
<1>2. CASE ControlUnvoteLevel
  BY <1>2, VoteFrame, UnvoteCounted
<1>3. QED
  BY <1>1, <1>2, RunVotes, DoneVotes, OtherVotes DEF Next, DaemonStep

LEMMA VotesStart ==
  ASSUME Init
  PROVE  TodoOK /\ VotesCounted
<1>1. InForce(Configurations) = {} /\ Cast = CastBy({}, None, None, 0)
  BY DEF Init, InForce, Cast
<1>2. Cast = {}
  <2>1. ASSUME NEW v \in Cast PROVE FALSE
    <3>1. v[1] \in Thresholds /\ v[2] \in 1..Len(Wants[v[1]])
          /\ (v[1] \in {} \/ (v[1] = None /\ v[2] <= 0)
                \/ (v[1] = None /\ v[2] > 0 - Len(Wants[None])))
      BY <1>1, <2>1 DEF CastBy, IsCast
    <3>2. QED
      BY <3>1, NoneAssumption
  <2>2. QED
    BY <2>1
<1>3. \A k, l : IsFiniteSet(Tally(Cast, k, l)) /\ Cardinality(Tally(Cast, k, l)) = 0
  BY <1>2, FS_EmptySet DEF Tally
<1>4. QED
  BY <1>3 DEF Init, TodoOK, VotesCounted

---------------------------------------------------------------------------
(* The control's level follows its votes.                                 *)

(* The levels of k with votes.                                            *)
Voted(k) == {l \in LevelsOf(k) : nvotes[k][l] > 0}

(* The control is at its highest level with votes, or was never voted     *)
(* for.                                                                   *)
Settled(k) ==
  \/ current_level[k] = Max({0} \cup Voted(k))
  \/ current_level[k] = -1 /\ Voted(k) = {}

(* A control that walks its ladder is on the way to its highest level     *)
(* with votes; the others are there.                                      *)
LevelsFollow ==
  /\ ladder # <<>> => target[2] = Max({0} \cup Voted(target[1]))
  /\ \A k \in Controls : Switching(k) \/ Settled(k)

(* control_update_level sends a control to its highest level as soon as   *)
(* a vote changes it ...                                                  *)
LEMMA LevelsVote ==
  ASSUME TypeInv, LevelsFollow, ControlVoteLevel \/ ControlUnvoteLevel
  PROVE  LevelsFollow'
<1>0. PICK c \in Controls : \E votes :
        /\ ladder = <<>> /\ UNCHANGED current_level
        /\ ControlUpdateLevel(c, votes)
  <2> DEFINE k == Head(todo).control
  <2>1. todo # <<>> /\ todo \in Seq(VoteSet)
    BY DEF TypeInv, TypeOK, VoteSet, ControlVoteLevel, ControlUnvoteLevel, Vote
  <2>2. Head(todo) \in VoteSet
    BY <2>1
  <2>3. k \in Controls
    BY <2>2 DEF VoteSet
  <2> HIDE DEF k
  <2>4. \E votes : ladder = <<>> /\ UNCHANGED current_level /\ ControlUpdateLevel(k, votes)
    BY DEF k, ControlVoteLevel, ControlUnvoteLevel, Vote
  <2>5. QED
    BY <2>3, <2>4
<1>1. PICK votes :
        /\ ladder = <<>> /\ UNCHANGED current_level
        /\ ControlUpdateLevel(c, votes)
  BY <1>0
<1> DEFINE T == {l \in LevelsOf(c) : votes[l] > 0}
           level == Max({0} \cup T)
<1>2. /\ nvotes' = [nvotes EXCEPT ![c] = votes]
      /\ IF level = current_level[c] THEN UNCHANGED <<ladder, target>>
                                     ELSE ladder' = Levels[c] /\ target' = <<c, level>>
  BY <1>1 DEF ControlUpdateLevel
<1>3. DOMAIN nvotes = Controls
  BY DEF TypeInv, TypeOK
<1>4. Voted(c)' = T
  BY <1>2, <1>3 DEF Voted
<1>5. \A k \in Controls \ {c} : Voted(k)' = Voted(k) /\ Settled(k)'
  <2>1. \A k \in Controls \ {c} : Voted(k)' = Voted(k)
    BY <1>2, <1>3 DEF Voted
  <2>2. \A k \in Controls : Settled(k)
    BY <1>1 DEF LevelsFollow, Switching
  <2>3. QED
    BY <1>1, <2>1, <2>2 DEF Settled
<1> HIDE DEF T, level
<1>6. CASE level = current_level[c]
  <2>1. ladder' = <<>>
    BY <1>1, <1>2, <1>6
  <2>2. Settled(c)'
    BY <1>1, <1>4, <1>6 DEF Settled, level
  <2>3. QED
    BY <1>5, <2>1, <2>2 DEF LevelsFollow
<1>7. CASE level # current_level[c]
  <2>1. ladder' = Levels[c] /\ target' = <<c, level>> /\ ladder' # <<>>
    BY <1>2, <1>7, LevelFacts
  <2>2. target'[1] = c /\ target'[2] = Max({0} \cup Voted(c)')
    BY <1>4, <2>1 DEF level
  <2>3. QED
    BY <1>5, <2>1, <2>2 DEF LevelsFollow, Switching, Voted
<1>8. QED
  BY <1>6, <1>7

(* ... and the last mitigation of its ladder brings it there.             *)
LEMMA LevelsSwitch ==
  ASSUME TypeInv, SwitchInv, LevelsFollow, SwitchMitigation
  PROVE  LevelsFollow'
<1>1. PICK c \in Controls :
        /\ target[1] = c /\ ladder # <<>> /\ ladder \in Seq(Nat)
        /\ target[2] = Max({0} \cup Voted(c))
  BY DEF SwitchMitigation, SwitchInv, LadderOK, LevelsFollow
<1>2. UNCHANGED nvotes /\ \A k : Voted(k)' = Voted(k)
  BY DEF SwitchMitigation, Voted
<1>3. CASE Len(ladder) = 1
  <2>1. ladder' = <<>> /\ current_level' = [current_level EXCEPT ![c] = target[2]]
    <3>1. ladder' = Tail(ladder)
      BY DEF SwitchMitigation
    <3> DEFINE t == Tail(ladder)
    <3>2. t \in Seq(Nat) /\ Len(t) = 0
      BY <1>1, <1>3
    <3> HIDE DEF t
    <3>3. t = <<>>
      BY <3>2
    <3>4. QED
      BY <1>1, <1>3, <3>1, <3>3 DEF t, SwitchMitigation
  <2>2. DOMAIN current_level = Controls
    BY DEF TypeInv, TypeOK
  <2>3. Settled(c)'
    BY <1>1, <1>2, <2>1, <2>2 DEF Settled
  <2>4. \A k \in Controls \ {c} : Settled(k)'
    <3>1. \A k \in Controls \ {c} : Settled(k)
      BY <1>1 DEF LevelsFollow, Switching
    <3>2. \A k \in Controls \ {c} : current_level'[k] = current_level[k]
      BY <2>1, <2>2
    <3>3. QED
      BY <1>2, <3>1, <3>2 DEF Settled
  <2>5. QED
    BY <2>1, <2>3, <2>4 DEF LevelsFollow
<1>4. CASE Len(ladder) # 1
  <2>1. UNCHANGED <<current_level, target>>
    BY <1>4 DEF SwitchMitigation
  <2>2. ladder' # <<>>
    <3>1. ladder' = Tail(ladder)
      BY DEF SwitchMitigation
    <3> DEFINE t == Tail(ladder)
    <3>2. t \in Seq(Nat) /\ Len(t) # 0
      BY <1>1, <1>4
    <3> HIDE DEF t
    <3>3. t # <<>>
      BY <3>2
    <3>4. QED
      BY <3>1, <3>3 DEF t
  <2>3. QED
    BY <1>1, <1>2, <2>1, <2>2 DEF LevelsFollow, Switching, Settled
<1>5. QED
  BY <1>3, <1>4

LEMMA LevelsInduction ==
  ASSUME TypeInv, SwitchInv, LevelsFollow, [Next]_vars
  PROVE  LevelsFollow'
<1>1. CASE ControlVoteLevel \/ ControlUnvoteLevel
  BY <1>1, LevelsVote
<1>2. CASE SwitchMitigation
  BY <1>2, LevelsSwitch
<1>3. CASE \/ ReadSensor \/ SkipConfiguration \/ RunConfiguration \/ ConfigurationDone
           \/ EndOfRound \/ Wake \/ Halt \/ (\E s \in Sensors : Drift(s))
           \/ UNCHANGED vars
  <2>1. UNCHANGED <<ladder, target, current_level, nvotes>>
    BY <1>3 DEF ReadSensor, SkipConfiguration, RunConfiguration, ConfigurationDone,
                EndOfRound, Wake, Halt, Drift, vars, voteVars
  <2>2. QED
    BY <2>1 DEF LevelsFollow, Switching, Settled, Voted
<1>4. QED
  BY <1>1, <1>2, <1>3 DEF Next, DaemonStep

LEMMA LevelsStart ==
  ASSUME Init
  PROVE  LevelsFollow
<1>1. \A k \in Controls : Voted(k) = {}
  BY DEF Init, Voted
<1>2. QED
  BY <1>1 DEF Init, LevelsFollow, Settled

(* A level has votes if one that is cast is for it.                       *)
LEMMA CountedVotes ==
  ASSUME VotesCounted, pc # "crashed", NEW k \in Controls, NEW l \in LevelsOf(k)
  PROVE  l \in Voted(k) <=> \E v \in Cast : Wants[v[1]][v[2]] = <<k, l>>
<1> DEFINE T == Tally(Cast, k, l)
<1>1. IsFiniteSet(T) /\ nvotes[k][l] = Cardinality(T)
  BY DEF VotesCounted
<1>2. Cardinality(T) \in Nat /\ (Cardinality(T) = 0 <=> T = {})
  BY <1>1, FS_CardinalityType, FS_EmptySet
<1>3. l \in Voted(k) <=> T # {}
  BY <1>1, <1>2 DEF Voted
<1>4. QED
  BY <1>3 DEF Tally

(* A vote that is withdrawn next is one that is cast, and so is counted.    *)
LEMMA WithdrawnIsCast ==
  ASSUME TypeInv, TodoOK, VotesCounted
  PROVE  NoVoteIsMissing
<1> DEFINE k == Head(todo).control
           level == Head(todo).level
           c == List[pos]
           new == NewOf(c)
           old == current[c]
           others == InForce(Configurations \ {c})
           d == Done
<1> SUFFICES ASSUME pc = "apply", todo # <<>>, Head(todo).kind = "unvote", level \in LevelsOf(k)
             PROVE  nvotes[k][level] > 0
  BY DEF NoVoteIsMissing
<1>1. PICK j \in 1..Len(Wants[old]) :
        /\ c \in Configurations /\ Changes(c) /\ k \in Controls /\ old # None
        /\ d \in Nat /\ d = Len(Wants[new]) + j - 1 /\ Wants[old][j] = <<k, level>>
  BY NextVote DEF TypeInv
<1>2. new \in Thresholds /\ old \in Thresholds /\ old \notin others /\ old # new
  BY <1>1, ChangeFacts
<1>3. Cast = CastBy(others, new, old, d)
  BY <1>1 DEF Cast
<1> DEFINE i == j
<1>4. i \in 1..Len(Wants[old]) /\ i > d - Len(Wants[new])
  BY <1>1, <1>2, WantsLen
<1>5. k \in Controls /\ Wants[old][i] = <<k, level>>
  BY <1>1
<1> HIDE DEF new, old, others, d, i, k, level
<1>6. <<old, i>> \in CastBy(others, new, old, d)
  <2>1. IsCast(old, i, others, new, old, d)
    BY <1>4 DEF IsCast
  <2>2. QED
    BY <1>2, <1>4, <2>1, CastMember, Zenon
<1> DEFINE v == <<old, i>>
<1>7. v \in Cast /\ Wants[v[1]][v[2]] = <<k, level>>
  BY <1>3, <1>5, <1>6
<1> HIDE DEF v
<1>8. level \in Voted(k)
  BY <1>5, <1>7, CountedVotes
<1>9. QED
  BY <1>8 DEF Voted

(* What thresholds ask for whose votes are all cast has votes.            *)
LEMMA AllCast ==
  ASSUME VotesCounted, pc # "crashed", NEW k \in Controls, NEW T \in SUBSET Thresholds,
         \A t \in T : \A i \in 1..Len(Wants[t]) : <<t, i>> \in Cast
  PROVE  Demands(T, k) \subseteq Voted(k)
<1> SUFFICES ASSUME NEW l \in Demands(T, k) PROVE l \in Voted(k)
  OBVIOUS
<1>1. PICK t \in T : l \in LevelsOf(k) /\ <<k, l>> \in ToSet(Wants[t])
  BY DEF Demands
<1>2. PICK i \in 1..Len(Wants[t]) : Wants[t][i] = <<k, l>>
  <2>1. Wants[t] \in Seq(Controls \X Int)
    BY ThresholdAssumption
  <2> DEFINE w == Wants[t]
             x == <<k, l>>
  <2>2. DOMAIN w = 1..Len(w) /\ x \in ToSet(w)
    BY <1>1, <2>1
  <2> HIDE DEF w, x
  <2>3. \E i \in 1..Len(w) : w[i] = x
    BY <2>2 DEF ToSet
  <2>4. QED
    BY <2>3 DEF w, x
<1> DEFINE v == <<t, i>>
<1>3. v \in Cast /\ Wants[v[1]][v[2]] = <<k, l>>
  BY <1>2
<1> HIDE DEF v
<1>4. QED
  BY <1>1, <1>3, CountedVotes

---------------------------------------------------------------------------
(* What the votes that are cast make of the levels, and the theorems      *)
(* about them.                                                            *)

LEMMA HighestFacts ==
  ASSUME NEW k \in Controls, NEW T
  PROVE  /\ Demands(T, k) \subseteq LevelsOf(k) /\ LevelsOf(k) \subseteq Nat
         /\ Highest(T, k) \in {0} \cup Demands(T, k) /\ Highest(T, k) \in Nat
         /\ \A l \in Demands(T, k) : l <= Highest(T, k)
<1> DEFINE D == Demands(T, k)
<1>1. D \subseteq LevelsOf(k)
  BY DEF Demands
<1> HIDE DEF D
<1>2. QED
  BY <1>1, HighestLevel, LevelFacts DEF D, Highest

(* Outside a change over the levels with votes are those the thresholds   *)
(* in force ask for.                                                      *)
LEMMA VotedAreDemanded ==
  ASSUME TypeInv, SwitchInv, VotesCounted, pc \in {"wait", "read", "run"}, NEW k \in Controls
  PROVE  Voted(k) = Demands(InForce(Configurations), k)
<1> DEFINE F == InForce(Configurations)
<1>1. Cast = CastBy(F, None, None, 0) /\ pc # "crashed"
  BY DEF Cast
<1>2. F \subseteq Thresholds
  BY DEF InForce, TypeInv, TypeOK
<1> HIDE DEF F
<1>3. ASSUME NEW t \in F, NEW i \in 1..Len(Wants[t]) PROVE <<t, i>> \in Cast
  <2>1. IsCast(t, i, F, None, None, 0)
    BY DEF IsCast
  <2>2. t \in Thresholds
    BY <1>2
  <2>3. <<t, i>> \in CastBy(F, None, None, 0)
    BY <2>1, <2>2, CastMember
  <2>4. QED
    BY <1>1, <2>3
<1>4. Demands(F, k) \subseteq Voted(k)
  BY <1>1, <1>2, <1>3, AllCast
<1>5. ASSUME NEW l \in Voted(k) PROVE l \in Demands(F, k)
  <2>1. l \in LevelsOf(k)
    BY DEF Voted
  <2>2. PICK v \in Cast : Wants[v[1]][v[2]] = <<k, l>>
    BY <1>1, <2>1, CountedVotes
  <2>3. /\ v[1] \in Thresholds /\ v[2] \in 1..Len(Wants[v[1]])
        /\ IsCast(v[1], v[2], F, None, None, 0)
    BY <1>1 DEF CastBy
  <2>4. v[1] \in F
    BY <2>3, NoneAssumption DEF IsCast
  <2> DEFINE t == v[1]
             i == v[2]
             w == Wants[t]
             x == <<k, l>>
  <2>5. w \in Seq(Controls \X Int) /\ i \in 1..Len(w) /\ w[i] = x
    BY <2>2, <2>3, ThresholdAssumption
  <2> HIDE DEF t, i, w, x
  <2>6. x \in ToSet(w)
    BY <2>5 DEF ToSet
  <2>7. QED
    BY <2>1, <2>4, <2>6 DEF Demands, t, w, x
<1>6. QED
  BY <1>4, <1>5 DEF F

LEMMA SelectedWhenQuiet ==
  ASSUME TypeInv, SwitchInv, VotesCounted, LevelsFollow
  PROVE  HighestSelected
<1> SUFFICES ASSUME pc \in {"wait", "read", "run"}, NEW k \in Controls
             PROVE  \/ current_level[k] = Highest(InForce(Configurations), k)
                    \/ current_level[k] = -1 /\ Demands(InForce(Configurations), k) = {}
  BY DEF HighestSelected
<1>1. Settled(k)
  BY DEF SwitchInv, LadderOK, LevelsFollow, Switching
<1>2. Voted(k) = Demands(InForce(Configurations), k)
  BY VotedAreDemanded
<1>3. QED
  BY <1>1, <1>2 DEF Settled, Highest

(* A step that leaves a control on its ladder changes no level and no     *)
(* threshold in force.                                                    *)
LEMMA StillSwitching ==
  ASSUME SwitchInv, [Next]_vars, ladder' # <<>>
  PROVE  UNCHANGED <<pc, pos, satisfied, current, current_level>>
<1>1. CASE ControlVoteLevel \/ ControlUnvoteLevel
  BY <1>1 DEF ControlVoteLevel, ControlUnvoteLevel, Vote, roundVars, configVars
<1>2. CASE SwitchMitigation
  <2>1. ladder' = Tail(ladder) /\ ladder # <<>> /\ ladder \in Seq(Nat)
    BY <1>2 DEF SwitchMitigation, SwitchInv, LadderOK
  <2>2. Len(ladder) # 1
    <3> DEFINE t == Tail(ladder)
    <3>1. t \in Seq(Nat) /\ (Len(ladder) = 1 => Len(t) = 0)
      BY <2>1
    <3> HIDE DEF t
    <3>2. t # <<>>
      BY <2>1 DEF t
    <3>3. Len(t) # 0
      BY <3>1, <3>2
    <3>4. QED
      BY <3>1, <3>3
  <2>3. QED
    BY <1>2, <2>2 DEF SwitchMitigation, roundVars, configVars
<1>3. CASE \/ ReadSensor \/ SkipConfiguration \/ RunConfiguration \/ ConfigurationDone
           \/ EndOfRound \/ Wake \/ Halt
  <2>1. ladder' = ladder
    BY <1>3 DEF ReadSensor, SkipConfiguration, RunConfiguration, ConfigurationDone,
                EndOfRound, Wake, Halt, voteVars
  <2>2. ladder = <<>>
    BY <1>3 DEF SwitchInv, LadderOK, ReadSensor, SkipConfiguration, RunConfiguration,
                ConfigurationDone, EndOfRound, Wake, Halt
  <2>3. QED
    BY <2>1, <2>2
<1>4. CASE (\E s \in Sensors : Drift(s)) \/ UNCHANGED vars
  BY <1>4 DEF Drift, vars, roundVars, configVars, voteVars
<1>5. QED
  BY <1>1, <1>2, <1>3, <1>4 DEF Next, DaemonStep

(* If the votes cover the other configurations, and the old or the new    *)
(* threshold, the highest of them is no lower than the floor.             *)
LEMMA FloorIsVoted ==
  ASSUME NEW k \in Controls, NEW V \in SUBSET LevelsOf(k), NEW O, NEW A, NEW B,
         Demands(O, k) \subseteq V,
         Demands(A, k) \subseteq V \/ Demands(B, k) \subseteq V
  PROVE  LET floor == Max({Highest(O, k), Min({Highest(A, k), Highest(B, k)})})
         IN  floor \in Nat /\ floor <= Max({0} \cup V)
<1> DEFINE x == Highest(O, k)
           a == Highest(A, k)
           b == Highest(B, k)
           y == Min({a, b})
           z == Max({x, y})
           top == Max({0} \cup V)
<1>1. /\ x \in Nat /\ a \in Nat /\ b \in Nat /\ x \in {0} \cup Demands(O, k)
      /\ a \in {0} \cup Demands(A, k) /\ b \in {0} \cup Demands(B, k)
  BY HighestFacts
<1>2. top \in Nat /\ \A l \in {0} \cup V : l <= top
  BY HighestLevel
<1>3. x <= top /\ (a <= top \/ b <= top)
  BY <1>1, <1>2
<1> HIDE DEF x, a, b, top
<1>4. y \in {a, b} /\ \A l \in {a, b} : y <= l
  <2> DEFINE T == {a, b}
  <2>1. T \subseteq Nat /\ T # {}
    BY <1>1
  <2> HIDE DEF T
  <2>2. Min(T) \in T /\ \A l \in T : Min(T) <= l
    BY <2>1, MinIsLeast
  <2>3. QED
    BY <2>2 DEF T
<1> HIDE DEF y
<1>5. y \in Nat /\ y <= top
  BY <1>1, <1>2, <1>3, <1>4
<1>6. z \in {x, y}
  <2> DEFINE T == {x, y}
  <2>1. T \subseteq Nat /\ T # {} /\ \A l \in T : l <= top
    BY <1>1, <1>3, <1>5
  <2> HIDE DEF T
  <2>2. Max(T) \in T
    BY <1>2, <2>1, Greatest
  <2>3. QED
    BY <2>2 DEF T
<1> HIDE DEF z
<1>7. z \in Nat /\ z <= top
  BY <1>1, <1>3, <1>5, <1>6
<1>8. QED
  BY <1>7 DEF z, y, x, a, b, top

(* They always do: the new votes are all cast before the first of the     *)
(* old is withdrawn.                                                      *)
LEMMA CastWhileVoting ==
  ASSUME TypeInv, RoundOK, TodoOK, VotesCounted, pc = "apply", NEW k \in Controls
  PROVE  LET c == List[pos]
             new == IF satisfied[c] = <<>> THEN {} ELSE {Head(satisfied[c])}
         IN  /\ Demands(InForce(Configurations \ {c}), k) \subseteq Voted(k)
             /\ \/ Demands(InForce({c}), k) \subseteq Voted(k)
                \/ Demands(new, k) \subseteq Voted(k)
<1> DEFINE c == List[pos]
           others == InForce(Configurations \ {c})
           mine == InForce({c})
           new == IF satisfied[c] = <<>> THEN {} ELSE {Head(satisfied[c])}
<1>1. c \in Configurations
  BY AtConfiguration DEF TypeInv, RoundOK
<1>2. others \subseteq Thresholds /\ mine \subseteq Thresholds
  BY <1>1 DEF InForce, TypeInv, TypeOK
<1>3. CASE ~Changes(c)
  <2> DEFINE F == InForce(Configurations)
  <2>1. Cast = CastBy(F, None, None, 0)
    BY <1>3 DEF Cast
  <2>2. others \subseteq F /\ mine \subseteq F /\ F \subseteq Thresholds
    BY <1>1 DEF InForce, TypeInv, TypeOK
  <2> HIDE DEF F, others, mine
  <2>3. ASSUME NEW t \in F, NEW i \in 1..Len(Wants[t]) PROVE <<t, i>> \in Cast
    <3>1. IsCast(t, i, F, None, None, 0) /\ t \in Thresholds
      BY <2>2 DEF IsCast
    <3>2. <<t, i>> \in CastBy(F, None, None, 0)
      BY <3>1, CastMember
    <3>3. QED
      BY <2>1, <3>2
  <2>4. Demands(others, k) \subseteq Voted(k) /\ Demands(mine, k) \subseteq Voted(k)
    BY <1>2, <2>2, <2>3, AllCast
  <2>5. QED
    BY <2>4 DEF others, mine
<1>4. CASE Changes(c)
  <2> DEFINE n == NewOf(c)
             o == current[c]
             d == Done
  <2>1. n \in Thresholds /\ new = {n} /\ mine = {o} \ {None} /\ Len(Wants[n]) \in Nat
    <3>1. n \in Thresholds
      BY <1>1, <1>4, ChangeFacts
    <3>2. mine = {o} \ {None}
      BY DEF InForce
    <3>3. new = {n}
      BY <1>4 DEF NewOf, Changes
    <3>4. QED
      BY <3>1, <3>2, <3>3, WantsLen
  <2>2. d \in Nat /\ Cast = CastBy(others, n, o, d)
    BY <1>4 DEF TodoOK, Cast
  <2> HIDE DEF others, mine, new, n, o, d, c
  <2>3. ASSUME NEW t \in Thresholds, NEW i \in 1..Len(Wants[t]), IsCast(t, i, others, n, o, d)
        PROVE  <<t, i>> \in Cast
    BY <2>2, <2>3, CastMember
  <2>4. Demands(others, k) \subseteq Voted(k)
    <3>1. \A t \in others : \A i \in 1..Len(Wants[t]) : <<t, i>> \in Cast
      BY <1>2, <2>3 DEF IsCast
    <3>2. QED
      BY <1>2, <3>1, AllCast
  <2>5. CASE d <= Len(Wants[n])
    <3>1. \A t \in mine : \A i \in 1..Len(Wants[t]) : <<t, i>> \in Cast
      <4> SUFFICES ASSUME NEW t \in mine, NEW i \in 1..Len(Wants[t]) PROVE <<t, i>> \in Cast
        OBVIOUS
      <4>1. t = o /\ t \in Thresholds /\ i > d - Len(Wants[n])
        BY <1>2, <2>1, <2>2, <2>5
      <4>2. IsCast(t, i, others, n, o, d)
        BY <4>1 DEF IsCast
      <4>3. QED
        BY <2>3, <4>1, <4>2
    <3>2. Demands(mine, k) \subseteq Voted(k)
      BY <1>2, <3>1, AllCast
    <3>3. QED
      BY <2>4, <3>2 DEF others, mine, c
  <2>6. CASE d >= Len(Wants[n])
    <3>1. \A t \in new : \A i \in 1..Len(Wants[t]) : <<t, i>> \in Cast
      <4> SUFFICES ASSUME NEW t \in new, NEW i \in 1..Len(Wants[t]) PROVE <<t, i>> \in Cast
        OBVIOUS
      <4>1. t = n /\ t \in Thresholds /\ i <= d
        BY <2>1, <2>2, <2>6
      <4>2. IsCast(t, i, others, n, o, d)
        BY <4>1 DEF IsCast
      <4>3. QED
        BY <2>3, <4>1, <4>2
    <3>2. Demands(new, k) \subseteq Voted(k)
      <4>1. new \in SUBSET Thresholds
        BY <2>1
      <4>2. QED
        BY <3>1, <4>1, AllCast
    <3>3. QED
      BY <2>4, <3>2 DEF others, new, c
  <2>7. d <= Len(Wants[n]) \/ d >= Len(Wants[n])
    BY <2>1, <2>2
  <2>8. QED
    BY <2>5, <2>6, <2>7
<1>5. QED
  BY <1>3, <1>4

(* So between two votes every control is at its floor or above.           *)
LEMMA AboveDemand ==
  ASSUME TypeInv, TodoOK, VotesCounted, LevelsFollow, ladder = <<>>
  PROVE  NeverBelowDemand
<1> DEFINE c == List[pos]
           new == IF satisfied[c] = <<>> THEN {} ELSE {Head(satisfied[c])}
           others == InForce(Configurations \ {c})
           mine == InForce({c})
<1> SUFFICES ASSUME pc = "apply", NEW k \in Controls
             PROVE  LET floor == Max({Highest(others, k), Min({Highest(mine, k), Highest(new, k)})})
                    IN  floor = 0 \/ current_level[k] >= floor
  BY DEF NeverBelowDemand
<1>1. /\ Demands(others, k) \subseteq Voted(k)
      /\ Demands(mine, k) \subseteq Voted(k) \/ Demands(new, k) \subseteq Voted(k)
  BY CastWhileVoting DEF TypeInv
<1>2. Voted(k) \in SUBSET LevelsOf(k)
  BY DEF Voted
<1>3. Settled(k)
  BY DEF LevelsFollow, Switching
<1> HIDE DEF others, mine, new
<1> DEFINE floor == Max({Highest(others, k), Min({Highest(mine, k), Highest(new, k)})})
           top == Max({0} \cup Voted(k))
<1>4. floor \in Nat /\ floor <= top
  BY <1>1, <1>2, FloorIsVoted
<1>5. top \in Nat /\ top \in {0} \cup Voted(k)
  BY <1>2, HighestLevel
<1>6. current_level[k] = top \/ Voted(k) = {}
  BY <1>3 DEF Settled
<1> HIDE DEF floor, top
<1>7. floor = 0 \/ current_level[k] >= floor
  BY <1>4, <1>5, <1>6
<1>8. QED
  BY <1>7 DEF floor

VoteInv == TodoOK /\ VotesCounted /\ LevelsFollow

(* The inductive invariant: types and places, mitigations, votes and      *)
(* levels.                                                                *)
ThermalInv == TypeInv /\ SwitchInv /\ VoteInv

LEMMA ThermalInduction == ThermalInv /\ [Next]_vars => ThermalInv'
<1> SUFFICES ASSUME ThermalInv, [Next]_vars PROVE ThermalInv'
  OBVIOUS
<1>1. TypeInv' /\ SwitchInv'
  BY TypeInduction, SwitchInduction DEF ThermalInv, TypeInv
<1>2. VoteInv'
  BY <1>1, VotesInduction, LevelsInduction DEF ThermalInv, VoteInv
<1>3. QED
  BY <1>1, <1>2 DEF ThermalInv

LEMMA ThermalStart == Init => ThermalInv
BY TypeStart, SwitchStart, VotesStart, LevelsStart DEF ThermalInv, VoteInv

(* The invariant holds in every state of the daemon: votes are counted,   *)
(* levels follow them and mitigations follow levels at every step between *)
(* two readings, for every configuration file.                            *)
THEOREM ThermalInvariance == Spec => []ThermalInv
BY ThermalStart, ThermalInduction, PTL DEF Spec

(* Whatever sequence of readings and votes led to it, outside a change    *)
(* over every control is at the highest level that a threshold in force   *)
(* asks for, and a control without a level is one that nothing asks for   *)
(* (control_update_level, control_vote_level, control_unvote_level).      *)
THEOREM HighestIsSelected == Spec => []HighestSelected
<1>1. ThermalInv => HighestSelected
  BY SelectedWhenQuiet DEF ThermalInv, VoteInv
<1>2. QED
  BY <1>1, ThermalInvariance, PTL

(* control_unvote_level never finds a count of 0 to leave as it is: what a  *)
(* configuration withdraws it has cast before, and no other one withdraws   *)
(* it, for any thresholds that want the same levels of the same controls.   *)
THEOREM NoUnbalancedVote == Spec => []NoVoteIsMissing
<1>1. ThermalInv => NoVoteIsMissing
  BY WithdrawnIsCast DEF ThermalInv, VoteInv
<1>2. QED
  BY <1>1, ThermalInvariance, PTL

(* No control is on its ladder.                                           *)
Idle == ladder = <<>>

(* configuration_run activates the new threshold before it deactivates    *)
(* the old one: throughout the change over, no control drops below what   *)
(* the other configurations ask for, nor below both the old and the new   *)
(* threshold.                                                             *)
THEOREM DemandIsMet == Spec => []NeverBelowDemand
<1>1. Init => NeverBelowDemand
  BY DEF Init, NeverBelowDemand
<1>2. ThermalInv /\ Idle => NeverBelowDemand
  BY AboveDemand DEF ThermalInv, VoteInv, Idle
<1>3. ThermalInv /\ NeverBelowDemand /\ [Next]_vars /\ ~Idle' => NeverBelowDemand'
  <2> SUFFICES ASSUME ThermalInv, NeverBelowDemand, [Next]_vars, ladder' # <<>>
               PROVE  NeverBelowDemand'
    BY DEF Idle
  <2>1. UNCHANGED <<pc, pos, satisfied, current, current_level>>
    BY StillSwitching DEF ThermalInv
  <2>2. QED
    BY <2>1, ZenonT(60) DEF NeverBelowDemand, InForce, Highest, Demands
<1>4. QED
  BY <1>1, <1>2, <1>3, ThermalStart, ThermalInduction, PTL DEF Spec

(* Between rounds the mitigation of every control's level is in force: a  *)
(* resource that no other control writes holds its value, and a polled    *)
(* one has a timer that brings the daemon back (mitigation_activate,      *)
(* mitigation_deactivate, in the order of control_update_level's          *)
(* ladder).                                                               *)
THEOREM MitigationsAreInForce == Spec => []MitigationInForce
<1>1. ThermalInv => MitigationInForce
  <2> SUFFICES ASSUME SwitchInv, pc = "wait", NEW m \in Mitigations,
                      m[2] = current_level[m[1]], NEW r \in Uses[m]
               PROVE  /\ (\A n \in Mitigations : r \in Uses[n] => n[1] = m[1]) => written[r] = m
                      /\ r \in Polled => held[r] \/ leaked[r]
    BY DEF MitigationInForce, ThermalInv
  <2>1. ladder = <<>>
    BY DEF SwitchInv, LadderOK
  <2>2. Active(m) /\ ~Superseded(m)
    BY <2>1 DEF Active, Superseded, Switching
  <2>3. QED
    BY <2>2 DEF SwitchInv, ValuesWritten, TimersRun, Owned
<1>2. QED
  BY <1>1, ThermalInvariance, PTL
=============================================================================
