---------------------------- MODULE TransmitProofs --------------------------
(***************************************************************************)
(* Theorems about TransmitPower, for every set of calls and features and   *)
(* every bound.                                                            *)
(***************************************************************************)
EXTENDS TransmitPower, TLAPS

Messages == [to : Keys \cup {"call", "route"}, v : {"on", "off"}]
States   == [value : [Observers -> Values], queue : Seq(Messages),
             masked : SUBSET Observers]

(* A broadcast to k waits; the last of them, if there is one, carries v.    *)
Has(q, k)     == \E i \in 1..Len(q) : q[i].to = k
Told(q, k, v) == Has(q, k) =>
  \E i \in 1..Len(q) : /\ q[i] = [to |-> k, v |-> v]
                       /\ \A j \in 1..Len(q) : j > i => q[j].to # k

(* The call state and route that wait end with "no call active"; none waits.*)
Telecom  == {"call", "route"}
Ended(q) == \E i \in 1..Len(q) : /\ q[i] = [to |-> "call", v |-> "off"]
                                 /\ \A j \in 1..Len(q) : j > i => q[j].to \notin Telecom
Quiet(q) == \A i \in 1..Len(q) : q[i].to \notin Telecom

(* What an observer takes for sent is the last value that waits for its key,*)
(* or else the modem has it, or lost it.                                    *)
Holds(s, o, L) ==
  Alone(o) /\ s.value[o] # "invalid" /\ o \notin s.masked =>
    /\ Told(s.queue, o[1], s.value[o])
    /\ ~Has(s.queue, o[1]) => o[1] \in L \/ modem[o[1]] = s.value[o]

Coherent(s, L) == \A o \in Live : Holds(s, o, L)

(* Without a service nothing waits and no sensor has reported.              *)
DownOK  == ~up => queue = <<>> /\ \A o \in Sensors(features) : value[o] = "invalid"
VoiceOK == value[Voice] = "on" => speaker

(* The last route that waits is the present one, or else the stored one is. *)
RouteOK == /\ Told(queue, "route", OnIf(route = "earpiece"))
           /\ ~Has(queue, "route") => unheard \/ ~speaker \/ route = "earpiece"
ModemOK == up => Coherent(Here, lost)

(* Without calls the in-call service may be gone; then no call is reported  *)
(* any more, or what takes the report back is on its way.                   *)
BoundOK == /\ (\E c \in Calls : calls[c] # "none") => bound
           /\ up /\ ~bound => Ended(queue) \/ (Quiet(queue) /\ value[Voice] # "on")

(* The inductive invariant.                                                 *)
TransmitInv == /\ TransmitTypeOK /\ SensorsOff /\ DownOK /\ VoiceOK
               /\ RouteOK /\ BoundOK /\ ModemOK
---------------------------------------------------------------------------
(* Queues.  A broadcast sent is the last of its key and no other key's.     *)
LEMMA Appended ==
  ASSUME NEW q \in Seq(Messages), NEW m \in Messages, NEW k, NEW w
  PROVE  /\ Append(q, m) \in Seq(Messages)
         /\ Told(Append(q, m), m.to, m.v)
         /\ Has(Append(q, m), m.to)
         /\ m.to # k => /\ Has(Append(q, m), k) <=> Has(q, k)
                        /\ Told(Append(q, m), k, w) <=> Told(q, k, w)
<1> DEFINE r == Append(q, m)
<1>1. /\ r \in Seq(Messages) /\ Len(r) = Len(q) + 1 /\ Len(q) \in Nat
      /\ \A i \in 1..Len(q) : r[i] = q[i]
      /\ r[Len(r)] = m
  OBVIOUS
<1>2. m = [to |-> m.to, v |-> m.v]
  BY DEF Messages
<1>3. Has(r, m.to)
  BY <1>1 DEF Has
<1>4. Told(r, m.to, m.v)
  BY <1>1, <1>2 DEF Told
<1>5. ASSUME m.to # k PROVE Has(r, k) <=> Has(q, k)
  BY <1>1, <1>5 DEF Has
<1>6. ASSUME m.to # k PROVE Told(r, k, w) <=> Told(q, k, w)
  <2>1. Has(r, k) <=> Has(q, k)
    BY <1>5, <1>6
  <2>2. ASSUME NEW i \in 1..Len(r), r[i] = [to |-> k, v |-> w] PROVE i \in 1..Len(q)
    BY <1>1, <1>6, <2>2
  <2>3. \A i \in 1..Len(q) :
          (\A j \in 1..Len(r) : j > i => r[j].to # k)
            <=> (\A j \in 1..Len(q) : j > i => q[j].to # k)
    BY <1>1, <1>6
  <2>4. QED
    BY <1>1, <2>1, <2>2, <2>3 DEF Told
<1>7. QED
  BY <1>1, <1>3, <1>4, <1>5, <1>6

(* Delivery leaves the last broadcast of each key but one of the head's key *)
(* that was the last.                                                       *)
LEMMA Delivered ==
  ASSUME NEW q \in Seq(Messages), q # <<>>, NEW k, NEW w, Told(q, k, w)
  PROVE  /\ Tail(q) \in Seq(Messages) /\ Head(q) \in Messages
         /\ Told(Tail(q), k, w)
         /\ Head(q).to # k => (Has(Tail(q), k) <=> Has(q, k))
         /\ Head(q).to = k /\ ~Has(Tail(q), k) => Head(q).v = w
<1> DEFINE r == Tail(q)
<1>1. /\ r \in Seq(Messages) /\ Len(q) = Len(r) + 1 /\ Len(r) \in Nat
      /\ \A i \in 1..Len(r) : r[i] = q[i + 1]
      /\ Head(q) = q[1] /\ Head(q) \in Messages
  OBVIOUS
<1>2. \A i \in 1..Len(q) : i # 1 => i - 1 \in 1..Len(r) /\ r[i - 1] = q[i]
  BY <1>1
<1>3. Has(q, k) <=> Head(q).to = k \/ Has(r, k)
  BY <1>1, <1>2 DEF Has
<1>4. CASE Has(q, k)
  <2>1. PICK i \in 1..Len(q) : /\ q[i] = [to |-> k, v |-> w]
                               /\ \A j \in 1..Len(q) : j > i => q[j].to # k
    BY <1>4 DEF Told
  <2>2. CASE i = 1
    <3>1. ~Has(r, k)
      BY <1>1, <2>1, <2>2 DEF Has
    <3>2. QED
      BY <1>1, <1>3, <2>1, <2>2, <3>1 DEF Told
  <2>3. CASE i # 1
    <3>1. /\ i - 1 \in 1..Len(r) /\ r[i - 1] = [to |-> k, v |-> w]
          /\ \A j \in 1..Len(r) : j > i - 1 => r[j].to # k
      BY <1>1, <1>2, <2>1, <2>3
    <3>2. Has(r, k) /\ Told(r, k, w)
      <4>1. r[i - 1].to = k
        BY <3>1
      <4>2. QED
        BY <3>1, <4>1 DEF Told, Has
    <3>3. QED
      BY <1>1, <1>3, <3>2
  <2>4. QED
    BY <2>2, <2>3
<1>5. CASE ~Has(q, k)
  BY <1>1, <1>3, <1>5 DEF Told
<1>6. QED
  BY <1>4, <1>5

(* What is sent after the end of the calls does not undo it, and delivery   *)
(* takes it away only as the last of call state and route.                  *)
LEMMA Ends ==
  ASSUME NEW q \in Seq(Messages), NEW m \in Messages
  PROVE  /\ m = [to |-> "call", v |-> "off"] => Ended(Append(q, m))
         /\ m.to \notin Telecom => /\ Ended(Append(q, m)) <=> Ended(q)
                                   /\ Quiet(Append(q, m)) <=> Quiet(q)
<1> DEFINE r == Append(q, m)
<1>1. /\ Len(r) = Len(q) + 1 /\ Len(q) \in Nat
      /\ \A i \in 1..Len(q) : r[i] = q[i]
      /\ r[Len(r)] = m
  OBVIOUS
<1>2. m = [to |-> "call", v |-> "off"] => Ended(r)
  BY <1>1 DEF Ended
<1>3. ASSUME m.to \notin Telecom PROVE Quiet(r) <=> Quiet(q)
  BY <1>1, <1>3 DEF Quiet
<1>4. ASSUME m.to \notin Telecom PROVE Ended(r) <=> Ended(q)
  <2>1. m # [to |-> "call", v |-> "off"]
    BY <1>4 DEF Telecom
  <2>2. \A i \in 1..Len(r) : r[i] = [to |-> "call", v |-> "off"] => i \in 1..Len(q)
    BY <1>1, <2>1
  <2>3. \A i \in 1..Len(q) :
          (\A j \in 1..Len(r) : j > i => r[j].to \notin Telecom)
            <=> (\A j \in 1..Len(q) : j > i => q[j].to \notin Telecom)
    BY <1>1, <1>4
  <2>4. QED
    BY <1>1, <2>2, <2>3 DEF Ended
<1>5. QED
  BY <1>2, <1>3, <1>4

LEMMA EndDelivered ==
  ASSUME NEW q \in Seq(Messages), q # <<>>
  PROVE  /\ Quiet(q) => Quiet(Tail(q)) /\ Head(q).to \notin Telecom
         /\ Ended(q) => \/ Ended(Tail(q))
                        \/ /\ Head(q) = [to |-> "call", v |-> "off"]
                           /\ Quiet(Tail(q))
<1> DEFINE r == Tail(q)
<1>1. /\ Len(q) = Len(r) + 1 /\ Len(r) \in Nat
      /\ \A i \in 1..Len(r) : r[i] = q[i + 1]
      /\ Head(q) = q[1]
  OBVIOUS
<1>2. Quiet(q) => Quiet(r) /\ Head(q).to \notin Telecom
  BY <1>1 DEF Quiet
<1>3. ASSUME NEW i \in 1..Len(q), q[i] = [to |-> "call", v |-> "off"],
             \A j \in 1..Len(q) : j > i => q[j].to \notin Telecom
      PROVE  Ended(r) \/ (Head(q) = [to |-> "call", v |-> "off"] /\ Quiet(r))
  <2>1. CASE i = 1
    BY <1>1, <1>3, <2>1 DEF Quiet
  <2>2. CASE i # 1
    <3>1. i - 1 \in 1..Len(r) /\ r[i - 1] = q[i]
      BY <1>1, <2>2
    <3>2. \A j \in 1..Len(r) : j > i - 1 => r[j].to \notin Telecom
      BY <1>1, <1>3, <2>2
    <3>3. QED
      BY <1>3, <3>1, <3>2 DEF Ended
  <2>3. QED
    BY <2>1, <2>2
<1>4. QED
  BY <1>2, <1>3 DEF Ended

LEMMA NothingWaits ==
  ASSUME NEW k, NEW w
  PROVE  /\ ~Has(<<>>, k) /\ Told(<<>>, k, w)
         /\ ~Ended(<<>>) /\ Quiet(<<>>)
BY DEF Has, Told, Ended, Quiet
---------------------------------------------------------------------------
(* Observers.                                                               *)
LEMMA LiveObservers ==
  ASSUME TransmitTypeOK
  PROVE  /\ Live \subseteq Observers
         /\ Battery \in Live /\ Wifi \in Live /\ Voice \in Live
         /\ Here \in States
         /\ \A o \in Live : o[1] \in Keys /\ Sensors(features) \subseteq Live
         /\ \A o \in Live, p \in Live : Alone(p) /\ o[1] = p[1] => o = p
<1> USE DEF TransmitTypeOK, Live, Observers, Sensors, Basic, SensorKeys, Keys,
            Battery, Wifi, Voice
<1>1. \A o \in Live, p \in Live : Alone(p) /\ o[1] = p[1] => o = p
  BY MediatorAssumption DEF Alone
<1>2. Here \in States
  BY DEF Here, States, Messages
<1>3. QED
  BY <1>1, <1>2

(* transmitPower changes the value of its observer, and the broadcasts of   *)
(* no other key.                                                            *)
LEMMA SendsOther ==
  ASSUME NEW s \in States, NEW o \in Observers, NEW v \in {"on", "off"},
         o[1] \in Keys, NEW k, o[1] # k, NEW w
  PROVE  LET t == transmitPower(s, o, v) IN
         /\ Has(t.queue, k) <=> Has(s.queue, k)
         /\ Told(t.queue, k, w) <=> Told(s.queue, k, w)
<1>1. [to |-> o[1], v |-> v] \in Messages /\ s.queue \in Seq(Messages)
  BY DEF Messages, States
<1> DEFINE m == [to |-> o[1], v |-> v]
<1>2. m.to = o[1]
  OBVIOUS
<1> HIDE DEF m
<1>3. /\ Has(Append(s.queue, m), k) <=> Has(s.queue, k)
      /\ Told(Append(s.queue, m), k, w) <=> Told(s.queue, k, w)
  BY <1>1, <1>2, Appended DEF m
<1>4. transmitPower(s, o, v).queue \in {s.queue, Append(s.queue, m)}
  BY DEF transmitPower, m
<1>5. QED
  BY <1>3, <1>4

LEMMA SendsNoCall ==
  ASSUME NEW s \in States, NEW o \in Observers, NEW v \in {"on", "off"},
         o[1] \in Keys
  PROVE  LET t == transmitPower(s, o, v) IN
         /\ Ended(t.queue) <=> Ended(s.queue)
         /\ Quiet(t.queue) <=> Quiet(s.queue)
<1> DEFINE m == [to |-> o[1], v |-> v]
           q == s.queue
<1>1. m \in Messages /\ m.to \notin Telecom /\ q \in Seq(Messages)
  BY DEF Messages, States, Telecom, Keys, Basic, SensorKeys
<1> HIDE DEF m, q
<1>2. /\ Ended(Append(q, m)) <=> Ended(q)
      /\ Quiet(Append(q, m)) <=> Quiet(q)
  BY <1>1, Ends
<1>3. transmitPower(s, o, v).queue \in {q, Append(q, m)}
  BY DEF transmitPower, m, q
<1>4. QED
  BY <1>2, <1>3 DEF q

LEMMA Sends ==
  ASSUME NEW s \in States, NEW o \in Observers, NEW v \in {"on", "off"},
         o[1] \in Keys
  PROVE  LET t == transmitPower(s, o, v) IN
         /\ t \in States /\ t.value = [s.value EXCEPT ![o] = v]
         /\ t.masked \subseteq s.masked
         /\ \A p \in Observers : p # o /\ p \notin t.masked => p \notin s.masked
<1>1. [to |-> o[1], v |-> v] \in Messages /\ s.queue \in Seq(Messages)
  BY DEF Messages, States
<1>2. Append(s.queue, [to |-> o[1], v |-> v]) \in Seq(Messages)
  BY <1>1, Appended
<1>3. transmitPower(s, o, v) \in States
  BY <1>2 DEF transmitPower, States, Values
<1>4. transmitPower(s, o, v).value = [s.value EXCEPT ![o] = v]
  BY DEF transmitPower, States
<1>5. QED
  BY <1>3, <1>4 DEF transmitPower, States

(* It keeps every observer's account of the modem in order.                 *)
LEMMA SendsCoherently ==
  ASSUME TransmitTypeOK, up, NEW s \in States, NEW L, Coherent(s, L),
         NEW o \in Live, NEW v \in {"on", "off"}
  PROVE  Coherent(transmitPower(s, o, v), L)
<1> DEFINE t == transmitPower(s, o, v)
<1>1. o \in Observers /\ o[1] \in Keys
  BY LiveObservers
<1>2. /\ t \in States /\ t.value = [s.value EXCEPT ![o] = v]
      /\ \A p \in Observers : p # o /\ p \notin t.masked => p \notin s.masked
  BY <1>1, Sends
<1>3. SUFFICES ASSUME NEW p \in Live PROVE Holds(t, p, L)
  BY DEF Coherent
<1>4. p \in Observers /\ Holds(s, p, L)
  BY LiveObservers DEF Coherent
<1>5. CASE s.value[o] = v
  BY <1>4, <1>5 DEF transmitPower
<1>6. CASE s.value[o] # v /\ p = o
  <2>1. [to |-> o[1], v |-> v] \in Messages /\ s.queue \in Seq(Messages)
    BY <1>1 DEF Messages, States
  <2> DEFINE m == [to |-> o[1], v |-> v]
  <2>2. m.to = o[1] /\ m.v = v
    OBVIOUS
  <2>3. t.queue = Append(s.queue, m) /\ t.value[o] = v
    BY <1>1, <1>2, <1>6 DEF transmitPower, States
  <2> HIDE DEF m, t
  <2>4. Told(t.queue, o[1], v) /\ Has(t.queue, o[1])
    BY <2>1, <2>2, <2>3, Appended DEF m
  <2>5. QED
    BY <1>6, <2>3, <2>4 DEF Holds
<1>7. CASE p # o
  <2>1. t.value[p] = s.value[p] /\ (p \notin t.masked => p \notin s.masked)
    BY <1>2, <1>4, <1>7 DEF States
  <2>2. Alone(p) => o[1] # p[1]
    BY <1>7, LiveObservers
  <2>3. Alone(p) =>
          /\ Has(t.queue, p[1]) <=> Has(s.queue, p[1])
          /\ Told(t.queue, p[1], s.value[p]) <=> Told(s.queue, p[1], s.value[p])
    BY <1>1, <2>2, SendsOther
  <2> HIDE DEF t
  <2>4. QED
    BY <1>4, <2>1, <2>3 DEF Holds
<1>8. QED
  BY <1>5, <1>6, <1>7

(* update(INVALID_VALUE) makes the modem's value of the key irrelevant.     *)
LEMMA Forgets ==
  ASSUME TransmitTypeOK, NEW s \in States, NEW L, Coherent(s, L),
         NEW o \in {Battery, Wifi, Voice}
  PROVE  /\ Set(s, o, "invalid") \in States
         /\ Set(s, o, "invalid").queue = s.queue
         /\ Coherent(Set(s, o, "invalid"), L \ {o[1]})
<1> DEFINE t == Set(s, o, "invalid")
<1>1. o \in Live /\ o \in Observers /\ Alone(o)
  BY LiveObservers DEF Battery, Wifi, Voice, Alone
<1>2. /\ t \in States /\ t.queue = s.queue /\ t.masked = s.masked
      /\ t.value = [s.value EXCEPT ![o] = "invalid"]
  BY <1>1 DEF Set, States, Values
<1>3. ASSUME NEW p \in Live PROVE Holds(t, p, L \ {o[1]})
  <2>1. p \in Observers /\ Holds(s, p, L)
    BY <1>3, LiveObservers DEF Coherent
  <2>2. CASE p = o
    BY <1>1, <1>2, <2>2 DEF Holds, States
  <2>3. CASE p # o
    <3>1. Alone(p) => p[1] # o[1]
      BY <1>1, <2>3, LiveObservers
    <3>2. t.value[p] = s.value[p]
      BY <1>2, <2>1, <2>3 DEF States
    <3> HIDE DEF t
    <3>3. QED
      BY <1>2, <2>1, <3>1, <3>2 DEF Holds
  <2>4. QED
    BY <2>2, <2>3
<1>4. QED
  BY <1>2, <1>3 DEF Coherent

(* The sensors' update sends nothing and masks what it changes.             *)
LEMMA SensorsMasked ==
  ASSUME TransmitTypeOK, NEW s \in States, NEW call, NEW data, NEW screen
  PROVE  LET t == SensorValues(s, call, data, screen) IN
         /\ t \in States /\ t.queue = s.queue
         /\ t.value[Voice] = s.value[Voice]
         /\ \A L : Coherent(s, L) => Coherent(t, L)
<1> DEFINE t == SensorValues(s, call, data, screen)
<1>1. Sensors(features) \subseteq Observers /\ Voice \in Observers
      /\ Voice \notin Sensors(features)
  BY MediatorAssumption DEF TransmitTypeOK, Sensors, Observers, Voice, Basic
<1>2. t \in States /\ t.queue = s.queue
  BY <1>1 DEF SensorValues, States, Values
<1>3. \A p \in Observers : \/ t.value[p] = s.value[p] /\ (p \notin t.masked => p \notin s.masked)
                           \/ p \in t.masked
  BY <1>1 DEF SensorValues, States
<1>4. t.value[Voice] = s.value[Voice]
  BY <1>1 DEF SensorValues, States
<1> HIDE DEF t
<1>5. ASSUME NEW L, Coherent(s, L) PROVE Coherent(t, L)
  <2>1. ASSUME NEW p \in Live PROVE Holds(t, p, L)
    <3>1. p \in Observers /\ Holds(s, p, L)
      BY <1>5, <2>1, LiveObservers DEF Coherent
    <3>2. QED
      BY <1>2, <1>3, <3>1 DEF Holds
  <2>2. QED
    BY <2>1 DEF Coherent
<1>6. QED
  BY <1>2, <1>4, <1>5 DEF t
---------------------------------------------------------------------------
(* The broadcasts of call state and route are the same in s and t.          *)
SameRoutes(s, t) == /\ Has(t.queue, "route") <=> Has(s.queue, "route")
                    /\ Ended(t.queue) <=> Ended(s.queue)
                    /\ Quiet(t.queue) <=> Quiet(s.queue)
                    /\ \A w : Told(t.queue, "route", w) <=> Told(s.queue, "route", w)

(* What the handler of an observer other than the call's makes of s.        *)
Handled(s, t, L) == /\ t \in States /\ SameRoutes(s, t) /\ Coherent(t, L)
                    /\ t.value[Voice] \in {s.value[Voice], "invalid"}

LEMMA SendsHandled ==
  ASSUME TransmitTypeOK, up, NEW s \in States, NEW L, Coherent(s, L),
         NEW o \in Live \ {Voice}, NEW v \in {"on", "off"}
  PROVE  Handled(s, transmitPower(s, o, v), L)
<1> DEFINE t == transmitPower(s, o, v)
<1>1. o \in Observers /\ o[1] \in Keys /\ Voice \in Observers
  BY LiveObservers
<1>2. SameRoutes(s, t)
  <2>1. o[1] # "route"
    BY <1>1 DEF Keys, Basic, SensorKeys
  <2>2. QED
    BY <1>1, <2>1, SendsOther, SendsNoCall DEF SameRoutes
<1>3. t \in States /\ t.value[Voice] = s.value[Voice]
  <2>1. t \in States /\ t.value = [s.value EXCEPT ![o] = v]
    BY <1>1, Sends
  <2>2. QED
    BY <1>1, <2>1 DEF States
<1>4. Coherent(t, L)
  BY SendsCoherently
<1>5. QED
  BY <1>2, <1>3, <1>4 DEF Handled

LEMMA HandledTwice ==
  ASSUME NEW s, NEW t, NEW u, NEW K, NEW L, Handled(s, t, K), Handled(t, u, L)
  PROVE  Handled(s, u, L)
BY DEF Handled, SameRoutes

LEMMA ForgetsHandled ==
  ASSUME TransmitTypeOK, NEW s \in States, NEW L, Coherent(s, L),
         NEW o \in {Battery, Wifi, Voice}
  PROVE  Handled(s, Set(s, o, "invalid"), L \ {o[1]})
<1>1. Set(s, o, "invalid").value[Voice] \in {s.value[Voice], "invalid"}
  BY LiveObservers DEF Set, States
<1>2. QED
  BY <1>1, Forgets DEF Handled, SameRoutes

LEMMA SensorsHandled ==
  ASSUME TransmitTypeOK, NEW s \in States, NEW L, Coherent(s, L),
         NEW call, NEW data, NEW screen
  PROVE  Handled(s, SensorValues(s, call, data, screen), L)
BY SensorsMasked DEF Handled, SameRoutes

LEMMA BatteryHandled ==
  ASSUME TransmitTypeOK, up, NEW s \in States, NEW L, Coherent(s, L),
         NEW voltage \in Voltages
  PROVE  Handled(s, transmitPowerByIntent(s, voltage), L)
<1>1. Battery \in Live \ {Voice}
  BY LiveObservers DEF Battery, Voice
<1>2. \A v \in {"on", "off"} : Handled(s, transmitPower(s, Battery, v), L)
  BY <1>1, SendsHandled
<1> DEFINE off == transmitPower(s, Battery, "off")
<1>3. off \in States /\ Coherent(off, L)
  BY <1>2 DEF Handled
<1> HIDE DEF off
<1>4. Handled(off, transmitPower(off, Battery, "on"), L)
  BY <1>1, <1>3, SendsHandled
<1>5. Handled(s, off, L)
  BY <1>2 DEF off
<1>6. Handled(s, transmitPower(off, Battery, "on"), L)
  BY <1>4, <1>5, HandledTwice
<1>7. QED
  BY <1>2, <1>6 DEF transmitPowerByIntent, Voltages, off

(* The reports of a phone in service.                                       *)
LEMMA ReportsHandled ==
  ASSUME TransmitTypeOK, up, NEW L, Coherent(Here, L), NEW voltage \in Voltages,
         NEW ap, NEW discovery, NEW connection, NEW call, NEW data, NEW screen
  PROVE  Handled(Here,
           SensorValues(Set(UpdateWifi(UpdateBattery(Here, voltage),
                                       ap, discovery, connection),
                            Voice, "invalid"), call, data, screen),
           L \ {"battery", "wifi"})
<1> DEFINE b1 == Set(Here, Battery, "invalid")
           b2 == transmitPowerByIntent(b1, voltage)
           w1 == Set(b2, Wifi, "invalid")
           isOn == "on" \in {ByState(ap), ByP2p(ap, discovery), ByP2p(ap, connection)}
           v  == IF isOn THEN "on" ELSE "off"
           w2 == transmitPower(w1, Wifi, v)
           c  == Set(w2, Voice, "invalid")
           t  == SensorValues(c, call, data, screen)
           L1 == L \ {"battery"}
           L2 == L1 \ {"wifi"}
           L3 == L2 \ {"voice"}
<1>1. t = SensorValues(Set(UpdateWifi(UpdateBattery(Here, voltage),
                                      ap, discovery, connection),
                           Voice, "invalid"), call, data, screen)
  BY DEF UpdateWifi, UpdateBattery
<1>2. v \in {"on", "off"} /\ Wifi \in Live \ {Voice} /\ Here \in States
  BY LiveObservers DEF Wifi, Voice
<1>3. /\ Battery \in {Battery, Wifi, Voice} /\ Battery[1] = "battery"
      /\ Wifi \in {Battery, Wifi, Voice} /\ Wifi[1] = "wifi"
      /\ Voice \in {Battery, Wifi, Voice} /\ Voice[1] = "voice"
  BY DEF Battery, Wifi, Voice
<1> HIDE DEF v
<1>4. Handled(Here, b1, L1)
  BY <1>2, <1>3, ForgetsHandled
<1> HIDE DEF b1
<1>5. Handled(b1, b2, L1)
  BY <1>4, BatteryHandled DEF Handled
<1> HIDE DEF b2
<1>6. Handled(b2, w1, L2)
  BY <1>3, <1>5, ForgetsHandled DEF Handled
<1> HIDE DEF w1
<1>7. Handled(w1, w2, L2)
  BY <1>2, <1>6, SendsHandled DEF Handled
<1> HIDE DEF w2
<1>8. Handled(w2, c, L3)
  BY <1>3, <1>7, ForgetsHandled DEF Handled
<1> HIDE DEF c
<1>9. Handled(c, t, L3)
  BY <1>8, SensorsHandled DEF Handled
<1>10. Handled(Here, t, L3)
  BY <1>4, <1>5, <1>6, <1>7, <1>8, <1>9, HandledTwice
<1> HIDE DEF t
<1>11. Coherent(t, L3) => Coherent(t, L \ {"battery", "wifi"})
  BY DEF Coherent, Holds
<1>12. QED
  BY <1>1, <1>10, <1>11 DEF Handled
---------------------------------------------------------------------------
(* Handlers that report a value.                                            *)
Reports == \/ ServiceStateChanged \/ BatteryChanged \/ WifiChanged
           \/ ScreenOrDataChanged \/ ProximityChanged \/ MotionChanged

LEMMA ReportsKeep ==
  ASSUME TransmitInv, Reports
  PROVE  /\ up /\ up' = up
         /\ \E t \in States : Becomes(t) /\ Handled(Here, t, lost')
<1> USE DEF TransmitInv
<1>1. Here \in States /\ (up => Coherent(Here, lost))
  BY LiveObservers DEF ModemOK
<1>2. /\ up => Battery \in Live \ {Voice} /\ Wifi \in Live \ {Voice}
      /\ \A k \in SensorKeys, f \in Features :
           <<k, f>> \in observed => up /\ <<k, f>> \in Live \ {Voice}
  BY MediatorAssumption, LiveObservers
     DEF SensorsOff, Battery, Wifi, Voice, Live, Sensors, SensorKeys
<1>3. CASE ServiceStateChanged
  <2>1. up /\ up' = up /\ lost' = lost \ {"battery", "wifi"}
    BY <1>3 DEF ServiceStateChanged, Ready
  <2>2. PICK voltage \in Voltages, ap \in ApStates, discovery \in P2p,
             connection \in P2p, call \in BOOLEAN, data \in BOOLEAN,
             screen \in BOOLEAN :
          Becomes(SensorValues(Set(UpdateWifi(UpdateBattery(Here, voltage),
                                              ap, discovery, connection),
                                   Voice, "invalid"), call, data, screen))
    BY <1>3 DEF ServiceStateChanged
  <2>3. Handled(Here,
          SensorValues(Set(UpdateWifi(UpdateBattery(Here, voltage),
                                      ap, discovery, connection),
                           Voice, "invalid"), call, data, screen),
          lost')
    BY <1>1, <2>1, ReportsHandled
  <2>4. QED
    BY <2>1, <2>2, <2>3 DEF Handled
<1>4. CASE BatteryChanged
  <2>1. PICK voltage \in {"low", "ok"} : Becomes(transmitPowerByIntent(Here, voltage))
    BY <1>4 DEF BatteryChanged
  <2>2. up /\ up' = up /\ lost' = lost
    BY <1>4 DEF BatteryChanged, Ready
  <2>3. Handled(Here, transmitPowerByIntent(Here, voltage), lost)
    BY <1>1, <2>2, BatteryHandled DEF Voltages
  <2>4. QED
    BY <2>1, <2>2, <2>3 DEF Handled
<1>5. CASE WifiChanged
  <2>1. up /\ up' = up /\ lost' = lost
    BY <1>5 DEF WifiChanged, Ready
  <2>2. PICK v \in {"on", "off"} : Becomes(transmitPower(Here, Wifi, v))
    BY <1>5 DEF WifiChanged, ByState, ByP2p, ApStates
  <2>3. Handled(Here, transmitPower(Here, Wifi, v), lost)
    BY <1>1, <1>2, <2>1, SendsHandled
  <2>4. QED
    BY <2>1, <2>2, <2>3 DEF Handled
<1>6. CASE ScreenOrDataChanged
  <2>1. PICK call \in BOOLEAN, data \in BOOLEAN, screen \in BOOLEAN :
          Becomes(SensorValues(Here, call, data, screen))
    BY <1>6 DEF ScreenOrDataChanged
  <2>2. up /\ up' = up /\ lost' = lost
    BY <1>6 DEF ScreenOrDataChanged, Ready
  <2>3. Handled(Here, SensorValues(Here, call, data, screen), lost)
    BY <1>1, <2>2, SensorsHandled
  <2>4. QED
    BY <2>1, <2>2, <2>3 DEF Handled
<1>7. CASE ProximityChanged
  <2>1. PICK f \in Features, v \in {"on", "off"} :
          <<"prox", f>> \in observed /\ Becomes(transmitPower(Here, <<"prox", f>>, v))
    BY <1>7 DEF ProximityChanged
  <2>2. up' = up /\ lost' = lost
    BY <1>7 DEF ProximityChanged
  <2>3. up /\ <<"prox", f>> \in Live \ {Voice}
    BY <1>2, <2>1 DEF SensorKeys
  <2>4. Handled(Here, transmitPower(Here, <<"prox", f>>, v), lost)
    BY <1>1, <2>3, SendsHandled
  <2>5. QED
    BY <2>1, <2>2, <2>3, <2>4 DEF Handled
<1>8. CASE MotionChanged
  <2>1. PICK f \in Features, v \in {"on", "off"} :
          <<"acc", f>> \in observed /\ Becomes(transmitPower(Here, <<"acc", f>>, v))
    BY <1>8 DEF MotionChanged
  <2>2. up' = up /\ lost' = lost
    BY <1>8 DEF MotionChanged
  <2>3. up /\ <<"acc", f>> \in Live \ {Voice}
    BY <1>2, <2>1 DEF SensorKeys
  <2>4. Handled(Here, transmitPower(Here, <<"acc", f>>, v), lost)
    BY <1>1, <2>3, SendsHandled
  <2>5. QED
    BY <2>1, <2>2, <2>3, <2>4 DEF Handled
<1>9. QED
  BY <1>3, <1>4, <1>5, <1>6, <1>7, <1>8 DEF Reports

(* A state that is coherent as s remains so as the state of the program.    *)
LEMMA BecomesCoherent ==
  ASSUME NEW s, Becomes(s), UNCHANGED <<features, modem>>, Coherent(s, lost')
  PROVE  Coherent(Here, lost)'
BY DEF Coherent, Holds, Here, Becomes, Live, Alone

(* Broadcasts of the in-call service.                                       *)
LEMMA Broadcasts ==
  ASSUME TransmitTypeOK, NEW to \in {"call", "route"}, NEW b \in BOOLEAN,
         Broadcast(to, b), NEW k, NEW w
  PROVE  /\ queue' \in Seq(Messages) /\ unheard' \in BOOLEAN
         /\ up => /\ Told(queue', to, OnIf(b)) /\ Has(queue', to)
                  /\ unheard' = unheard
         /\ ~up => queue' = queue /\ unheard' = (unheard \/ to = "route")
         /\ k # to => /\ unheard' \/ to = "route" <=> unheard \/ to = "route"
                      /\ Has(queue', k) <=> Has(queue, k)
                      /\ Told(queue', k, w) <=> Told(queue, k, w)
         /\ up /\ to = "call" /\ ~b => Ended(queue')
<1> DEFINE m == [to |-> to, v |-> OnIf(b)]
<1>1. m \in Messages /\ m.to = to /\ m.v = OnIf(b) /\ queue \in Seq(Messages)
  BY DEF Messages, OnIf, TransmitTypeOK
<1> HIDE DEF m
<1>2. /\ Append(queue, m) \in Seq(Messages)
      /\ Told(Append(queue, m), to, OnIf(b)) /\ Has(Append(queue, m), to)
      /\ k # to => /\ Has(Append(queue, m), k) <=> Has(queue, k)
                   /\ Told(Append(queue, m), k, w) <=> Told(queue, k, w)
  BY <1>1, Appended
<1>3. unheard \in BOOLEAN /\ up \in BOOLEAN
  BY DEF TransmitTypeOK
<1>7. to = "call" /\ ~b => Ended(Append(queue, m))
  <2>1. to = "call" /\ ~b => m = [to |-> "call", v |-> "off"]
    BY DEF m, OnIf
  <2>2. QED
    BY <1>1, <2>1, Ends
<1>4. CASE up
  <2>1. queue' = Append(queue, m) /\ unheard' = unheard
    BY <1>4 DEF Broadcast, m
  <2>2. QED
    BY <1>2, <1>3, <1>4, <1>7, <2>1
<1>5. CASE ~up
  <2>1. queue' = queue /\ unheard' = (unheard \/ to = "route")
    BY <1>5 DEF Broadcast
  <2>2. QED
    BY <1>1, <1>3, <1>5, <2>1
<1>6. QED
  BY <1>4, <1>5

(* Delivery.                                                                *)
LEMMA RestCoherent ==
  ASSUME TransmitTypeOK, queue # <<>>
  PROVE  /\ Rest \in States /\ Rest.value = value /\ Rest.queue = Tail(queue)
         /\ Rest.masked = masked /\ Head(queue) \in Messages
         /\ Head(queue).to \notin Keys =>
              \A L : Coherent(Here, L) => Coherent(Rest, L)
<1>1. queue \in Seq(Messages) /\ Tail(queue) \in Seq(Messages)
      /\ Head(queue) \in Messages
  <2>1. queue \in Seq(Messages)
    BY DEF TransmitTypeOK, Messages
  <2>2. QED
    BY <2>1
<1>2. /\ Rest \in States /\ Rest.value = value /\ Rest.queue = Tail(queue)
      /\ Rest.masked = masked
      /\ Here.value = value /\ Here.queue = queue /\ Here.masked = masked
  BY <1>1, LiveObservers DEF Rest, Here, States
<1>3. ASSUME Head(queue).to \notin Keys, NEW L, Coherent(Here, L),
             NEW o \in Live
      PROVE  Holds(Rest, o, L)
  <2>1. Holds(Here, o, L) /\ o[1] \in Keys
    BY <1>3, LiveObservers DEF Coherent
  <2>2. Told(queue, o[1], value[o]) =>
          /\ Has(Tail(queue), o[1]) <=> Has(queue, o[1])
          /\ Told(Tail(queue), o[1], value[o])
    BY <1>1, <1>3, <2>1, Delivered
  <2>3. QED
    BY <1>2, <2>1, <2>2 DEF Holds
<1>4. QED
  BY <1>1, <1>2, <1>3 DEF Coherent

(* Every step keeps the types.                                              *)
LEMMA Types ==
  ASSUME TransmitInv, [TransmitNext]_transmitVars
  PROVE  TransmitTypeOK'
<1> USE DEF TransmitInv
<1>1. CASE Reports
  <2>1. PICK t \in States : Becomes(t)
    BY <1>1, ReportsKeep
  <2>2. value' \in [Observers -> Values] /\ queue' \in Seq(Messages)
        /\ masked' \subseteq Observers
    BY <2>1 DEF Becomes, States
  <2>3. observed' \subseteq Sensors(Features)
    <3>1. observed \subseteq Sensors(Features) /\ Sensors(features) \subseteq Sensors(Features)
      BY DEF TransmitTypeOK, Sensors
    <3>2. \A call, data, screen : Listen(call, data, screen) => observed' \subseteq Sensors(Features)
      BY <3>1 DEF Listen
    <3>3. CASE ServiceStateChanged \/ ScreenOrDataChanged
      BY <3>2, <3>3 DEF ServiceStateChanged, ScreenOrDataChanged
    <3>4. CASE BatteryChanged \/ WifiChanged \/ MotionChanged
      BY <3>1, <3>4 DEF BatteryChanged, WifiChanged, MotionChanged, sensorVars
    <3>5. CASE ProximityChanged
      BY <3>1, <3>5 DEF ProximityChanged
    <3>6. QED
      BY <1>1, <3>3, <3>4, <3>5 DEF Reports
  <2>4. QED
    BY <1>1, <2>2, <2>3 DEF Reports, ServiceStateChanged, ScreenOrDataChanged, BatteryChanged,
       WifiChanged, ProximityChanged, MotionChanged, sensorVars, callVars, TransmitTypeOK, Messages
<1>2. CASE Create
  BY <1>2 DEF Create, callVars, TransmitTypeOK, Values
<1>3. CASE Destroy
  <2>1. unheard' \in BOOLEAN
    BY <1>3 DEF Destroy, RouteLost, TransmitTypeOK
  <2>2. <<>> \in Seq(Messages)
    OBVIOUS
  <2>3. QED
    BY <1>3, <2>1, <2>2 DEF Destroy, TransmitTypeOK, Messages
<1>4. CASE Kill
  <2>1. <<>> \in Seq(Messages)
    OBVIOUS
  <2>2. QED
    BY <1>4, <2>1 DEF Kill, TransmitTypeOK, Values, Messages
<1>5. CASE AddFeature
  BY <1>5 DEF AddFeature, callVars, TransmitTypeOK, Values
<1>6. CASE SubscriptionsChanged
  BY <1>6 DEF SubscriptionsChanged, observerVars, sensorVars, callVars, TransmitTypeOK
<1>7. CASE ModemRestarts
  BY <1>7 DEF ModemRestarts, observerVars, sensorVars, callVars, TransmitTypeOK, Values
<1>8. ASSUME NEW c \in Calls, CallAdded(c) PROVE TransmitTypeOK'
  BY <1>8 DEF CallAdded, observerVars, sensorVars, TransmitTypeOK
<1>9. ASSUME NEW c \in Calls, CallStateChanged(c) PROVE TransmitTypeOK'
  <2>1. PICK x \in {"inactive", "active"} :
          calls' = [calls EXCEPT ![c] = x] /\ Broadcast("call", x = "active")
    BY <1>9 DEF CallStateChanged
  <2>2. (x = "active") \in BOOLEAN
    OBVIOUS
  <2>3. queue' \in Seq(Messages) /\ unheard' \in BOOLEAN
    BY <2>1, <2>2, Broadcasts
  <2>4. QED
    BY <1>9, <2>1, <2>3 DEF CallStateChanged, sensorVars, TransmitTypeOK, Messages
<1>10. ASSUME NEW c \in Calls, CallRemoved(c) PROVE TransmitTypeOK'
  BY <1>10 DEF CallRemoved, observerVars, sensorVars, TransmitTypeOK
<1>17. CASE Unbind
  <2>1. Broadcast("call", FALSE)
    BY <1>17 DEF Unbind
  <2>2. queue' \in Seq(Messages) /\ unheard' \in BOOLEAN
    BY <2>1, Broadcasts
  <2>3. QED
    BY <1>17, <2>2 DEF Unbind, sensorVars, TransmitTypeOK, Messages
<1>11. CASE CallAudioStateChanged
  <2>1. Broadcast("route", route' = "earpiece") /\ (route' = "earpiece") \in BOOLEAN
    BY <1>11 DEF CallAudioStateChanged
  <2>2. queue' \in Seq(Messages) /\ unheard' \in BOOLEAN
    BY <2>1, Broadcasts
  <2>3. QED
    BY <1>11, <2>2 DEF CallAudioStateChanged, sensorVars, TransmitTypeOK, Messages
<1>12. CASE DeliverRoute
  <2>1. Voice \in Observers /\ Voice[1] \in Keys
    BY LiveObservers
  <2>2. queue # <<>> /\ Head(queue).v \in {"on", "off"}
    BY <1>12, RestCoherent DEF DeliverRoute, Received, Messages
  <2>3. transmitPower(Rest, Voice, Head(queue).v) \in States
    BY <2>1, <2>2, RestCoherent, Sends
  <2>4. value' \in [Observers -> Values] /\ queue' \in Seq(Messages)
        /\ masked' \subseteq Observers
    BY <1>12, <2>3 DEF DeliverRoute, Becomes, States
  <2>5. QED
    BY <1>12, <2>4 DEF DeliverRoute, sensorVars, TransmitTypeOK, Messages
<1>13. CASE DeliverCall
  <2>1. Voice \in Observers /\ Voice[1] \in Keys
    BY LiveObservers
  <2>2. PICK data \in BOOLEAN, screen \in BOOLEAN :
          LET call == Head(queue).v = "on" IN
          /\ Becomes(SensorValues(transmitPower(Rest, Voice, OnIf(call /\ speaker)),
                                  call, data, screen))
          /\ Listen(call, data, screen)
    BY <1>13 DEF DeliverCall
  <2> DEFINE call == Head(queue).v = "on"
             r == transmitPower(Rest, Voice, OnIf(call /\ speaker))
  <2>3. queue # <<>> /\ OnIf(call /\ speaker) \in {"on", "off"}
    BY <1>13 DEF DeliverCall, Received, OnIf
  <2>4. r \in States
    BY <2>1, <2>3, RestCoherent, Sends
  <2>5. Becomes(SensorValues(r, call, data, screen)) /\ Listen(call, data, screen)
    BY <2>2
  <2> HIDE DEF call, r
  <2>6. SensorValues(r, call, data, screen) \in States
    BY <2>4, SensorsMasked
  <2>7. value' \in [Observers -> Values] /\ queue' \in Seq(Messages)
        /\ masked' \subseteq Observers
    BY <2>5, <2>6 DEF Becomes, States
  <2>8. observed' \subseteq Sensors(Features)
    <3>1. observed \subseteq Sensors(Features) /\ Sensors(features) \subseteq Sensors(Features)
      BY DEF TransmitTypeOK, Sensors
    <3>2. QED
      BY <2>5, <3>1 DEF Listen
  <2>9. QED
    BY <1>13, <2>7, <2>8 DEF DeliverCall, callVars, TransmitTypeOK, Messages
<1>14. CASE DeliverToModem
  <2>1. queue # <<>> /\ Head(queue).to \in Keys
    BY <1>14 DEF DeliverToModem
  <2>2. Rest \in States /\ Head(queue).v \in Values
    BY <2>1, RestCoherent DEF Messages, Values
  <2>3. value' \in [Observers -> Values] /\ queue' \in Seq(Messages)
        /\ masked' \subseteq Observers
    BY <1>14, <2>2 DEF DeliverToModem, Becomes, States
  <2>4. modem' \in [Keys -> Values] /\ lost' \subseteq Keys
    BY <1>14, <2>1, <2>2 DEF DeliverToModem, TransmitTypeOK
  <2>5. QED
    BY <1>14, <2>3, <2>4 DEF DeliverToModem, sensorVars, callVars, TransmitTypeOK, Messages
<1>15. CASE UNCHANGED transmitVars
  BY <1>15 DEF transmitVars, observerVars, sensorVars, callVars, TransmitTypeOK
<1>16. QED
  BY <1>1, <1>2, <1>3, <1>4, <1>5, <1>6, <1>7, <1>8, <1>9, <1>10, <1>11, <1>12,
     <1>13, <1>14, <1>15, <1>17
     DEF TransmitNext, ServiceNext, PhoneNext, BasicNext, SensorNext, VoiceNext, Reports

LEMMA ReportsFrame ==
  ASSUME Reports
  PROVE  UNCHANGED <<callVars, features, modem>>
BY DEF Reports, ServiceStateChanged, BatteryChanged, WifiChanged,
       ScreenOrDataChanged, ProximityChanged, MotionChanged, sensorVars

(* No step switches a sensor on that has no feature, or without a service.  *)
LEMMA SensorsStep ==
  ASSUME TransmitInv, [TransmitNext]_transmitVars
  PROVE  SensorsOff'
<1> USE DEF TransmitInv, SensorsOff
<1>1. CASE Reports
  <2>1. up' /\ features' = features
    BY <1>1, ReportsKeep, ReportsFrame
  <2>2. observed' \subseteq Sensors(features)
    <3>1. CASE ServiceStateChanged \/ ScreenOrDataChanged
      BY <3>1 DEF ServiceStateChanged, ScreenOrDataChanged, Listen
    <3>2. CASE BatteryChanged \/ WifiChanged \/ MotionChanged
      BY <3>2 DEF BatteryChanged, WifiChanged, MotionChanged, sensorVars
    <3>3. CASE ProximityChanged
      BY <3>3 DEF ProximityChanged
    <3>4. QED
      BY <1>1, <3>1, <3>2, <3>3 DEF Reports
  <2>3. QED
    BY <2>1, <2>2 DEF Sensors
<1>2. CASE Create \/ SubscriptionsChanged \/ ModemRestarts
  BY <1>2 DEF Create, SubscriptionsChanged, ModemRestarts, sensorVars, Sensors
<1>3. CASE Destroy \/ Kill
  BY <1>3 DEF Destroy, Kill
<1>4. CASE AddFeature
  <2>1. features \subseteq features' /\ UNCHANGED <<up, observed>>
    BY <1>4 DEF AddFeature
  <2>2. QED
    BY <2>1 DEF Sensors
<1>5. ASSUME NEW c \in Calls, CallAdded(c) \/ CallStateChanged(c) \/ CallRemoved(c)
      PROVE  SensorsOff'
  <2>1. UNCHANGED <<up, features, observed>>
    BY <1>5 DEF CallAdded, CallStateChanged, CallRemoved, sensorVars
  <2>2. QED
    BY <2>1 DEF Sensors
<1>6. CASE Unbind \/ CallAudioStateChanged \/ DeliverRoute \/ DeliverToModem
  BY <1>6 DEF Unbind, CallAudioStateChanged, DeliverRoute, DeliverToModem, sensorVars, Sensors
<1>7. CASE DeliverCall
  <2>1. up /\ UNCHANGED <<up, features>>
    BY <1>7 DEF DeliverCall, Received, DownOK
  <2>2. observed' \subseteq Sensors(features)
    BY <1>7 DEF DeliverCall, Listen
  <2>3. QED
    BY <2>1, <2>2 DEF Sensors
<1>8. CASE UNCHANGED transmitVars
  BY <1>8 DEF transmitVars, sensorVars, Sensors
<1>9. QED
  BY <1>1, <1>2, <1>3, <1>4, <1>5, <1>6, <1>7, <1>8
     DEF TransmitNext, ServiceNext, PhoneNext, BasicNext, SensorNext, VoiceNext, Reports

(* Without a service no broadcast is sent and no sensor reports.            *)
LEMMA DownStep ==
  ASSUME TransmitInv, [TransmitNext]_transmitVars
  PROVE  DownOK'
<1> USE DEF TransmitInv, DownOK
<1>1. CASE Reports
  BY <1>1, ReportsKeep
<1>2. CASE Create
  BY <1>2 DEF Create
<1>3. CASE Destroy \/ Kill
  BY <1>3 DEF Destroy, Kill, Sensors
<1>4. CASE AddFeature
  <2>1. PICK f \in Features \ features :
          /\ features' = features \cup {f}
          /\ value' = [o \in Observers |-> IF o[2] = f THEN "invalid" ELSE value[o]]
    BY <1>4 DEF AddFeature
  <2>2. UNCHANGED <<up, queue>>
    BY <1>4 DEF AddFeature
  <2>3. \A o \in Sensors(features') : o \in Observers /\ (o[2] = f \/ o \in Sensors(features))
    BY <2>1 DEF Sensors, Observers, TransmitTypeOK
  <2>4. QED
    BY <2>1, <2>2, <2>3
<1>5. CASE SubscriptionsChanged \/ ModemRestarts
  BY <1>5 DEF SubscriptionsChanged, ModemRestarts, observerVars, sensorVars, Sensors
<1>6. CASE \/ \E c \in Calls : CallAdded(c) \/ CallStateChanged(c) \/ CallRemoved(c)
           \/ Unbind \/ CallAudioStateChanged
  BY <1>6 DEF CallAdded, CallStateChanged, CallRemoved, Unbind, CallAudioStateChanged, Broadcast,
              observerVars, sensorVars, Sensors
<1>7. CASE DeliverRoute \/ DeliverCall \/ DeliverToModem
  BY <1>7 DEF DeliverRoute, DeliverCall, DeliverToModem, Received
<1>8. CASE UNCHANGED transmitVars
  BY <1>8 DEF transmitVars, observerVars, sensorVars, Sensors
<1>9. QED
  BY <1>1, <1>2, <1>3, <1>4, <1>5, <1>6, <1>7, <1>8
     DEF TransmitNext, ServiceNext, PhoneNext, BasicNext, SensorNext, VoiceNext, Reports

(* The call's observer takes "on" for sent only while the stored route is   *)
(* the earpiece.                                                            *)
LEMMA VoiceStep ==
  ASSUME TransmitInv, [TransmitNext]_transmitVars
  PROVE  VoiceOK'
<1> USE DEF TransmitInv, VoiceOK
<1>0. Voice \in Observers /\ Voice[1] \in Keys /\ Voice[1] = "voice"
  BY LiveObservers DEF Voice
<1>1. CASE Reports
  <2>1. PICK t \in States : Becomes(t) /\ Handled(Here, t, lost')
    BY <1>1, ReportsKeep
  <2>2. value'[Voice] \in {value[Voice], "invalid"}
    BY <2>1 DEF Becomes, Handled, Here
  <2>3. QED
    BY <1>1, <2>2, ReportsFrame DEF callVars
<1>2. CASE Create
  BY <1>0, <1>2 DEF Create, Basic, callVars
<1>3. CASE Destroy \/ SubscriptionsChanged \/ ModemRestarts
  BY <1>3 DEF Destroy, SubscriptionsChanged, ModemRestarts, observerVars, callVars
<1>4. CASE Kill
  BY <1>0, <1>4 DEF Kill
<1>5. CASE AddFeature
  BY <1>0, <1>5, MediatorAssumption DEF AddFeature, Voice, callVars
<1>6. CASE \/ \E c \in Calls : CallAdded(c) \/ CallStateChanged(c) \/ CallRemoved(c)
           \/ Unbind \/ CallAudioStateChanged
  BY <1>6 DEF CallAdded, CallStateChanged, CallRemoved, Unbind, CallAudioStateChanged, observerVars
<1>7. CASE DeliverRoute
  <2>1. Rest \in States /\ Head(queue).v \in {"on", "off"}
    BY <1>7, RestCoherent DEF DeliverRoute, Received, Messages
  <2>2. value' = [Rest.value EXCEPT ![Voice] = Head(queue).v]
    BY <1>0, <1>7, <2>1, Sends DEF DeliverRoute, Becomes
  <2>3. QED
    BY <1>0, <1>7, <2>1, <2>2 DEF DeliverRoute, States
<1>8. CASE DeliverCall
  <2>1. PICK data \in BOOLEAN, screen \in BOOLEAN :
          LET call == Head(queue).v = "on" IN
          Becomes(SensorValues(transmitPower(Rest, Voice, OnIf(call /\ speaker)),
                               call, data, screen))
    BY <1>8 DEF DeliverCall
  <2> DEFINE call == Head(queue).v = "on"
             v == OnIf(call /\ speaker)
             r == transmitPower(Rest, Voice, v)
  <2>2. Rest \in States /\ v \in {"on", "off"} /\ (v = "on" => speaker)
    BY <1>8, RestCoherent DEF DeliverCall, Received, OnIf
  <2> HIDE DEF v
  <2>3. r \in States /\ r.value = [Rest.value EXCEPT ![Voice] = v]
    BY <1>0, <2>2, Sends
  <2>4. r.value[Voice] = v
    BY <1>0, <2>2, <2>3 DEF States
  <2>5. Becomes(SensorValues(r, call, data, screen))
    BY <2>1 DEF v
  <2> HIDE DEF r, call
  <2>6. SensorValues(r, call, data, screen).value[Voice] = r.value[Voice]
    <3>1. TransmitTypeOK /\ r \in States
      BY <2>3
    <3>2. QED
      BY <3>1, SensorsMasked
  <2>7. QED
    BY <1>8, <2>2, <2>4, <2>5, <2>6 DEF DeliverCall, callVars, Becomes
<1>9. CASE DeliverToModem
  BY <1>9, RestCoherent DEF DeliverToModem, Becomes, callVars
<1>10. CASE UNCHANGED transmitVars
  BY <1>10 DEF transmitVars, observerVars, callVars
<1>11. QED
  BY <1>1, <1>2, <1>3, <1>4, <1>5, <1>6, <1>7, <1>8, <1>9, <1>10
     DEF TransmitNext, ServiceNext, PhoneNext, BasicNext, SensorNext, VoiceNext, Reports

(* The stored route is the present one, or a broadcast brings that, or one  *)
(* was lost.                                                                *)
LEMMA RouteStep ==
  ASSUME TransmitInv, [TransmitNext]_transmitVars
  PROVE  RouteOK'
<1> USE DEF TransmitInv, RouteOK
<1> DEFINE now == OnIf(route = "earpiece")
<1>0. /\ Voice \in Observers /\ Voice[1] \in Keys /\ "route" \notin Keys
      /\ Voice[1] # "route" /\ "call" # "route" /\ queue \in Seq(Messages)
  BY LiveObservers DEF Voice, Keys, Basic, SensorKeys, TransmitTypeOK, Messages
<1>1. CASE Reports
  <2>1. PICK t \in States : Becomes(t) /\ Handled(Here, t, lost')
    BY <1>1, ReportsKeep
  <2>2. /\ Has(queue', "route") <=> Has(queue, "route")
        /\ Told(queue', "route", now) <=> Told(queue, "route", now)
    BY <2>1 DEF Becomes, Handled, Here, SameRoutes
  <2>3. UNCHANGED <<speaker, route, unheard>>
    BY <1>1, ReportsFrame DEF callVars
  <2>4. QED
    BY <2>2, <2>3
<1>2. CASE Create \/ AddFeature \/ SubscriptionsChanged \/ ModemRestarts
  BY <1>2 DEF Create, AddFeature, SubscriptionsChanged, ModemRestarts, observerVars, callVars
<1>3. CASE Destroy
  <2>1. /\ ~Has(queue', "route") /\ Told(queue', "route", now)
        /\ UNCHANGED <<speaker, route>>
    BY <1>3, NothingWaits DEF Destroy
  <2>2. unheard' <=> unheard \/ Has(queue, "route")
    BY <1>3 DEF Destroy, RouteLost, Has
  <2>3. QED
    BY <2>1, <2>2
<1>4. CASE Kill
  <2>1. /\ ~Has(queue', "route") /\ Told(queue', "route", now)
        /\ ~speaker' /\ route' = route
    BY <1>4, NothingWaits DEF Kill
  <2>2. QED
    BY <2>1
<1>5. CASE \/ \E c \in Calls : CallAdded(c) \/ CallStateChanged(c) \/ CallRemoved(c)
           \/ Unbind
  <2>1. UNCHANGED <<speaker, route>>
    BY <1>5 DEF CallAdded, CallStateChanged, CallRemoved, Unbind
  <2>2. CASE UNCHANGED <<queue, unheard>>
    BY <2>1, <2>2
  <2>3. CASE \E b \in BOOLEAN : Broadcast("call", b)
    <3>1. PICK b \in BOOLEAN : Broadcast("call", b)
      BY <2>3
    <3>2. /\ unheard' <=> unheard
          /\ Has(queue', "route") <=> Has(queue, "route")
          /\ Told(queue', "route", now) <=> Told(queue, "route", now)
      BY <1>0, <3>1, Broadcasts
    <3>3. QED
      BY <2>1, <3>2
  <2>4. \A c \in Calls : CallStateChanged(c) => \E b \in BOOLEAN : Broadcast("call", b)
    BY DEF CallStateChanged
  <2>5. Unbind => Broadcast("call", FALSE)
    BY DEF Unbind
  <2>6. \A c \in Calls : CallAdded(c) \/ CallRemoved(c) => UNCHANGED <<queue, unheard>>
    BY DEF CallAdded, CallRemoved, observerVars
  <2>7. QED
    BY <1>5, <2>2, <2>3, <2>4, <2>5, <2>6
<1>6. CASE CallAudioStateChanged
  <2>1. /\ Broadcast("route", route' = "earpiece") /\ UNCHANGED speaker
        /\ (route' = "earpiece") \in BOOLEAN
    BY <1>6 DEF CallAudioStateChanged
  <2>2. CASE up
    <3>1. Told(queue', "route", OnIf(route' = "earpiece")) /\ Has(queue', "route")
      BY <2>1, <2>2, Broadcasts
    <3>2. QED
      BY <3>1
  <2>3. CASE ~up
    <3>1. queue' = <<>> /\ unheard'
      BY <2>1, <2>3 DEF DownOK, Broadcast
    <3>2. QED
      BY <3>1, NothingWaits
  <2>4. QED
    BY <2>2, <2>3
<1>7. CASE DeliverRoute
  <2>1. /\ queue # <<>> /\ Head(queue).to = "route" /\ Rest.queue = Tail(queue)
        /\ Rest \in States /\ Head(queue).v \in {"on", "off"}
    BY <1>7, RestCoherent DEF DeliverRoute, Received, Messages
  <2> DEFINE r == transmitPower(Rest, Voice, Head(queue).v)
  <2>2. /\ Has(r.queue, "route") <=> Has(Tail(queue), "route")
        /\ Told(r.queue, "route", now) <=> Told(Tail(queue), "route", now)
    <3> HIDE DEF now
    <3>1. /\ Has(r.queue, "route") <=> Has(Rest.queue, "route")
          /\ Told(r.queue, "route", now) <=> Told(Rest.queue, "route", now)
      BY <1>0, <2>1, SendsOther
    <3>2. QED
      BY <2>1, <3>1
  <2>3. /\ Told(Tail(queue), "route", now)
        /\ ~Has(Tail(queue), "route") => Head(queue).v = now
    BY <1>0, <2>1, Delivered
  <2>4. /\ queue' = r.queue /\ route' = route
        /\ speaker' <=> Head(queue).v = "on"
    BY <1>7 DEF DeliverRoute, Becomes
  <2>5. now = "on" <=> route = "earpiece"
    BY DEF OnIf
  <2> HIDE DEF r, now
  <2>6. Told(queue', "route", now) /\ (~Has(queue', "route") => ~speaker' \/ route' = "earpiece")
    BY <2>2, <2>3, <2>4, <2>5
  <2>7. QED
    BY <2>4, <2>6 DEF now
<1>8. CASE DeliverCall
  <2>1. PICK data \in BOOLEAN, screen \in BOOLEAN :
          LET call == Head(queue).v = "on" IN
          Becomes(SensorValues(transmitPower(Rest, Voice, OnIf(call /\ speaker)),
                               call, data, screen))
    BY <1>8 DEF DeliverCall
  <2> DEFINE call == Head(queue).v = "on"
             v == OnIf(call /\ speaker)
             r == transmitPower(Rest, Voice, v)
             t == SensorValues(r, call, data, screen)
  <2>2. /\ queue # <<>> /\ Head(queue).to = "call" /\ Rest.queue = Tail(queue)
        /\ Rest \in States /\ v \in {"on", "off"}
    BY <1>8, RestCoherent DEF DeliverCall, Received, OnIf
  <2>3. Becomes(t)
    BY <2>1
  <2> HIDE DEF v, call
  <2>4. r \in States
    BY <1>0, <2>2, Sends
  <2>5. /\ Has(r.queue, "route") <=> Has(Tail(queue), "route")
        /\ Told(r.queue, "route", now) <=> Told(Tail(queue), "route", now)
    <3> HIDE DEF now
    <3>1. /\ Has(r.queue, "route") <=> Has(Rest.queue, "route")
          /\ Told(r.queue, "route", now) <=> Told(Rest.queue, "route", now)
      BY <1>0, <2>2, SendsOther
    <3>2. QED
      BY <2>2, <3>1
  <2> HIDE DEF r
  <2>6. t.queue = r.queue
    BY <2>4, SensorsMasked
  <2>7. /\ Told(Tail(queue), "route", now)
        /\ Has(Tail(queue), "route") <=> Has(queue, "route")
    BY <1>0, <2>2, Delivered
  <2>8. queue' = t.queue /\ UNCHANGED <<speaker, route, unheard>>
    BY <1>8, <2>3 DEF DeliverCall, callVars, Becomes
  <2> HIDE DEF t
  <2>9. QED
    BY <2>5, <2>6, <2>7, <2>8
<1>9. CASE DeliverToModem
  <2>1. /\ queue # <<>> /\ Head(queue).to # "route" /\ queue' = Tail(queue)
        /\ UNCHANGED <<speaker, route, unheard>>
    BY <1>0, <1>9, RestCoherent DEF DeliverToModem, Becomes, callVars
  <2>2. /\ Told(Tail(queue), "route", now)
        /\ Has(Tail(queue), "route") <=> Has(queue, "route")
    BY <1>0, <2>1, Delivered
  <2>3. QED
    BY <2>1, <2>2
<1>10. CASE UNCHANGED transmitVars
  BY <1>10 DEF transmitVars, observerVars, callVars
<1>11. QED
  BY <1>1, <1>2, <1>3, <1>4, <1>5, <1>6, <1>7, <1>8, <1>9, <1>10
     DEF TransmitNext, ServiceNext, PhoneNext, BasicNext, SensorNext, VoiceNext, Reports

(* Once the in-call service is unbound, no call stays reported.             *)
LEMMA BoundStep ==
  ASSUME TransmitInv, [TransmitNext]_transmitVars
  PROVE  BoundOK'
<1> USE DEF TransmitInv, BoundOK
<1>0. /\ Voice \in Observers /\ Voice[1] \in Keys /\ queue \in Seq(Messages)
      /\ \A k \in Keys : k \notin Telecom
  BY LiveObservers DEF TransmitTypeOK, Messages, Keys, Basic, SensorKeys, Telecom
<1>1. CASE Reports
  <2>1. PICK t \in States : Becomes(t) /\ Handled(Here, t, lost')
    BY <1>1, ReportsKeep
  <2>2. /\ value'[Voice] \in {value[Voice], "invalid"}
        /\ Ended(queue') <=> Ended(queue)
        /\ Quiet(queue') <=> Quiet(queue)
    BY <2>1 DEF Becomes, Handled, SameRoutes, Here
  <2>3. UNCHANGED <<up, calls, bound>>
    BY <1>1, ReportsKeep, ReportsFrame DEF callVars
  <2>4. QED
    BY <2>2, <2>3
<1>2. CASE Create
  <2>1. Quiet(queue') /\ value'[Voice] = "invalid" /\ UNCHANGED <<calls, bound>>
    BY <1>0, <1>2, NothingWaits DEF Create, DownOK, callVars, Voice, Basic
  <2>2. QED
    BY <2>1
<1>3. CASE Destroy \/ Kill
  BY <1>3 DEF Destroy, Kill
<1>4. CASE AddFeature
  <2>1. value'[Voice] = value[Voice] /\ UNCHANGED <<up, queue, calls, bound>>
    BY <1>0, <1>4, MediatorAssumption DEF AddFeature, Voice, callVars
  <2>2. QED
    BY <2>1
<1>5. CASE SubscriptionsChanged \/ ModemRestarts
  BY <1>5 DEF SubscriptionsChanged, ModemRestarts, observerVars, callVars
<1>6. CASE \/ \E c \in Calls : CallAdded(c) \/ CallStateChanged(c) \/ CallRemoved(c)
           \/ CallAudioStateChanged
  <2>1. /\ (\E c \in Calls : calls'[c] # "none") => bound'
        /\ bound'
    <3>1. CASE \E c \in Calls : CallAdded(c)
      BY <3>1 DEF CallAdded
    <3>2. CASE \E c \in Calls : CallStateChanged(c) \/ CallRemoved(c)
      BY <3>2 DEF CallStateChanged, CallRemoved
    <3>3. CASE CallAudioStateChanged
      BY <3>3 DEF CallAudioStateChanged
    <3>4. QED
      BY <1>6, <3>1, <3>2, <3>3
  <2>2. QED
    BY <2>1
<1>7. CASE Unbind
  <2>1. Broadcast("call", FALSE) /\ UNCHANGED <<up, calls>>
        /\ \A c \in Calls : calls[c] = "none"
    BY <1>7 DEF Unbind
  <2>2. up => Ended(queue')
    BY <2>1, Broadcasts
  <2>3. QED
    BY <2>1, <2>2
<1>8. CASE DeliverRoute
  <2>1. /\ queue # <<>> /\ Head(queue).to = "route" /\ Rest.queue = Tail(queue)
        /\ Rest \in States /\ Head(queue).v \in {"on", "off"}
        /\ UNCHANGED <<up, calls, bound>>
    BY <1>8, RestCoherent DEF DeliverRoute, Received, Messages
  <2>2. Ended(queue) \/ Quiet(queue) => Ended(Tail(queue))
    BY <1>0, <2>1, EndDelivered DEF Telecom
  <2>3. Ended(queue') <=> Ended(Tail(queue))
    <3>1. queue' = transmitPower(Rest, Voice, Head(queue).v).queue
      BY <1>8 DEF DeliverRoute, Becomes
    <3>2. QED
      BY <1>0, <2>1, <3>1, SendsNoCall
  <2>4. QED
    BY <2>1, <2>2, <2>3
<1>9. CASE DeliverCall
  <2>1. PICK data \in BOOLEAN, screen \in BOOLEAN :
          LET call == Head(queue).v = "on" IN
          Becomes(SensorValues(transmitPower(Rest, Voice, OnIf(call /\ speaker)),
                               call, data, screen))
    BY <1>9 DEF DeliverCall
  <2> DEFINE call == Head(queue).v = "on"
             v == OnIf(call /\ speaker)
             r == transmitPower(Rest, Voice, v)
             t == SensorValues(r, call, data, screen)
  <2>2. /\ queue # <<>> /\ Head(queue).to = "call" /\ Rest.queue = Tail(queue)
        /\ Rest \in States /\ v \in {"on", "off"} /\ UNCHANGED <<up, calls, bound>>
    BY <1>9, RestCoherent DEF DeliverCall, Received, OnIf, callVars
  <2>3. Becomes(t)
    BY <2>1
  <2>4. Head(queue) = [to |-> "call", v |-> "off"] => v = "off"
    BY DEF OnIf
  <2> HIDE DEF v, call
  <2>5. /\ r \in States /\ r.value[Voice] = v
        /\ Ended(r.queue) <=> Ended(Tail(queue))
        /\ Quiet(r.queue) <=> Quiet(Tail(queue))
    <3>1. r \in States /\ r.value = [Rest.value EXCEPT ![Voice] = v]
      BY <1>0, <2>2, Sends
    <3>2. /\ Ended(r.queue) <=> Ended(Rest.queue)
          /\ Quiet(r.queue) <=> Quiet(Rest.queue)
      BY <1>0, <2>2, SendsNoCall
    <3> HIDE DEF r
    <3>3. QED
      BY <1>0, <2>2, <3>1, <3>2 DEF States
  <2> HIDE DEF r
  <2>6. t.queue = r.queue /\ t.value[Voice] = r.value[Voice]
    <3>1. TransmitTypeOK /\ r \in States
      BY <2>5
    <3>2. QED
      BY <3>1, SensorsMasked
  <2>7. queue' = t.queue /\ value' = t.value
    BY <2>3 DEF Becomes
  <2> HIDE DEF t
  <2>8. Ended(queue) \/ Quiet(queue) =>
          \/ Ended(Tail(queue))
          \/ Head(queue) = [to |-> "call", v |-> "off"] /\ Quiet(Tail(queue))
    BY <1>0, <2>2, EndDelivered DEF Telecom
  <2>9. QED
    BY <2>2, <2>4, <2>5, <2>6, <2>7, <2>8
<1>10. CASE DeliverToModem
  <2>1. /\ queue # <<>> /\ Head(queue).to \in Keys /\ queue' = Tail(queue)
        /\ UNCHANGED <<up, value, calls, bound>>
    BY <1>10, RestCoherent DEF DeliverToModem, Becomes, callVars
  <2>2. /\ Ended(queue) => Ended(Tail(queue))
        /\ Quiet(queue) => Quiet(Tail(queue))
    <3>1. Head(queue).to # "call"
      BY <1>0, <2>1 DEF Telecom
    <3>2. QED
      BY <1>0, <2>1, <3>1, EndDelivered
  <2>3. QED
    BY <2>1, <2>2
<1>11. CASE UNCHANGED transmitVars
  BY <1>11 DEF transmitVars, observerVars, callVars
<1>12. QED
  BY <1>1, <1>2, <1>3, <1>4, <1>5, <1>6, <1>7, <1>8, <1>9, <1>10, <1>11
     DEF TransmitNext, ServiceNext, PhoneNext, BasicNext, SensorNext, VoiceNext, Reports

(* The observers' account of the modem.                                     *)
LEMMA ModemStep ==
  ASSUME TransmitInv, [TransmitNext]_transmitVars
  PROVE  ModemOK'
<1> USE DEF TransmitInv
<1>0. /\ Here \in States /\ Voice \in Live /\ Voice \in Observers
      /\ "route" \notin Keys /\ "call" \notin Keys
  BY LiveObservers DEF Keys, Basic, SensorKeys
<1>1. CASE Reports
  <2>1. PICK t \in States : Becomes(t) /\ Handled(Here, t, lost')
    BY <1>1, ReportsKeep
  <2>2. Coherent(Here, lost)'
    BY <1>1, <2>1, ReportsFrame, BecomesCoherent DEF Handled
  <2>3. QED
    BY <2>2 DEF ModemOK
<1>2. CASE Create
  <2>1. \A o \in Live : value'[o] = "invalid" /\ features' = features
    <3>1. \A o \in Live : o \in Observers /\ (o[1] \in Basic \/ o \in Sensors(features))
      BY LiveObservers DEF Live
    <3>2. QED
      BY <1>2, <3>1 DEF Create, DownOK
  <2>2. Here'.value = value' /\ (features' = features => Live' = Live)
    BY DEF Here, Live
  <2>3. features' = features
    BY <1>2 DEF Create
  <2>4. \A o \in Live' : Here'.value[o] = "invalid"
    BY <2>1, <2>2, <2>3
  <2>5. Coherent(Here, lost)'
    BY <2>4 DEF Coherent, Holds
  <2>6. QED
    BY <2>5 DEF ModemOK
<1>3. CASE Destroy \/ Kill
  BY <1>3 DEF Destroy, Kill, ModemOK
<1>4. CASE AddFeature
  <2>1. PICK f \in Features \ features :
          /\ features' = features \cup {f}
          /\ value' = [o \in Observers |-> IF o[2] = f THEN "invalid" ELSE value[o]]
          /\ masked' = masked \ Sensors({f})
    BY <1>4 DEF AddFeature
  <2>2. UNCHANGED <<up, queue, modem, lost>>
    BY <1>4 DEF AddFeature
  <2>3. ASSUME up, Coherent(Here, lost), NEW o \in Live' PROVE Holds(Here, o, lost)'
    <3>1. o \in Observers /\ (o \in Live \/ o[2] = f)
      BY <2>1, MediatorAssumption DEF Live, Sensors, Observers, TransmitTypeOK
    <3>2. CASE o[2] = f
      BY <2>1, <3>1, <3>2 DEF Holds, Here
    <3>3. CASE o[2] # f
      <4>1. o \in Live /\ value'[o] = value[o] /\ (o \notin masked' => o \notin masked)
        BY <2>1, <3>1, <3>3 DEF Sensors
      <4>2. Alone(o)' => Alone(o)
        BY <2>1, <3>3, <4>1 DEF Alone, Live, Sensors
      <4>3. Holds(Here, o, lost)
        BY <2>3, <4>1 DEF Coherent
      <4>4. QED
        BY <2>2, <4>1, <4>2, <4>3 DEF Holds, Here
    <3>4. QED
      BY <3>2, <3>3
  <2>4. QED
    BY <2>2, <2>3 DEF ModemOK, Coherent
<1>5. CASE SubscriptionsChanged
  BY <1>5 DEF SubscriptionsChanged, ModemOK, Coherent, Holds, Here, Live, Alone,
              observerVars, sensorVars
<1>6. CASE ModemRestarts
  <2>1. UNCHANGED <<up, value, queue, masked, features>> /\ lost' = Keys
    BY <1>6 DEF ModemRestarts, observerVars, sensorVars
  <2>2. \A o \in Live : o[1] \in Keys
    BY LiveObservers
  <2>3. QED
    BY <2>1, <2>2 DEF ModemOK, Coherent, Holds, Here, Live, Alone
<1>7. ASSUME \/ \E c \in Calls : CallAdded(c) \/ CallStateChanged(c) \/ CallRemoved(c)
             \/ Unbind \/ CallAudioStateChanged
      PROVE  ModemOK'
  <2>1. UNCHANGED <<up, value, masked, features, modem, lost>>
    BY <1>7 DEF CallAdded, CallStateChanged, CallRemoved, Unbind, CallAudioStateChanged,
                observerVars, sensorVars
  <2>2. \/ UNCHANGED queue
        \/ \E to \in {"call", "route"}, b \in BOOLEAN : Broadcast(to, b)
    BY <1>7 DEF CallAdded, CallStateChanged, CallRemoved, Unbind, CallAudioStateChanged,
                observerVars
  <2>3. ASSUME up, NEW o \in Live, Holds(Here, o, lost) PROVE Holds(Here, o, lost)'
    <3>1. o[1] \in Keys
      BY LiveObservers
    <3>2. CASE UNCHANGED queue
      BY <2>1, <2>3, <3>2 DEF Holds, Here, Alone
    <3>3. ASSUME NEW to \in {"call", "route"}, NEW b \in BOOLEAN, Broadcast(to, b)
          PROVE  Holds(Here, o, lost)'
      <4>1. o[1] # to
        BY <1>0, <3>1, <3>3
      <4>2. /\ Has(queue', o[1]) <=> Has(queue, o[1])
            /\ Told(queue', o[1], value[o]) <=> Told(queue, o[1], value[o])
        BY <3>3, <4>1, Broadcasts
      <4>3. QED
        BY <2>1, <2>3, <4>2 DEF Holds, Here, Alone
    <3>4. QED
      BY <2>2, <3>2, <3>3
  <2>4. Live' = Live
    BY <2>1 DEF Live
  <2>5. QED
    BY <2>1, <2>3, <2>4 DEF ModemOK, Coherent
<1>8. CASE DeliverRoute
  <2>1. /\ up /\ queue # <<>> /\ Head(queue).to \notin Keys
        /\ Rest \in States /\ Head(queue).v \in {"on", "off"}
    BY <1>0, <1>8, RestCoherent DEF DeliverRoute, Received, Messages, DownOK
  <2>2. Coherent(Rest, lost)
    BY <2>1, RestCoherent DEF ModemOK
  <2>3. Coherent(transmitPower(Rest, Voice, Head(queue).v), lost)
    BY <1>0, <2>1, <2>2, SendsCoherently
  <2>4. QED
    BY <1>8, <2>3, BecomesCoherent DEF DeliverRoute, ModemOK, sensorVars
<1>9. CASE DeliverCall
  <2>1. PICK data \in BOOLEAN, screen \in BOOLEAN :
          LET call == Head(queue).v = "on" IN
          Becomes(SensorValues(transmitPower(Rest, Voice, OnIf(call /\ speaker)),
                               call, data, screen))
    BY <1>9 DEF DeliverCall
  <2> DEFINE call == Head(queue).v = "on"
             v == OnIf(call /\ speaker)
             r == transmitPower(Rest, Voice, v)
             t == SensorValues(r, call, data, screen)
  <2>2. /\ up /\ queue # <<>> /\ Head(queue).to \notin Keys
        /\ Rest \in States /\ v \in {"on", "off"}
    BY <1>0, <1>9, RestCoherent DEF DeliverCall, Received, OnIf, DownOK
  <2>3. Becomes(t)
    BY <2>1
  <2> HIDE DEF v, call
  <2>4. Coherent(Rest, lost)
    BY <2>2, RestCoherent DEF ModemOK
  <2>5. Coherent(r, lost)
    BY <1>0, <2>2, <2>4, SendsCoherently
  <2>6. Voice[1] \in Keys
    BY LiveObservers
  <2>7. r \in States
    BY <1>0, <2>2, <2>6, Sends
  <2> HIDE DEF r
  <2>8. Coherent(t, lost)
    BY <2>5, <2>7, SensorsMasked
  <2> HIDE DEF t
  <2>9. QED
    BY <1>9, <2>3, <2>8, BecomesCoherent DEF DeliverCall, ModemOK
<1>10. CASE DeliverToModem
  <2>1. /\ up /\ queue # <<>> /\ Head(queue) \in Messages /\ queue \in Seq(Messages)
        /\ queue' = Tail(queue) /\ UNCHANGED <<up, value, masked, features>>
    BY <1>10, RestCoherent DEF DeliverToModem, Becomes, DownOK, sensorVars,
       TransmitTypeOK, Messages
  <2> DEFINE m == Head(queue)
  <2>2. \/ modem' = [modem EXCEPT ![m.to] = m.v] /\ lost' = lost \ {m.to}
        \/ lost' = lost \cup {m.to} /\ UNCHANGED modem
    BY <1>10 DEF DeliverToModem
  <2>3. ASSUME NEW o \in Live, Holds(Here, o, lost) PROVE Holds(Here, o, lost)'
    <3>1. o[1] \in Keys /\ Alone(o)' = Alone(o)
      BY <2>1, LiveObservers DEF Alone
    <3>2. SUFFICES ASSUME Told(queue, o[1], value[o]),
                          ~Has(queue, o[1]) => o[1] \in lost \/ modem[o[1]] = value[o]
                   PROVE  /\ Told(queue', o[1], value[o])
                          /\ ~Has(queue', o[1]) => o[1] \in lost' \/ modem'[o[1]] = value[o]
      BY <2>1, <2>3, <3>1 DEF Holds, Here
    <3>3. /\ Told(queue', o[1], value[o])
          /\ m.to # o[1] => (Has(queue', o[1]) <=> Has(queue, o[1]))
          /\ m.to = o[1] /\ ~Has(queue', o[1]) => m.v = value[o]
      BY <2>1, <3>2, Delivered
    <3> HIDE DEF m
    <3>4. modem \in [Keys -> Values]
      BY DEF TransmitTypeOK
    <3>5. QED
      BY <2>2, <3>1, <3>2, <3>3, <3>4
  <2>4. Live' = Live
    BY <2>1 DEF Live
  <2>5. QED
    BY <2>1, <2>3, <2>4 DEF ModemOK, Coherent
<1>11. CASE UNCHANGED transmitVars
  BY <1>11 DEF transmitVars, observerVars, sensorVars, ModemOK, Coherent, Holds, Here,
               Live, Alone
<1>12. QED
  BY <1>1, <1>2, <1>3, <1>4, <1>5, <1>6, <1>7, <1>8, <1>9, <1>10, <1>11
     DEF TransmitNext, ServiceNext, PhoneNext, BasicNext, SensorNext, VoiceNext, Reports
---------------------------------------------------------------------------
LEMMA Start == TransmitInit => TransmitInv
<1> SUFFICES ASSUME TransmitInit PROVE TransmitInv
  OBVIOUS
<1> USE DEF TransmitInit
<1>1. <<>> \in Seq(Messages)
  OBVIOUS
<1>2. TransmitTypeOK
  BY <1>1 DEF TransmitTypeOK, Values, Messages
<1>3. SensorsOff /\ DownOK /\ ModemOK
  BY DEF SensorsOff, DownOK, ModemOK, Sensors
<1>4. VoiceOK
  BY <1>2, LiveObservers DEF VoiceOK
<1>5. RouteOK
  BY NothingWaits DEF RouteOK
<1>6. BoundOK
  BY DEF BoundOK
<1>7. QED
  BY <1>2, <1>3, <1>4, <1>5, <1>6 DEF TransmitInv

(* The invariant holds, whatever order calls, broadcasts, failures and      *)
(* restarts come in.                                                        *)
THEOREM TransmitInvariance == TransmitSpec => []TransmitInv
<1>1. TransmitInv /\ [TransmitNext]_transmitVars => TransmitInv'
  BY Types, SensorsStep, DownStep, VoiceStep, RouteStep, BoundStep, ModemStep DEF TransmitInv
<1>2. QED
  BY Start, <1>1, PTL DEF TransmitSpec

(* Values, broadcasts and sensors are of their types.                       *)
THEOREM TransmitTypeCorrect == TransmitSpec => []TransmitTypeOK
<1>1. TransmitInv => TransmitTypeOK
  BY DEF TransmitInv
<1>2. QED
  BY <1>1, TransmitInvariance, PTL

(* No sensor is on without the service.                                     *)
THEOREM SensorsAreOff == TransmitSpec => []SensorsOff
<1>1. TransmitInv => SensorsOff
  BY DEF TransmitInv
<1>2. QED
  BY <1>1, TransmitInvariance, PTL

(* The modem hears of a call on the earpiece only while the in-call service *)
(* is bound, and then only on that route, as far as it could be told.       *)
THEOREM CallsAreOnTheEarpiece == TransmitSpec => []EarpieceOnly
<1>1. TransmitInv => EarpieceOnly
  BY NothingWaits DEF TransmitInv, EarpieceOnly, Reported, VoiceOK, RouteOK, BoundOK, Settled
<1>2. QED
  BY <1>1, TransmitInvariance, PTL

(* The modem has what the observers take for sent.                          *)
THEOREM ModemIsTold == TransmitSpec => []ModemFollows
<1>1. TransmitInv => ModemFollows
  <2> SUFFICES ASSUME TransmitInv, Settled, NEW o \in Live, value[o] # "invalid",
                      o[1] \notin lost, o \notin masked, Alone(o)
               PROVE  modem[o[1]] = value[o]
    BY DEF ModemFollows
  <2>1. Holds(Here, o, lost) /\ queue = <<>>
    BY DEF TransmitInv, ModemOK, Coherent, Settled
  <2>2. QED
    BY <2>1, NothingWaits DEF Holds, Here
<1>2. QED
  BY <1>1, TransmitInvariance, PTL
=============================================================================
