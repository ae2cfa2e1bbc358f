---------------------------- MODULE TransmitPower ---------------------------
(***************************************************************************)
(* The transmit power service tells the modem what is near the antennas.   *)
(* Observers keep the value last sent for their key and send a new one by  *)
(* a local broadcast to the mediator, which requests it from the modem.    *)
(* Everything runs on the main thread of the phone process: a handler is   *)
(* one step, but its broadcasts are delivered later, after other handlers, *)
(* and then all those waiting at once.  The service can be destroyed, the  *)
(* process killed (it is sticky and comes back), a request can fail, and   *)
(* the broadcast that brings the sensor feature can arrive too late.       *)
(***************************************************************************)
EXTENDS Integers, Sequences

CONSTANTS
  Calls,       \* calls the in-call service may hold
  Features,    \* SensorFeature objects that can be alive at a time
  Mediator,    \* owner of the observers that are no feature's
  MaxQueue,    \* bound: events come while fewer broadcasts wait
  MaxPending   \* bound on ACTION_FEATURE broadcasts under way

ASSUME MediatorAssumption == Mediator \notin Features
ASSUME TransmitBounds     == MaxQueue \in Nat /\ MaxPending \in Nat

Basic      == {"battery", "wifi", "voice"}
SensorKeys == {"acc", "prox"}
Keys       == Basic \cup SensorKeys
Battery    == <<"battery", Mediator>>
Wifi       == <<"wifi", Mediator>>
Voice      == <<"voice", Mediator>>
Observers  == (Basic \X {Mediator}) \cup (SensorKeys \X Features)
Values     == {"on", "off", "invalid"}      \* mValueOn, mValueOff, INVALID_VALUE

VARIABLES
  up,         \* the service is created, its receivers are registered
  phones,     \* the phone state listeners are
  value,      \* mCurrentValue of each observer
  queue,      \* local broadcasts that wait
  draining,   \* they are being delivered
  pending,    \* ACTION_FEATURE broadcasts that have not arrived
  features,   \* features whose observers are listeners of the mediator
  observed,   \* <<sensor, feature>>: mIsObserved
  speaker,    \* TelecommObserver.mIsBuiltinSpeaker
  calls, route,     \* calls and audio route as the in-call service knows them
  bound,      \* the in-call service is: from its first call on to onUnbind
  modem,      \* the value the modem has for each key
  lost,       \* history: keys of failed requests, or not set since it restarted
  masked,     \* history: observers whose value was changed without sending it
  unheard     \* history: an audio route was sent while nobody received it

observerVars == <<value, queue, masked>>
callVars     == <<speaker, calls, route, bound, unheard>>
sensorVars   == <<pending, features, observed>>
transmitVars == <<up, phones, observerVars, draining, sensorVars, callVars,
                  modem, lost>>

Sensors(F) == SensorKeys \X F
Live       == (Basic \X {Mediator}) \cup Sensors(features)

TransmitInit ==
  /\ up = FALSE /\ phones = FALSE /\ draining = FALSE
  /\ value = [o \in Observers |-> "invalid"] /\ queue = <<>> /\ masked = {}
  /\ pending = 0 /\ features = {} /\ observed = {}
  /\ speaker = FALSE /\ calls = [c \in Calls |-> "none"] /\ route = "speaker"
  /\ bound = FALSE /\ unheard = FALSE
  /\ modem = [k \in Keys |-> "invalid"] /\ lost = Keys
---------------------------------------------------------------------------
(* Observers.  A handler may send several values: s is the state it is in.  *)
Here == [value |-> value, queue |-> queue, masked |-> masked]

Becomes(s) == value' = s.value /\ queue' = s.queue /\ masked' = s.masked

Set(s, o, v) == [s EXCEPT !.value[o] = v]                 \* update, in the base

transmitPower(s, o, v) ==
  IF s.value[o] = v \/ v \notin {"on", "off"} THEN s
  ELSE [value  |-> [s.value EXCEPT ![o] = v],
        queue  |-> IF up THEN Append(s.queue, [to |-> o[1], v |-> v]) ELSE s.queue,
        masked |-> s.masked \ {o}]

(* A low voltage turns the value off, and the code goes on to turn it on.   *)
transmitPowerByIntent(s, voltage) ==
  LET off == transmitPower(s, Battery, "off") IN
  CASE voltage = "none" -> off
    [] voltage = "low"  -> transmitPower(off, Battery, "on")
    [] voltage = "ok"   -> transmitPower(s, Battery, "on")

ByState(ap) == CASE ap = "enabled"  -> "on"
                 [] ap = "disabled" -> "off"
                 [] ap = "changing" -> "invalid"

(* The value by an intent of P2P discovery or connection, sticky or received*)
ByP2p(ap, p2p) == CASE p2p = "none" -> ByState(ap)
                    [] p2p = "yes"  -> "on"
                    [] p2p = "no"   -> "off"

Voltages == {"none", "low", "ok"}
ApStates == {"enabled", "disabled", "changing"}
P2p      == {"none", "yes", "no"}

(* update(INVALID_VALUE) of the battery and the Wi-Fi observer: the value   *)
(* is forgotten so that the present one is sent whatever it is.             *)
UpdateBatteryKeeps(s, voltage) == transmitPowerByIntent(s, voltage)    \* mutant
UpdateBattery(s, voltage) ==
  transmitPowerByIntent(Set(s, Battery, "invalid"), voltage)

UpdateWifi(s, ap, discovery, connection) ==
  LET on == "on" \in {ByState(ap), ByP2p(ap, discovery), ByP2p(ap, connection)}
  IN transmitPower(Set(s, Wifi, "invalid"), Wifi, IF on THEN "on" ELSE "off")

(* updateSensorState with its SensorState: sensors are on in a call and for *)
(* data with the screen on; otherwise update sets the value that transmit-  *)
(* Power is then asked to send, and finds unchanged: a new value is masked. *)
PowerOn(call, data, screen) == call \/ (data /\ screen)

SensorValues(s, call, data, screen) ==
  LET v == IF data THEN "on" ELSE "off" IN
  IF PowerOn(call, data, screen) THEN s
  ELSE [s EXCEPT
         !.value  = [o \in Observers |-> IF o \in Sensors(features) THEN v ELSE s.value[o]],
         !.masked = @ \cup {o \in Sensors(features) : s.value[o] # v}]

(* Each sensor registers on its own, and each may fail to.                  *)
Listen(call, data, screen) ==
  IF PowerOn(call, data, screen)
  THEN \E new \in SUBSET Sensors(features) : observed' = observed \cup new
  ELSE observed' = {}
---------------------------------------------------------------------------
(* Life cycle.  BootCompletedReceiver or START_STICKY create the service.   *)
(* init makes new observers and broadcasts ACTION_FEATURE.                  *)
Create ==
  /\ ~up /\ ~draining /\ pending < MaxPending
  /\ up' = TRUE /\ pending' = pending + 1
  /\ value' = [o \in Observers |-> IF o[1] \in Basic THEN "invalid" ELSE value[o]]
  /\ UNCHANGED <<phones, queue, masked, draining, features, observed, callVars,
                 modem, lost>>

RouteLost == unheard \/ \E i \in 1..Len(queue) : queue[i].to = "route"

(* clean: a broadcast still under way finds its receiver unregistered.      *)
DestroyKeepsSensors ==                    \* mutant: without the features' clean
  /\ up /\ ~draining
  /\ up' = FALSE /\ phones' = FALSE
  /\ queue' = <<>> /\ unheard' = RouteLost
  /\ features' = {}
  /\ UNCHANGED <<value, masked, draining, pending, observed, speaker, calls, route, bound,
                 modem, lost>>

DestroyKeepsPhones ==                     \* mutant: they are not told LISTEN_NONE
  /\ up /\ ~draining
  /\ up' = FALSE
  /\ queue' = <<>> /\ unheard' = RouteLost
  /\ features' = {} /\ observed' = {}
  /\ UNCHANGED <<phones, value, masked, draining, pending, speaker, calls, route, bound,
                 modem, lost>>

Destroy ==
  /\ up /\ ~draining
  /\ up' = FALSE /\ phones' = FALSE
  /\ queue' = <<>> /\ unheard' = RouteLost
  /\ features' = {} /\ observed' = {}
  /\ UNCHANGED <<value, masked, draining, pending, speaker, calls, route, bound,
                 modem, lost>>

(* The phone process dies, and its calls with it.                           *)
Kill ==
  /\ up' = FALSE /\ phones' = FALSE /\ draining' = FALSE
  /\ value' = [o \in Observers |-> "invalid"] /\ queue' = <<>> /\ masked' = {}
  /\ features' = {} /\ observed' = {}
  /\ speaker' = FALSE /\ calls' = [c \in Calls |-> "none"]
  /\ bound' = FALSE /\ unheard' = FALSE
  /\ UNCHANGED <<pending, route, modem, lost>>

(* FeatureIntentReceiver creates a SensorFeature, whether or not the        *)
(* service is there.                                                        *)
AddFeature ==
  /\ ~draining /\ pending > 0 /\ pending' = pending - 1
  /\ \E f \in Features \ features :
       /\ features' = features \cup {f}
       /\ value' = [o \in Observers |-> IF o[2] = f THEN "invalid" ELSE value[o]]
       /\ masked' = masked \ Sensors({f})
  /\ UNCHANGED <<up, phones, queue, draining, observed, callVars, modem, lost>>

SubscriptionsChanged ==
  /\ up /\ ~draining /\ phones' = TRUE
  /\ UNCHANGED <<up, observerVars, draining, sensorVars, callVars, modem, lost>>

(* The modem starts anew; the phone is in service again some time later.    *)
ModemRestarts ==
  /\ modem' = [k \in Keys |-> "invalid"] /\ lost' = Keys
  /\ UNCHANGED <<up, phones, observerVars, draining, sensorVars, callVars>>

(* A main thread free for the next handler.                                 *)
Ready == up /\ ~draining /\ Len(queue) < MaxQueue

(* STATE_IN_SERVICE, STATE_EMERGENCY_ONLY: the observers report anew.       *)
ServiceStateChanged ==
  /\ Ready /\ phones
  /\ \E s \in {UpdateWifi(UpdateBattery(Here, voltage), ap, discovery, connection) :
               voltage \in Voltages, ap \in ApStates, discovery, connection \in P2p},
        call, data, screen \in BOOLEAN :
       /\ Becomes(SensorValues(Set(s, Voice, "invalid"), call, data, screen))
       /\ Listen(call, data, screen)
  /\ lost' = lost \ {"battery", "wifi"}
  /\ UNCHANGED <<up, phones, draining, pending, features, callVars, modem>>
---------------------------------------------------------------------------
(* Battery, Wi-Fi.                                                          *)
BatteryChanged ==
  /\ Ready
  /\ \E voltage \in {"low", "ok"} : Becomes(transmitPowerByIntent(Here, voltage))
  /\ UNCHANGED <<up, phones, draining, sensorVars, callVars, modem, lost>>

WifiChanged ==
  /\ Ready
  /\ \E ap \in ApStates :
       \/ /\ ByState(ap) # "invalid"                    \* WIFI_AP_STATE_CHANGED
          /\ Becomes(transmitPower(Here, Wifi, ByState(ap)))
       \/ \E p2p \in {"yes", "no"} :                    \* WIFI_P2P_..._CHANGED
            Becomes(transmitPower(Here, Wifi, ByP2p(ap, p2p)))
  /\ UNCHANGED <<up, phones, draining, sensorVars, callVars, modem, lost>>
---------------------------------------------------------------------------
(* Sensors: what the screen or the data activity asks for, what they see.   *)
(* An object that is near stops the accelerometer.                          *)
ScreenOrDataChanged ==
  /\ Ready
  /\ \E call, data, screen \in BOOLEAN :
       /\ Becomes(SensorValues(Here, call, data, screen))
       /\ Listen(call, data, screen)
  /\ UNCHANGED <<up, phones, draining, pending, features, callVars, modem, lost>>

ProximityChanged ==
  /\ ~draining /\ Len(queue) < MaxQueue
  /\ \E f \in Features :
       /\ <<"prox", f>> \in observed
       /\ \/ /\ Becomes(transmitPower(Here, <<"prox", f>>, "on"))
             /\ observed' = observed \ {<<"acc", f>>}
          \/ /\ Becomes(transmitPower(Here, <<"prox", f>>, "off"))
             /\ UNCHANGED observed
  /\ UNCHANGED <<up, phones, draining, pending, features, callVars, modem, lost>>

MotionChanged ==
  /\ ~draining /\ Len(queue) < MaxQueue
  /\ \E f \in Features, v \in {"on", "off"} :
       /\ <<"acc", f>> \in observed
       /\ Becomes(transmitPower(Here, <<"acc", f>>, v))
  /\ UNCHANGED <<up, phones, draining, sensorVars, callVars, modem, lost>>
---------------------------------------------------------------------------
OnIf(b) == IF b THEN "on" ELSE "off"

(* Calls.  The in-call service is in the same process and broadcasts to the *)
(* TelecommObserver, in vain if that is not registered.                     *)
Broadcast(to, v) ==
  IF up THEN queue' = Append(queue, [to |-> to, v |-> OnIf(v)]) /\ UNCHANGED unheard
  ELSE UNCHANGED queue /\ unheard' = (unheard \/ to = "route")

Free == ~draining /\ Len(queue) < MaxQueue

CallAdded(c) ==
  /\ Free /\ calls[c] = "none"
  /\ calls' = [calls EXCEPT ![c] = "inactive"] /\ bound' = TRUE
  /\ UNCHANGED <<up, phones, observerVars, draining, sensorVars, speaker, route,
                 unheard, modem, lost>>

CallStateChanged(c) ==
  /\ Free /\ calls[c] # "none"
  /\ \E s \in {"inactive", "active"} :
       calls' = [calls EXCEPT ![c] = s] /\ Broadcast("call", s = "active")
  /\ UNCHANGED <<up, phones, value, masked, draining, sensorVars, speaker, route,
                 bound, modem, lost>>

(* onCallRemoved tells nobody; onUnbind comes some time after the last call.*)
CallRemoved(c) ==
  /\ Free /\ calls[c] # "none"
  /\ calls' = [calls EXCEPT ![c] = "none"]
  /\ UNCHANGED <<up, phones, observerVars, draining, sensorVars, speaker, route, bound,
                 unheard, modem, lost>>

Unbind ==
  /\ Free /\ bound /\ \A c \in Calls : calls[c] = "none"
  /\ bound' = FALSE /\ Broadcast("call", FALSE)
  /\ UNCHANGED <<up, phones, value, masked, draining, sensorVars, speaker, calls, route,
                 modem, lost>>

CallAudioStateChanged ==
  /\ Free /\ bound
  /\ route' \in {"earpiece", "speaker"}
  /\ Broadcast("route", route' = "earpiece")
  /\ UNCHANGED <<up, phones, value, masked, draining, sensorVars, speaker, calls,
                 bound, modem, lost>>
---------------------------------------------------------------------------
(* Delivery, in order, until no broadcast waits.                            *)
Received(to) == queue # <<>> /\ Head(queue).to = to
Rest         == [Here EXCEPT !.queue = Tail(queue)]

(* onCallAudioStateChanged of the VoiceCallObserver.                        *)
DeliverRouteStores ==                     \* mutant: mIsBuiltinSpeaker is all it sets
  /\ Received("route")
  /\ speaker' = (Head(queue).v = "on") /\ unheard' = FALSE
  /\ Becomes(Rest)
  /\ draining' = (queue' # <<>>)
  /\ UNCHANGED <<up, phones, sensorVars, calls, route, bound, modem, lost>>

DeliverRoute ==
  /\ Received("route")
  /\ speaker' = (Head(queue).v = "on") /\ unheard' = FALSE
  /\ Becomes(transmitPower(Rest, Voice, Head(queue).v))
  /\ draining' = (queue' # <<>>)
  /\ UNCHANGED <<up, phones, sensorVars, calls, route, bound, modem, lost>>

(* onCallStateChanged of the VoiceCallObserver and the sensors' observers.  *)
DeliverCall ==
  /\ Received("call")
  /\ \E data, screen \in BOOLEAN :
       LET call == Head(queue).v = "on" IN
       /\ Becomes(SensorValues(transmitPower(Rest, Voice, OnIf(call /\ speaker)),
                               call, data, screen))
       /\ Listen(call, data, screen)
  /\ draining' = (queue' # <<>>)
  /\ UNCHANGED <<up, phones, pending, features, callVars, modem, lost>>

(* Transmitter.transmitPower: the modem is asked, a failure only logged.    *)
DeliverToModem ==
  /\ queue # <<>> /\ Head(queue).to \in Keys
  /\ LET m == Head(queue) IN
       \/ modem' = [modem EXCEPT ![m.to] = m.v] /\ lost' = lost \ {m.to}
       \/ lost' = lost \cup {m.to} /\ UNCHANGED modem
  /\ Becomes(Rest)
  /\ draining' = (queue' # <<>>)
  /\ UNCHANGED <<up, phones, sensorVars, callVars>>
---------------------------------------------------------------------------
ServiceNext == Create \/ Destroy \/ Kill \/ DeliverToModem
PhoneNext   == ModemRestarts \/ SubscriptionsChanged \/ ServiceStateChanged
BasicNext   == BatteryChanged \/ WifiChanged
SensorNext  == AddFeature \/ ScreenOrDataChanged \/ ProximityChanged \/ MotionChanged
VoiceNext   == \/ \E c \in Calls : CallAdded(c) \/ CallStateChanged(c) \/ CallRemoved(c)
               \/ Unbind \/ CallAudioStateChanged \/ DeliverRoute \/ DeliverCall

TransmitNext == ServiceNext \/ PhoneNext \/ BasicNext \/ SensorNext \/ VoiceNext

TransmitSpec == TransmitInit /\ [][TransmitNext]_transmitVars
---------------------------------------------------------------------------
(* Type correctness, and no phone state is heard without the service.       *)
TransmitTypeOK ==
  /\ up \in BOOLEAN /\ phones \in BOOLEAN /\ draining \in BOOLEAN /\ (phones => up)
  /\ value \in [Observers -> Values]
  /\ queue \in Seq([to : Keys \cup {"call", "route"}, v : {"on", "off"}])
  /\ masked \subseteq Observers
  /\ pending \in Nat /\ features \subseteq Features
  /\ observed \subseteq Sensors(Features)
  /\ speaker \in BOOLEAN /\ bound \in BOOLEAN /\ unheard \in BOOLEAN
  /\ calls \in [Calls -> {"none", "inactive", "active"}]
  /\ route \in {"earpiece", "speaker"}
  /\ modem \in [Keys -> Values] /\ lost \subseteq Keys

Settled == up /\ queue = <<>>
Alone(o) == o[2] = Mediator \/ features = {o[2]}

(* When nothing waits, the modem has the value each observer takes for the  *)
(* one it sent, across lost, repeated and reordered events, restarts of the *)
(* service and of the modem.  Left out: a key whose request failed, values  *)
(* that SensorObserver.update set without sending, and two features that    *)
(* report the same sensor because one arrived late.                         *)
ModemFollows ==
  Settled => \A o \in Live :
    value[o] # "invalid" /\ o[1] \notin lost /\ o \notin masked /\ Alone(o)
      => modem[o[1]] = value[o]

(* "observers should have already been cleaned up by ObserverMediator":     *)
(* no sensor is left on when the service is gone, although features may     *)
(* come at any time and the sensors are switched by whoever hears of a call.*)
SensorsOff == observed \subseteq Sensors(features) /\ (~up => observed = {})

Reported == value[Voice] = "on" /\ modem["voice"] = "on"

(* The modem hears of a call on the earpiece only while the in-call service *)
(* is bound, whatever order calls, routes, unbinding and restarts of the    *)
(* service come in, and only if that is the route, provided the last change *)
(* of the route was sent while someone received it.  It needs no active     *)
(* call: see ActiveCallOnly.                                                *)
EarpieceOnly == Settled /\ Reported => bound /\ (unheard \/ route = "earpiece")

(* "The point is to report a state only during a phone call taken through   *)
(* the earpiece", and a call state is reported for an active call only.     *)
(* This is false of the code: a change of the route is reported by itself,  *)
(* for a call that rings, is on hold or has ended.                          *)
ActiveCallOnly ==
  Settled /\ Reported /\ ~unheard =>
    route = "earpiece" /\ \E c \in Calls : calls[c] = "active"
=============================================================================
