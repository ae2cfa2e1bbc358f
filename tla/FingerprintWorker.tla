------------------------- MODULE FingerprintWorker -------------------------
(***************************************************************************)
(* The two threads of the fingerprint HAL and what they share.             *)
(*                                                                         *)
(* The binder thread serves the client's calls one at a time and hands     *)
(* enroll, authenticate and cancel to the worker thread by adding the      *)
(* number of the requested state to an eventfd.  The worker reads (and     *)
(* zeroes) that counter, takes the sum for one state, and runs the         *)
(* operation while holding mClientCallbackMutex.  running_state is read    *)
(* and written by both threads without synchronisation, so every access    *)
(* to it is a step of its own.                                             *)
(*                                                                         *)
(* The sensor, the TrustZone application and the finger are the            *)
(* environment: their answers are chosen freely.                           *)
(***************************************************************************)
EXTENDS Integers

CONSTANTS
  Clients,   \* callback objects a client may register
  NoClient,  \* mClientCallback == nullptr
  MaxCount   \* the largest value of an eventfd counter (2^64 - 2 in the kernel)

ASSUME ClientAssumption == NoClient \notin Clients
ASSUME CountAssumption  == MaxCount \in Nat

STATE_IDLE   == 0
STATE_ENROLL == 1
STATE_AUTH   == 2
STATE_EXIT   == 3
STATE_CANCEL == 4

Operations == {STATE_ENROLL, STATE_AUTH}
Requests   == Operations \cup {STATE_CANCEL}   \* what the binder thread asks for

VARIABLES
  running,   \* worker.running_state
  efd,       \* the counter of worker.event_fd
  ready,     \* event_fd is on the ready list of worker.epoll_fd (EPOLLET)
  wpc,       \* where the worker thread is
  wreq,      \* what getNextState returned to the worker's loop
  image,     \* what the last fpc_capture_image returned
  mutex,     \* the holder of mClientCallbackMutex
  cb,        \* mClientCallback
  power,     \* the sensor's supply; "stuck" once switching it off has failed
  bpc,       \* where the binder thread is
  breq,      \* the state it was called with
  bcb,       \* the callback setNotify was called with
  asked,     \* history: how often each request was added since the last read
  collided,  \* history: the loop's last read summed up several requests
  outcome    \* history: how the current or last operation ended for its client

binderVars  == <<bpc, breq, bcb>>
counterVars == <<efd, ready, asked>>
loopVars    == <<wreq, collided>>
vars == <<running, wpc, image, mutex, cb, power, outcome,
          binderVars, counterVars, loopVars>>

CaptureLoop == {"capture", "sense", "check", "step"}
Holding     == CaptureLoop \cup {"powerOn", "powerOff", "unlock"}   \* the mutex
WorkerPcs   == Holding \cup
               {"poll", "read", "dispatch", "lock", "return", "exited", "crashed"}

Images   == {"none", "poor", "good"}   \* 1000 and 1001; 1..5; ACQUIRED_GOOD
Outcomes == {"none", "open", "canceled", "failed", "silent", "enrolled",
             "authenticated"}

NothingAsked == [r \in Requests |-> 0]
Writes == asked[STATE_ENROLL] + asked[STATE_AUTH] + asked[STATE_CANCEL]
---------------------------------------------------------------------------
(* Service start: openHal creates the eventfd and switches the sensor on    *)
(* and off in fpc_init; no client has registered yet.                       *)
Init ==  /\ running = STATE_IDLE /\ wpc = "poll" /\ wreq = STATE_IDLE
         /\ efd = 0 /\ ready = FALSE /\ asked = NothingAsked /\ collided = FALSE
         /\ mutex = "free" /\ cb = NoClient /\ image = "none" /\ power = "off"
         /\ bpc = "idle" /\ breq = STATE_IDLE /\ bcb = NoClient
         /\ outcome = "none"
---------------------------------------------------------------------------
(* The eventfd.  A write adds to the counter and marks the descriptor       *)
(* ready, also when it adds 0; it fails if the counter would overflow.  A   *)
(* read returns the whole counter and zeroes it.                            *)
EventfdWriteUnchecked(s) ==               \* mutant: no overflow check
  /\ efd' = efd + s /\ ready' = TRUE
  /\ asked' = [r \in Requests |-> IF r = s THEN asked[r] + 1 ELSE asked[r]]

EventfdWrite(s) ==
  /\ efd + s <= MaxCount
  /\ efd' = efd + s
  /\ ready' = TRUE
  /\ asked' = [r \in Requests |-> IF r = s THEN asked[r] + 1 ELSE asked[r]]

DrainSemaphore ==                         \* mutant: EFD_SEMAPHORE
  /\ efd' = IF efd > 0 THEN efd - 1 ELSE 0
  /\ asked' = NothingAsked /\ UNCHANGED ready

DrainNothing ==                           \* mutant: looked at, not read
  asked' = NothingAsked /\ UNCHANGED <<efd, ready>>

Drain == efd' = 0 /\ asked' = NothingAsked /\ UNCHANGED ready
---------------------------------------------------------------------------
(* The binder thread: one call at a time.                                   *)
BinderRest == UNCHANGED <<running, wpc, image, mutex, power, outcome, loopVars>>
BinderDone == bpc' = "idle" /\ breq' = STATE_IDLE /\ bcb' = NoClient

CallRequest(s) ==
  /\ wpc # "crashed" /\ bpc = "idle"
  /\ bpc' = "check" /\ breq' = s
  /\ UNCHANGED <<bcb, cb, counterVars>> /\ BinderRest

(* enroll() and authenticate() talk to TrustZone first; authenticate()     *)
(* returns SYS_EAGAIN if that fails, which changes nothing here.           *)
Enroll       == CallRequest(STATE_ENROLL)
Authenticate == CallRequest(STATE_AUTH)
Cancel       == CallRequest(STATE_CANCEL)

CallSetNotify(c) ==
  /\ wpc # "crashed" /\ bpc = "idle"
  /\ bpc' = "notify" /\ bcb' = c
  /\ UNCHANGED <<breq, cb, counterVars>> /\ BinderRest

SetNotifyUnlocked ==                      \* mutant: the lock_guard is missing
  /\ bpc = "notify"
  /\ cb' = bcb
  /\ BinderDone /\ UNCHANGED counterVars /\ BinderRest

SetNotify ==
  /\ bpc = "notify" /\ mutex = "free"
  /\ cb' = bcb
  /\ BinderDone /\ UNCHANGED counterVars /\ BinderRest

(* setState, first look at running_state: only CANCEL may join an operation *)
CheckState ==
  /\ bpc = "check"
  /\ IF running # STATE_IDLE /\ breq # STATE_CANCEL
     THEN BinderDone
     ELSE bpc' = "recheck" /\ UNCHANGED <<breq, bcb>>
  /\ UNCHANGED <<cb, counterVars>> /\ BinderRest

(* setState, second look: "Already running in state"                        *)
RecheckState ==
  /\ bpc = "recheck"
  /\ IF running = breq
     THEN BinderDone
     ELSE bpc' = "write" /\ UNCHANGED <<breq, bcb>>
  /\ UNCHANGED <<cb, counterVars>> /\ BinderRest

WriteState ==
  /\ bpc = "write"
  /\ \/ EventfdWrite(breq)
     \/ efd + breq > MaxCount /\ UNCHANGED counterVars
  /\ BinderDone
  /\ UNCHANGED cb /\ BinderRest

BinderStep == SetNotify \/ CheckState \/ RecheckState \/ WriteState
---------------------------------------------------------------------------
(* worker_thread                                                            *)
EpollWait ==
  /\ wpc = "poll" /\ ready
  /\ ready' = FALSE                       \* edge triggered: reported once
  /\ wpc' = IF efd > 0 THEN "read" ELSE "poll"
  /\ UNCHANGED <<running, image, mutex, cb, power, outcome, efd, asked,
                 binderVars, loopVars>>

GetNextState ==
  /\ wpc = "read"
  /\ wreq' = efd /\ collided' = (Writes > 1)
  /\ Drain
  /\ wpc' = "dispatch"
  /\ UNCHANGED <<running, image, mutex, cb, power, outcome, binderVars>>

Dispatch ==
  /\ wpc = "dispatch"
  /\ \/ /\ wreq \in Operations
        /\ running' = wreq /\ wpc' = "lock"
     \/ /\ wreq = STATE_EXIT
        /\ running' = STATE_EXIT /\ wpc' = "exited"
     \/ /\ wreq \notin Operations \cup {STATE_EXIT}   \* IDLE, CANCEL, UNKNOWN
        /\ running' = STATE_IDLE /\ wpc' = "poll"
  /\ wreq' = STATE_IDLE                    \* the value dies with the switch
  /\ UNCHANGED <<image, mutex, cb, power, outcome, binderVars, counterVars,
                 collided>>

(* Back from process_enroll or process_auth to the head of the loop.        *)
LoopHead ==
  /\ wpc = "return"
  /\ running' = STATE_IDLE /\ wpc' = "poll"
  /\ UNCHANGED <<image, mutex, cb, power, outcome, binderVars, counterVars,
                 loopVars>>
---------------------------------------------------------------------------
(* process_enroll and process_auth                                          *)
OpRest == UNCHANGED <<running, cb, binderVars, loopVars>>

LockCallbackUnchecked ==                  \* mutant: the callback may be null
  /\ wpc = "lock" /\ mutex = "free"
  /\ wpc' = "powerOn" /\ mutex' = "worker" /\ outcome' = "open"
  /\ UNCHANGED <<image, power, counterVars>> /\ OpRest

LockCallbackLeaky ==                      \* mutant: early return keeps the mutex
  /\ wpc = "lock" /\ mutex = "free"
  /\ mutex' = "worker"
  /\ IF cb = NoClient
     THEN wpc' = "return" /\ UNCHANGED outcome
     ELSE wpc' = "powerOn" /\ outcome' = "open"
  /\ UNCHANGED <<image, power, counterVars>> /\ OpRest

LockCallback ==
  /\ wpc = "lock" /\ mutex = "free"
  /\ IF cb = NoClient                     \* locked, looked, unlocked again
     THEN wpc' = "return" /\ UNCHANGED <<mutex, outcome>>
     ELSE wpc' = "powerOn" /\ mutex' = "worker" /\ outcome' = "open"
  /\ UNCHANGED <<image, power, counterVars>> /\ OpRest

PowerOn ==
  /\ wpc = "powerOn"
  /\ \/ power' = "on" /\ wpc' = "capture" /\ UNCHANGED outcome
     \/ wpc' = "unlock" /\ outcome' = "failed" /\ UNCHANGED power
  /\ UNCHANGED <<image, mutex, counterVars>> /\ OpRest

(* fpc_capture_image up to the blocking wait: the previous finger must have *)
(* gone (1000) and the wait for the next one must have been set up (1001).  *)
WaitFinger ==
  /\ wpc = "capture"
  /\ \/ image' = "none" /\ wpc' = "check"
     \/ image' = "none" /\ wpc' = "sense"
  /\ UNCHANGED <<mutex, power, outcome, counterVars>> /\ OpRest

(* fpc_poll_event looks at the level of the eventfd, whatever its value.    *)
EventfdNotWatched == FALSE /\ UNCHANGED vars   \* mutant: only the sensor wakes

EventfdWakes ==
  /\ wpc = "sense" /\ efd > 0
  /\ image' = "none" /\ wpc' = "check"
  /\ UNCHANGED <<mutex, power, outcome, counterVars>> /\ OpRest

(* A finger: the image is good, poor, or its capture fails, which ends the  *)
(* operation without a word to the client.  Or epoll_wait itself fails.     *)
Finger ==
  /\ wpc = "sense" /\ efd = 0
  /\ \/ \E i \in Images :
          image' = i /\ wpc' = "check" /\ UNCHANGED outcome
     \/ wpc' = "powerOff" /\ outcome' = "silent" /\ UNCHANGED image
  /\ UNCHANGED <<mutex, power, counterVars>> /\ OpRest

(* isCanceled reads the counter as getNextState does; anything but CANCEL   *)
(* is dropped.  A good image goes on to the step.                           *)
IsCanceledReturns ==                      \* mutant: return instead of break
  /\ wpc = "check"
  /\ Drain
  /\ IF efd = STATE_CANCEL
     THEN wpc' = "unlock" /\ outcome' = "canceled"
     ELSE /\ wpc' = IF image = "good" THEN "step" ELSE "capture"
          /\ UNCHANGED outcome
  /\ UNCHANGED <<image, mutex, power>> /\ OpRest

IsCanceled ==
  /\ wpc = "check"
  /\ Drain
  /\ IF efd = STATE_CANCEL
     THEN wpc' = "powerOff" /\ outcome' = "canceled"
     ELSE /\ wpc' = IF image = "good" THEN "step" ELSE "capture"
          /\ UNCHANGED outcome
  /\ UNCHANGED <<image, mutex, power>> /\ OpRest

(* The operation is over for the client; setState(STATE_IDLE) adds 0.       *)
Succeed(o) ==
  /\ outcome' = o /\ wpc' = "powerOff" /\ EventfdWrite(STATE_IDLE)

EnrollStep ==
  /\ wpc = "step" /\ running = STATE_ENROLL
  /\ \/ wpc' = "capture" /\ UNCHANGED <<outcome, counterVars>>
     \/ Succeed("enrolled")
     \/ wpc' = "powerOff" /\ outcome' = "failed" /\ UNCHANGED counterVars
  /\ UNCHANGED <<image, mutex, power>> /\ OpRest

(* A match ends the operation, a stranger's finger does not.                *)
AuthStep ==
  /\ wpc = "step" /\ running = STATE_AUTH
  /\ \/ wpc' = "capture" /\ UNCHANGED <<outcome, counterVars>>
     \/ Succeed("authenticated")
  /\ UNCHANGED <<image, mutex, power>> /\ OpRest

(* fpc_auth_step failed.  fpc_close takes the address of the field          *)
(* sdev->fpc for the object it points to: what it uses as qsee_handle are   *)
(* bytes 12..19 of db_path, text or zeroes and never a mapped address, so   *)
(* the call through it kills the process.  Nothing in it survives.          *)
AuthTzError ==
  /\ wpc = "step" /\ running = STATE_AUTH
  /\ wpc' = "crashed" /\ running' = STATE_IDLE /\ mutex' = "free"
  /\ image' = "none" /\ cb' = NoClient /\ outcome' = "silent"
  /\ efd' = 0 /\ ready' = FALSE /\ asked' = NothingAsked
  /\ wreq' = STATE_IDLE /\ collided' = FALSE
  /\ BinderDone /\ UNCHANGED power

PowerOff ==
  /\ wpc = "powerOff"
  /\ power' \in {"off", "stuck"}
  /\ wpc' = "unlock"
  /\ UNCHANGED <<image, mutex, outcome, counterVars>> /\ OpRest

(* The lock_guard goes out of scope.                                        *)
Unlock ==
  /\ wpc = "unlock"
  /\ mutex' = "free" /\ wpc' = "return"
  /\ UNCHANGED <<image, power, outcome, counterVars>> /\ OpRest

(* init starts the service again: main and openHal, with the sensor         *)
(* switched on and off in fpc_init.                                         *)
Restart ==
  /\ wpc = "crashed"
  /\ wpc' = "poll" /\ power' = "off"
  /\ UNCHANGED <<image, mutex, outcome, counterVars>> /\ OpRest

(* A start that fails: openHal returns no device, main returns 1 and init   *)
(* tries once more.  fpc_init returns early with the sensor as it found it, *)
(* switched on, or failing to switch off; only a worker thread that cannot  *)
(* be created comes after the sensor is off.                                *)
FailedStart ==
  /\ wpc = "crashed"
  /\ power' \in {"on", "stuck", "off"}
  /\ UNCHANGED <<wpc, image, mutex, outcome, counterVars>> /\ OpRest
---------------------------------------------------------------------------
WorkerStep == \/ EpollWait \/ GetNextState \/ Dispatch \/ LoopHead
              \/ LockCallback \/ PowerOn \/ WaitFinger \/ EventfdWakes
              \/ IsCanceled \/ EnrollStep \/ AuthStep \/ AuthTzError
              \/ PowerOff \/ Unlock

Call == Enroll \/ Authenticate \/ Cancel \/ \E c \in Clients : CallSetNotify(c)

Next == Call \/ BinderStep \/ WorkerStep \/ Finger \/ Restart \/ FailedStart

Spec == Init /\ [][Next]_vars

(* Both threads are scheduled, TrustZone commands return, and init restarts *)
(* the service until a start succeeds; no client has to call and no finger  *)
(* has to come.                                                             *)
FairSpec == Spec /\ WF_vars(WorkerStep) /\ WF_vars(BinderStep) /\ WF_vars(Restart)
---------------------------------------------------------------------------
(* Type correctness of the shared and the private state.                    *)
TypeOK ==
  /\ running \in {STATE_IDLE, STATE_EXIT} \cup Operations
  /\ efd \in 0..MaxCount /\ ready \in BOOLEAN
  /\ asked \in [Requests -> Nat]
  /\ wpc \in WorkerPcs /\ wreq \in 0..MaxCount /\ collided \in BOOLEAN
  /\ image \in Images /\ power \in {"off", "on", "stuck"}
  /\ mutex \in {"free", "worker"} /\ cb \in Clients \cup {NoClient}
  /\ bpc \in {"idle", "check", "recheck", "write", "notify"}
  /\ breq \in Requests \cup {STATE_IDLE} /\ bcb \in Clients \cup {NoClient}
  /\ outcome \in Outcomes

(* "Poll always returns if the data in the eventfd is non-zero"             *)
(* (worker_thread): although the descriptor is edge triggered and is read   *)
(* in two places, a non-empty counter is always either being read or still  *)
(* reported as ready.                                                       *)
NoLostWakeup == efd > 0 => ready \/ wpc = "read"

(* process_enroll and process_auth: the worker uses mClientCallback only    *)
(* while it holds the mutex and the callback is set, it holds the mutex     *)
(* nowhere else, and running_state names the operation all the while.       *)
OperationOwnsCallback ==
  /\ mutex = "worker" <=> wpc \in Holding
  /\ wpc \in Holding => cb # NoClient /\ running \in Operations

(* The sensor is powered only during an operation, on every path out of it, *)
(* unless switching it off failed.                                          *)
PoweredOnlyInOperation ==
  power = "on" => wpc \in CaptureLoop \cup {"powerOff", "crashed"}

(* No call asks the worker to exit: STATE_EXIT can only be the sum of       *)
(* requests that were added up before the worker's loop read them.          *)
ExitOnlyByCollision == wpc = "exited" => collided

(* The HAL implements the session it promises its client.                   *)
Session == INSTANCE FingerprintSession WITH
  NoOperation <- STATE_IDLE, Enroll <- STATE_ENROLL, Auth <- STATE_AUTH,
  op <- IF wpc \in Holding THEN running ELSE STATE_IDLE,
  client <- cb

SessionSpec == Session!Spec

(* cancel(): "setState will never fail for CANCEL".  The worker that looks  *)
(* at the counter during an operation honours a cancel that is in it.       *)
CancelHonoured ==
  [][wpc = "check" /\ asked[STATE_CANCEL] > 0 /\ wpc' # "check"
     => outcome' = "canceled"]_vars

(* A single cancel that arrives while an operation captures images ends it, *)
(* finger or no finger, unless more is added to it before the worker looks. *)
CancelEndsOperation ==
  (wpc \in CaptureLoop /\ efd = STATE_CANCEL)
    ~> (wpc \notin CaptureLoop \/ efd > STATE_CANCEL)

(* Every request is read, at whatever moment it was added, unless the       *)
(* worker has exited.                                                       *)
RequestsAreRead == efd > 0 ~> (efd = 0 \/ wpc = "exited")

(* The only binder thread is held up for good only by an operation that     *)
(* waits for a finger (setNotify needs the mutex the worker holds).         *)
BinderReturns == []<>(bpc = "idle" \/ wpc \in CaptureLoop)
=============================================================================
