------------------------- MODULE FingerprintProofs -------------------------
(***************************************************************************)
(* Theorems about FingerprintWorker, for every set of clients and every    *)
(* capacity of the eventfd counter.                                        *)
(***************************************************************************)
EXTENDS FingerprintWorker, TLAPS

(* A call in progress has the argument its steps use.                       *)
CallOK == /\ bpc \in {"check", "recheck", "write"} => breq \in Requests
          /\ bpc = "notify" => bcb \in Clients

(* The counter is the sum of the requests added since it was last read.     *)
Accounting == efd = STATE_ENROLL * asked[STATE_ENROLL]
                    + STATE_AUTH * asked[STATE_AUTH]
                    + STATE_CANCEL * asked[STATE_CANCEL]

(* The loop has read STATE_EXIT, or has acted on it, only after a collision *)
ExitCollided == /\ wpc = "dispatch" /\ wreq = STATE_EXIT => collided
                /\ wpc = "exited" => collided

(* running_state is set before process_enroll or process_auth is entered.   *)
RunningOK == wpc = "lock" => running \in Operations

(* The client is waiting for a result exactly until it has been given one.  *)
OutcomeOK == /\ wpc \in CaptureLoop \cup {"powerOn"} => outcome = "open"
             /\ wpc \in {"powerOff", "unlock"} => outcome # "open"

(* The inductive invariant.                                                 *)
IInv == /\ TypeOK /\ CallOK /\ Accounting /\ ExitCollided
        /\ NoLostWakeup /\ OperationOwnsCallback /\ PoweredOnlyInOperation
        /\ RunningOK /\ OutcomeOK
---------------------------------------------------------------------------
(* A counter that has just been read accounts for no request.               *)
LEMMA NothingAskedSum ==
  /\ NothingAsked \in [Requests -> Nat]
  /\ NothingAsked[STATE_ENROLL] = 0
  /\ NothingAsked[STATE_AUTH] = 0
  /\ NothingAsked[STATE_CANCEL] = 0
  BY DEF NothingAsked, Requests, Operations, STATE_ENROLL, STATE_AUTH, STATE_CANCEL

(* setState(STATE_IDLE) asks for nothing: it only marks the eventfd ready.  *)
LEMMA IdleWrite ==
  ASSUME asked \in [Requests -> Nat], efd \in Nat, EventfdWrite(STATE_IDLE)
  PROVE  efd' = efd /\ asked' = asked /\ ready' = TRUE
  <1>1. efd' = efd /\ ready' = TRUE
    BY DEF EventfdWrite, STATE_IDLE
  <1>2. asked' = [r \in Requests |-> asked[r]]
    BY DEF EventfdWrite, Requests, Operations, STATE_IDLE, STATE_ENROLL,
           STATE_AUTH, STATE_CANCEL
  <1> QED
    BY <1>1, <1>2

(* openHal leaves both threads, the eventfd and the sensor at rest.         *)
LEMMA InitIInv == Init => IInv
  <1> SUFFICES ASSUME Init PROVE IInv
    OBVIOUS
  <1> USE DEF Init
  <1>1. TypeOK
    <2>1. efd \in 0..MaxCount /\ wreq \in 0..MaxCount /\ asked \in [Requests -> Nat]
      BY CountAssumption, NothingAskedSum DEF STATE_IDLE
    <2>2. wpc \in WorkerPcs /\ image \in Images /\ outcome \in Outcomes
      BY DEF WorkerPcs, Images, Outcomes
    <2> QED
      BY <2>1, <2>2 DEF TypeOK
  <1>2. Accounting
    BY NothingAskedSum DEF Accounting, STATE_ENROLL, STATE_AUTH, STATE_CANCEL
  <1>3. CallOK /\ ExitCollided /\ NoLostWakeup /\ RunningOK /\ OutcomeOK
    BY DEF CallOK, ExitCollided, NoLostWakeup, RunningOK, OutcomeOK, CaptureLoop
  <1>4. OperationOwnsCallback /\ PoweredOnlyInOperation
    BY DEF OperationOwnsCallback, PoweredOnlyInOperation, Holding, CaptureLoop
  <1> QED
    BY <1>1, <1>2, <1>3, <1>4 DEF IInv

(* Type correctness needs no more than itself.                              *)
LEMMA NextTypeOK == TypeOK /\ CallOK /\ [Next]_vars => TypeOK'
  <1> SUFFICES ASSUME TypeOK, CallOK, [Next]_vars PROVE TypeOK'
    OBVIOUS
  <1> USE ClientAssumption, CountAssumption
      DEF TypeOK, binderVars, counterVars, loopVars
  <1>1. ASSUME NEW r \in Requests, CallRequest(r) PROVE TypeOK'
    BY <1>1 DEF CallRequest, BinderRest
  <1>2. ASSUME NEW c \in Clients, CallSetNotify(c) PROVE TypeOK'
    BY <1>2 DEF CallSetNotify, BinderRest
  <1>3. CASE EpollWait
    BY <1>3 DEF EpollWait,
            WorkerPcs
  <1>4. CASE GetNextState
    BY <1>4, NothingAskedSum DEF GetNextState, Drain,
            WorkerPcs
  <1>5. CASE Dispatch
    <2>1. wreq' \in 0..MaxCount /\ running' \in {STATE_IDLE, STATE_EXIT} \cup Operations
      BY <1>5 DEF Dispatch, STATE_IDLE
    <2>2. wpc' \in WorkerPcs
      BY <1>5 DEF Dispatch, WorkerPcs
    <2> QED
      BY <1>5, <2>1, <2>2 DEF Dispatch
  <1>6. CASE LoopHead
    BY <1>6 DEF LoopHead,
            WorkerPcs
  <1>7. CASE LockCallback
    BY <1>7 DEF LockCallback, OpRest,
            WorkerPcs, Holding, Outcomes
  <1>8. CASE PowerOn
    BY <1>8 DEF PowerOn, OpRest,
            WorkerPcs, Holding, CaptureLoop, Outcomes
  <1>9. CASE WaitFinger
    BY <1>9 DEF WaitFinger, OpRest,
            WorkerPcs, Holding, CaptureLoop, Images
  <1>10. CASE EventfdWakes
    BY <1>10 DEF EventfdWakes, OpRest,
            WorkerPcs, Holding, CaptureLoop, Images
  <1>11. CASE IsCanceled
    BY <1>11, NothingAskedSum DEF IsCanceled, Drain, OpRest,
            WorkerPcs, Holding, CaptureLoop, Outcomes
  <1>12. CASE EnrollStep
    <2>1. efd \in Nat
      OBVIOUS
    <2>2. efd' = efd /\ asked' = asked /\ (ready' = ready \/ ready' = TRUE)
      BY <1>12, <2>1, IdleWrite DEF EnrollStep, Succeed
    <2>3. ready' \in BOOLEAN
      BY <2>2
    <2> QED
      BY <1>12, <2>2, <2>3 DEF EnrollStep, Succeed, OpRest,
            WorkerPcs, Holding, CaptureLoop, Outcomes
  <1>13. CASE AuthStep
    <2>1. efd \in Nat
      OBVIOUS
    <2>2. efd' = efd /\ asked' = asked /\ (ready' = ready \/ ready' = TRUE)
      BY <1>13, <2>1, IdleWrite DEF AuthStep, Succeed
    <2>3. ready' \in BOOLEAN
      BY <2>2
    <2> QED
      BY <1>13, <2>2, <2>3 DEF AuthStep, Succeed, OpRest,
            WorkerPcs, Holding, CaptureLoop, Outcomes
  <1>14. CASE AuthTzError
    <2> USE <1>14 DEF AuthTzError, BinderDone
    <2>1. efd' \in 0..MaxCount /\ wreq' \in 0..MaxCount /\ asked' \in [Requests -> Nat]
      BY NothingAskedSum DEF STATE_IDLE
    <2>2. ready' \in BOOLEAN /\ collided' \in BOOLEAN
      OBVIOUS
    <2>3. wpc' \in WorkerPcs /\ image' \in Images /\ outcome' \in Outcomes
      BY DEF WorkerPcs, Images, Outcomes
    <2> QED
      BY <2>1, <2>2, <2>3
  <1>15. CASE PowerOff
    BY <1>15 DEF PowerOff, OpRest,
            WorkerPcs, Holding
  <1>16. CASE Unlock
    BY <1>16 DEF Unlock, OpRest,
            WorkerPcs
  <1>17. CASE Finger
    BY <1>17 DEF Finger, OpRest,
            WorkerPcs, Holding, CaptureLoop, Images, Outcomes
  <1>18. CASE Restart
    BY <1>18 DEF Restart, OpRest,
            WorkerPcs
  <1>28. CASE FailedStart
    BY <1>28 DEF FailedStart, OpRest
  <1>19. CASE SetNotify
    BY <1>19 DEF SetNotify, BinderDone, BinderRest
  <1>20. CASE CheckState
    BY <1>20 DEF CheckState, BinderDone, BinderRest
  <1>21. CASE RecheckState
    BY <1>21 DEF RecheckState, BinderDone, BinderRest
  <1>22. CASE WriteState
    <2> USE <1>22 DEF WriteState, BinderDone, BinderRest
    <2>1. breq \in Requests /\ breq \in Nat
      BY DEF CallOK, Requests, Operations, STATE_ENROLL, STATE_AUTH, STATE_CANCEL
    <2>2. efd' \in 0..MaxCount
      BY <2>1 DEF EventfdWrite
    <2>3. ready' \in BOOLEAN
      BY DEF EventfdWrite
    <2>4. asked' \in [Requests -> Nat]
      BY DEF EventfdWrite
    <2> QED
      BY <2>2, <2>3, <2>4
  <1>23. CASE UNCHANGED vars
    BY <1>23 DEF vars
  <1>24. {STATE_ENROLL, STATE_AUTH, STATE_CANCEL} \subseteq Requests
    BY DEF Requests, Operations
  <1> HIDE DEF TypeOK
  <1> QED
    BY <1>24, <1>1, <1>2, <1>3, <1>4, <1>5, <1>6, <1>7, <1>8, <1>9,
       <1>10, <1>11, <1>12, <1>13, <1>14, <1>15, <1>16, <1>17, <1>18,
       <1>19, <1>20, <1>21, <1>22, <1>23, <1>28 DEF Next, Call, Enroll, Authenticate,
           Cancel, BinderStep, WorkerStep

(* Each step of a thread, of the sensor or of init keeps the invariant.     *)
LEMMA NextIInv == IInv /\ [Next]_vars => IInv'
  <1> SUFFICES ASSUME IInv, [Next]_vars PROVE IInv'
    OBVIOUS
  <1>0. TypeOK'
    BY NextTypeOK DEF IInv
  <1> USE ClientAssumption, CountAssumption
      DEF IInv, TypeOK, CallOK, Accounting, ExitCollided, NoLostWakeup,
          OperationOwnsCallback, PoweredOnlyInOperation, RunningOK, OutcomeOK,
          WorkerPcs, Holding, CaptureLoop, Images, Outcomes, Requests, Operations,
          STATE_IDLE, STATE_ENROLL, STATE_AUTH, STATE_EXIT, STATE_CANCEL,
          binderVars, counterVars, loopVars
  <1>1. ASSUME NEW r \in Requests, CallRequest(r) PROVE IInv'
    BY <1>1 DEF CallRequest, BinderRest
  <1>2. ASSUME NEW c \in Clients, CallSetNotify(c) PROVE IInv'
    BY <1>2 DEF CallSetNotify, BinderRest
  <1>3. CASE EpollWait
    <2>1. TypeOK'
      BY <1>0
    <2>2. OperationOwnsCallback' /\ PoweredOnlyInOperation' /\ RunningOK' /\ OutcomeOK'
      BY <1>3 DEF EpollWait
    <2>3. CallOK' /\ Accounting'
      BY <1>3 DEF EpollWait
    <2>4. ExitCollided' /\ NoLostWakeup'
      BY <1>3 DEF EpollWait
    <2> QED
      BY <2>1, <2>2, <2>3, <2>4
  <1>4. CASE GetNextState
    <2>1. CallOK' /\ NoLostWakeup' /\ OperationOwnsCallback'
      BY <1>4, NothingAskedSum DEF GetNextState, Drain
    <2>2. PoweredOnlyInOperation' /\ RunningOK' /\ OutcomeOK'
      BY <1>4 DEF GetNextState, Drain
    <2>3. Accounting'
      BY <1>4, NothingAskedSum DEF GetNextState, Drain
    <2>4. wreq' = STATE_EXIT => collided'
      <3>1. wreq' = STATE_EXIT => Writes > 1
        BY <1>4 DEF GetNextState, Writes
      <3>2. collided' = (Writes > 1)
        BY <1>4 DEF GetNextState
      <3> QED
        BY <3>1, <3>2
    <2>5. ExitCollided'
      BY <1>4, <2>4 DEF GetNextState
    <2> QED
      BY <1>0, <2>1, <2>2, <2>3, <2>5
  <1>5. CASE Dispatch
    BY <1>5 DEF Dispatch
  <1>6. CASE LoopHead
    BY <1>6 DEF LoopHead
  <1>7. CASE LockCallback
    <2>1. TypeOK'
      BY <1>0
    <2>2. OperationOwnsCallback' /\ PoweredOnlyInOperation' /\ RunningOK' /\ OutcomeOK'
      <3>1. CASE cb = NoClient
        BY <1>7, <3>1 DEF LockCallback, OpRest
      <3>2. CASE cb # NoClient
        <4>1. OperationOwnsCallback'
          BY <1>7, <3>2 DEF LockCallback, OpRest
        <4>2. PoweredOnlyInOperation' /\ RunningOK' /\ OutcomeOK'
          BY <1>7, <3>2 DEF LockCallback, OpRest
        <4> QED
          BY <4>1, <4>2
      <3> QED
        BY <3>1, <3>2
    <2>3. CallOK' /\ Accounting'
      BY <1>7 DEF LockCallback, OpRest
    <2>4. ExitCollided' /\ NoLostWakeup'
      BY <1>7 DEF LockCallback, OpRest
    <2> QED
      BY <2>1, <2>2, <2>3, <2>4
  <1>8. CASE PowerOn
    BY <1>8 DEF PowerOn, OpRest
  <1>9. CASE WaitFinger
    BY <1>9 DEF WaitFinger, OpRest
  <1>10. CASE EventfdWakes
    BY <1>10 DEF EventfdWakes, OpRest
  <1>11. CASE IsCanceled
    BY <1>11, NothingAskedSum DEF IsCanceled, Drain, OpRest
  <1>12. CASE EnrollStep
    <2>1. efd \in Nat
      OBVIOUS
    <2>2. efd' = efd /\ asked' = asked /\ (ready' = ready \/ ready' = TRUE)
      BY <1>12, <2>1, IdleWrite DEF EnrollStep, Succeed
    <2>3. TypeOK'
      BY <1>0
    <2>4. OperationOwnsCallback' /\ PoweredOnlyInOperation' /\ RunningOK' /\ OutcomeOK'
      BY <1>12, <2>2 DEF EnrollStep, Succeed, OpRest
    <2>5. CallOK' /\ Accounting'
      BY <1>12, <2>2 DEF EnrollStep, Succeed, OpRest
    <2>6. ExitCollided' /\ NoLostWakeup'
      BY <1>12, <2>2 DEF EnrollStep, Succeed, OpRest
    <2> QED
      BY <2>3, <2>4, <2>5, <2>6
  <1>13. CASE AuthStep
    <2>1. efd \in Nat
      OBVIOUS
    <2>2. efd' = efd /\ asked' = asked /\ (ready' = ready \/ ready' = TRUE)
      BY <1>13, <2>1, IdleWrite DEF AuthStep, Succeed
    <2>3. TypeOK'
      BY <1>0
    <2>4. OperationOwnsCallback' /\ PoweredOnlyInOperation' /\ RunningOK' /\ OutcomeOK'
      BY <1>13, <2>2 DEF AuthStep, Succeed, OpRest
    <2>5. CallOK' /\ Accounting'
      BY <1>13, <2>2 DEF AuthStep, Succeed, OpRest
    <2>6. ExitCollided' /\ NoLostWakeup'
      BY <1>13, <2>2 DEF AuthStep, Succeed, OpRest
    <2> QED
      BY <2>3, <2>4, <2>5, <2>6
  <1>14. CASE AuthTzError
    <2>1. TypeOK'
      BY <1>0
    <2>2. OperationOwnsCallback' /\ PoweredOnlyInOperation' /\ RunningOK' /\ OutcomeOK'
      BY <1>14, NothingAskedSum DEF AuthTzError, BinderDone
    <2>3. CallOK' /\ Accounting'
      BY <1>14, NothingAskedSum DEF AuthTzError, BinderDone
    <2>4. ExitCollided' /\ NoLostWakeup'
      BY <1>14, NothingAskedSum DEF AuthTzError, BinderDone
    <2> QED
      BY <2>1, <2>2, <2>3, <2>4
  <1>15. CASE PowerOff
    BY <1>15 DEF PowerOff, OpRest
  <1>16. CASE Unlock
    BY <1>16 DEF Unlock, OpRest
  <1>17. CASE Finger
    BY <1>17 DEF Finger, OpRest
  <1>18. CASE Restart
    BY <1>18 DEF Restart, OpRest
  <1>28. CASE FailedStart
    BY <1>28 DEF FailedStart, OpRest
  <1>19. CASE SetNotify
    BY <1>19 DEF SetNotify, BinderDone, BinderRest
  <1>20. CASE CheckState
    BY <1>20 DEF CheckState, BinderDone, BinderRest
  <1>21. CASE RecheckState
    BY <1>21 DEF RecheckState, BinderDone, BinderRest
  <1>22. CASE WriteState
    <2> USE <1>22 DEF WriteState, BinderDone, BinderRest
    <2>1. CASE EventfdWrite(breq)
      <3> USE <2>1 DEF EventfdWrite
      <3>1. CASE breq = STATE_ENROLL
        BY <3>1
      <3>2. CASE breq = STATE_AUTH
        BY <3>2
      <3>3. CASE breq = STATE_CANCEL
        BY <3>3
      <3> QED
        BY <3>1, <3>2, <3>3
    <2>2. CASE UNCHANGED counterVars
      BY <2>2
    <2> QED
      BY <2>1, <2>2
  <1>23. CASE UNCHANGED vars
    BY <1>23 DEF vars
  <1>24. {STATE_ENROLL, STATE_AUTH, STATE_CANCEL} \subseteq Requests
    OBVIOUS
  <1> HIDE DEF IInv, Requests, STATE_ENROLL, STATE_AUTH, STATE_CANCEL
  <1> QED
    BY <1>24, <1>1, <1>2, <1>3, <1>4, <1>5, <1>6, <1>7, <1>8, <1>9,
       <1>10, <1>11, <1>12, <1>13, <1>14, <1>15, <1>16, <1>17, <1>18,
       <1>19, <1>20, <1>21, <1>22, <1>23, <1>28 DEF Next, Call, Enroll, Authenticate,
           Cancel, BinderStep, WorkerStep
---------------------------------------------------------------------------
(* The strengthened invariant holds in every state of every behaviour.      *)
THEOREM Invariance == Spec => []IInv
  <1>1. Init => IInv
    BY InitIInv
  <1>2. IInv /\ [Next]_vars => IInv'
    BY NextIInv
  <1> QED
    BY <1>1, <1>2, PTL DEF Spec

(* worker_thread, setState: the shared state always has its declared types, *)
(* and the counter never exceeds the capacity of an eventfd.                *)
THEOREM TypeCorrect == Spec => []TypeOK
  <1>1. IInv => TypeOK
    BY DEF IInv
  <1> QED
    BY <1>1, Invariance, PTL

(* worker_thread: no request is left in the eventfd with nobody told of it. *)
THEOREM WakeupIsNotLost == Spec => []NoLostWakeup
  <1>1. IInv => NoLostWakeup
    BY DEF IInv
  <1> QED
    BY <1>1, Invariance, PTL

(* process_enroll, process_auth: the callback is used under the mutex only, *)
(* is never null there, and running_state names the operation meanwhile.    *)
THEOREM CallbackIsOwned == Spec => []OperationOwnsCallback
  <1>1. IInv => OperationOwnsCallback
    BY DEF IInv
  <1> QED
    BY <1>1, Invariance, PTL

(* process_enroll, process_auth: every way out of an operation switches the *)
(* sensor off, or fails to.                                                 *)
THEOREM IdleIsPoweredOff == Spec => []PoweredOnlyInOperation
  <1>1. IInv => PoweredOnlyInOperation
    BY DEF IInv
  <1> QED
    BY <1>1, Invariance, PTL

(* getNextState: the worker leaves its loop only when requests collided in  *)
(* the counter; it takes two of them to make STATE_EXIT.                    *)
THEOREM ExitNeedsCollision == Spec => []ExitOnlyByCollision
  <1>1. IInv => ExitOnlyByCollision
    BY DEF IInv, ExitCollided, ExitOnlyByCollision
  <1> QED
    BY <1>1, Invariance, PTL
---------------------------------------------------------------------------
(* The session starts with no operation and nobody registered.              *)
LEMMA SessionInit == Init => Session!Init
  BY DEF Init, Session!Init, Holding, CaptureLoop, STATE_IDLE

(* Each step of the threads is a step of the session or leaves it alone.    *)
LEMMA SessionStep == IInv /\ [Next]_vars => [Session!Next]_(Session!vars)
  <1> SUFFICES ASSUME IInv, [Next]_vars PROVE [Session!Next]_(Session!vars)
    OBVIOUS
  <1> USE DEF IInv, OperationOwnsCallback, OutcomeOK, Holding, CaptureLoop, OpRest
  <1>op. Operations = {STATE_ENROLL, STATE_AUTH} /\ STATE_IDLE \notin Operations
         /\ STATE_ENROLL # STATE_AUTH
    BY DEF Operations, STATE_IDLE, STATE_ENROLL, STATE_AUTH
  <1>1. ASSUME NEW r \in Requests, CallRequest(r) PROVE UNCHANGED Session!vars
    BY <1>1 DEF CallRequest, BinderRest, Session!vars
  <1>2. ASSUME NEW c \in Clients, CallSetNotify(c) PROVE UNCHANGED Session!vars
    BY <1>2 DEF CallSetNotify, BinderRest, Session!vars
  <1>3. CASE \/ EpollWait \/ GetNextState \/ Dispatch \/ LoopHead
             \/ Restart \/ FailedStart
    BY <1>3 DEF EpollWait, GetNextState, Dispatch, LoopHead, Restart, FailedStart,
                Session!vars
  <1>4. CASE LockCallback
    <2>1. CASE cb = NoClient
      BY <1>4, <2>1 DEF LockCallback, Session!vars
    <2>2. CASE cb # NoClient
      <3>1. Session!Begin(running)
        BY <1>4, <2>2 DEF LockCallback, Session!Begin
      <3>2. running \in {STATE_ENROLL, STATE_AUTH}
        BY <1>4, <1>op DEF LockCallback, RunningOK
      <3> QED
        BY <3>1, <3>2 DEF Session!Next
    <2> QED
      BY <2>1, <2>2
  <1>5. CASE PowerOn
    <2>1. CASE wpc' = "capture" /\ UNCHANGED outcome
      BY <1>5, <2>1 DEF PowerOn, Session!vars
    <2>2. CASE wpc' = "unlock" /\ outcome' = "failed"
      <3>1. Session!Finish("failed")
        BY <1>5, <2>2, <1>op DEF PowerOn, Session!Finish, Session!Results
      <3> QED
        BY <3>1 DEF Session!Next, Session!Results
    <2> QED
      BY <1>5, <2>1, <2>2 DEF PowerOn
  <1>6. CASE WaitFinger \/ EventfdWakes \/ PowerOff
    BY <1>6 DEF WaitFinger, EventfdWakes, PowerOff, Session!vars
  <1>7. CASE Finger
    <2>1. CASE wpc' = "check" /\ UNCHANGED outcome
      BY <1>7, <2>1 DEF Finger, Session!vars
    <2>2. CASE wpc' = "powerOff" /\ outcome' = "silent"
      <3>1. Session!Finish("silent")
        BY <1>7, <2>2, <1>op DEF Finger, Session!Finish, Session!Results
      <3> QED
        BY <3>1 DEF Session!Next, Session!Results
    <2> QED
      BY <1>7, <2>1, <2>2 DEF Finger
  <1>8. CASE IsCanceled
    <2>1. CASE efd = STATE_CANCEL
      <3>1. Session!Finish("canceled")
        BY <1>8, <2>1, <1>op DEF IsCanceled, Session!Finish, Session!Results
      <3> QED
        BY <3>1 DEF Session!Next, Session!Results
    <2>2. CASE efd # STATE_CANCEL
      BY <1>8, <2>2 DEF IsCanceled, Session!vars
    <2> QED
      BY <2>1, <2>2
  <1>9. CASE EnrollStep
    <2>1. CASE wpc' = "capture" /\ UNCHANGED outcome
      BY <1>9, <2>1 DEF EnrollStep, Session!vars
    <2>2. ASSUME NEW r \in {"enrolled", "failed"}, wpc' = "powerOff", outcome' = r
          PROVE  Session!Next
      <3>1. Session!Finish(r)
        BY <1>9, <2>2, <1>op DEF EnrollStep, Session!Finish, Session!Results
      <3> QED
        BY <3>1 DEF Session!Next, Session!Results
    <2> QED
      BY <1>9, <2>1, <2>2 DEF EnrollStep, Succeed
  <1>10. CASE AuthStep
    <2>1. CASE wpc' = "capture" /\ UNCHANGED outcome
      BY <1>10, <2>1 DEF AuthStep, Session!vars
    <2>2. CASE wpc' = "powerOff" /\ outcome' = "authenticated"
      <3>1. Session!Finish("authenticated")
        BY <1>10, <2>2, <1>op DEF AuthStep, Session!Finish, Session!Results
      <3>2. "authenticated" \in Session!Results(STATE_AUTH)
        BY <1>op DEF Session!Results
      <3> QED
        BY <3>1, <3>2 DEF Session!Next
    <2> QED
      BY <1>10, <2>1, <2>2 DEF AuthStep, Succeed
  <1>11. CASE AuthTzError
    <2>1. Session!Crash
      BY <1>11, <1>op DEF AuthTzError, Session!Crash
    <2> QED
      BY <2>1 DEF Session!Next
  <1>12. CASE Unlock
    <2>1. Session!End
      BY <1>12, <1>op DEF Unlock, Session!End
    <2> QED
      BY <2>1 DEF Session!Next
  <1>13. CASE SetNotify
    <2>1. Session!Register
      BY <1>13 DEF SetNotify, BinderRest, CallOK, Session!Register
    <2> QED
      BY <2>1 DEF Session!Next
  <1>14. CASE CheckState \/ RecheckState \/ WriteState
    BY <1>14 DEF CheckState, RecheckState, WriteState, BinderRest, Session!vars
  <1>15. CASE UNCHANGED vars
    BY <1>15 DEF vars, Session!vars
  <1>16. {STATE_ENROLL, STATE_AUTH, STATE_CANCEL} \subseteq Requests
    BY DEF Requests, Operations
  <1> HIDE DEF IInv
  <1> QED
    BY <1>16, <1>1, <1>2, <1>3, <1>4, <1>5, <1>6, <1>7, <1>8, <1>9, <1>10, <1>11,
       <1>12, <1>13, <1>14, <1>15 DEF Next, Call, Enroll, Authenticate,
           Cancel, BinderStep, WorkerStep

(* The threads, the eventfd and the sensor together implement the session:  *)
(* one client, one result and none after it, whatever the interleaving.     *)
THEOREM ImplementsSession == Spec => SessionSpec
  <1>1. Init => Session!Init
    BY SessionInit
  <1>2. IInv /\ [Next]_vars => [Session!Next]_(Session!vars)
    BY SessionStep
  <1> QED
    BY <1>1, <1>2, Invariance, PTL DEF Spec, SessionSpec, Session!Spec
=============================================================================
