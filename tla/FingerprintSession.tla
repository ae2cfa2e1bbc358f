------------------------ MODULE FingerprintSession ------------------------
(***************************************************************************)
(* What the fingerprint HAL promises the client registered with setNotify  *)
(* about one operation, whatever the threads, the eventfd and the sensor   *)
(* do: an operation runs for one client, which cannot be exchanged while   *)
(* it runs; it is closed by exactly one final result; the result fits the  *)
(* operation; and nothing is reported once it has been closed.             *)
(***************************************************************************)
EXTENDS Integers

CONSTANTS Clients, NoClient, NoOperation, Enroll, Auth

VARIABLES
  op,       \* the operation that runs, or NoOperation
  client,   \* the registered callback
  outcome   \* how the current or last operation ended for the client

vars == <<op, client, outcome>>

(* "silent": the sensor failed and the client is told nothing.             *)
Results(o) == {"canceled", "failed", "silent"} \cup
              (IF o = Enroll THEN {"enrolled"} ELSE {"authenticated"})

Init == op = NoOperation /\ client = NoClient /\ outcome = "none"

Register == /\ op = NoOperation
            /\ client' \in Clients
            /\ UNCHANGED <<op, outcome>>

Begin(o) == /\ op = NoOperation /\ client # NoClient
            /\ op' = o /\ outcome' = "open"
            /\ UNCHANGED client

Finish(r) == /\ op # NoOperation /\ outcome = "open"
             /\ r \in Results(op)
             /\ outcome' = r
             /\ UNCHANGED <<op, client>>

End == /\ op # NoOperation /\ outcome # "open"
       /\ op' = NoOperation
       /\ UNCHANGED <<client, outcome>>

(* The service dies in an authentication and forgets its client.           *)
Crash == /\ op = Auth /\ outcome = "open"
         /\ op' = NoOperation /\ client' = NoClient /\ outcome' = "silent"

Next == \/ Register \/ End \/ Crash
        \/ \E o \in {Enroll, Auth} : Begin(o)
        \/ \E r \in Results(Enroll) \cup Results(Auth) : Finish(r)

Spec == Init /\ [][Next]_vars
=============================================================================
