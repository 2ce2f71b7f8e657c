------------------------ MODULE MerchantNotification ------------------------
(***************************************************************************)
(* What the platform promises a merchant about each notify_task row: it is *)
(* delivered at least once, or given up after a fixed number of failed     *)
(* tries, and it is called delivered only if the merchant accepted it      *)
(* since an operator last replayed it.  Who tries, when, and how often the *)
(* merchant hears the same notification is left open.                      *)
(***************************************************************************)
EXTENDS Naturals

CONSTANTS Tasks, MaxTries

VARIABLES
  outcome,  \* where each task stands
  tries,    \* failed tries counted since the last replay
  heard     \* the merchant has accepted it since the last replay

notification == <<outcome, tries, heard>>

Outcomes == {"absent", "pending", "delivered", "dead"}

NotificationInit ==
  /\ outcome = [t \in Tasks |-> "absent"]
  /\ tries   = [t \in Tasks |-> 0]
  /\ heard   = [t \in Tasks |-> FALSE]

Create(t) ==
  /\ outcome[t] = "absent"
  /\ outcome' = [outcome EXCEPT ![t] = "pending"]
  /\ UNCHANGED <<tries, heard>>

\* The merchant may hear of a task again after it was settled.
Hear(t) ==
  /\ outcome[t] # "absent"
  /\ heard' = [heard EXCEPT ![t] = TRUE]
  /\ UNCHANGED <<outcome, tries>>

Settle(t) ==
  /\ outcome[t] = "pending" /\ heard[t]
  /\ outcome' = [outcome EXCEPT ![t] = "delivered"]
  /\ UNCHANGED <<tries, heard>>

CountFailure(t) ==
  /\ outcome[t] = "pending"
  /\ tries' = [tries EXCEPT ![t] = tries[t] + 1]
  /\ outcome' = [outcome EXCEPT ![t] = IF tries[t] + 1 = MaxTries THEN "dead" ELSE "pending"]
  /\ UNCHANGED heard

ReplayTask(t) ==
  /\ outcome[t] # "absent"
  /\ outcome' = [outcome EXCEPT ![t] = "pending"]
  /\ tries'   = [tries EXCEPT ![t] = 0]
  /\ heard'   = [heard EXCEPT ![t] = FALSE]

Promise(t) == Create(t) \/ Hear(t) \/ Settle(t) \/ CountFailure(t) \/ ReplayTask(t)

NotificationSpec ==
  NotificationInit /\ [][\E t \in Tasks : Promise(t)]_notification
=============================================================================
