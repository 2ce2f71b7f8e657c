---------------------------- MODULE OrderCreation ----------------------------
(***************************************************************************)
(* The creation of the order of one merchant order number: requests pass   *)
(* the merchant's signature, look the number up, insert the order, and     *)
(* look it up again when another request inserted it first                 *)
(* (payment-store.service.ts, order.service.ts, merchant-auth.service.ts). *)
(*                                                                         *)
(* Requests under one Idempotency-Key never meet (module Idempotency): the *)
(* requests here carry keys of their own.                                  *)
(***************************************************************************)
EXTENDS Naturals, FiniteSets

CONSTANTS
  Requests,      \* POST /orders for the number
  Bodies,        \* amount, currency, subject, URLs and metadata, as one value
  AppChannels,   \* the channels the merchant's application may use
  Lists          \* the lists of channels requests name; the empty one stands for none

ASSUME CreationAssumption ==
  /\ AppChannels # {} /\ IsFiniteSet(AppChannels)
  /\ \A list \in Lists : IsFiniteSet(list)

VARIABLES
  order,     \* the pay_order row of the number
  request    \* the requests being served

\* REFUND_PART and REFUND_ALL come after the purchase (RefundSaga).
Statuses == {"NONE", "WAIT_PAY", "SUCCESS", "CLOSED", "EXPIRED"}

\* No row; WAIT_PAY stands for PAYING too.
NoOrder == [status |-> "NONE", body |-> "none", channels |-> {}]

\* `told`: the status of the order in the answer.
IdleRequest ==
  [pc |-> "idle", body |-> "none", channels |-> {}, result |-> "none", told |-> "NONE"]

Exists == order.status # "NONE"

\* resolveAllowedChannels: those named, once each, else those of the application.
ResolvedChannels(list) == IF list = {} THEN AppChannels ELSE list

AnyRequest(r) == TRUE   \* mutant: the order found is answered whatever was asked

\* assertSameOrderRequest
SameOrderRequest(r) ==
  order.body = request[r].body /\ order.channels = request[r].channels

\* A refused or failed request may be sent again.
GiveUp(r) == request' = [request EXCEPT ![r] = IdleRequest]

Answer(r, result, told) ==
  request' = [request EXCEPT ![r].pc = "answered", ![r].result = result, ![r].told = told]

AnswerExisting(r) ==
  IF SameOrderRequest(r)
  THEN Answer(r, "ok", order.status)
  ELSE Answer(r, "conflict", "NONE")

-----------------------------------------------------------------------------
Send(r, body, list) ==
  /\ request[r].pc = "idle"
  /\ request' = [request EXCEPT ![r] =
       [IdleRequest EXCEPT !.pc = "sent", !.body = body, !.channels = ResolvedChannels(list)]]
  /\ UNCHANGED order

\* authenticateRequest: the signature, the application or the clock is wrong.
Refuse(r) ==
  /\ request[r].pc = "sent"
  /\ GiveUp(r)
  /\ UNCHANGED order

AllowedOrNot(r) == TRUE   \* mutant

Allowed(r) == request[r].channels \subseteq AppChannels

\* A channel the application may not use refuses the request.
CheckChannels(r) ==
  /\ request[r].pc = "sent"
  /\ IF Allowed(r)
     THEN request' = [request EXCEPT ![r].pc = "find"]
     ELSE GiveUp(r)
  /\ UNCHANGED order

FindOrder(r) ==
  /\ request[r].pc = "find"
  /\ IF Exists THEN AnswerExisting(r) ELSE request' = [request EXCEPT ![r].pc = "insert"]
  /\ UNCHANGED order

\* The unique key of the table lets one of several inserts succeed.
InsertOrder(r) ==
  /\ request[r].pc = "insert"
  /\ IF Exists
     THEN request' = [request EXCEPT ![r].pc = "again"] /\ UNCHANGED order
     ELSE /\ order' = [status |-> "WAIT_PAY", body |-> request[r].body,
                       channels |-> request[r].channels]
          /\ Answer(r, "ok", "WAIT_PAY")

FindConflicting(r) ==
  /\ request[r].pc = "again"
  /\ AnswerExisting(r)
  /\ UNCHANGED order

\* A statement fails, or the process dies.
FailRequest(r) ==
  /\ request[r].pc \in {"find", "insert", "again"}
  /\ GiveUp(r)
  /\ UNCHANGED order

CreationInit ==
  /\ order = NoOrder
  /\ request = [r \in Requests |-> IdleRequest]

Serve(r) ==
  \/ Refuse(r) \/ CheckChannels(r)
  \/ FindOrder(r) \/ InsertOrder(r) \/ FindConflicting(r)
  \/ FailRequest(r)
=============================================================================
