----------------------------- MODULE RefundSaga -----------------------------
(***************************************************************************)
(* createRefund on one paid order: look the number up, check the limit and *)
(* reserve the amount in one transaction, call the provider outside of     *)
(* it, write the outcome in a second transaction, and compensate in a      *)
(* catch block.  Transactions run at the database's default level (READ    *)
(* COMMITTED), so the sum of the first one is a step of its own: another   *)
(* request may insert its row before the first commits.                    *)
(***************************************************************************)
EXTENDS Naturals, FiniteSets

CONSTANTS
  Requests,     \* calls of createRefund that may run at the same time
  RefundNos,    \* merchantRefundNo values
  Amounts,      \* refund amounts merchants ask for
  PaidAmount,   \* pay_order.paid_amount
  MaxFaults     \* bound: crashes, failed calls and database errors

ASSUME RefundAssumption ==
  /\ IsFiniteSet(Requests)
  /\ IsFiniteSet(RefundNos) /\ RefundNos # {}
  /\ PaidAmount \in Nat \ {0}
  /\ Amounts \subseteq Nat \ {0} /\ Amounts # {}
  /\ MaxFaults \in Nat

VARIABLES
  orderStatus,  \* pay_order.status
  refunds,      \* the refund_order table, by merchant_refund_no
  notices,      \* REFUND_SUCCESS rows in notify_task, by refund
  payout,       \* what the provider did with each refund
  calls,        \* history: refund calls the provider received
  req,          \* the requests
  faults,       \* faults so far
  overlapped,   \* history: two requests have been running at once
  provider      \* whose adapter serves the channel the order was paid through

db   == <<orderStatus, refunds, notices>>
vars == <<db, payout, calls, req, faults, overlapped, provider>>

OrderStatus  == {"SUCCESS", "REFUND_PART", "REFUND_ALL"}
RefundStatus == {"absent", "CREATED", "PROCESSING", "SUCCESS", "FAILED"}
\* "pending": accepted, the money has not moved yet; "givenUp": nor will it
PayoutStates == {"none", "pending", "done", "refused", "givenUp"}
Providers    == {"alipay", "stripe", "wechatpay"}

Refund  == [status : RefundStatus, amount : Nat]
NoRefund == [status |-> "absent", amount |-> 0]

\* `total`: totalRefundedAmount as the first transaction computed it
Request == [pc     : {"idle", "check", "insert", "call", "settle", "failed", "markFailed"},
            no     : RefundNos,
            amount : Amounts,
            total  : Nat,
            result : {"SUCCESS", "PROCESSING"}]

\* Amounts are whole cents: the cents of what f gives each member of S.
Cents(f, S) == UNION {{x} \X (1..f[x]) : x \in S}
Total(f, S) == Cardinality(Cents(f, S))

Sum(S) == Total([n \in RefundNos |-> refunds[n].amount], S)

TypeOK ==
  /\ orderStatus \in OrderStatus
  /\ refunds \in [RefundNos -> Refund]
  /\ notices \in [RefundNos -> Nat]
  /\ payout \in [RefundNos -> PayoutStates]
  /\ calls \in [RefundNos -> Nat]
  /\ req \in [Requests -> Request]
  /\ faults \in 0..MaxFaults
  /\ overlapped \in BOOLEAN
  /\ provider \in Providers

Idle == [pc |-> "idle", no |-> CHOOSE n \in RefundNos : TRUE,
         amount |-> CHOOSE a \in Amounts : TRUE, total |-> 0, result |-> "SUCCESS"]

Init ==
  /\ orderStatus = "SUCCESS"
  /\ refunds = [n \in RefundNos |-> NoRefund]
  /\ notices = [n \in RefundNos |-> 0]
  /\ payout = [n \in RefundNos |-> "none"]
  /\ calls = [n \in RefundNos |-> 0]
  /\ req = [r \in Requests |-> Idle]
  /\ faults = 0
  /\ overlapped = FALSE
  /\ provider \in Providers

-----------------------------------------------------------------------------
At(r, label)   == req[r].pc = label
Goto(r, label) == req' = [req EXCEPT ![r].pc = label]
Finish(r)      == req' = [req EXCEPT ![r] = Idle]
Mark(n, s)     == refunds' = [refunds EXCEPT ![n].status = s]

Fault == faults < MaxFaults /\ faults' = faults + 1

Active == {n \in RefundNos : refunds[n].status \in {"CREATED", "PROCESSING", "SUCCESS"}}

\* A number that has a row is answered from it, with no step.
BeginRefund(r, n, a) ==
  /\ At(r, "idle")
  /\ refunds[n] = NoRefund
  /\ req' = [req EXCEPT ![r] = [@ EXCEPT !.pc = "check", !.no = n, !.amount = a]]
  /\ overlapped' = (overlapped \/ \E q \in Requests : ~At(q, "idle"))
  /\ UNCHANGED <<db, payout, calls, faults>>

EachWithinLimit(amount, reserved) == amount <= PaidAmount   \* mutant
WithinLimit(amount, reserved)     == amount + reserved <= PaidAmount

\* REFUND_OVER_LIMIT goes through the catch block like any other error.
CheckLimit(r) ==
  LET reserved == Sum(Active)
  IN  /\ At(r, "check")
      /\ IF WithinLimit(req[r].amount, reserved)
         THEN req' = [req EXCEPT ![r] = [@ EXCEPT !.pc = "insert",
                                                  !.total = reserved + req[r].amount]]
         ELSE Goto(r, "failed")
      /\ UNCHANGED <<db, payout, calls, faults, overlapped>>

NewOpenRefund(a) == [status |-> "OPEN", amount |-> a]   \* mutant
NewRefund(a)     == [status |-> "CREATED", amount |-> a]

\* Unique (app_id, merchant_refund_no): the loser answers with the winner's row.
Anyway(n)   == TRUE   \* mutant
Unused(n)   == refunds[n] = NoRefund
InsertRefund(r) ==
  LET n == req[r].no
  IN  /\ At(r, "insert")
      /\ IF Unused(n)
         THEN /\ refunds' = [refunds EXCEPT ![n] = NewRefund(req[r].amount)]
              /\ Goto(r, "call")
         ELSE Finish(r) /\ UNCHANGED refunds
      /\ UNCHANGED <<orderStatus, notices, payout, calls, faults, overlapped>>

\* A provider refunds no more than it captured.
Affordable(n) == Sum({m \in RefundNos : payout[m] \in {"pending", "done"}} \cup {n}) <= PaidAmount

\* Alipay states fund_change "Y" when this call moved the money, and a refund_fee with
\* most answers: either is a success.
AlipayAnswer(moved, statesFee) == IF moved \/ statesFee THEN "SUCCESS" ELSE "PROCESSING"

\* Of the other states of a Stripe refund, "failed" and "canceled" are errors.
StripeAnswer(succeeded) == IF succeeded THEN "SUCCESS" ELSE "PROCESSING"

\* refundStatus of an accepted refund
Answer(outcome, statesFee) ==
  IF provider = "alipay" THEN AlipayAnswer(outcome = "done", statesFee)
                         ELSE StripeAnswer(outcome = "done")

\* adapter.refundOrder: refunded, accepted for later, refused; or an error that
\* hides whether the provider acted.
CallProvider(r) ==
  LET n == req[r].no
  IN  /\ At(r, "call") /\ provider # "wechatpay"
      /\ calls' = [calls EXCEPT ![n] = @ + 1]
      /\ \E outcome \in {"pending", "done", "refused"}, statesFee \in BOOLEAN :
           /\ outcome # "refused" => Affordable(n)
           /\ payout' = [payout EXCEPT ![n] = outcome]
           /\ \/ /\ outcome # "refused"
                 /\ req' = [req EXCEPT ![r] = [@ EXCEPT !.pc = "settle",
                                                        !.result = Answer(outcome, statesFee)]]
                 /\ UNCHANGED faults
              \/ outcome = "refused" /\ Goto(r, "failed") /\ UNCHANGED faults
              \/ outcome # "refused" /\ Fault /\ Goto(r, "failed")
      /\ UNCHANGED <<db, overlapped>>

\* The adapter has no refunds (WeChat Pay), or was disabled after the check: null.
RefundUnavailable(r) ==
  /\ At(r, "call")
  /\ Goto(r, "failed")
  /\ UNCHANGED <<db, payout, calls, faults, overlapped>>

\* What the second transaction makes of the answer
SuccessOrFailed(result) == IF result = "SUCCESS" THEN "SUCCESS" ELSE "FAILED"   \* mutant
AlwaysSuccess(result)   == "SUCCESS"   \* mutant
SettledStatus(result)   == result

AfterOwnAmount(r) == IF req[r].total - req[r].amount >= PaidAmount THEN "REFUND_ALL" ELSE "REFUND_PART"   \* mutant
AfterRefund(r)    == IF req[r].total >= PaidAmount THEN "REFUND_ALL" ELSE "REFUND_PART"

\* The order's status follows from the total of the first transaction.
SettleRefund(r) ==
  LET n == req[r].no
  IN  /\ At(r, "settle")
      /\ Mark(n, SettledStatus(req[r].result))
      /\ IF req[r].result = "SUCCESS"
         THEN /\ orderStatus' = AfterRefund(r)
              /\ notices' = [notices EXCEPT ![n] = @ + 1]
         ELSE UNCHANGED <<orderStatus, notices>>
      /\ Finish(r)
      /\ UNCHANGED <<payout, calls, faults, overlapped>>

\* The catch block reads the row of this number, whoever inserted it ...
ReadFailed(r) ==
  /\ At(r, "failed")
  /\ IF refunds[req[r].no].status = "CREATED" THEN Goto(r, "markFailed") ELSE Finish(r)
  /\ UNCHANGED <<db, payout, calls, faults, overlapped>>

\* ... and writes it in a later statement.
MarkFailed(r) ==
  /\ At(r, "markFailed")
  /\ Mark(req[r].no, "FAILED")
  /\ Finish(r)
  /\ UNCHANGED <<orderStatus, notices, payout, calls, faults, overlapped>>

\* A transaction or a query before the catch block fails: the catch block runs.
StepFails(r) ==
  /\ At(r, "check") \/ At(r, "insert") \/ At(r, "call") \/ At(r, "settle")
  /\ Fault
  /\ Goto(r, "failed")
  /\ UNCHANGED <<db, payout, calls, overlapped>>

\* A crash, or an error in the catch block.
Abandon(r) ==
  /\ ~At(r, "idle")
  /\ Fault
  /\ Finish(r)
  /\ UNCHANGED <<db, payout, calls, overlapped>>

\* The provider moves the money of a pending refund, or gives it up.
ProviderSettles(n) ==
  /\ payout[n] = "pending"
  /\ \E outcome \in {"done", "givenUp"} : payout' = [payout EXCEPT ![n] = outcome]
  /\ UNCHANGED <<db, calls, req, faults, overlapped>>

RefundStep(r) ==
  \/ CheckLimit(r) \/ InsertRefund(r) \/ CallProvider(r) \/ RefundUnavailable(r)
  \/ SettleRefund(r) \/ ReadFailed(r) \/ MarkFailed(r)

Next ==
  /\ \/ \E r \in Requests, n \in RefundNos, a \in Amounts : BeginRefund(r, n, a)
     \/ \E r \in Requests : RefundStep(r) \/ StepFails(r) \/ Abandon(r)
     \/ \E n \in RefundNos : ProviderSettles(n)
  /\ UNCHANGED provider

Spec == Init /\ [][Next]_vars

-----------------------------------------------------------------------------
(* Properties *)

\* The money of the refund has moved, or Alipay has accepted it: its adapter takes an
\* answer that states the fee for a success (alipay-channel.adapter.ts, refundOrder).
Backs(state) ==
  \/ state = "done"
  \/ provider = "alipay" /\ state \in {"pending", "givenUp"}

\* A refund the merchant sees as SUCCESS, or was notified of, is not one the provider
\* refused or never received, and at Stripe it has been paid out: whatever failed,
\* crashed or ran at the same time.
SuccessIsBacked ==
  \A n \in RefundNos : refunds[n].status = "SUCCESS" \/ notices[n] > 0 => Backs(payout[n])

\* Concurrent and repeated requests with one number make one provider call and
\* at most one REFUND_SUCCESS notification, and a SUCCESS row has had its own.
OneRefundPerNumber ==
  \A n \in RefundNos : /\ calls[n] <= 1
                       /\ notices[n] <= 1
                       /\ refunds[n].status = "SUCCESS" => notices[n] = 1

\* Reservations never add up to more than was paid.
WithinPaid == Sum(Active) <= PaidAmount

\* They do not as long as requests run one at a time, whatever failed in between.
LimitHolds == ~overlapped => WithinPaid

\* How far concurrent limit checks can overshoot: n requests reserve at most n
\* times what was paid.
OvershootIsBounded == Sum(Active) <= Cardinality(Requests) * PaidAmount

\* As long as requests run one at a time, an order is REFUND_ALL only when
\* nothing is left to refund, and as soon as the successful refunds add up.
OrderFollowsRefunds ==
  ~overlapped =>
    /\ orderStatus = "REFUND_ALL" => Sum(Active) = PaidAmount
    /\ Sum({n \in RefundNos : refunds[n].status = "SUCCESS"}) = PaidAmount
         => orderStatus = "REFUND_ALL"

\* As long as requests run one at a time and nothing fails, a refund reported
\* FAILED moves no money, now or later.
FailedIsNotPaidOut ==
  ~overlapped /\ faults = 0 =>
    \A n \in RefundNos : refunds[n].status = "FAILED" => payout[n] \notin {"pending", "done"}
=============================================================================
