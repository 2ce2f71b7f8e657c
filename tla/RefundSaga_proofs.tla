--------------------------- MODULE RefundSaga_proofs ---------------------------
(***************************************************************************)
(* What a successful refund means, and what the refunds of an order add up *)
(* to, for any number of requests, refund numbers, amounts and faults.     *)
(***************************************************************************)
EXTENDS RefundSaga, FiniteSetTheorems, TLAPS

Labels  == {"idle", "check", "insert", "call", "settle", "failed", "markFailed"}
Owning  == {"call", "settle"}
Results == {"SUCCESS", "PROCESSING"}

IsRequest(x) ==
  /\ x = [pc |-> x.pc, no |-> x.no, amount |-> x.amount, total |-> x.total,
          result |-> x.result]
  /\ x.pc \in Labels
  /\ x.pc # "idle" => x.no \in RefundNos /\ x.amount \in Amounts
  /\ x.result \in Results

\* The request that inserted the row is the only one to call the provider for
\* it and to settle it, and so far nobody was notified.
Fits(r, x) ==
  /\ IsRequest(x)
  /\ x.pc \in Owning =>
       /\ refunds[x.no].status # "absent"
       /\ notices[x.no] = 0
       /\ \A p \in Requests \ {r} : req[p].pc \in Owning => req[p].no # x.no
  /\ x.pc = "call" => calls[x.no] = 0
  /\ x.pc = "settle" /\ x.result = "SUCCESS" => Backs(payout[x.no])

RowFits(n) ==
  /\ refunds[n].status = "absent" => calls[n] = 0 /\ notices[n] = 0
  /\ refunds[n].status = "SUCCESS" => notices[n] = 1
  /\ notices[n] > 0 => Backs(payout[n])
  /\ calls[n] <= 1
  /\ notices[n] <= 1

Tables ==
  /\ refunds \in [RefundNos -> Refund]
  /\ notices \in [RefundNos -> Nat]
  /\ payout \in [RefundNos -> PayoutStates]
  /\ calls \in [RefundNos -> Nat]
  /\ \A n \in RefundNos : RowFits(n)

Inv == /\ Tables
       /\ req = [r \in Requests |-> req[r]]
       /\ \A r \in Requests : Fits(r, req[r])

USE DEF Backs

LEMMA IdleFits ==
  ASSUME NEW r \in Requests
  PROVE  Idle.pc = "idle" /\ Fits(r, Idle) /\ Fits(r, Idle)'
BY DEF Idle, Fits, IsRequest, Labels, Owning, Results

LEMMA InitInv == Init => Inv
<1> SUFFICES ASSUME Init PROVE Inv
  OBVIOUS
<1>1. Tables
  BY DEF Init, Tables, RowFits, NoRefund, Refund, RefundStatus, PayoutStates
<1>2. req = [r \in Requests |-> req[r]] /\ \A r \in Requests : req[r] = Idle
  BY DEF Init
<1> QED
  BY <1>1, <1>2, IdleFits DEF Inv

\* Request r becomes x; no other owner's refund is touched.
LEMMA Preserve ==
  ASSUME Inv, provider' = provider, NEW r \in Requests, NEW x, req' = [req EXCEPT ![r] = x],
         Fits(r, x)', Tables',
         \A p \in Requests \ {r} : req[p].pc \in Owning =>
           LET n == req[p].no
           IN  /\ refunds'[n].status # "absent" /\ notices'[n] = notices[n]
               /\ calls'[n] = calls[n]
               /\ Backs(payout[n]) => Backs(payout'[n])
               /\ x.pc \in Owning => x.no # n
  PROVE  Inv'
<1>1. /\ req' = [p \in Requests |-> req'[p]] /\ req'[r] = x
      /\ \A p \in Requests \ {r} : req'[p] = req[p]
  BY DEF Inv
<1>2. ASSUME NEW p \in Requests \ {r} PROVE Fits(p, req[p])'
  <2>1. PICK y : y = req[p]
    OBVIOUS
  <2>2. Fits(p, y) /\ req'[p] = y
    BY <1>1, <2>1 DEF Inv
  <2>3. CASE y.pc \in Owning
    <3>1. \A q \in Requests \ {p} : req'[q].pc \in Owning => req'[q].no # y.no
      BY <1>1, <2>1, <2>2, <2>3 DEF Fits
    <3> QED
      BY <2>1, <2>2, <2>3, <3>1 DEF Fits, IsRequest
  <2>4. CASE y.pc \notin Owning
    BY <2>2, <2>4 DEF Fits, Owning, IsRequest
  <2> QED
    BY <2>2, <2>3, <2>4
<1> QED
  BY <1>1, <1>2 DEF Inv

\* A step of a request that touches no table.
LEMMA QuietStep ==
  ASSUME Inv, provider' = provider, NEW r \in Requests, NEW x, req' = [req EXCEPT ![r] = x],
         IsRequest(x), x.pc \notin Owning, UNCHANGED <<db, payout, calls>>
  PROVE  Inv'
<1>1. /\ refunds' = refunds /\ notices' = notices /\ payout' = payout /\ calls' = calls
  BY DEF db
<1>2. Tables'
  BY <1>1 DEF Inv, Tables, RowFits
<1>3. Fits(r, x)'
  BY DEF Fits, Owning, IsRequest
<1>4. \A p \in Requests : req[p].pc \in Owning => refunds'[req[p].no].status # "absent"
  BY <1>1 DEF Inv, Fits
<1> QED
  BY <1>1, <1>2, <1>3, <1>4, Preserve

LEMMA FinishQuiet ==
  ASSUME Inv, provider' = provider, NEW r \in Requests, Finish(r), UNCHANGED <<db, payout, calls>>
  PROVE  Inv'
BY IdleFits, QuietStep DEF Finish, Fits, Owning

\* A request goes on, or to the catch block, with what it has.
LEMMA GotoMoves ==
  ASSUME Inv, NEW r \in Requests, ~At(r, "idle"), NEW l \in Labels, Goto(r, l)
  PROVE  \E x : /\ req' = [req EXCEPT ![r] = x] /\ IsRequest(x)
                /\ x.pc = l /\ x.no = req[r].no /\ x.amount = req[r].amount
                /\ x.result = req[r].result
<1>1. IsRequest(req[r])
  BY DEF Inv, Fits
<1>2. PICK x : x = [req[r] EXCEPT !.pc = l]
  OBVIOUS
<1>3. x = [pc |-> l, no |-> req[r].no, amount |-> req[r].amount,
           total |-> req[r].total, result |-> req[r].result]
  BY <1>1, <1>2 DEF IsRequest
<1>4. req' = [req EXCEPT ![r] = x]
  BY <1>2 DEF Goto
<1>5. IsRequest(x)
  BY <1>1, <1>3 DEF IsRequest, At
<1>6. /\ x.pc = l /\ x.no = req[r].no /\ x.amount = req[r].amount
      /\ x.result = req[r].result
  BY <1>3
<1> QED
  BY <1>4, <1>5, <1>6

LEMMA GotoQuiet ==
  ASSUME Inv, provider' = provider, NEW r \in Requests, ~At(r, "idle"), NEW l \in Labels, l \notin Owning,
         Goto(r, l), UNCHANGED <<db, payout, calls>>
  PROVE  Inv'
BY GotoMoves, QuietStep

LEMMA BeginRefundInv ==
  ASSUME Inv, provider' = provider, NEW r \in Requests, NEW n \in RefundNos, NEW a \in Amounts,
         BeginRefund(r, n, a)
  PROVE  Inv'
<1>1. IsRequest(req[r])
  BY DEF Inv, Fits
<1>2. PICK x : x = [req[r] EXCEPT !.pc = "check", !.no = n, !.amount = a]
  OBVIOUS
<1>3. x = [pc |-> "check", no |-> n, amount |-> a,
           total |-> req[r].total, result |-> req[r].result]
  BY <1>1, <1>2 DEF IsRequest
<1>4. IsRequest(x) /\ x.pc \notin Owning
  BY <1>1, <1>3 DEF IsRequest, Labels, Owning
<1> QED
  BY <1>2, <1>4, QuietStep DEF BeginRefund

LEMMA CheckLimitInv ==
  ASSUME Inv, provider' = provider, NEW r \in Requests, CheckLimit(r)
  PROVE  Inv'
<1> DEFINE reserved == Sum(Active)
<1> HIDE DEF reserved
<1>1. IsRequest(req[r]) /\ ~At(r, "idle") /\ UNCHANGED <<db, payout, calls>>
  BY DEF Inv, Fits, CheckLimit, At
<1>2. CASE Goto(r, "failed")
  BY <1>1, <1>2, GotoQuiet DEF Labels, Owning
<1>3. CASE ~Goto(r, "failed")
  <2>1. PICK x : x = [req[r] EXCEPT !.pc = "insert", !.total = reserved + req[r].amount]
    OBVIOUS
  <2>2. req' = [req EXCEPT ![r] = x]
    BY <1>3, <2>1 DEF CheckLimit, reserved
  <2>3. x = [pc |-> "insert", no |-> req[r].no, amount |-> req[r].amount,
             total |-> reserved + req[r].amount, result |-> req[r].result]
    BY <1>1, <2>1 DEF IsRequest
  <2>4. IsRequest(x) /\ x.pc \notin Owning
    BY <1>1, <2>3 DEF IsRequest, Labels, Owning, At
  <2> QED
    BY <1>1, <2>2, <2>4, QuietStep
<1> QED
  BY <1>2, <1>3

\* The winner of the unique constraint becomes the owner.
LEMMA InsertRefundInv ==
  ASSUME Inv, provider' = provider, NEW r \in Requests, InsertRefund(r)
  PROVE  Inv'
<1> DEFINE n == req[r].no
<1>1. /\ IsRequest(req[r]) /\ ~At(r, "idle") /\ n \in RefundNos /\ req[r].amount \in Amounts
  BY DEF Inv, Fits, InsertRefund, At, IsRequest
<1>2. CASE ~Unused(n)
  BY <1>2, FinishQuiet DEF InsertRefund, db
<1>3. CASE Unused(n)
  <2>1. /\ refunds' = [refunds EXCEPT ![n] = NewRefund(req[r].amount)]
        /\ Goto(r, "call")
        /\ notices' = notices /\ payout' = payout /\ calls' = calls
    BY <1>3 DEF InsertRefund
  <2>2. PICK x : /\ req' = [req EXCEPT ![r] = x] /\ IsRequest(x) /\ x.pc = "call" /\ x.no = n
    BY <1>1, <2>1, GotoMoves DEF Labels
  <2>3. NewRefund(req[r].amount) \in Refund /\ NewRefund(req[r].amount).status = "CREATED"
    BY <1>1, RefundAssumption DEF NewRefund, Refund, RefundStatus, RefundAssumption
  <2>4. refunds[n].status = "absent"
    BY <1>3 DEF Unused, NoRefund
  <2>5. /\ refunds' \in [RefundNos -> Refund] /\ refunds'[n].status = "CREATED"
        /\ \A m \in RefundNos : m # n => refunds'[m] = refunds[m]
    BY <1>1, <2>1, <2>3 DEF Inv, Tables
  <2>6. calls[n] = 0 /\ notices[n] = 0
    BY <1>1, <2>4 DEF Inv, Tables, RowFits
  <2>7. ASSUME NEW m \in RefundNos PROVE RowFits(m)'
    BY <2>1, <2>5, <2>6, <2>7 DEF Inv, Tables, RowFits
  <2>8. Tables'
    BY <2>1, <2>5, <2>7 DEF Inv, Tables
  <2>9. \A p \in Requests \ {r} : /\ req'[p] = req[p]
                                  /\ req[p].pc \in Owning => req[p].no # n /\ req[p].no \in RefundNos
    BY <2>2, <2>4 DEF Inv, Fits, IsRequest, Owning
  <2>10. Fits(r, x)'
    BY <2>1, <2>2, <2>5, <2>6, <2>9 DEF Fits, IsRequest
  <2>11. \A p \in Requests \ {r} : req[p].pc \in Owning => refunds[req[p].no].status # "absent"
    BY DEF Inv, Fits
  <2>12. ASSUME NEW p \in Requests \ {r}, req[p].pc \in Owning
         PROVE  /\ refunds'[req[p].no].status # "absent"
                /\ notices'[req[p].no] = notices[req[p].no]
                /\ calls'[req[p].no] = calls[req[p].no]
                /\ Backs(payout[req[p].no]) => Backs(payout'[req[p].no])
                /\ x.no # req[p].no
    <3>1. req[p].no # n /\ req[p].no \in RefundNos
      BY <2>9, <2>12
    <3>2. refunds'[req[p].no] = refunds[req[p].no]
      BY <2>5, <3>1
    <3> QED
      BY <2>1, <2>2, <2>11, <2>12, <3>1, <3>2
  <2> QED
    BY <2>2, <2>8, <2>10, <2>12, Preserve
<1> QED
  BY <1>2, <1>3

\* The owner's step touches its own refund only.
LEMMA OwnerStep ==
  ASSUME Inv, provider' = provider, NEW r \in Requests, req[r].pc \in Owning,
         NEW x, req' = [req EXCEPT ![r] = x], Fits(r, x)', Tables',
         x.pc \in Owning => x.no = req[r].no,
         \A m \in RefundNos : m # req[r].no =>
           /\ refunds'[m] = refunds[m] /\ notices'[m] = notices[m]
           /\ calls'[m] = calls[m] /\ payout'[m] = payout[m]
  PROVE  Inv'
<1>1. \A p \in Requests \ {r} : req[p].pc \in Owning =>
        /\ req[p].no \in RefundNos /\ req[p].no # req[r].no
        /\ refunds[req[p].no].status # "absent"
  BY DEF Inv, Fits, IsRequest, Owning
<1> QED
  BY <1>1, Preserve

\* Alipay's answer may be a success of a refund it has only accepted; Stripe's not.
LEMMA AnswerType ==
  ASSUME NEW outcome, NEW fee
  PROVE  Answer(outcome, fee) \in Results
BY DEF Answer, AlipayAnswer, StripeAnswer, Results

LEMMA AnswerBacked ==
  ASSUME NEW n, NEW outcome \in {"pending", "done"}, NEW fee, payout'[n] = outcome,
         Answer(outcome, fee) = "SUCCESS"
  PROVE  Backs(payout'[n])
BY DEF Answer, StripeAnswer

\* One provider call: whatever it does, the row is told by the next step only.
LEMMA CallProviderInv ==
  ASSUME Inv, provider' = provider, NEW r \in Requests, CallProvider(r)
  PROVE  Inv'
<1> DEFINE n == req[r].no
<1>1. /\ Fits(r, req[r]) /\ IsRequest(req[r]) /\ ~At(r, "idle") /\ n \in RefundNos
      /\ req[r].pc = "call" /\ req[r].pc \in Owning
      /\ refunds[n].status # "absent" /\ notices[n] = 0 /\ calls[n] = 0
      /\ \A p \in Requests \ {r} : req[p].pc \in Owning => req[p].no # n
  BY DEF Inv, Fits, CallProvider, At, IsRequest, Owning
<1>2. PICK outcome, fee :
        /\ outcome \in {"pending", "done", "refused"} /\ fee \in BOOLEAN
        /\ payout' = [payout EXCEPT ![n] = outcome]
        /\ \/ /\ outcome # "refused"
              /\ req' = [req EXCEPT ![r] = [@ EXCEPT !.pc = "settle",
                                                     !.result = Answer(outcome, fee)]]
           \/ Goto(r, "failed")
  BY DEF CallProvider
<1>3. /\ calls' = [calls EXCEPT ![n] = calls[n] + 1]
      /\ refunds' = refunds /\ notices' = notices
  BY DEF CallProvider, db
<1>4. /\ payout' \in [RefundNos -> PayoutStates] /\ payout'[n] = outcome
      /\ calls' \in [RefundNos -> Nat] /\ calls'[n] = 1
      /\ \A m \in RefundNos : m # n => payout'[m] = payout[m] /\ calls'[m] = calls[m]
  BY <1>1, <1>2, <1>3 DEF Inv, Tables, PayoutStates
<1>5. ASSUME NEW m \in RefundNos PROVE RowFits(m)'
  BY <1>1, <1>3, <1>4, <1>5 DEF Inv, Tables, RowFits
<1>6. Tables'
  BY <1>3, <1>4, <1>5 DEF Inv, Tables
<1>7. CASE Goto(r, "failed")
  <2>1. PICK x : /\ req' = [req EXCEPT ![r] = x] /\ IsRequest(x) /\ x.pc = "failed"
    BY <1>1, <1>7, GotoMoves DEF Labels
  <2>2. Fits(r, x)'
    BY <2>1 DEF Fits, Owning, IsRequest
  <2> QED
    BY <1>1, <1>3, <1>4, <1>6, <2>1, <2>2, OwnerStep DEF Owning
<1>8. CASE ~Goto(r, "failed")
  <2>0. PICK res : res = Answer(outcome, fee)
    OBVIOUS
  <2>1. PICK x : x = [req[r] EXCEPT !.pc = "settle", !.result = res]
    OBVIOUS
  <2>2. req' = [req EXCEPT ![r] = x]
    BY <1>2, <1>8, <2>0, <2>1
  <2>3. x = [pc |-> "settle", no |-> n, amount |-> req[r].amount,
             total |-> req[r].total, result |-> res]
    BY <1>1, <2>1 DEF IsRequest
  <2>4. IsRequest(x) /\ x.pc = "settle" /\ x.no = n /\ x.result = res
    BY <1>1, <2>0, <2>3, AnswerType DEF IsRequest, Labels
  <2>5. \A p \in Requests \ {r} : req'[p] = req[p]
    BY <2>2 DEF Inv
  <2>6. res = "SUCCESS" => Backs(payout'[n])
    BY <1>2, <1>4, <1>8, <2>0, AnswerBacked
  <2>7. Fits(r, x)'
    BY <1>1, <1>3, <1>4, <2>4, <2>5, <2>6 DEF Fits, IsRequest
  <2> QED
    BY <1>1, <1>3, <1>4, <1>6, <2>2, <2>4, <2>7, OwnerStep
<1> QED
  BY <1>7, <1>8

LEMMA SettleRefundInv ==
  ASSUME Inv, provider' = provider, NEW r \in Requests, SettleRefund(r)
  PROVE  Inv'
<1> DEFINE n == req[r].no
<1>1. /\ Fits(r, req[r]) /\ IsRequest(req[r]) /\ n \in RefundNos
      /\ req[r].pc \in Owning /\ refunds[n].status # "absent" /\ notices[n] = 0
      /\ req[r].result \in Results
      /\ req[r].result = "SUCCESS" => Backs(payout[n])
  BY DEF Inv, Fits, SettleRefund, At, IsRequest, Owning
<1>2. /\ Mark(n, req[r].result) /\ req' = [req EXCEPT ![r] = Idle]
      /\ payout' = payout /\ calls' = calls
  BY DEF SettleRefund, SettledStatus, Finish
<1>3. /\ refunds' \in [RefundNos -> Refund] /\ refunds'[n].status = req[r].result
      /\ \A m \in RefundNos : m # n => refunds'[m] = refunds[m]
  BY <1>1, <1>2 DEF Mark, Inv, Tables, Refund, RefundStatus, Results
<1>4. CASE req[r].result = "SUCCESS"
  <2>1. notices' = [notices EXCEPT ![n] = notices[n] + 1]
    BY <1>4 DEF SettleRefund
  <2>2. /\ notices' \in [RefundNos -> Nat] /\ notices'[n] = 1
        /\ \A m \in RefundNos : m # n => notices'[m] = notices[m]
    BY <1>1, <2>1 DEF Inv, Tables
  <2>3. ASSUME NEW m \in RefundNos PROVE RowFits(m)'
    BY <1>1, <1>2, <1>3, <1>4, <2>2, <2>3 DEF Inv, Tables, RowFits
  <2>4. Tables'
    BY <1>2, <1>3, <2>2, <2>3 DEF Inv, Tables
  <2> QED
    BY <1>1, <1>2, <1>3, <2>2, <2>4, IdleFits, OwnerStep DEF Owning
<1>5. CASE req[r].result # "SUCCESS"
  <2>1. notices' = notices /\ req[r].result = "PROCESSING"
    BY <1>1, <1>5 DEF SettleRefund, Results
  <2>2. ASSUME NEW m \in RefundNos PROVE RowFits(m)'
    BY <1>1, <1>2, <1>3, <2>1, <2>2 DEF Inv, Tables, RowFits
  <2>3. Tables'
    BY <1>2, <1>3, <2>1, <2>2 DEF Inv, Tables
  <2> QED
    BY <1>1, <1>2, <1>3, <2>1, <2>3, IdleFits, OwnerStep DEF Owning
<1> QED
  BY <1>4, <1>5

\* The catch block may turn anybody's refund FAILED; it takes nothing back.
LEMMA MarkFailedInv ==
  ASSUME Inv, provider' = provider, NEW r \in Requests, MarkFailed(r)
  PROVE  Inv'
<1> DEFINE n == req[r].no
<1>1. n \in RefundNos
  BY DEF Inv, Fits, IsRequest, MarkFailed, At
<1>2. /\ Mark(n, "FAILED") /\ req' = [req EXCEPT ![r] = Idle]
      /\ notices' = notices /\ payout' = payout /\ calls' = calls
  BY DEF MarkFailed, Finish
<1>3. /\ refunds' \in [RefundNos -> Refund] /\ refunds'[n].status = "FAILED"
      /\ \A m \in RefundNos : m # n => refunds'[m] = refunds[m]
  BY <1>1, <1>2 DEF Mark, Inv, Tables, Refund, RefundStatus
<1>4. ASSUME NEW m \in RefundNos PROVE RowFits(m)'
  BY <1>2, <1>3, <1>4 DEF Inv, Tables, RowFits
<1>5. Tables'
  BY <1>2, <1>3, <1>4 DEF Inv, Tables
<1>6. ASSUME NEW p \in Requests \ {r}, req[p].pc \in Owning
      PROVE  refunds'[req[p].no].status # "absent"
  <2>1. req[p].no \in RefundNos /\ refunds[req[p].no].status # "absent"
    BY <1>6 DEF Inv, Fits, IsRequest, Owning
  <2> QED
    BY <1>3, <2>1
<1> QED
  BY <1>2, <1>5, <1>6, IdleFits, Preserve DEF Owning

LEMMA QuietInv ==
  ASSUME Inv, provider' = provider, NEW r \in Requests,
         ReadFailed(r) \/ StepFails(r) \/ Abandon(r) \/ RefundUnavailable(r)
  PROVE  Inv'
<1>1. CASE ReadFailed(r)
  BY <1>1, FinishQuiet, GotoQuiet DEF ReadFailed, At, Labels, Owning
<1>2. CASE StepFails(r)
  BY <1>2, GotoQuiet DEF StepFails, At, Labels, Owning
<1>3. CASE Abandon(r)
  BY <1>3, FinishQuiet DEF Abandon
<1>4. CASE RefundUnavailable(r)
  BY <1>4, GotoQuiet DEF RefundUnavailable, At, Labels, Owning
<1> QED
  BY <1>1, <1>2, <1>3, <1>4

LEMMA ProviderSettlesInv ==
  ASSUME Inv, provider' = provider, NEW n \in RefundNos, ProviderSettles(n)
  PROVE  Inv'
<1>1. PICK outcome \in {"done", "givenUp"} : payout' = [payout EXCEPT ![n] = outcome]
  BY DEF ProviderSettles
<1>2. /\ payout[n] = "pending" /\ refunds' = refunds /\ notices' = notices
      /\ calls' = calls /\ req' = req
  BY DEF ProviderSettles, db
<1>3. /\ payout' \in [RefundNos -> PayoutStates]
      /\ \A m \in RefundNos : Backs(payout[m]) => Backs(payout'[m])
  BY <1>1, <1>2 DEF Inv, Tables, PayoutStates
<1>4. ASSUME NEW m \in RefundNos PROVE RowFits(m)'
  BY <1>2, <1>3, <1>4 DEF Inv, Tables, RowFits
<1>5. Tables'
  BY <1>2, <1>3, <1>4 DEF Inv, Tables
<1>6. ASSUME NEW r \in Requests PROVE Fits(r, req[r])'
  <2>1. PICK y : y = req[r]
    OBVIOUS
  <2>2. Fits(r, y) /\ req'[r] = y
    BY <1>2, <2>1 DEF Inv
  <2>3. y.pc = "settle" => y.no \in RefundNos
    BY <2>2 DEF Fits, IsRequest
  <2>4. Fits(r, y)'
    BY <1>2, <1>3, <2>2, <2>3 DEF Fits, IsRequest
  <2> QED
    BY <2>2, <2>4
<1> QED
  BY <1>2, <1>5, <1>6 DEF Inv

LEMMA NextInv == Inv /\ [Next]_vars => Inv'
<1> SUFFICES ASSUME Inv, [Next]_vars PROVE Inv'
  OBVIOUS
<1>1. ASSUME NEW r \in Requests, RefundStep(r) \/ StepFails(r) \/ Abandon(r),
             provider' = provider
      PROVE  Inv'
  BY <1>1, CheckLimitInv, InsertRefundInv, CallProviderInv, SettleRefundInv, MarkFailedInv,
     QuietInv DEF RefundStep
<1>2. CASE UNCHANGED vars
  <2>1. /\ refunds' = refunds /\ notices' = notices /\ payout' = payout
        /\ calls' = calls /\ req' = req /\ provider' = provider
    BY <1>2 DEF vars, db
  <2>2. Tables'
    BY <2>1 DEF Inv, Tables, RowFits
  <2>3. ASSUME NEW r \in Requests PROVE Fits(r, req[r])'
    BY <2>1, <2>3 DEF Inv, Fits, IsRequest
  <2> QED
    BY <2>1, <2>2, <2>3 DEF Inv
<1> QED
  BY <1>1, <1>2, BeginRefundInv, ProviderSettlesInv DEF Next

LEMMA SpecInv == Spec => []Inv
BY InitInv, NextInv, PTL DEF Spec

-----------------------------------------------------------------------------
(* Theorems *)

\* createRefund reports SUCCESS, or notifies of it, only for a refund that Stripe paid
\* out or Alipay accepted, for any number of concurrent requests and faults.
THEOREM SuccessesAreBacked == Spec => []SuccessIsBacked
<1>1. Inv => SuccessIsBacked
  BY DEF Inv, Tables, RowFits, SuccessIsBacked
<1> QED
  BY <1>1, SpecInv, PTL

\* The unique refund number makes one provider call and one notification of
\* all requests that carry it.
THEOREM NumbersRefundOnce == Spec => []OneRefundPerNumber
<1>1. Inv => OneRefundPerNumber
  BY DEF Inv, Tables, RowFits, OneRefundPerNumber
<1> QED
  BY <1>1, SpecInv, PTL

-----------------------------------------------------------------------------
(* Refunds that fail while requests run one at a time and nothing else fails *)

Running(r) == req[r].pc # "idle"

\* Where a request is tells what its row and the provider know of its refund.
Knows(x) ==
  /\ x.pc \in {"check", "insert"} => refunds[x.no].status = "absent"
  /\ x.pc \in Owning => refunds[x.no].status # "FAILED"
  /\ x.pc \in {"call", "failed", "markFailed"} => payout[x.no] \notin {"pending", "done"}

Untroubled == ~overlapped /\ faults = 0

Orderly ==
  /\ faults \in Nat
  /\ overlapped \in BOOLEAN
  /\ Untroubled =>
    /\ \A r, q \in Requests : Running(r) /\ Running(q) => r = q
    /\ \A r \in Requests : Knows(req[r])
    /\ \A n \in RefundNos :
         /\ refunds[n].status = "absent" => payout[n] = "none"
         /\ refunds[n].status = "FAILED" => payout[n] \notin {"pending", "done"}

LEMMA Moved ==
  ASSUME Inv, NEW r \in Requests
  PROVE  /\ \A x : req' = [req EXCEPT ![r] = x] =>
              req'[r] = x /\ \A q \in Requests : q # r => req'[q] = req[q]
         /\ ~At(r, "idle") => req[r].no \in RefundNos /\ req[r].result \in Results
BY DEF Inv, At, Fits, IsRequest

\* A step of a request, while all others are idle: what it knows and what the tables
\* say of its own refund is all that has to be shown.
LEMMA OrderlyMove ==
  ASSUME Inv, Orderly, Untroubled, NEW r \in Requests,
         Running(r) \/ \A q \in Requests : ~Running(q),
         NEW n \in RefundNos, NEW x, req' = [req EXCEPT ![r] = x], Knows(x)',
         \A m \in RefundNos : m # n => refunds'[m] = refunds[m] /\ payout'[m] = payout[m],
         refunds'[n].status = "absent" => payout'[n] = "none",
         refunds'[n].status = "FAILED" => payout'[n] \notin {"pending", "done"},
         UNCHANGED <<faults, overlapped>>
  PROVE  Orderly'
<1>1. req'[r] = x /\ \A q \in Requests : q # r => req'[q] = req[q]
  BY Moved
<1>2. \A q \in Requests : q # r => req'[q].pc = "idle"
  BY <1>1 DEF Orderly, Running
<1>3. \A q \in Requests : Knows(req[q])'
  BY <1>1, <1>2 DEF Knows, Owning
<1>4. \A p, q \in Requests : Running(p)' /\ Running(q)' => p = q
  BY <1>2 DEF Running
<1> QED
  BY <1>3, <1>4 DEF Orderly

LEMMA IdleKnows == Knows(Idle)' /\ Idle.pc = "idle"
BY DEF Knows, Idle, Owning

LEMMA GotoKnows ==
  ASSUME Inv, NEW r \in Requests, ~At(r, "idle"), NEW l \in Labels, Goto(r, l)
  PROVE  \E x : req' = [req EXCEPT ![r] = x] /\ x.pc = l /\ x.no = req[r].no
BY GotoMoves

LEMMA OrderlyBegin ==
  ASSUME Inv, Orderly, NEW r \in Requests, NEW n \in RefundNos, NEW a \in Amounts,
         BeginRefund(r, n, a)
  PROVE  Orderly'
<1>1. CASE ~Untroubled'
  BY <1>1 DEF Orderly, BeginRefund
<1>2. CASE Untroubled'
  <2>1. Untroubled /\ overlapped' = overlapped /\ faults' = faults
        /\ \A q \in Requests : ~Running(q)
    BY <1>2 DEF BeginRefund, Untroubled, At, Running, Orderly
  <2>2. PICK x : x = [req[r] EXCEPT !.pc = "check", !.no = n, !.amount = a]
    OBVIOUS
  <2>3. req' = [req EXCEPT ![r] = x] /\ x.pc = "check" /\ x.no = n
    BY <2>2 DEF BeginRefund, Inv, Fits, IsRequest
  <2>4. /\ refunds' = refunds /\ payout' = payout /\ refunds[n].status = "absent"
    BY DEF BeginRefund, db, NoRefund
  <2>5. Knows(x)'
    BY <2>3, <2>4 DEF Knows, Owning
  <2> QED
    BY <2>1, <2>3, <2>4, <2>5, OrderlyMove DEF Orderly
<1> QED
  BY <1>1, <1>2

LEMMA OrderlyStep ==
  ASSUME Inv, Orderly, Untroubled, NEW r \in Requests, RefundStep(r), faults' = faults
  PROVE  Orderly'
<1> DEFINE n == req[r].no
<1>1. /\ IsRequest(req[r]) /\ ~At(r, "idle") /\ n \in RefundNos /\ Running(r)
      /\ req[r].amount \in Amounts /\ req[r].result \in Results
      /\ UNCHANGED <<faults, overlapped>>
  BY DEF Inv, Fits, RefundStep, CheckLimit, InsertRefund, CallProvider, RefundUnavailable, SettleRefund,
     ReadFailed, MarkFailed, At, IsRequest, Running
<1>2. /\ Knows(req[r]) /\ refunds \in [RefundNos -> Refund] /\ payout \in [RefundNos -> PayoutStates]
      /\ refunds[n].status = "absent" => payout[n] = "none"
      /\ refunds[n].status = "FAILED" => payout[n] \notin {"pending", "done"}
  BY <1>1 DEF Orderly, Inv, Tables
<1>3. ASSUME Goto(r, "failed") \/ Goto(r, "markFailed") \/ Finish(r), UNCHANGED <<refunds, payout>>,
             payout[n] \notin {"pending", "done"} \/ Finish(r)
      PROVE  Orderly'
  <2>1. CASE Finish(r)
    BY <1>1, <1>2, <1>3, <2>1, IdleKnows, OrderlyMove DEF Finish
  <2>2. CASE Goto(r, "failed") \/ Goto(r, "markFailed")
    <3>1. PICK x : /\ req' = [req EXCEPT ![r] = x] /\ x.pc \in {"failed", "markFailed"}
                   /\ x.no = n
      BY <1>1, <2>2, GotoKnows DEF Labels
    <3>2. Knows(x)' \/ Finish(r)
      BY <1>3, <3>1 DEF Knows, Owning
    <3> QED
      BY <1>1, <1>2, <1>3, <2>1, <3>1, <3>2, OrderlyMove
  <2> QED
    BY <1>3, <2>1, <2>2
<1>4. CASE CheckLimit(r)
  <2>1. /\ refunds' = refunds /\ payout' = payout
        /\ req[r].pc = "check" /\ refunds[n].status = "absent" /\ payout[n] = "none"
    BY <1>2, <1>4 DEF CheckLimit, db, Knows, At
  <2>2. CASE Goto(r, "failed")
    BY <1>3, <2>1, <2>2
  <2>3. CASE ~Goto(r, "failed")
    <3> DEFINE reserved == Sum(Active)
    <3> HIDE DEF reserved
    <3>1. PICK x : x = [req[r] EXCEPT !.pc = "insert", !.total = reserved + req[r].amount]
      OBVIOUS
    <3>2. req' = [req EXCEPT ![r] = x]
      BY <1>4, <2>3, <3>1 DEF CheckLimit, reserved
    <3>3. x.pc = "insert" /\ x.no = n
      BY <1>1, <3>1 DEF IsRequest
    <3>4. Knows(x)'
      BY <2>1, <3>3 DEF Knows, Owning
    <3> QED
      BY <1>1, <1>2, <2>1, <3>2, <3>4, OrderlyMove
  <2> QED
    BY <2>2, <2>3
<1>5. CASE InsertRefund(r)
  <2>1. CASE ~Unused(n)
    BY <1>3, <1>5, <2>1 DEF InsertRefund
  <2>2. CASE Unused(n)
    <3>1. /\ refunds' = [refunds EXCEPT ![n] = NewRefund(req[r].amount)]
          /\ payout' = payout /\ Goto(r, "call")
      BY <1>5, <2>2 DEF InsertRefund
    <3>2. /\ refunds'[n].status = "CREATED"
          /\ \A m \in RefundNos : m # n => refunds'[m] = refunds[m]
      BY <1>1, <1>2, <3>1 DEF NewRefund
    <3>3. PICK x : req' = [req EXCEPT ![r] = x] /\ x.pc = "call" /\ x.no = n
      BY <1>1, <3>1, GotoKnows DEF Labels
    <3>4. payout'[n] = "none"
      BY <1>2, <2>2, <3>1 DEF Unused, NoRefund
    <3>5. Knows(x)'
      BY <3>2, <3>3, <3>4 DEF Knows, Owning
    <3> QED
      BY <1>1, <3>1, <3>2, <3>3, <3>5, OrderlyMove
  <2> QED
    BY <2>1, <2>2
<1>6. CASE CallProvider(r)
  <2>1. /\ req[r].pc = "call" /\ refunds[n].status \notin {"absent", "FAILED"}
        /\ refunds' = refunds
    BY <1>2, <1>6 DEF CallProvider, At, Knows, Owning, Inv, Fits, db
  <2>2. PICK outcome, fee :
          /\ outcome \in {"pending", "done", "refused"} /\ fee \in BOOLEAN
          /\ payout' = [payout EXCEPT ![n] = outcome]
          /\ \/ /\ outcome # "refused"
                /\ req' = [req EXCEPT ![r] = [@ EXCEPT !.pc = "settle",
                                                       !.result = Answer(outcome, fee)]]
             \/ outcome = "refused" /\ Goto(r, "failed")
    <3>1. ~Fault
      BY <1>1 DEF Fault, Orderly
    <3>2. PICK outcome \in {"pending", "done", "refused"} :
            \E fee \in BOOLEAN :
              /\ payout' = [payout EXCEPT ![n] = outcome]
              /\ \/ /\ outcome # "refused"
                    /\ req' = [req EXCEPT ![r] = [@ EXCEPT !.pc = "settle",
                                                           !.result = Answer(outcome, fee)]]
                 \/ outcome = "refused" /\ Goto(r, "failed")
                 \/ Fault
      BY <1>6, Zenon DEF CallProvider
    <3> QED
      BY <3>1, <3>2, Zenon
  <2>3. payout'[n] = outcome /\ \A m \in RefundNos : m # n => payout'[m] = payout[m]
    BY <1>1, <1>2, <2>2
  <2>4. CASE outcome = "refused"
    <3>1. PICK x : req' = [req EXCEPT ![r] = x] /\ x.pc = "failed" /\ x.no = n
      BY <1>1, <2>2, <2>4, GotoKnows DEF Labels
    <3>2. Knows(x)'
      BY <2>3, <2>4, <3>1 DEF Knows, Owning
    <3> QED
      BY <1>1, <2>1, <2>3, <3>1, <3>2, OrderlyMove
  <2>5. CASE outcome # "refused"
    <3>1. PICK res : res = Answer(outcome, fee)
      OBVIOUS
    <3>2. PICK x : x = [req[r] EXCEPT !.pc = "settle", !.result = res]
      OBVIOUS
    <3>3. req' = [req EXCEPT ![r] = x]
      BY <2>2, <2>5, <3>1, <3>2
    <3>4. x.pc = "settle" /\ x.no = n
      BY <1>1, <3>2 DEF IsRequest
    <3>5. Knows(x)'
      BY <2>1, <3>4 DEF Knows, Owning
    <3> QED
      BY <1>1, <2>1, <2>3, <3>3, <3>5, OrderlyMove
  <2> QED
    BY <2>4, <2>5
<1>7. ASSUME NEW s \in Results \cup {"FAILED"}, Mark(n, s), Finish(r), payout' = payout,
             s = "FAILED" => payout[n] \notin {"pending", "done"}
      PROVE  Orderly'
  <2>1. /\ refunds'[n].status = s
        /\ \A m \in RefundNos : m # n => refunds'[m] = refunds[m]
    BY <1>1, <1>2, <1>7 DEF Mark, Refund
  <2>2. s # "absent"
    BY <1>7 DEF Results
  <2> QED
    BY <1>1, <1>7, <2>1, <2>2, IdleKnows, OrderlyMove DEF Finish
<1>8. CASE SettleRefund(r)
  BY <1>1, <1>7, <1>8 DEF SettleRefund, SettledStatus, Results
<1>9. CASE MarkFailed(r)
  BY <1>2, <1>7, <1>9 DEF MarkFailed, Knows, At
<1>10. CASE ReadFailed(r)
  BY <1>2, <1>3, <1>10 DEF ReadFailed, Knows, At, db
<1>11. CASE RefundUnavailable(r)
  BY <1>2, <1>3, <1>11 DEF RefundUnavailable, Knows, At, db
<1> QED
  BY <1>4, <1>5, <1>6, <1>8, <1>9, <1>10, <1>11 DEF RefundStep

LEMMA OrderlyNext == Inv /\ Orderly /\ [Next]_vars => Orderly'
<1> SUFFICES ASSUME Inv, Orderly, [Next]_vars PROVE Orderly'
  OBVIOUS
<1>1. ASSUME NEW r \in Requests, RefundStep(r) \/ StepFails(r) \/ Abandon(r)
      PROVE  Orderly'
  <2>1. overlapped' = overlapped /\ faults' \in {faults, faults + 1}
    BY <1>1 DEF RefundStep, StepFails, Abandon, CheckLimit, InsertRefund, CallProvider,
       RefundUnavailable, SettleRefund, ReadFailed, MarkFailed, Fault
  <2>2. CASE ~Untroubled'
    BY <2>1, <2>2 DEF Orderly
  <2>3. CASE Untroubled'
    <3>1. Untroubled /\ faults' = faults
      BY <2>1, <2>3 DEF Orderly, Untroubled
    <3>2. RefundStep(r)
      BY <1>1, <3>1 DEF StepFails, Abandon, Fault, Orderly
    <3> QED
      BY <3>1, <3>2, OrderlyStep
  <2> QED
    BY <2>2, <2>3
<1>2. ASSUME NEW n \in RefundNos, ProviderSettles(n) PROVE Orderly'
  <2>1. PICK outcome \in {"done", "givenUp"} : payout' = [payout EXCEPT ![n] = outcome]
    BY <1>2 DEF ProviderSettles
  <2>2. /\ payout[n] = "pending" /\ refunds' = refunds /\ req' = req
        /\ UNCHANGED <<faults, overlapped>>
    BY <1>2 DEF ProviderSettles, db
  <2>3. \A m \in RefundNos : payout[m] \notin {"pending", "done"} => payout'[m] = payout[m]
    BY <2>1, <2>2 DEF Inv, Tables
  <2>4. \A r \in Requests : req[r].pc # "idle" => req[r].no \in RefundNos
    BY DEF Inv, Fits, IsRequest
  <2>5. ASSUME Untroubled
        PROVE  /\ \A r \in Requests : Knows(req[r])'
               /\ \A m \in RefundNos :
                    /\ refunds'[m].status = "absent" => payout'[m] = "none"
                    /\ refunds'[m].status = "FAILED" => payout'[m] \notin {"pending", "done"}
    <3>1. \A r \in Requests : Knows(req[r])'
      BY <2>2, <2>3, <2>4, <2>5 DEF Orderly, Knows
    <3>2. \A m \in RefundNos :
            /\ refunds'[m].status = "absent" => payout'[m] = "none"
            /\ refunds'[m].status = "FAILED" => payout'[m] \notin {"pending", "done"}
      BY <2>2, <2>3, <2>5 DEF Orderly
    <3> QED
      BY <3>1, <3>2
  <2>6. /\ faults' \in Nat /\ overlapped' \in BOOLEAN
        /\ Untroubled' <=> Untroubled
        /\ \A r \in Requests : Running(r)' <=> Running(r)
    BY <2>2 DEF Orderly, Untroubled, Running
  <2> QED
    BY <2>5, <2>6 DEF Orderly
<1>3. CASE UNCHANGED vars
  BY <1>3 DEF vars, db, Orderly, Untroubled, Knows, Running
<1> QED
  BY <1>1, <1>2, <1>3, OrderlyBegin DEF Next

\* As long as refund requests run one at a time and nothing fails, the catch block
\* writes FAILED only for a refund the provider refused or never heard of.
THEOREM FailuresMoveNothing == Spec => []FailedIsNotPaidOut
<1>1. Init => Orderly
  <2> SUFFICES ASSUME Init PROVE Orderly
    OBVIOUS
  <2>1. /\ faults = 0 /\ overlapped = FALSE
        /\ \A r \in Requests : req[r].pc = "idle"
        /\ \A n \in RefundNos : refunds[n].status = "absent" /\ payout[n] = "none"
    BY DEF Init, Idle, NoRefund
  <2>2. \A r \in Requests : Knows(req[r])
    BY <2>1 DEF Knows, Owning
  <2> QED
    BY <2>1, <2>2 DEF Orderly, Running
<1>2. Orderly => FailedIsNotPaidOut
  BY DEF Orderly, Untroubled, FailedIsNotPaidOut
<1> QED
  BY <1>1, <1>2, OrderlyNext, SpecInv, PTL DEF Spec


-----------------------------------------------------------------------------
(* Totals *)

LEMMA CentsFit ==
  ASSUME NEW S, IsFiniteSet(S), NEW B \in Nat, NEW f, \A x \in S : f[x] \in 0..B
  PROVE  /\ IsFiniteSet(Cents(f, S))
         /\ Total(f, S) \in Nat
         /\ Total(f, S) <= Cardinality(S) * B
<1>1. PICK C : C = 1..B
  OBVIOUS
<1>2. IsFiniteSet(C) /\ Cardinality(C) = B
  BY <1>1, FS_Interval
<1>3. PICK P : P = S \X C
  OBVIOUS
<1>4. IsFiniteSet(P) /\ Cardinality(P) = Cardinality(S) * B
  BY <1>2, <1>3, FS_Product
<1>5. Cents(f, S) \subseteq P
  BY <1>1, <1>3 DEF Cents
<1>6. IsFiniteSet(Cents(f, S)) /\ Cardinality(Cents(f, S)) <= Cardinality(P)
  BY <1>4, <1>5, FS_Subset
<1> QED
  BY <1>4, <1>6, FS_CardinalityType DEF Total

LEMMA TotalOfOne ==
  ASSUME NEW x, NEW f, f[x] \in Nat
  PROVE  Total(f, {x}) = f[x]
<1>1. PICK C : C = 1..f[x]
  OBVIOUS
<1>2. IsFiniteSet(C) /\ Cardinality(C) = f[x]
  BY <1>1, FS_Interval
<1>3. PICK X : X = {x}
  OBVIOUS
<1>4. IsFiniteSet(X) /\ Cardinality(X) = 1
  BY <1>3, FS_Singleton
<1>5. IsFiniteSet(X \X C) /\ Cardinality(X \X C) = 1 * f[x]
  BY <1>2, <1>4, FS_Product
<1>6. Cents(f, {x}) = X \X C
  BY <1>1, <1>3 DEF Cents
<1>7. Total(f, {x}) = Cardinality(X \X C)
  BY <1>6, Zenon DEF Total
<1> QED
  BY <1>5, <1>7

LEMMA TotalsAdd ==
  ASSUME NEW S, NEW T, S \cap T = {}, NEW f,
         IsFiniteSet(Cents(f, S)), IsFiniteSet(Cents(f, T))
  PROVE  Total(f, S \cup T) = Total(f, S) + Total(f, T)
<1>1. Cents(f, S \cup T) = Cents(f, S) \cup Cents(f, T)
  BY DEF Cents
<1>2. Cents(f, S) \cap Cents(f, T) = {}
  BY DEF Cents
<1>3. Cardinality({}) = 0
  BY FS_EmptySet
<1>4. PICK A, B : A = Cents(f, S) /\ B = Cents(f, T)
  OBVIOUS
<1>5. Cardinality(A \cup B) = Cardinality(A) + Cardinality(B) - Cardinality(A \cap B)
  BY <1>4, FS_Union
<1>6. Cardinality(A) \in Nat /\ Cardinality(B) \in Nat
  BY <1>4, FS_CardinalityType
<1>7. Cardinality(A \cap B) = 0
  BY <1>2, <1>3, <1>4, Zenon
<1>8. /\ Total(f, S \cup T) = Cardinality(A \cup B)
      /\ Total(f, S) = Cardinality(A) /\ Total(f, T) = Cardinality(B)
  BY <1>1, <1>4, Zenon DEF Total
<1> QED
  BY <1>5, <1>6, <1>7, <1>8

LEMMA TotalsAgree ==
  ASSUME NEW S, NEW f, NEW g, \A x \in S : f[x] = g[x]
  PROVE  Total(f, S) = Total(g, S)
<1>1. Cents(f, S) = Cents(g, S)
  BY DEF Cents
<1> QED
  BY <1>1 DEF Total

LEMMA TotalGrows ==
  ASSUME NEW T, IsFiniteSet(T), NEW S \in SUBSET T, NEW B \in Nat, NEW f,
         \A x \in T : f[x] \in 0..B
  PROVE  Total(f, S) \in Nat /\ Total(f, T) \in Nat /\ Total(f, S) <= Total(f, T)
<1>1. IsFiniteSet(Cents(f, T)) /\ Total(f, T) \in Nat
  BY CentsFit
<1>2. Cents(f, S) \subseteq Cents(f, T)
  BY DEF Cents
<1>3. IsFiniteSet(Cents(f, S)) /\ Cardinality(Cents(f, S)) <= Cardinality(Cents(f, T))
  BY <1>1, <1>2, FS_Subset
<1> QED
  BY <1>1, <1>3, FS_CardinalityType DEF Total

\* Taking one member out takes its amount out.
LEMMA TotalWithout ==
  ASSUME NEW S, IsFiniteSet(S), NEW x \in S, NEW B \in Nat, NEW f,
         \A y \in S : f[y] \in 0..B
  PROVE  /\ Total(f, S) = Total(f, S \ {x}) + f[x]
         /\ Total(f, S \ {x}) \in Nat
<1>1. PICK T : T = S \ {x}
  OBVIOUS
<1>2. IsFiniteSet(T)
  BY <1>1, FS_RemoveElement
<1>3. \A y \in T : f[y] \in 0..B
  BY <1>1
<1>4. IsFiniteSet(Cents(f, T)) /\ Total(f, T) \in Nat
  BY <1>2, <1>3, CentsFit
<1>5. PICK X : X = {x}
  OBVIOUS
<1>6. IsFiniteSet(Cents(f, X))
  <2>1. IsFiniteSet(X) /\ \A y \in X : f[y] \in 0..B
    BY <1>5, FS_Singleton
  <2> QED
    BY <2>1, CentsFit
<1>7. S = T \cup X /\ T \cap X = {}
  BY <1>1, <1>5
<1>8. Total(f, S) = Total(f, T) + Total(f, X)
  BY <1>4, <1>6, <1>7, TotalsAdd
<1>9. Total(f, X) = f[x]
  BY <1>5, TotalOfOne
<1> QED
  BY <1>1, <1>2, <1>4, <1>8, <1>9

\* Two functions that agree but for one member differ by what they give it.
LEMMA TotalMoves ==
  ASSUME NEW S, IsFiniteSet(S), NEW x \in S, NEW B \in Nat, NEW f, NEW g,
         \A y \in S : f[y] \in 0..B /\ g[y] \in 0..B,
         \A y \in S : y # x => f[y] = g[y]
  PROVE  Total(g, S) + f[x] = Total(f, S) + g[x]
<1>1. Total(f, S \ {x}) = Total(g, S \ {x})
  BY TotalsAgree
<1>2. /\ Total(f, S) = Total(f, S \ {x}) + f[x] /\ Total(f, S \ {x}) \in Nat
  BY TotalWithout
<1>3. /\ Total(g, S) = Total(g, S \ {x}) + g[x] /\ Total(g, S \ {x}) \in Nat
  BY TotalWithout
<1>4. f[x] \in Nat /\ g[x] \in Nat
  OBVIOUS
<1> QED
  BY <1>1, <1>2, <1>3, <1>4

-----------------------------------------------------------------------------
(* The sums of the refund table *)

ActiveStatus == {"CREATED", "PROCESSING", "SUCCESS"}

SumOf(rows, K) == Total([n \in RefundNos |-> rows[n].amount],
                        {n \in RefundNos : rows[n].status \in K})
Part(row, K)   == IF row.status \in K THEN row.amount ELSE 0

\* A refund that has a row is at least a cent and at most what was paid.
RowSized(row) ==
  /\ row.status = "absent" => row.amount = 0
  /\ row.status # "absent" => row.amount \in 1..PaidAmount

Rows == {rows \in [RefundNos -> Refund] : \A n \in RefundNos : RowSized(rows[n])}

LEMMA SumOfActive ==
  /\ Sum(Active) = SumOf(refunds, ActiveStatus)
  /\ Sum(Active)' = SumOf(refunds', ActiveStatus)
  /\ Sum({n \in RefundNos : refunds[n].status = "SUCCESS"}) = SumOf(refunds, {"SUCCESS"})
<1>1. {n \in RefundNos : refunds[n].status \in {"SUCCESS"}}
        = {n \in RefundNos : refunds[n].status = "SUCCESS"}
  OBVIOUS
<1>2. Sum({n \in RefundNos : refunds[n].status = "SUCCESS"}) = SumOf(refunds, {"SUCCESS"})
  BY <1>1, Zenon DEF Sum, SumOf
<1> QED
  BY <1>2 DEF Sum, Active, SumOf, ActiveStatus

LEMMA RowAmounts ==
  ASSUME NEW rows \in Rows, NEW n \in RefundNos
  PROVE  /\ rows[n] \in Refund /\ RowSized(rows[n])
         /\ rows[n].amount \in 0..PaidAmount
         /\ [m \in RefundNos |-> rows[m].amount][n] = rows[n].amount
<1>1. rows[n] \in Refund /\ RowSized(rows[n])
  BY DEF Rows
<1> QED
  BY <1>1, RefundAssumption DEF RowSized, Refund, RefundAssumption

LEMMA SumsFit ==
  ASSUME NEW rows \in Rows, NEW K, NEW L, K \subseteq L
  PROVE  /\ SumOf(rows, K) \in Nat
         /\ SumOf(rows, K) <= SumOf(rows, L)
<1>1. PICK f : f = [m \in RefundNos |-> rows[m].amount]
  OBVIOUS
<1>2. PICK S, T : /\ S = {n \in RefundNos : rows[n].status \in K}
                  /\ T = {n \in RefundNos : rows[n].status \in L}
  OBVIOUS
<1>3. S \in SUBSET T /\ T \in SUBSET RefundNos
  BY <1>2
<1>4. IsFiniteSet(T)
  BY <1>3, FS_Subset, RefundAssumption DEF RefundAssumption
<1>5. PaidAmount \in Nat /\ \A n \in T : f[n] \in 0..PaidAmount
  BY <1>1, <1>3, RowAmounts, RefundAssumption DEF RefundAssumption
<1>6. Total(f, S) \in Nat /\ Total(f, S) <= Total(f, T)
  BY <1>3, <1>4, <1>5, TotalGrows
<1> QED
  BY <1>1, <1>2, <1>6 DEF SumOf

\* A step that touches one row changes a sum by that row alone.
LEMMA SumMoves ==
  ASSUME NEW rows \in Rows, NEW rows2 \in Rows, NEW n \in RefundNos, NEW K,
         \A m \in RefundNos : m # n => rows2[m] = rows[m]
  PROVE  /\ SumOf(rows2, K) + Part(rows[n], K) = SumOf(rows, K) + Part(rows2[n], K)
         /\ SumOf(rows, K) \in Nat /\ SumOf(rows2, K) \in Nat
<1> DEFINE Gives(w) == [m \in RefundNos |-> Part(w[m], K)]
           In(w) == {m \in RefundNos : w[m].status \in K}
<1>1. ASSUME NEW w \in Rows
      PROVE  /\ SumOf(w, K) = Total(Gives(w), RefundNos)
             /\ \A m \in RefundNos : Gives(w)[m] = Part(w[m], K) /\ Gives(w)[m] \in 0..PaidAmount
  <2>1. \A m \in RefundNos : Gives(w)[m] = Part(w[m], K) /\ Gives(w)[m] \in 0..PaidAmount
    BY <1>1, RowAmounts, RefundAssumption DEF Part, RefundAssumption
  <2>2. PICK f, S : f = [m \in RefundNos |-> w[m].amount] /\ S = In(w)
    OBVIOUS
  <2>3. Cents(f, S) \subseteq Cents(Gives(w), RefundNos)
    BY <2>1, <2>2 DEF Cents, Part
  <2>4. ASSUME NEW m \in RefundNos, NEW c \in 1..Gives(w)[m] PROVE <<m, c>> \in Cents(f, S)
    <3>1. w[m].status \in K
      BY <2>1, <2>4 DEF Part
    <3>2. m \in S /\ f[m] = Gives(w)[m]
      BY <2>1, <2>2, <3>1 DEF Part
    <3> QED
      BY <2>4, <3>2 DEF Cents
  <2>5. Cents(Gives(w), RefundNos) \subseteq Cents(f, S)
    BY <2>4 DEF Cents
  <2>6. Total(f, S) = Total(Gives(w), RefundNos)
    BY <2>3, <2>5 DEF Total
  <2> QED
    BY <2>1, <2>2, <2>6 DEF SumOf
<1>2. PICK f, g : f = Gives(rows) /\ g = Gives(rows2)
  OBVIOUS
<1>3. \A m \in RefundNos : /\ f[m] \in 0..PaidAmount /\ g[m] \in 0..PaidAmount
                           /\ m # n => f[m] = g[m]
  BY <1>1, <1>2
<1>4. IsFiniteSet(RefundNos) /\ PaidAmount \in Nat
  BY RefundAssumption DEF RefundAssumption
<1>5. Total(g, RefundNos) + f[n] = Total(f, RefundNos) + g[n]
  BY <1>3, <1>4, TotalMoves
<1> QED
  BY <1>1, <1>2, <1>5, SumsFit

-----------------------------------------------------------------------------
(* What a step of a request does to its row, to the order and to where it is *)

\* It takes along the refund it is about.
Keeps(r, l) == /\ req'[r].pc = l /\ req'[r].no = req[r].no
               /\ req'[r].amount = req[r].amount

Resting == UNCHANGED <<refunds, orderStatus>>

Passes(r) ==
  /\ req[r].pc = "check" /\ Keeps(r, "insert") /\ Resting
  /\ req'[r].total = Sum(Active) + req[r].amount
  /\ req'[r].total <= PaidAmount

Inserts(r) ==
  /\ req[r].pc = "insert" /\ Keeps(r, "call")
  /\ req'[r].total = req[r].total
  /\ refunds[req[r].no] = NoRefund
  /\ refunds' = [refunds EXCEPT ![req[r].no] = NewRefund(req[r].amount)]
  /\ UNCHANGED orderStatus

IsAccepted(r) ==
  /\ req[r].pc = "call" /\ Keeps(r, "settle") /\ Resting
  /\ req'[r].total = req[r].total

Settles(r) ==
  /\ req[r].pc = "settle" /\ req'[r].pc = "idle"
  /\ refunds' = [refunds EXCEPT ![req[r].no].status = req[r].result]
  /\ orderStatus' = IF req[r].result = "SUCCESS" THEN AfterRefund(r) ELSE orderStatus

Marks(r) ==
  /\ req[r].pc = "markFailed" /\ req'[r].pc = "idle"
  /\ refunds' = [refunds EXCEPT ![req[r].no].status = "FAILED"]
  /\ UNCHANGED orderStatus

GivesUp(r) ==
  /\ Resting
  /\ \/ req'[r].pc = "idle"
     \/ req[r].pc \in {"check", "insert", "call", "settle"} /\ Keeps(r, "failed")
     \/ /\ req[r].pc = "failed" /\ Keeps(r, "markFailed")
        /\ refunds[req[r].no].status = "CREATED"

Shape(r) == Passes(r) \/ Inserts(r) \/ IsAccepted(r) \/ Settles(r) \/ Marks(r) \/ GivesUp(r)

LEMMA GotoKeeps ==
  ASSUME Inv, NEW r \in Requests, ~At(r, "idle"), NEW l, Goto(r, l)
  PROVE  Keeps(r, l) /\ req'[r].total = req[r].total /\ req'[r].result = req[r].result
<1>1. IsRequest(req[r])
  BY DEF Inv, Fits
<1>2. PICK x : x = [req[r] EXCEPT !.pc = l]
  OBVIOUS
<1>3. x = [pc |-> l, no |-> req[r].no, amount |-> req[r].amount,
           total |-> req[r].total, result |-> req[r].result]
  BY <1>1, <1>2 DEF IsRequest
<1>4. req'[r] = x
  BY <1>2 DEF Goto, Inv
<1> QED
  BY <1>3, <1>4 DEF Keeps

LEMMA FinishIdles ==
  ASSUME Inv, NEW r \in Requests, Finish(r)
  PROVE  req'[r].pc = "idle"
BY DEF Finish, Inv, Idle

LEMMA StepShapes ==
  ASSUME Inv, refunds \in Rows, NEW r \in Requests, RefundStep(r) \/ StepFails(r) \/ Abandon(r)
  PROVE  /\ Shape(r)
         /\ req[r].no \in RefundNos /\ req[r].amount \in Amounts /\ Running(r)
         /\ req[r].result \in Results
         /\ \A q \in Requests : q # r => req'[q] = req[q]
         /\ overlapped' = overlapped
<1>1. ~At(r, "idle") /\ overlapped' = overlapped
  BY DEF RefundStep, StepFails, Abandon, CheckLimit, InsertRefund, CallProvider,
     RefundUnavailable, SettleRefund, ReadFailed, MarkFailed, At
<1>2. /\ IsRequest(req[r]) /\ Running(r)
      /\ req[r].no \in RefundNos /\ req[r].amount \in Amounts /\ req[r].result \in Results
  BY <1>1 DEF Inv, Fits, IsRequest, At, Running
<1>3. \A q \in Requests : q # r => req'[q] = req[q]
  BY DEF RefundStep, StepFails, Abandon, CheckLimit, InsertRefund, CallProvider,
     RefundUnavailable, SettleRefund, ReadFailed, MarkFailed, Goto, Finish, Inv
<1> SUFFICES Shape(r)
  BY <1>1, <1>2, <1>3
<1>4. CASE CheckLimit(r)
  <2>1. req[r].pc = "check" /\ Resting
    BY <1>4 DEF CheckLimit, At, Resting, db
  <2>2. CASE Goto(r, "failed")
    BY <1>1, <2>1, <2>2, GotoKeeps DEF Shape, GivesUp
  <2>3. CASE ~Goto(r, "failed")
    <3> DEFINE reserved == Sum(Active)
    <3> HIDE DEF reserved
    <3>1. PICK x : x = [req[r] EXCEPT !.pc = "insert", !.total = reserved + req[r].amount]
      OBVIOUS
    <3>2. req' = [req EXCEPT ![r] = x] /\ req[r].amount + reserved <= PaidAmount
      BY <1>4, <2>3, <3>1 DEF CheckLimit, reserved, WithinLimit
    <3>3. /\ x.pc = "insert" /\ x.no = req[r].no /\ x.amount = req[r].amount
          /\ x.total = reserved + req[r].amount
      BY <1>2, <3>1 DEF IsRequest
    <3>4. req'[r] = x
      BY <3>2 DEF Inv
    <3>5. req[r].amount \in Nat
      BY <1>2, RefundAssumption DEF RefundAssumption
    <3>6. reserved \in Nat
      BY SumOfActive, SumsFit DEF reserved
    <3> QED
      BY <2>1, <3>2, <3>3, <3>4, <3>5, <3>6 DEF Shape, Passes, Keeps, reserved
  <2> QED
    BY <2>2, <2>3
<1>5. CASE InsertRefund(r)
  <2>1. CASE Unused(req[r].no)
    BY <1>1, <1>5, <2>1, GotoKeeps DEF InsertRefund, Unused, At, Shape, Inserts
  <2>2. CASE ~Unused(req[r].no)
    BY <1>5, <2>2, FinishIdles DEF InsertRefund, Shape, GivesUp, Resting
  <2> QED
    BY <2>1, <2>2
<1>6. CASE CallProvider(r)
  <2>1. req[r].pc = "call" /\ Resting
    BY <1>6 DEF CallProvider, At, Resting, db
  <2>2. CASE Goto(r, "failed")
    BY <1>1, <2>1, <2>2, GotoKeeps DEF Shape, GivesUp
  <2>3. CASE ~Goto(r, "failed")
    <3>1. PICK res, x : /\ x = [req[r] EXCEPT !.pc = "settle", !.result = res]
                        /\ req' = [req EXCEPT ![r] = x]
      BY <1>6, <2>3 DEF CallProvider, Answer
    <3>2. /\ x.pc = "settle" /\ x.no = req[r].no /\ x.amount = req[r].amount
          /\ x.total = req[r].total
      BY <1>2, <3>1 DEF IsRequest
    <3>3. req'[r] = x
      BY <3>1 DEF Inv
    <3> QED
      BY <2>1, <3>2, <3>3 DEF Shape, IsAccepted, Keeps
  <2> QED
    BY <2>2, <2>3
<1>7. CASE SettleRefund(r)
  <2>1. Settles(r)
    BY <1>7, FinishIdles DEF SettleRefund, Mark, SettledStatus, At, Settles
  <2> QED
    BY <2>1 DEF Shape
<1>8. CASE ReadFailed(r)
  BY <1>1, <1>8, GotoKeeps, FinishIdles DEF ReadFailed, At, Shape, GivesUp, Resting, db
<1>9. CASE MarkFailed(r)
  <2>1. Marks(r)
    BY <1>9, FinishIdles DEF MarkFailed, Mark, At, Marks
  <2> QED
    BY <2>1 DEF Shape
<1>10. CASE StepFails(r)
  BY <1>1, <1>10, GotoKeeps DEF StepFails, At, Shape, GivesUp, Resting, db
<1>12. CASE RefundUnavailable(r)
  BY <1>1, <1>12, GotoKeeps DEF RefundUnavailable, At, Shape, GivesUp, Resting, db
<1>11. CASE Abandon(r)
  BY <1>11, FinishIdles DEF Abandon, Shape, GivesUp, Resting, db
<1> QED
  BY <1>4, <1>5, <1>6, <1>7, <1>8, <1>9, <1>10, <1>11, <1>12 DEF RefundStep

-----------------------------------------------------------------------------
(* Amounts *)

\* A request that passed the check asks for no more than was paid, and the row it
\* owns has its amount.
RequestSized(x, rows) ==
  /\ x.pc \in {"insert", "call", "settle"} => x.amount \in 1..PaidAmount
  /\ x.pc \in Owning => rows[x.no].amount = x.amount
  /\ x.pc = "markFailed" => rows[x.no].status # "absent"

Sized == refunds \in Rows /\ \A r \in Requests : RequestSized(req[r], refunds)

\* Rows keep their amount, but for the one that is inserted.
LEMMA RowSteps ==
  ASSUME Inv, Sized, NEW r \in Requests, RefundStep(r) \/ StepFails(r) \/ Abandon(r)
  PROVE  /\ refunds' \in Rows
         /\ \A m \in RefundNos : m # req[r].no => refunds'[m] = refunds[m]
         /\ ~Inserts(r) => refunds'[req[r].no].amount = refunds[req[r].no].amount
         /\ Settles(r) => refunds'[req[r].no].status = req[r].result
         /\ Marks(r) => refunds'[req[r].no].status = "FAILED"
         /\ Inserts(r) => refunds'[req[r].no] = NewRefund(req[r].amount)
<1> DEFINE n == req[r].no
<1>1. /\ Shape(r) /\ n \in RefundNos /\ req[r].amount \in Amounts /\ req[r].result \in Results
  BY StepShapes DEF Sized
<1>2. refunds \in [RefundNos -> Refund] /\ \A m \in RefundNos : RowSized(refunds[m])
  BY DEF Sized, Rows
<1>3. CASE Resting /\ ~Inserts(r) /\ ~Settles(r) /\ ~Marks(r)
  BY <1>3 DEF Resting, Sized
<1>4. CASE Inserts(r)
  <2>1. /\ req[r].amount \in 1..PaidAmount /\ req[r].pc = "insert"
        /\ refunds' = [refunds EXCEPT ![n] = NewRefund(req[r].amount)]
    BY <1>4 DEF Inserts, Sized, RequestSized
  <2>2. PICK row : row = NewRefund(req[r].amount)
    OBVIOUS
  <2>3. row \in Refund /\ RowSized(row)
    BY <2>1, <2>2, RefundAssumption DEF NewRefund, Refund, RefundStatus, RowSized, RefundAssumption
  <2>4. /\ refunds' \in [RefundNos -> Refund] /\ refunds'[n] = row
        /\ \A m \in RefundNos : m # n => refunds'[m] = refunds[m]
    BY <1>1, <1>2, <2>1, <2>2, <2>3
  <2>5. \A m \in RefundNos : RowSized(refunds'[m])
    BY <1>2, <2>3, <2>4
  <2>6. refunds' \in Rows
    BY <2>4, <2>5 DEF Rows
  <2> QED
    BY <1>4, <2>1, <2>2, <2>4, <2>6 DEF Settles, Marks
<1>5. CASE Settles(r) \/ Marks(r)
  <2>1. PICK s \in {"PROCESSING", "SUCCESS", "FAILED"} :
          /\ refunds' = [refunds EXCEPT ![n].status = s]
          /\ Settles(r) => s = req[r].result
          /\ Marks(r) => s = "FAILED"
    <3>1. CASE Settles(r)
      BY <1>1, <3>1 DEF Settles, Marks, Results
    <3>2. CASE Marks(r)
      BY <1>1, <3>2 DEF Settles, Marks
    <3> QED
      BY <1>5, <3>1, <3>2
  <2>2. refunds[n].status # "absent"
    <3>1. CASE Settles(r)
      BY <3>1 DEF Inv, Fits, Settles, Owning
    <3>2. CASE Marks(r)
      BY <3>2 DEF Sized, RequestSized, Marks
    <3> QED
      BY <1>5, <3>1, <3>2
  <2>3. PICK row : row = [refunds[n] EXCEPT !.status = s]
    OBVIOUS
  <2>4. row \in Refund /\ row.status = s /\ row.amount = refunds[n].amount
    BY <1>1, <1>2, <2>1, <2>3 DEF Refund, RefundStatus
  <2>5. RowSized(row)
    BY <1>1, <1>2, <2>1, <2>2, <2>4 DEF RowSized
  <2>6. /\ refunds' \in [RefundNos -> Refund] /\ refunds'[n] = row
        /\ \A m \in RefundNos : m # n => refunds'[m] = refunds[m]
    BY <1>1, <1>2, <2>1, <2>3, <2>4
  <2>7. \A m \in RefundNos : RowSized(refunds'[m])
    BY <1>2, <2>5, <2>6
  <2>8. refunds' \in Rows
    BY <2>6, <2>7 DEF Rows
  <2>9. ~Inserts(r)
    BY <1>5 DEF Inserts, Settles, Marks
  <2> QED
    BY <2>1, <2>4, <2>6, <2>8, <2>9
<1>6. Resting \/ Inserts(r) \/ Settles(r) \/ Marks(r)
  BY <1>1 DEF Shape, Passes, IsAccepted, GivesUp
<1> QED
  BY <1>3, <1>4, <1>5, <1>6

LEMMA RowStays ==
  ASSUME Inv, Sized, NEW r \in Requests, RefundStep(r) \/ StepFails(r) \/ Abandon(r),
         NEW m \in RefundNos, refunds[m].status # "absent"
  PROVE  refunds'[m].status # "absent"
<1>1. Shape(r) /\ req[r].result \in Results
  BY StepShapes DEF Sized
<1>2. Settles(r) \/ Marks(r) => refunds'[req[r].no].status # "absent"
  BY <1>1, RowSteps DEF Results
<1>3. Inserts(r) => refunds'[req[r].no].status # "absent"
  <2>1. Inserts(r) => refunds'[req[r].no] = NewRefund(req[r].amount)
    BY RowSteps
  <2> QED
    BY <2>1 DEF NewRefund
<1>4. Settles(r) \/ Marks(r) \/ Inserts(r) \/ refunds' = refunds
  BY <1>1 DEF Shape, Passes, IsAccepted, GivesUp, Resting
<1>5. m # req[r].no => refunds'[m] = refunds[m]
  BY RowSteps
<1> QED
  BY <1>2, <1>3, <1>4, <1>5

LEMMA SizedNext == Inv /\ Sized /\ [Next]_vars => Sized'
<1> SUFFICES ASSUME Inv, Sized, [Next]_vars PROVE Sized'
  OBVIOUS
<1>1. ASSUME NEW r \in Requests, RefundStep(r) \/ StepFails(r) \/ Abandon(r)
      PROVE  Sized'
  <2> DEFINE n == req[r].no
  <2>1. /\ Shape(r) /\ n \in RefundNos /\ req[r].amount \in Amounts
        /\ \A q \in Requests : q # r => req'[q] = req[q]
    BY <1>1, StepShapes DEF Sized
  <2>2. /\ refunds' \in Rows
        /\ \A m \in RefundNos : m # n => refunds'[m] = refunds[m]
        /\ ~Inserts(r) => refunds'[n].amount = refunds[n].amount
        /\ Inserts(r) => refunds'[n] = NewRefund(req[r].amount)
    BY <1>1, RowSteps
  <2>3. ASSUME NEW q \in Requests, q # r PROVE RequestSized(req'[q], refunds')
    <3>1. RequestSized(req[q], refunds) /\ req'[q] = req[q]
      BY <2>1, <2>3 DEF Sized
    <3>2. req[q].pc \in Owning => req[q].no \in RefundNos /\ refunds[req[q].no].status # "absent"
      BY DEF Inv, Fits, IsRequest, Owning
    <3>3. Inserts(r) => refunds[n].status = "absent" /\ refunds'[n].status = "CREATED"
      BY <2>2 DEF Inserts, NoRefund, NewRefund
    <3>4. req[q].pc = "markFailed" => req[q].no \in RefundNos
      BY DEF Inv, Fits, IsRequest
    <3>5. \A m \in RefundNos : refunds[m].status # "absent" => refunds'[m].status # "absent"
      BY <1>1, <2>2, <3>3, RowStays
    <3> QED
      BY <2>2, <3>1, <3>2, <3>3, <3>4, <3>5 DEF RequestSized
  <2>4. RequestSized(req[r], refunds)
    BY DEF Sized
  <2>5. CASE Passes(r)
    <3>1. req[r].amount \in Nat \ {0} /\ Sum(Active) \in Nat /\ PaidAmount \in Nat
      BY <2>1, RefundAssumption, SumOfActive, SumsFit DEF RefundAssumption, Sized
    <3>2. req'[r].amount \in 1..PaidAmount /\ req'[r].pc = "insert"
      BY <2>5, <3>1 DEF Passes, Keeps
    <3> QED
      BY <2>2, <2>3, <3>2 DEF RequestSized, Sized, Owning
  <2>6. RequestSized(req'[r], refunds') \/ Passes(r)
    <3>1. CASE Inserts(r)
      BY <2>1, <2>2, <2>4, <3>1 DEF Inserts, Keeps, RequestSized, NewRefund, Owning
    <3>2. CASE IsAccepted(r)
      BY <2>1, <2>2, <2>4, <3>2 DEF IsAccepted, Inserts, Keeps, RequestSized, Owning
    <3>3. CASE Settles(r) \/ Marks(r) \/ GivesUp(r)
      BY <3>3 DEF Settles, Marks, GivesUp, Keeps, RequestSized, Owning, Resting
    <3> QED
      BY <2>1, <3>1, <3>2, <3>3 DEF Shape
  <2> QED
    BY <2>2, <2>3, <2>5, <2>6 DEF Sized
<1>2. ASSUME NEW r \in Requests, NEW n \in RefundNos, NEW a \in Amounts, BeginRefund(r, n, a)
      PROVE  Sized'
  <2>1. refunds' = refunds /\ \A q \in Requests : req'[q] = req[q] \/ req'[q].pc = "check"
    BY <1>2 DEF BeginRefund, db, Inv, Fits, IsRequest
  <2> QED
    BY <2>1 DEF Sized, RequestSized, Owning
<1>3. CASE UNCHANGED <<refunds, req>>
  BY <1>3 DEF Sized
<1> QED
  BY <1>1, <1>2, <1>3 DEF Next, ProviderSettles, vars, db

LEMMA SpecSized == Spec => []Sized
<1>1. Init => Sized
  <2> SUFFICES ASSUME Init PROVE Sized
    OBVIOUS
  <2>1. /\ refunds = [n \in RefundNos |-> NoRefund]
        /\ \A r \in Requests : req[r].pc = "idle"
    BY DEF Init, Idle
  <2>2. NoRefund \in Refund /\ RowSized(NoRefund)
    BY DEF NoRefund, Refund, RefundStatus, RowSized
  <2>3. refunds \in Rows
    BY <2>1, <2>2 DEF Rows
  <2> QED
    BY <2>1, <2>3 DEF Sized, RequestSized, Owning
<1> QED
  BY <1>1, SizedNext, SpecInv, PTL DEF Spec

-----------------------------------------------------------------------------
(* Types *)

LEMMA TypedGoto ==
  ASSUME req \in [Requests -> Request], NEW r \in Requests,
         Finish(r) \/ \E l \in Labels : Goto(r, l)
  PROVE  req' \in [Requests -> Request]
<1>1. CASE Finish(r)
  <2>1. (CHOOSE n \in RefundNos : TRUE) \in RefundNos /\ (CHOOSE a \in Amounts : TRUE) \in Amounts
    BY RefundAssumption DEF RefundAssumption
  <2>2. Idle \in Request
    BY <2>1 DEF Idle, Request
  <2> QED
    BY <1>1, <2>2 DEF Finish
<1>2. ASSUME NEW l \in Labels, Goto(r, l) PROVE req' \in [Requests -> Request]
  <2>1. PICK x : x = [req[r] EXCEPT !.pc = l]
    OBVIOUS
  <2>2. x \in Request
    BY <2>1 DEF Request, Labels
  <2> QED
    BY <1>2, <2>1, <2>2 DEF Goto
<1> QED
  BY <1>1, <1>2

LEMMA TypeNext == Inv' /\ Sized /\ TypeOK /\ [Next]_vars => TypeOK'
<1> SUFFICES ASSUME Inv', Sized, TypeOK, [Next]_vars PROVE TypeOK'
  OBVIOUS
<1>1. /\ refunds' \in [RefundNos -> Refund] /\ notices' \in [RefundNos -> Nat]
      /\ payout' \in [RefundNos -> PayoutStates] /\ calls' \in [RefundNos -> Nat]
  BY DEF Inv, Tables
<1>2. req \in [Requests -> Request]
  BY DEF TypeOK
<1>0. provider' \in Providers
  BY DEF TypeOK, Next, vars
<1> SUFFICES req' \in [Requests -> Request] /\ orderStatus' \in OrderStatus
             /\ faults' \in 0..MaxFaults /\ overlapped' \in BOOLEAN
  BY <1>0, <1>1 DEF TypeOK
<1>3. ASSUME NEW r \in Requests, RefundStep(r) \/ StepFails(r) \/ Abandon(r)
      PROVE  /\ overlapped' \in BOOLEAN /\ faults' \in 0..MaxFaults
             /\ orderStatus' \in OrderStatus
  <2>1. faults' = faults \/ Fault
    BY <1>3 DEF RefundStep, StepFails, Abandon, CheckLimit, InsertRefund, CallProvider,
       RefundUnavailable, SettleRefund, ReadFailed, MarkFailed
  <2>2. faults' \in 0..MaxFaults
    BY <2>1, RefundAssumption DEF Fault, TypeOK, RefundAssumption
  <2>3. overlapped' = overlapped
    BY <1>3 DEF RefundStep, StepFails, Abandon, CheckLimit, InsertRefund, CallProvider,
       RefundUnavailable, SettleRefund, ReadFailed, MarkFailed
  <2>4. orderStatus' \in OrderStatus
    BY <1>3 DEF RefundStep, StepFails, Abandon, CheckLimit, InsertRefund, CallProvider,
       RefundUnavailable, SettleRefund, ReadFailed, MarkFailed, TypeOK, AfterRefund,
       OrderStatus, db
  <2> QED
    BY <2>2, <2>3, <2>4 DEF TypeOK
<1>4. ASSUME NEW r \in Requests, CheckLimit(r) PROVE req' \in [Requests -> Request]
  <2>1. CASE Goto(r, "failed")
    BY <1>2, <2>1, TypedGoto DEF Labels
  <2>2. CASE ~Goto(r, "failed")
    <3>1. Sum(Active) \in Nat
      BY SumOfActive, SumsFit DEF Sized
    <3>2. PICK t \in Nat : t = Sum(Active) + req[r].amount
      <4>1. req[r].amount \in Nat
        BY <1>2, RefundAssumption DEF Request, RefundAssumption
      <4> QED
        BY <3>1, <4>1
    <3>3. PICK x : x = [req[r] EXCEPT !.pc = "insert", !.total = t]
      OBVIOUS
    <3>4. x \in Request
      BY <1>2, <3>2, <3>3 DEF Request
    <3>5. req' = [req EXCEPT ![r] = x]
      BY <1>4, <2>2, <3>2, <3>3 DEF CheckLimit
    <3> QED
      BY <1>2, <3>4, <3>5
  <2> QED
    BY <2>1, <2>2
<1>5. ASSUME NEW r \in Requests, CallProvider(r) PROVE req' \in [Requests -> Request]
  <2>1. CASE Goto(r, "failed")
    BY <1>2, <2>1, TypedGoto DEF Labels
  <2>2. CASE ~Goto(r, "failed")
    <3>1. PICK res \in Results :
            req' = [req EXCEPT ![r] = [@ EXCEPT !.pc = "settle", !.result = res]]
      BY <1>5, <2>2, AnswerType DEF CallProvider
    <3>2. PICK x : x = [req[r] EXCEPT !.pc = "settle", !.result = res]
      OBVIOUS
    <3>3. x \in Request
      BY <1>2, <3>2 DEF Request, Results
    <3> QED
      BY <1>2, <3>1, <3>2, <3>3
  <2> QED
    BY <2>1, <2>2
<1>6. ASSUME NEW r \in Requests, InsertRefund(r) \/ SettleRefund(r) \/ ReadFailed(r)
                                 \/ MarkFailed(r) \/ StepFails(r) \/ Abandon(r)
                                 \/ RefundUnavailable(r)
      PROVE  req' \in [Requests -> Request]
  <2>1. Finish(r) \/ \E l \in Labels : Goto(r, l)
    BY <1>6 DEF InsertRefund, SettleRefund, ReadFailed, MarkFailed, StepFails, Abandon,
       RefundUnavailable, Labels
  <2> QED
    BY <1>2, <2>1, TypedGoto
<1>7. ASSUME NEW r \in Requests, NEW n \in RefundNos, NEW a \in Amounts, BeginRefund(r, n, a)
      PROVE  /\ overlapped' \in BOOLEAN /\ faults' = faults /\ orderStatus' = orderStatus
             /\ req' \in [Requests -> Request]
  <2>1. PICK x : x = [req[r] EXCEPT !.pc = "check", !.no = n, !.amount = a]
    OBVIOUS
  <2>2. x \in Request
    BY <1>2, <2>1 DEF Request
  <2>3. req' = [req EXCEPT ![r] = x]
    BY <1>7, <2>1 DEF BeginRefund
  <2>4. overlapped' \in BOOLEAN /\ faults' = faults /\ orderStatus' = orderStatus
    BY <1>7 DEF BeginRefund, TypeOK, db
  <2> QED
    BY <1>2, <2>2, <2>3, <2>4
<1>8. CASE UNCHANGED <<orderStatus, req, faults, overlapped>>
  BY <1>8 DEF TypeOK
<1> QED
  BY <1>3, <1>4, <1>5, <1>6, <1>7, <1>8 DEF Next, RefundStep, ProviderSettles, vars, db, TypeOK

\* Every row, request and total of createRefund keeps its type; the totals it computes
\* are sums of the amounts of finitely many rows.
THEOREM RefundTypes == Spec => []TypeOK
<1>1. Init => TypeOK
  <2> SUFFICES ASSUME Init PROVE TypeOK
    OBVIOUS
  <2>1. (CHOOSE n \in RefundNos : TRUE) \in RefundNos /\ (CHOOSE a \in Amounts : TRUE) \in Amounts
    BY RefundAssumption DEF RefundAssumption
  <2>2. Idle \in Request
    BY <2>1 DEF Idle, Request
  <2>3. Inv
    BY InitInv
  <2>4. faults = 0 /\ overlapped \in BOOLEAN /\ orderStatus \in OrderStatus
    BY DEF Init, OrderStatus
  <2>5. faults \in 0..MaxFaults
    BY <2>4, RefundAssumption DEF RefundAssumption
  <2> QED
    BY <2>2, <2>3, <2>4, <2>5 DEF Init, TypeOK, Inv, Tables
<1> QED
  BY <1>1, TypeNext, SpecInv, SpecSized, PTL DEF Spec

-----------------------------------------------------------------------------
(* Concurrent limit checks *)

\* What a request may still add to the reservations: it has passed the check and
\* has no active row.
Held(x, rows) ==
  IF x.pc = "insert" \/ (x.pc \in Owning /\ rows[x.no].status \notin ActiveStatus)
  THEN x.amount ELSE 0

HeldBy(rq, rows) == [r \in Requests |-> Held(rq[r], rows)]

Load == Sum(Active) + Total(HeldBy(req, refunds), Requests)
          <= Cardinality(Requests) * PaidAmount

LEMMA HeldFits ==
  ASSUME NEW rq, NEW rows, NEW r \in Requests, RequestSized(rq[r], rows)
  PROVE  /\ HeldBy(rq, rows)[r] = Held(rq[r], rows)
         /\ Held(rq[r], rows) \in 0..PaidAmount
<1>1. PaidAmount \in Nat
  BY RefundAssumption DEF RefundAssumption
<1> QED
  BY <1>1 DEF HeldBy, Held, RequestSized, Owning

LEMMA HeldTotal ==
  ASSUME Sized
  PROVE  /\ IsFiniteSet(Requests) /\ PaidAmount \in Nat /\ Cardinality(Requests) \in Nat
         /\ Total(HeldBy(req, refunds), Requests) \in Nat
<1>1. PICK f : f = HeldBy(req, refunds)
  OBVIOUS
<1>2. \A r \in Requests : f[r] \in 0..PaidAmount
  BY <1>1, HeldFits DEF Sized
<1>3. IsFiniteSet(Requests) /\ PaidAmount \in Nat
  BY RefundAssumption DEF RefundAssumption
<1>4. Cardinality(Requests) \in Nat
  BY <1>3, FS_CardinalityType
<1> QED
  BY <1>1, <1>2, <1>3, <1>4, CentsFit

\* One request's share changes.
LEMMA HeldMoves ==
  ASSUME Sized, Sized', NEW r \in Requests,
         \A q \in Requests : q # r => Held(req'[q], refunds') = Held(req[q], refunds)
  PROVE  Total(HeldBy(req, refunds), Requests)' + Held(req[r], refunds)
           = Total(HeldBy(req, refunds), Requests) + Held(req'[r], refunds')
<1>1. PICK f, g : f = HeldBy(req, refunds) /\ g = HeldBy(req', refunds')
  OBVIOUS
<1>2. \A q \in Requests : f[q] = Held(req[q], refunds) /\ f[q] \in 0..PaidAmount
  BY <1>1, HeldFits DEF Sized
<1>3. \A q \in Requests : g[q] = Held(req'[q], refunds') /\ g[q] \in 0..PaidAmount
  BY <1>1, HeldFits DEF Sized
<1>4. IsFiniteSet(Requests) /\ PaidAmount \in Nat
  BY RefundAssumption DEF RefundAssumption
<1>5. \A q \in Requests : q # r => f[q] = g[q]
  BY <1>2, <1>3
<1>6. Total(g, Requests) + f[r] = Total(f, Requests) + g[r]
  BY <1>2, <1>3, <1>4, <1>5, TotalMoves
<1> QED
  BY <1>1, <1>2, <1>3, <1>6

\* What another request holds changes only when the catch block of r turns its row
\* FAILED under it.
LEMMA OthersHold ==
  ASSUME Inv, Sized, NEW r \in Requests, RefundStep(r) \/ StepFails(r) \/ Abandon(r),
         NEW q \in Requests, q # r,
         ~Marks(r) \/ req[q].pc \notin Owning \/ req[q].no # req[r].no
  PROVE  Held(req'[q], refunds') = Held(req[q], refunds)
<1>1. Shape(r) /\ req'[q] = req[q]
  BY StepShapes DEF Sized
<1>2. CASE req[q].pc \notin Owning
  BY <1>1, <1>2 DEF Held
<1>3. CASE req[q].pc \in Owning
  <2>1. /\ req[q].no \in RefundNos /\ refunds[req[q].no].status # "absent"
        /\ req[r].pc \in Owning => req[q].no # req[r].no
    BY <1>3 DEF Inv, Fits, IsRequest, Owning
  <2>2. Inserts(r) => req[q].no # req[r].no
    BY <2>1 DEF Inserts, NoRefund
  <2>3. Settles(r) => req[q].no # req[r].no
    BY <2>1 DEF Settles, Owning
  <2>4. refunds'[req[q].no] = refunds[req[q].no]
    <3>1. CASE req[q].no # req[r].no
      BY <2>1, <3>1, RowSteps
    <3>2. CASE req[q].no = req[r].no
      BY <1>1, <1>3, <2>2, <2>3, <3>2 DEF Shape, Passes, IsAccepted, GivesUp, Resting
    <3> QED
      BY <3>1, <3>2
  <2> QED
    BY <1>1, <2>4 DEF Held
<1> QED
  BY <1>2, <1>3

LEMMA Settings ==
  ASSUME Inv, Sized, NEW r \in Requests, RefundStep(r) \/ StepFails(r) \/ Abandon(r), NEW K
  PROVE  LET n == req[r].no
         IN  /\ SumOf(refunds', K) + Part(refunds[n], K) = SumOf(refunds, K) + Part(refunds'[n], K)
             /\ SumOf(refunds, K) \in Nat /\ SumOf(refunds', K) \in Nat
             /\ refunds[n].amount \in 0..PaidAmount /\ n \in RefundNos
<1>1. /\ refunds \in Rows /\ refunds' \in Rows /\ req[r].no \in RefundNos
      /\ \A m \in RefundNos : m # req[r].no => refunds'[m] = refunds[m]
  BY StepShapes, RowSteps DEF Sized
<1>2. refunds[req[r].no].amount \in 0..PaidAmount
  BY <1>1, RowAmounts
<1> QED
  BY <1>1, <1>2, SumMoves

LEMMA LoadStep ==
  ASSUME Inv, Sized, Sized', Load, NEW r \in Requests,
         RefundStep(r) \/ StepFails(r) \/ Abandon(r)
  PROVE  Load'
<1> DEFINE n == req[r].no
<1>1. PICK a, b, h, k, max :
        /\ a = Sum(Active) /\ b = Sum(Active)'
        /\ h = Total(HeldBy(req, refunds), Requests)
        /\ k = Total(HeldBy(req, refunds), Requests)'
        /\ max = Cardinality(Requests) * PaidAmount
  OBVIOUS
<1>2. PICK p, p2 : p = Part(refunds[n], ActiveStatus) /\ p2 = Part(refunds'[n], ActiveStatus)
  OBVIOUS
<1>3. /\ b + p = a + p2 /\ a \in Nat /\ b \in Nat /\ n \in RefundNos
      /\ refunds[n].amount \in 0..PaidAmount
  BY <1>1, <1>2, Settings, SumOfActive
<1>4. /\ PaidAmount \in Nat /\ max \in Nat /\ h \in Nat /\ k \in Nat
  <2>1. Total(HeldBy(req', refunds'), Requests) \in Nat
    <3>1. PICK f : f = HeldBy(req', refunds')
      OBVIOUS
    <3>2. \A q \in Requests : f[q] \in 0..PaidAmount
      BY <3>1, HeldFits DEF Sized
    <3> QED
      BY <3>1, <3>2, HeldTotal, CentsFit
  <2> QED
    BY <1>1, <2>1, HeldTotal
<1>5. a + h <= max
  BY <1>1 DEF Load
<1> SUFFICES b + k <= max
  BY <1>1 DEF Load
<1>6. /\ Shape(r) /\ req[r].amount \in Amounts /\ RequestSized(req[r], refunds)
      /\ refunds'[n].amount \in 0..PaidAmount /\ RequestSized(req'[r], refunds')
  BY <1>3, StepShapes, RowAmounts, RowSteps DEF Sized
<1>7. PICK x, y : x = Held(req[r], refunds) /\ y = Held(req'[r], refunds')
  OBVIOUS
<1>8. x \in 0..PaidAmount /\ y \in 0..PaidAmount
  BY <1>6, <1>7, HeldFits
<1>9. CASE Marks(r)
  <2>1. /\ refunds'[n].status = "FAILED" /\ refunds'[n].amount = refunds[n].amount
        /\ req[r].pc = "markFailed" /\ req'[r].pc = "idle"
    BY <1>9, RowSteps DEF Marks, Inserts
  <2>2. p2 = 0 /\ x = 0 /\ y = 0
    BY <1>2, <1>7, <2>1 DEF Part, ActiveStatus, Held, Owning
  <2>3. CASE \E q \in Requests : q # r /\ req[q].pc \in Owning /\ req[q].no = n
    <3>1. PICK q \in Requests : q # r /\ req[q].pc \in Owning /\ req[q].no = n
      BY <2>3
    <3>2. \A s \in Requests : s # q /\ s # r => req[s].pc \notin Owning \/ req[s].no # n
      BY <3>1 DEF Inv, Fits
    <3>3. \A s \in Requests : s # q => Held(req'[s], refunds') = Held(req[s], refunds)
      BY <1>7, <2>2, <3>2, OthersHold
    <3>4. PICK u, v : u = Held(req[q], refunds) /\ v = Held(req'[q], refunds')
      OBVIOUS
    <3>5. k + u = h + v
      BY <1>1, <3>3, <3>4, HeldMoves
    <3>6. /\ req'[q] = req[q] /\ refunds[n].amount = req[q].amount
          /\ req[q].pc # "insert"
      BY <3>1, StepShapes DEF Sized, RequestSized, Owning
    <3>7. u + p = refunds[n].amount /\ v = refunds[n].amount /\ u \in Nat /\ p \in Nat
      BY <1>2, <1>3, <2>1, <3>1, <3>4, <3>6 DEF Held, Part, ActiveStatus
    <3> QED
      BY <1>3, <1>4, <1>5, <2>2, <3>5, <3>7
  <2>4. CASE ~\E q \in Requests : q # r /\ req[q].pc \in Owning /\ req[q].no = n
    <3>1. \A q \in Requests : q # r => Held(req'[q], refunds') = Held(req[q], refunds)
      BY <2>4, OthersHold
    <3>2. k + x = h + y
      BY <1>1, <1>7, <3>1, HeldMoves
    <3>3. p \in Nat
      BY <1>2, <1>3 DEF Part
    <3> QED
      BY <1>3, <1>4, <1>5, <2>2, <3>2, <3>3
  <2> QED
    BY <2>3, <2>4
<1>10. CASE ~Marks(r)
  <2>1. k + x = h + y
    <3>1. \A q \in Requests : q # r => Held(req'[q], refunds') = Held(req[q], refunds)
      BY <1>10, OthersHold
    <3> QED
      BY <1>1, <1>7, <3>1, HeldMoves
  <2>2. CASE Passes(r)
    <3>1. b = a /\ x = 0 /\ y = req[r].amount /\ a + y <= PaidAmount
      <4>1. refunds' = refunds /\ req[r].pc = "check" /\ req'[r].pc = "insert"
            /\ req'[r].amount = req[r].amount /\ a + req[r].amount <= PaidAmount
        BY <1>1, <2>2 DEF Passes, Resting, Keeps
      <4>2. b = a
        BY <1>1, <4>1, SumOfActive
      <4> QED
        BY <1>7, <4>1, <4>2 DEF Held, Owning
    <3>2. h + PaidAmount <= max
      <4>1. PICK f : f = HeldBy(req, refunds)
        OBVIOUS
      <4>2. \A q \in Requests : f[q] \in 0..PaidAmount
        BY <4>1, HeldFits DEF Sized
      <4>3. f[r] = 0
        BY <1>6, <1>7, <3>1, <4>1, HeldFits
      <4>4. PICK g : g = [q \in Requests |-> IF q = r THEN PaidAmount ELSE f[q]]
        OBVIOUS
      <4>5. /\ \A q \in Requests : g[q] \in 0..PaidAmount /\ (q # r => f[q] = g[q])
            /\ g[r] = PaidAmount
        BY <1>4, <4>2, <4>4
      <4>6. Total(g, Requests) + 0 = h + PaidAmount
        BY <1>1, <1>4, <4>1, <4>2, <4>3, <4>5, HeldTotal, TotalMoves
      <4>7. Total(g, Requests) \in Nat /\ Total(g, Requests) <= max
        BY <1>1, <1>4, <4>5, HeldTotal, CentsFit
      <4> QED
        BY <1>4, <4>6, <4>7
    <3> QED
      BY <1>3, <1>4, <1>8, <2>1, <3>1, <3>2
  <2>3. CASE Inserts(r)
    <3>1. /\ refunds[n] = NoRefund /\ refunds'[n] = NewRefund(req[r].amount)
          /\ req[r].pc = "insert" /\ req'[r].pc = "call" /\ req'[r].no = n
      BY <2>3, RowSteps DEF Inserts, Keeps
    <3>2. p = 0 /\ p2 = req[r].amount
      BY <1>2, <3>1 DEF Part, ActiveStatus, NoRefund, NewRefund
    <3>3. x = req[r].amount /\ y = 0
      BY <1>7, <3>1 DEF Held, NewRefund, ActiveStatus
    <3> QED
      BY <1>3, <1>4, <1>5, <1>8, <2>1, <3>2, <3>3
  <2>4. CASE IsAccepted(r)
    <3>1. b = a
      BY <1>1, <2>4, SumOfActive DEF IsAccepted, Resting
    <3>2. x = y
      BY <1>7, <2>4 DEF IsAccepted, Resting, Keeps, Held, Owning
    <3> QED
      BY <1>3, <1>4, <1>5, <1>8, <2>1, <3>1, <3>2
  <2>5. CASE Settles(r)
    <3>1. /\ refunds'[n].status \in Results /\ refunds'[n].amount = refunds[n].amount
          /\ req[r].pc = "settle" /\ req'[r].pc = "idle"
      BY <2>5, StepShapes, RowSteps DEF Settles, Inserts, Sized
    <3>2. refunds[n].amount = req[r].amount
      BY <1>6, <3>1 DEF RequestSized, Owning
    <3>3. x + p = refunds[n].amount /\ p2 = refunds[n].amount /\ y = 0 /\ p \in Nat
      BY <1>2, <1>3, <1>7, <3>1, <3>2 DEF Part, Held, ActiveStatus, Results, Owning
    <3> QED
      BY <1>3, <1>4, <1>5, <1>8, <2>1, <3>3
  <2>6. CASE GivesUp(r)
    <3>1. b = a
      BY <1>1, <2>6, SumOfActive DEF GivesUp, Resting
    <3>2. y = 0
      BY <1>7, <2>6 DEF GivesUp, Keeps, Held, Owning
    <3> QED
      BY <1>3, <1>4, <1>5, <1>8, <2>1, <3>1, <3>2
  <2> QED
    BY <1>6, <1>10, <2>2, <2>3, <2>4, <2>5, <2>6 DEF Shape
<1> QED
  BY <1>9, <1>10

LEMMA BeginShape ==
  ASSUME Inv, NEW r \in Requests, NEW n \in RefundNos, NEW a \in Amounts, BeginRefund(r, n, a)
  PROVE  /\ Resting /\ req[r].pc = "idle" /\ refunds[n].status = "absent"
         /\ req'[r].pc = "check" /\ req'[r].no = n
         /\ \A q \in Requests : q # r => req'[q] = req[q]
<1>1. IsRequest(req[r])
  BY DEF Inv, Fits
<1>2. PICK x : x = [req[r] EXCEPT !.pc = "check", !.no = n, !.amount = a]
  OBVIOUS
<1>3. x.pc = "check" /\ x.no = n
  BY <1>1, <1>2 DEF IsRequest
<1>4. req' = [req EXCEPT ![r] = x]
  BY <1>2 DEF BeginRefund
<1>5. req'[r] = x /\ \A q \in Requests : q # r => req'[q] = req[q]
  BY <1>4 DEF Inv
<1>6. Resting /\ req[r].pc = "idle" /\ refunds[n].status = "absent"
  BY DEF BeginRefund, At, Resting, db, NoRefund
<1> QED
  BY <1>3, <1>5, <1>6

LEMMA LoadNext == Inv /\ Sized /\ Sized' /\ Load /\ [Next]_vars => Load'
<1> SUFFICES ASSUME Inv, Sized, Sized', Load, [Next]_vars PROVE Load'
  OBVIOUS
<1>1. ASSUME NEW r \in Requests, NEW n \in RefundNos, NEW a \in Amounts, BeginRefund(r, n, a)
      PROVE  Load'
  <2>1. /\ refunds' = refunds /\ req[r].pc = "idle" /\ req'[r].pc = "check"
        /\ \A q \in Requests : q # r => req'[q] = req[q]
    BY <1>1, BeginShape DEF Resting
  <2>2. \A q \in Requests : Held(req'[q], refunds') = Held(req[q], refunds)
    BY <2>1 DEF Held, Owning
  <2>3. HeldBy(req', refunds') = HeldBy(req, refunds)
    BY <2>2 DEF HeldBy
  <2>4. Sum(Active)' = Sum(Active)
    BY <2>1, SumOfActive
  <2> QED
    BY <2>3, <2>4 DEF Load
<1>2. CASE UNCHANGED <<refunds, req>>
  <2>1. Sum(Active)' = Sum(Active)
    BY <1>2, SumOfActive
  <2> QED
    BY <1>2, <2>1 DEF Load
<1> QED
  BY <1>1, <1>2, LoadStep DEF Next, ProviderSettles, vars, db

\* The limit check of createRefund is a read of its own: n requests that pass it at
\* once reserve at most n times what was paid, however often they fail or crash.
THEOREM OvershootBound == Spec => []OvershootIsBounded
<1>1. Init => Load
  <2> SUFFICES ASSUME Init PROVE Load
    OBVIOUS
  <2>1. Cents([n \in RefundNos |-> refunds[n].amount], Active) = {}
    BY DEF Init, Active, NoRefund, Cents
  <2>2. Cents(HeldBy(req, refunds), Requests) = {}
    <3>1. \A r \in Requests : HeldBy(req, refunds)[r] = 0
      BY DEF Init, Idle, HeldBy, Held, Owning
    <3> QED
      BY <3>1 DEF Cents
  <2>3. Cardinality({}) = 0
    BY FS_EmptySet
  <2>4. Sum(Active) = 0 /\ Total(HeldBy(req, refunds), Requests) = 0
    BY <2>1, <2>2, <2>3, Zenon DEF Sum, Total
  <2>5. Cardinality(Requests) * PaidAmount \in Nat
    <3>1. Cardinality(Requests) \in Nat /\ PaidAmount \in Nat
      BY RefundAssumption, FS_CardinalityType DEF RefundAssumption
    <3> QED
      BY <3>1
  <2> QED
    BY <2>4, <2>5 DEF Load
<1>2. Sized /\ Load => OvershootIsBounded
  <2> SUFFICES ASSUME Sized, Load PROVE OvershootIsBounded
    OBVIOUS
  <2>1. Sum(Active) \in Nat
    BY SumOfActive, SumsFit DEF Sized
  <2>2. Cardinality(Requests) * PaidAmount \in Nat
    BY HeldTotal
  <2> QED
    BY <2>1, <2>2, HeldTotal DEF Load, OvershootIsBounded
<1> QED
  BY <1>1, <1>2, LoadNext, SpecInv, SpecSized, PTL DEF Spec

-----------------------------------------------------------------------------
(* Requests that take turns *)

\* With nobody else running, what a request read still holds when it writes.
Reserves(x) ==
  /\ x.pc \in {"check", "insert"} => refunds[x.no].status = "absent"
  /\ x.pc = "insert" => x.total = Sum(Active) + x.amount /\ x.total <= PaidAmount
  /\ x.pc \in Owning => x.total = Sum(Active) /\ refunds[x.no].status = "CREATED"
  /\ x.pc \in Owning \cup {"markFailed"} => orderStatus # "REFUND_ALL"
  /\ x.pc = "failed" /\ refunds[x.no].status = "CREATED" => orderStatus # "REFUND_ALL"

InTurn ==
  ~overlapped =>
    /\ \A r, q \in Requests : Running(r) /\ Running(q) => r = q
    /\ \A r \in Requests : Reserves(req[r])
    /\ Sum(Active) <= PaidAmount
    /\ orderStatus = "REFUND_ALL" => Sum(Active) = PaidAmount
    /\ SumOf(refunds, {"SUCCESS"}) = PaidAmount => orderStatus = "REFUND_ALL"

LEMMA InTurnStep ==
  ASSUME Inv, Sized, InTurn, ~overlapped, NEW r \in Requests,
         RefundStep(r) \/ StepFails(r) \/ Abandon(r)
  PROVE  InTurn'
<1> DEFINE n == req[r].no
<1>1. PICK a, b, c, d :
        /\ a = Sum(Active) /\ b = Sum(Active)'
        /\ c = SumOf(refunds, {"SUCCESS"}) /\ d = SumOf(refunds', {"SUCCESS"})
  OBVIOUS
<1>2. /\ b + Part(refunds[n], ActiveStatus) = a + Part(refunds'[n], ActiveStatus)
      /\ d + Part(refunds[n], {"SUCCESS"}) = c + Part(refunds'[n], {"SUCCESS"})
      /\ a \in Nat /\ b \in Nat /\ c \in Nat /\ d \in Nat
      /\ n \in RefundNos /\ refunds[n].amount \in Nat
  BY <1>1, Settings, SumOfActive
<1>3. c <= a /\ d <= b
  <2>1. refunds \in Rows /\ refunds' \in Rows /\ {"SUCCESS"} \subseteq ActiveStatus
    BY RowSteps DEF Sized, ActiveStatus
  <2> QED
    BY <1>1, <2>1, SumsFit, SumOfActive
<1>4. /\ Shape(r) /\ Running(r) /\ req[r].result \in Results
      /\ \A q \in Requests : q # r => req'[q] = req[q]
      /\ req[r].amount \in Nat \ {0}
  BY StepShapes, RefundAssumption DEF Sized, RefundAssumption
<1>5. /\ Reserves(req[r]) /\ a <= PaidAmount
      /\ orderStatus = "REFUND_ALL" => a = PaidAmount
      /\ c = PaidAmount => orderStatus = "REFUND_ALL"
      /\ PaidAmount \in Nat
  BY <1>1, RefundAssumption DEF InTurn, RefundAssumption
<1>6. \A q \in Requests : q # r => req'[q].pc = "idle"
  BY <1>4 DEF InTurn, Running
<1>7. ASSUME Reserves(req[r])', b <= PaidAmount,
             orderStatus' = "REFUND_ALL" => b = PaidAmount,
             d = PaidAmount => orderStatus' = "REFUND_ALL"
      PROVE  InTurn'
  <2>1. \A q \in Requests : Reserves(req[q])'
    BY <1>6, <1>7 DEF Reserves, Owning
  <2>2. \A p, q \in Requests : Running(p)' /\ Running(q)' => p = q
    BY <1>6 DEF Running
  <2> QED
    BY <1>1, <1>7, <2>1, <2>2 DEF InTurn
<1>8. CASE Passes(r) \/ IsAccepted(r) \/ GivesUp(r)
  <2>0. Resting
    BY <1>8 DEF Passes, IsAccepted, GivesUp
  <2>1. b = a /\ d = c /\ orderStatus' = orderStatus /\ refunds' = refunds
    BY <1>1, <2>0, SumOfActive DEF Resting
  <2>2. CASE Passes(r)
    BY <1>1, <1>5, <1>7, <2>1, <2>2 DEF Passes, Keeps, Reserves, Owning
  <2>3. CASE IsAccepted(r)
    BY <1>1, <1>5, <1>7, <2>1, <2>3 DEF IsAccepted, Keeps, Reserves, Owning
  <2>4. CASE GivesUp(r)
    BY <1>1, <1>5, <1>7, <2>1, <2>4 DEF GivesUp, Keeps, Reserves, Owning
  <2> QED
    BY <1>8, <2>2, <2>3, <2>4
<1>9. CASE Inserts(r)
  <2>1. /\ refunds[n] = NoRefund /\ refunds'[n] = NewRefund(req[r].amount)
        /\ req[r].pc = "insert" /\ Keeps(r, "call") /\ req'[r].total = req[r].total
        /\ orderStatus' = orderStatus
    BY <1>9, RowSteps DEF Inserts
  <2>2. b = a + req[r].amount /\ d = c
    BY <1>2, <2>1 DEF Part, ActiveStatus, NoRefund, NewRefund
  <2>3. req[r].total = b /\ b <= PaidAmount
    BY <1>1, <1>5, <2>1, <2>2 DEF Reserves
  <2>4. orderStatus # "REFUND_ALL"
    BY <1>2, <1>4, <1>5, <2>2, <2>3
  <2>5. Reserves(req[r])'
    BY <1>1, <2>1, <2>3, <2>4 DEF Reserves, Keeps, NewRefund, Owning
  <2> QED
    BY <1>5, <1>7, <2>1, <2>2, <2>3, <2>4, <2>5
<1>10. CASE Settles(r)
  <2>1. /\ refunds'[n].status = req[r].result /\ refunds'[n].amount = refunds[n].amount
        /\ req[r].pc = "settle" /\ req'[r].pc = "idle"
        /\ orderStatus' = IF req[r].result = "SUCCESS" THEN AfterRefund(r) ELSE orderStatus
    BY <1>10, RowSteps DEF Settles, Inserts
  <2>2. /\ refunds[n].status = "CREATED" /\ req[r].total = a /\ orderStatus # "REFUND_ALL"
    BY <1>1, <1>5, <2>1 DEF Reserves, Owning
  <2>3. b = a
    BY <1>2, <1>4, <2>1, <2>2 DEF Part, ActiveStatus, Results
  <2>4. Reserves(req[r])'
    BY <2>1 DEF Reserves, Owning
  <2>5. CASE req[r].result = "SUCCESS"
    BY <1>2, <1>3, <1>5, <1>7, <2>1, <2>2, <2>3, <2>4, <2>5 DEF AfterRefund
  <2>6. CASE req[r].result # "SUCCESS"
    <3>1. d = c
      BY <1>2, <1>4, <2>1, <2>2, <2>6 DEF Part, Results
    <3> QED
      BY <1>5, <1>7, <2>1, <2>3, <2>4, <2>6, <3>1
  <2> QED
    BY <2>5, <2>6
<1>11. CASE Marks(r)
  <2>1. /\ refunds'[n].status = "FAILED" /\ req[r].pc = "markFailed" /\ req'[r].pc = "idle"
        /\ orderStatus' = orderStatus
    BY <1>11, RowSteps DEF Marks
  <2>2. b <= a /\ d <= c
    BY <1>2, <2>1 DEF Part, ActiveStatus
  <2>3. orderStatus # "REFUND_ALL"
    BY <1>5, <2>1 DEF Reserves
  <2>4. Reserves(req[r])'
    BY <2>1 DEF Reserves, Owning
  <2> QED
    BY <1>2, <1>3, <1>5, <1>7, <2>1, <2>2, <2>3, <2>4
<1> QED
  BY <1>4, <1>8, <1>9, <1>10, <1>11 DEF Shape

LEMMA InTurnNext == Inv /\ Sized /\ InTurn /\ [Next]_vars => InTurn'
<1> SUFFICES ASSUME Inv, Sized, InTurn, [Next]_vars PROVE InTurn'
  OBVIOUS
<1>1. ASSUME NEW r \in Requests, RefundStep(r) \/ StepFails(r) \/ Abandon(r)
      PROVE  InTurn'
  <2>1. overlapped' = overlapped
    BY <1>1, StepShapes DEF Sized
  <2>2. CASE overlapped
    BY <2>1, <2>2 DEF InTurn
  <2>3. CASE ~overlapped
    BY <1>1, <2>3, InTurnStep
  <2> QED
    BY <2>2, <2>3
<1>2. ASSUME NEW r \in Requests, NEW n \in RefundNos, NEW a \in Amounts, BeginRefund(r, n, a)
      PROVE  InTurn'
  <2>1. /\ refunds' = refunds /\ orderStatus' = orderStatus /\ refunds[n].status = "absent"
        /\ req'[r].pc = "check" /\ req'[r].no = n
        /\ \A q \in Requests : q # r => req'[q] = req[q]
    BY <1>2, BeginShape DEF Resting
  <2>2. ASSUME ~overlapped' PROVE ~overlapped /\ \A q \in Requests : req[q].pc = "idle"
    BY <1>2, <2>2 DEF BeginRefund, At
  <2>3. Sum(Active)' = Sum(Active)
    BY <2>1, SumOfActive
  <2>4. ASSUME ~overlapped'
        PROVE  /\ \A p, q \in Requests : Running(p)' /\ Running(q)' => p = q
               /\ \A q \in Requests : Reserves(req[q])'
    BY <2>1, <2>2, <2>4 DEF Running, Reserves, Owning
  <2> QED
    BY <2>1, <2>2, <2>3, <2>4 DEF InTurn
<1>3. CASE UNCHANGED <<refunds, req, orderStatus, overlapped>>
  <2>1. Sum(Active)' = Sum(Active)
    BY <1>3, SumOfActive
  <2>2. \A r \in Requests : Reserves(req[r])' <=> Reserves(req[r])
    BY <1>3, <2>1 DEF Reserves
  <2> QED
    BY <1>3, <2>1, <2>2 DEF InTurn, Running
<1> QED
  BY <1>1, <1>2, <1>3 DEF Next, ProviderSettles, vars, db

LEMMA SpecInTurn == Spec => []InTurn
<1>1. Init => InTurn
  <2> SUFFICES ASSUME Init PROVE InTurn
    OBVIOUS
  <2>1. /\ orderStatus = "SUCCESS" /\ \A r \in Requests : req[r].pc = "idle"
        /\ Active = {} /\ {n \in RefundNos : refunds[n].status \in {"SUCCESS"}} = {}
    BY DEF Init, Idle, Active, NoRefund
  <2>2. \A f : Total(f, {}) = 0
    <3>1. \A f : Cents(f, {}) = {}
      BY DEF Cents
    <3> QED
      BY <3>1, FS_EmptySet, Zenon DEF Total
  <2>3. Sum(Active) = 0 /\ SumOf(refunds, {"SUCCESS"}) = 0
    BY <2>1, <2>2, Zenon DEF Sum, SumOf
  <2> QED
    BY <2>1, <2>3, RefundAssumption DEF InTurn, Running, Reserves, Owning, RefundAssumption
<1> QED
  BY <1>1, InTurnNext, SpecInv, SpecSized, PTL DEF Spec

\* As long as refunds of an order take turns, their reservations never exceed what was
\* paid, whatever failed, crashed or was left half done before.
THEOREM LimitKept == Spec => []LimitHolds
<1>1. InTurn => LimitHolds
  BY DEF InTurn, LimitHolds, WithinPaid
<1> QED
  BY <1>1, SpecInTurn, PTL

\* As long as they take turns, the order's status, which createRefund writes from the
\* total of its first transaction, says whether anything is left to refund.
THEOREM StatusFollows == Spec => []OrderFollowsRefunds
<1>1. InTurn => OrderFollowsRefunds
  BY SumOfActive DEF InTurn, OrderFollowsRefunds
<1> QED
  BY <1>1, SpecInTurn, PTL

=============================================================================
