-------------------------- MODULE OrderAlone_proofs --------------------------
(***************************************************************************)
(* What holds of OrderLifecycle as long as handlers run one at a time, and *)
(* how much of it is lost when they do not, for every number of handlers,  *)
(* channels, attempts and faults.                                          *)
(***************************************************************************)
EXTENDS OrderLifecycle_proofs, FiniteSetTheorems

\* The steps of a handler that has begun.
HandlerStep(r) == RequestStep(r) \/ NotifyError(r) \/ Abandon(r)

EnvironmentStep == PayerVisits \/ PayerPays \/ ProviderCloses \/ DeadlinePasses \/ UNCHANGED vars

LEMMA StepCases ==
  ASSUME [Next]_vars
  PROVE  \/ \E op \in Ops \ {"notify"}, r \in Requests : BeginRequest(r, op)
         \/ \E e \in Events, r \in Requests : DeliverEvent(r, e)
         \/ \E r \in Requests : HandlerStep(r)
         \/ EnvironmentStep
BY DEF Next, Begin, Deliver, HandlerStep, EnvironmentStep

-----------------------------------------------------------------------------
(* Where a handler goes *)

LEMMA GotoPc ==
  ASSUME TypeOK, NEW r \in Requests, NEW l, Goto(r, l)
  PROVE  req'[r].pc = l
BY DEF TypeOK, Request, Goto

LEMMA SetPc ==
  ASSUME TypeOK, NEW r \in Requests
  PROVE  /\ \A l, st : req' = [req EXCEPT ![r] = [@ EXCEPT !.pc = l, !.seen = st]] => req'[r].pc = l
         /\ \A l, st : req' = [req EXCEPT ![r] = [@ EXCEPT !.pc = l, !.ret = st]] => req'[r].pc = l
         /\ \A l, st : req' = [req EXCEPT ![r] = [@ EXCEPT !.pc = l, !.att = st]] => req'[r].pc = l
         /\ \A l, st, i : req' = [req EXCEPT ![r] = [@ EXCEPT !.pc = l, !.ret = st, !.closing = i]]
              => req'[r].pc = l
<1>1. req \in [Requests -> Request] /\ req[r] \in Request
  BY DEF TypeOK
<1>2. ASSUME NEW l, NEW st, req' = [req EXCEPT ![r] = [@ EXCEPT !.pc = l, !.seen = st]]
      PROVE  req'[r].pc = l
  BY <1>1, <1>2 DEF Request
<1>3. ASSUME NEW l, NEW st, req' = [req EXCEPT ![r] = [@ EXCEPT !.pc = l, !.ret = st]]
      PROVE  req'[r].pc = l
  BY <1>1, <1>3 DEF Request
<1>4. ASSUME NEW l, NEW st, req' = [req EXCEPT ![r] = [@ EXCEPT !.pc = l, !.att = st]]
      PROVE  req'[r].pc = l
  BY <1>1, <1>4 DEF Request
<1>5. ASSUME NEW l, NEW st, NEW i,
             req' = [req EXCEPT ![r] = [@ EXCEPT !.pc = l, !.ret = st, !.closing = i]]
      PROVE  req'[r].pc = l
  BY <1>1, <1>5 DEF Request
<1> QED
  BY <1>2, <1>3, <1>4, <1>5

LEMMA FinishPc ==
  ASSUME TypeOK, NEW r \in Requests, Finish(r)
  PROVE  req'[r] = Idle /\ req'[r].pc = "idle"
BY DEF TypeOK, Finish, Idle

LEMMA ReturnPc ==
  ASSUME TypeOK, NEW r \in Requests, NEW st, Return(r, st)
  PROVE  req'[r].pc \in Returns
<1>1. req \in [Requests -> Request] /\ req[r] \in Request
  BY DEF TypeOK
<1>2. CASE req[r].ret = "idle"
  BY <1>1, <1>2 DEF Return, Idle, Returns
<1>3. CASE req[r].ret # "idle"
  BY <1>1, <1>3 DEF Return, Request
<1> QED
  BY <1>2, <1>3

LEMMA NextChannelPc ==
  ASSUME TypeOK, NEW r \in Requests, NEW todo, NextChannel(r, todo)
  PROVE  \/ req'[r].pc = "idle"
         \/ /\ req'[r].pc = "createAttempt" /\ req'[r].todo = todo
            /\ req'[r].att = req[r].att
<1>1. req \in [Requests -> Request] /\ req[r] \in Request
  BY DEF TypeOK
<1>2. CASE todo = {}
  BY <1>2, FinishPc DEF NextChannel
<1>3. CASE todo # {}
  BY <1>1, <1>3 DEF NextChannel, Request
<1> QED
  BY <1>2, <1>3

\* The steps that open a session.
SessionLabels == {"createAttempt", "createSession", "attemptReady", "attemptFailed"}

\* markOrderClosedEntity reaches its write from its read only, and nothing but the
\* cashier's steps lead to another of them.
LEMMA WhereTo ==
  ASSUME TypeOK, NEW r \in Requests, HandlerStep(r)
  PROVE  /\ req'[r].pc = "writeClosed" => ReadForClose(r) /\ Closable
         /\ req'[r].pc \in SessionLabels => CashierStep(r)
<1> USE DEF SessionLabels, Returns
<1>1. ASSUME req'[r].pc \in Returns \cup {"findLatest", "queryChannel", "attemptSuccess",
               "orderPaid", "rereadOrder", "attemptCancelled", "readForClose",
               "closeAtChannel", "verify", "findForNotify"}
      PROVE  req'[r].pc \notin SessionLabels \cup {"writeClosed"}
  BY <1>1
<1>2. CASE SyncStep(r)
  <2>1. CASE ReadOrder(r)
    <3>1. CASE orderStatus \in Pending
      BY <1>1, <2>1, <3>1, SetPc DEF ReadOrder
    <3> QED
      BY <1>1, <2>1, <3>1, ReturnPc DEF ReadOrder
  <2>2. CASE FindLatest(r)
    <3>1. CASE attempts # <<>>
      BY <1>1, <2>2, <3>1, SetPc DEF FindLatest
    <3> QED
      BY <1>1, <2>2, <3>1, ReturnPc DEF FindLatest
  <2>3. CASE QueryChannel(r)
    BY <1>1, <2>3, ReturnPc, GotoPc, FinishPc DEF QueryChannel, QueryAnswer
  <2> QED
    BY <1>2, <2>1, <2>2, <2>3 DEF SyncStep
<1>3. CASE RecordStep(r)
  BY <1>1, <1>3, GotoPc, ReturnPc DEF RecordStep, MarkAttemptSuccess, MarkOrderPaid, RereadOrder
<1>4. CASE CloseStep(r)
  <2>1. CASE MarkAttemptCancelled(r)
    BY <1>1, <2>1, GotoPc DEF MarkAttemptCancelled, FollowUp, SessionFollowUp, TradeFollowUp
  <2>2. CASE ReadForClose(r)
    BY <1>1, <2>2, GotoPc, ReturnPc DEF ReadForClose
  <2>3. CASE WriteClosed(r)
    BY <1>1, <2>3, ReturnPc DEF WriteClosed
  <2>4. CASE PickClose(r)
    <3>1. CASE req[r].seen \in Pending
      <4>1. req'[r].pc = CloseStart
        BY <2>4, <3>1, SetPc DEF PickClose
      <4> QED
        BY <1>1, <4>1 DEF CloseStart
    <3> QED
      BY <1>1, <2>4, <3>1, FinishPc DEF PickClose
  <2>5. CASE CloseAtChannel(r)
    <3>1. \/ Goto(r, "cancelAttempt") \/ Finish(r)
          \/ req' = [req EXCEPT ![r] = [@ EXCEPT !.pc = "findLatest", !.ret = "cancelAttempt"]]
      BY <2>5 DEF CloseAtChannel, ClosesAt, SessionCloses, TradeCloses, LeavesAt
    <3>2. req'[r].pc \in {"cancelAttempt", "idle", "findLatest"}
      <4>1. CASE Goto(r, "cancelAttempt")
        BY <4>1, GotoPc
      <4>2. CASE Finish(r)
        BY <4>2, FinishPc
      <4>3. CASE req' = [req EXCEPT ![r] = [@ EXCEPT !.pc = "findLatest", !.ret = "cancelAttempt"]]
        BY <4>3, SetPc
      <4> QED
        BY <3>1, <4>1, <4>2, <4>3
    <3> QED
      BY <1>1, <3>2
  <2>6. CASE CancelAttempt(r)
    <3>1. CASE req[r].seen \notin Pending
      BY <1>1, <2>6, <3>1, FinishPc DEF CancelAttempt
    <3>2. CASE req[r].seen \in Pending
      BY <1>1, <2>6, <3>2, SetPc DEF CancelAttempt
    <3> QED
      BY <3>1, <3>2
  <2> QED
    BY <1>4, <2>1, <2>2, <2>3, <2>4, <2>5, <2>6 DEF CloseStep
<1>5. CASE CashierStep(r)
  <2>1. CASE SnapshotAttempts(r)
    BY <2>1, <1>5, FinishPc DEF SnapshotAttempts, TypeOK, Request
  <2>2. CASE CreateAttempt(r)
    BY <2>2, <1>5, FinishPc DEF CreateAttempt, TypeOK, Request
  <2>3. CASE CreateSession(r)
    BY <2>3, <1>5, GotoPc, NextChannelPc DEF CreateSession
  <2>4. CASE MarkAttemptReady(r) \/ MarkAttemptFailed(r)
    BY <2>4, <1>5, NextChannelPc DEF MarkAttemptReady, MarkAttemptFailed, MayTryAnother
  <2> QED
    BY <1>5, <2>1, <2>2, <2>3, <2>4 DEF CashierStep
<1>6. CASE NotifyStep(r)
  <2>1. CASE FindForNotify(r)
    <3>1. PICK i \in NotifyCandidates(req[r].event[1]) :
             req' = [req EXCEPT ![r] =
                       [@ EXCEPT !.att = i,
                                 !.pc = FollowUp(attempts[i].channel, req[r].event[2]).attempt]]
      BY <2>1 DEF FindForNotify
    <3>2. req'[r].pc = FollowUp(attempts[i].channel, req[r].event[2]).attempt
      BY <3>1 DEF TypeOK, Request
    <3> QED
      BY <1>1, <3>2 DEF FollowUp, SessionFollowUp, TradeFollowUp
  <2>2. CASE VerifyNotify(r) \/ MarkProcessed(r)
    BY <1>1, <2>2, GotoPc, FinishPc DEF VerifyNotify, MarkProcessed
  <2> QED
    BY <1>6, <2>1, <2>2 DEF NotifyStep
<1>7. CASE NotifyError(r) \/ Abandon(r)
  BY <1>1, <1>7, FinishPc DEF NotifyError, Abandon
<1> QED
  BY <1>2, <1>3, <1>4, <1>5, <1>6, <1>7 DEF HandlerStep, RequestStep

-----------------------------------------------------------------------------
(* What becomes of the order *)

\* Which step of r changes the order's status, to what, and with which task.
StatusStep(r) ==
  \/ UNCHANGED <<orderStatus, payTasks>>
  \/ /\ MarkOrderPaid(r) /\ orderStatus \notin Paid
     /\ orderStatus' = "SUCCESS" /\ payTasks' = payTasks + 1
  \/ WriteClosed(r) /\ orderStatus' = "CLOSED" /\ payTasks' = payTasks

LEMMA HandlerStatus ==
  ASSUME NEW r \in Requests, HandlerStep(r)
  PROVE  StatusStep(r)
<1>1. CASE MarkOrderPaid(r)
  BY <1>1 DEF MarkOrderPaid, RecordsPayment, StatusStep, order
<1>2. CASE WriteClosed(r)
  BY <1>2 DEF WriteClosed, StatusStep
<1>3. CASE SyncStep(r) \/ NotifyStep(r) \/ NotifyError(r) \/ Abandon(r)
  BY <1>3 DEF SyncStep, NotifyStep, ReadOrder, FindLatest, QueryChannel, QueryAnswer,
     VerifyNotify,
     FindForNotify, FollowUp, SessionFollowUp, TradeFollowUp, MarkProcessed, NotifyError,
     Abandon, StatusStep, db, order
<1>4. CASE MarkAttemptSuccess(r) \/ RereadOrder(r) \/ MarkAttemptCancelled(r)
           \/ ReadForClose(r) \/ PickClose(r) \/ CloseAtChannel(r) \/ CancelAttempt(r)
  BY <1>4 DEF MarkAttemptSuccess, RereadOrder, MarkAttemptCancelled, FollowUp, SessionFollowUp,
     TradeFollowUp, ReadForClose, PickClose,
     CloseAtChannel, ClosesAt, SessionCloses, TradeCloses, LeavesAt, CancelAttempt, StatusStep,
     db, order
<1>5. CASE CashierStep(r)
  BY <1>5 DEF CashierStep, SnapshotAttempts, CreateAttempt, CreateSession,
     MarkAttemptReady, MarkAttemptFailed, MayTryAnother, StatusStep, db, order
<1> QED
  BY <1>1, <1>2, <1>3, <1>4, <1>5 DEF HandlerStep, RequestStep, RecordStep, CloseStep

\* A request that begins: everybody else stays, it is at the given label, and it has
\* noted whether anybody else was running.
LEMMA BeginMoves ==
  ASSUME TypeOK, NEW r \in Requests,
         \/ \E op \in Ops \ {"notify"} : BeginRequest(r, op)
         \/ \E e \in Events : DeliverEvent(r, e)
  PROVE  /\ \A q \in Requests : q # r => req'[q] = req[q]
         /\ req[r].pc = "idle" /\ req'[r].pc \in {"readOrder", "verify"}
         /\ NoteOverlap
         /\ UNCHANGED <<payTasks, attempts, overdue>>
         /\ orderStatus' = orderStatus
            \/ (orderStatus \in Pending /\ orderStatus' = "EXPIRED")
<1>1. req \in [Requests -> Request] /\ req[r] \in Request
  BY DEF TypeOK
<1>2. ASSUME NEW op \in Ops \ {"notify"}, BeginRequest(r, op)
      PROVE  /\ \A q \in Requests : q # r => req'[q] = req[q]
             /\ req[r].pc = "idle" /\ req'[r].pc = "readOrder"
  BY <1>1, <1>2 DEF BeginRequest, At, Request
<1>3. ASSUME NEW e \in Events, DeliverEvent(r, e)
      PROVE  /\ \A q \in Requests : q # r => req'[q] = req[q]
             /\ req[r].pc = "idle" /\ req'[r].pc = "verify"
  BY <1>1, <1>3 DEF DeliverEvent, At, Request
<1>4. ASSUME NEW op \in Ops \ {"notify"}, BeginRequest(r, op)
      PROVE  /\ NoteOverlap /\ UNCHANGED <<payTasks, attempts, overdue>>
             /\ orderStatus' = orderStatus
                \/ (orderStatus \in Pending /\ orderStatus' = "EXPIRED")
  BY <1>4 DEF BeginRequest, world
<1>5. ASSUME NEW e \in Events, DeliverEvent(r, e)
      PROVE  /\ NoteOverlap /\ UNCHANGED <<payTasks, attempts, overdue>>
             /\ orderStatus' = orderStatus
  BY <1>5 DEF DeliverEvent, db, order, world
<1> QED
  BY <1>2, <1>3, <1>4, <1>5

LEMMA EnvironmentMoves ==
  ASSUME EnvironmentStep
  PROVE  /\ UNCHANGED <<req, orderStatus, payTasks, attempts, overlapped>>
         /\ overdue' = overdue \/ (overdue' = TRUE)
BY DEF EnvironmentStep, PayerVisits, PayerPays, ProviderCloses, ProviderStep, DeadlinePasses,
   vars, db, order, world, history

LEMMA HandlerMoves ==
  ASSUME Inv, NEW r \in Requests, HandlerStep(r)
  PROVE  /\ \A q \in Requests : q # r => req'[q] = req[q]
         /\ overlapped' = overlapped /\ overdue' = overdue
<1>1. \A q \in Requests : q # r => req'[q] = req[q]
  BY OthersStay DEF HandlerStep
<1>2. CASE SyncStep(r) \/ RecordStep(r)
  BY <1>1, <1>2 DEF SyncStep, RecordStep, ReadOrder, FindLatest, QueryChannel, QueryAnswer,
     MarkAttemptSuccess,
     MarkOrderPaid, RereadOrder, world, history
<1>3. CASE CloseStep(r)
  BY <1>1, <1>3 DEF CloseStep, MarkAttemptCancelled, FollowUp, SessionFollowUp, TradeFollowUp,
     ReadForClose, WriteClosed, PickClose,
     CloseAtChannel, ClosesAt, SessionCloses, TradeCloses, LeavesAt, CancelAttempt, world,
     history
<1>4. CASE CashierStep(r)
  BY <1>1, <1>4 DEF CashierStep, SnapshotAttempts, CreateAttempt, CreateSession,
     MarkAttemptReady, MarkAttemptFailed, MayTryAnother, world, history
<1>5. CASE NotifyStep(r) \/ NotifyError(r) \/ Abandon(r)
  BY <1>1, <1>5 DEF NotifyStep, VerifyNotify, FindForNotify, FollowUp, SessionFollowUp,
     TradeFollowUp, MarkProcessed, NotifyError, Abandon,
     world, history
<1> QED
  BY <1>1, <1>2, <1>3, <1>4, <1>5 DEF HandlerStep, RequestStep

-----------------------------------------------------------------------------
(* A handler that runs alone *)

Active(r) == req[r].pc # "idle"

\* Nobody else is running, and what a close has read of the order is still so.
Alone ==
  ~overlapped =>
    /\ \A r, q \in Requests : Active(r) /\ Active(q) => r = q
    /\ \A r \in Requests : req[r].pc = "writeClosed" => orderStatus \in Pending

\* A handler that takes a step has begun.
LEMMA StepIsActive ==
  ASSUME TypeOK, NEW r \in Requests, HandlerStep(r)
  PROVE  Active(r) \/ NotifyError(r)
BY DEF HandlerStep, RequestStep, SyncStep, RecordStep, CloseStep, CashierStep, NotifyStep,
   ReadOrder, FindLatest, QueryChannel, QueryAnswer, MarkAttemptSuccess, MarkOrderPaid,
   RereadOrder,
   MarkAttemptCancelled, FollowUp, SessionFollowUp, TradeFollowUp, ReadForClose, WriteClosed,
   PickClose, CloseAtChannel, ClosesAt, SessionCloses, TradeCloses, LeavesAt, CancelAttempt,
   SnapshotAttempts, CreateAttempt, CreateSession, MarkAttemptReady, MarkAttemptFailed,
   MayTryAnother,
   VerifyNotify, FindForNotify, FollowUp, SessionFollowUp, TradeFollowUp, MarkProcessed,
   Abandon, At, Active

LEMMA AloneStep == Inv /\ Alone /\ [Next]_vars => Alone'
<1> SUFFICES ASSUME Inv, Alone, [Next]_vars, ~overlapped'
             PROVE  /\ \A r, q \in Requests : Active(r)' /\ Active(q)' => r = q
                    /\ \A r \in Requests : req'[r].pc = "writeClosed" => orderStatus' \in Pending
  BY DEF Alone
<1>1. TypeOK
  BY DEF Inv
<1>2. ASSUME NEW r \in Requests,
             \/ \E op \in Ops \ {"notify"} : BeginRequest(r, op)
             \/ \E e \in Events : DeliverEvent(r, e)
      PROVE  /\ \A p, q \in Requests : Active(p)' /\ Active(q)' => p = q
             /\ \A q \in Requests : req'[q].pc # "writeClosed"
  <2>1. /\ \A q \in Requests : q # r => req'[q] = req[q]
        /\ req'[r].pc \in {"readOrder", "verify"} /\ NoteOverlap
    BY <1>1, <1>2, BeginMoves
  <2>2. \A q \in Requests : req[q].pc = "idle"
    BY <2>1 DEF NoteOverlap, At
  <2> QED
    BY <2>1, <2>2 DEF Active
<1>3. ASSUME NEW r \in Requests, HandlerStep(r)
      PROVE  /\ \A p, q \in Requests : Active(p)' /\ Active(q)' => p = q
             /\ \A q \in Requests : req'[q].pc = "writeClosed" => orderStatus' \in Pending
  <2>1. /\ \A q \in Requests : q # r => req'[q] = req[q]
        /\ ~overlapped
    BY <1>3, HandlerMoves
  <2>2. /\ \A p, q \in Requests : Active(p) /\ Active(q) => p = q
        /\ \A q \in Requests : req[q].pc = "writeClosed" => orderStatus \in Pending
    BY <2>1 DEF Alone
  <2>3. CASE Active(r)
    <3>1. \A q \in Requests : q # r => req'[q].pc = "idle"
      BY <2>1, <2>2, <2>3 DEF Active
    <3>2. req'[r].pc = "writeClosed" => orderStatus' \in Pending
      <4> SUFFICES ASSUME req'[r].pc = "writeClosed" PROVE orderStatus' \in Pending
        OBVIOUS
      <4>1. ReadForClose(r) /\ Closable
        BY <1>1, <1>3, WhereTo
      <4> QED
        BY <1>1, <4>1 DEF ReadForClose, Closable, db, order, TypeOK, OrderStatus
    <3> QED
      BY <3>1, <3>2 DEF Active
  <2>4. CASE ~Active(r)
    <3>1. NotifyError(r)
      BY <1>1, <1>3, <2>4, StepIsActive
    <3>2. req'[r].pc = "idle" /\ orderStatus' = orderStatus
      BY <1>1, <3>1, FinishPc DEF NotifyError, order
    <3> QED
      BY <2>1, <2>2, <3>2 DEF Active
  <2> QED
    BY <2>3, <2>4
<1>4. CASE EnvironmentStep
  BY <1>4, EnvironmentMoves DEF Alone, Active
<1> QED
  BY <1>2, <1>3, <1>4, StepCases

LEMMA SpecAlone == Spec => [](Inv /\ Alone)
<1>1. Init => Alone
  BY DEF Init, Alone, Active, Idle
<1> QED
  BY <1>1, AloneStep, InitInv, NextInv, PTL DEF Spec

\* markOrderClosedEntity overwrites a payment only if somebody recorded it between its
\* read and its write: no expiry, no late event and no close of a handler that runs alone
\* takes a paid order back.
THEOREM PaidStaysPaid == Spec => PaidIsFinal
<1>1. ASSUME Inv, Alone, [Next]_vars, orderStatus \in Paid, ~overlapped
      PROVE  orderStatus' \in Paid
  <2>1. ASSUME NEW r \in Requests, HandlerStep(r) PROVE orderStatus' \in Paid
    <3>1. StatusStep(r)
      BY <2>1, HandlerStatus
    <3>2. ~WriteClosed(r)
      BY <1>1 DEF WriteClosed, At, Alone, Pending, Paid
    <3> QED
      BY <1>1, <3>1, <3>2 DEF StatusStep
  <2>2. ASSUME NEW r \in Requests,
               \/ \E op \in Ops \ {"notify"} : BeginRequest(r, op)
               \/ \E e \in Events : DeliverEvent(r, e)
        PROVE  orderStatus' \in Paid
    BY <1>1, <2>2, BeginMoves DEF Inv, Pending, Paid
  <2>3. CASE EnvironmentStep
    BY <1>1, <2>3, EnvironmentMoves
  <2> QED
    BY <1>1, <2>1, <2>2, <2>3, StepCases
<1>2. Inv /\ Alone /\ [Next]_vars
        => [(orderStatus \in Paid /\ ~overlapped) => (orderStatus' \in Paid)]_vars
  BY <1>1
<1> QED
  BY <1>2, SpecAlone, PTL DEF Spec, PaidIsFinal

-----------------------------------------------------------------------------
(* The order's rows as a ledger *)

Captured(t) == trade[t] = "paid"

\* No handler moves money: a close, a new session and a new link leave a paid trade as it
\* is and make none paid.
LEMMA HandlersMoveNoMoney ==
  ASSUME Inv, NEW r \in Requests, HandlerStep(r), NEW t \in Trades
  PROVE  Captured(t)' <=> Captured(t)
<1>1. trade \in [Trades -> TradeStates]
  BY DEF Inv, TypeOK
<1>2. CASE UNCHANGED trade
  BY <1>2 DEF Captured
<1>3. ASSUME NEW u, NEW s \in TradeStates \ {"paid"},
             trade' = [trade EXCEPT ![u] = s], u \in Trades => trade[u] # "paid"
      PROVE  Captured(t)' <=> Captured(t)
  BY <1>1, <1>3 DEF Captured
<1>4. CASE CloseAtChannel(r)
  <2>1. CASE ~UNCHANGED trade
    <3>1. PICK u : /\ trade[u] \in {"created", "open"}
                   /\ trade' = [trade EXCEPT ![u] = "closed"]
      BY <1>4, <2>1 DEF CloseAtChannel, ClosesAt, SessionCloses, TradeCloses, LeavesAt
    <3> QED
      BY <1>3, <3>1 DEF TradeStates
  <2> QED
    BY <1>2, <2>1
<1>5. ASSUME NEW u, NEW from \in TradeStates \ {"paid"}, NEW s \in TradeStates \ {"paid"},
             trade' = [trade EXCEPT ![u] = IF @ = from THEN s ELSE @]
      PROVE  Captured(t)' <=> Captured(t)
  BY <1>1, <1>5 DEF Captured
<1>6. CASE CreateSession(r)
  <2>1. UNCHANGED trade
        \/ \E u : trade' = [trade EXCEPT ![u] = IF @ = "absent" THEN "created" ELSE @]
    BY <1>6 DEF CreateSession, CreateTrade
  <2> QED
    BY <1>2, <1>5, <2>1 DEF TradeStates
<1>7. CASE MarkAttemptReady(r)
  <2>1. \E u : \E s \in {"offered", "open"} :
          trade' = [trade EXCEPT ![u] = IF @ = "created" THEN s ELSE @]
    BY <1>7 DEF MarkAttemptReady
  <2> QED
    BY <1>5, <2>1 DEF TradeStates
<1>8. CASE SyncStep(r) \/ RecordStep(r) \/ NotifyStep(r) \/ NotifyError(r) \/ Abandon(r)
  <2>1. UNCHANGED trade
    BY <1>8 DEF SyncStep, ReadOrder, FindLatest, QueryChannel, QueryAnswer, RecordStep,
       MarkAttemptSuccess,
       MarkOrderPaid, RereadOrder, NotifyStep, VerifyNotify, FindForNotify, FollowUp,
       SessionFollowUp, TradeFollowUp, MarkProcessed,
       NotifyError, Abandon, world
  <2> QED
    BY <1>2, <2>1
<1>9. CASE CloseStep(r) /\ ~CloseAtChannel(r)
  <2>1. UNCHANGED trade
    BY <1>9 DEF CloseStep, MarkAttemptCancelled, FollowUp, SessionFollowUp, TradeFollowUp,
       ReadForClose, WriteClosed, PickClose,
       CancelAttempt, world
  <2> QED
    BY <1>2, <2>1
<1>10. CASE SnapshotAttempts(r) \/ CreateAttempt(r) \/ MarkAttemptFailed(r)
  <2>1. UNCHANGED trade
    BY <1>10 DEF SnapshotAttempts, CreateAttempt, MarkAttemptFailed, MayTryAnother, world
  <2> QED
    BY <1>2, <2>1
<1> QED
  BY <1>4, <1>6, <1>7, <1>8, <1>9, <1>10 DEF HandlerStep, RequestStep, CashierStep

\* Only the transaction that records a payment names who paid, and nothing else changes
\* status and channel together.
LEMMA HandlerPayer ==
  ASSUME NEW r \in Requests, HandlerStep(r)
  PROVE  UNCHANGED successChannel \/ (MarkOrderPaid(r) /\ orderStatus \notin Paid)
<1>1. CASE RecordStep(r) \/ NotifyStep(r) \/ NotifyError(r) \/ Abandon(r)
  BY <1>1 DEF RecordStep, MarkAttemptSuccess, MarkOrderPaid, RecordsPayment, RereadOrder,
     NotifyStep, VerifyNotify, FindForNotify, FollowUp, SessionFollowUp, TradeFollowUp,
     MarkProcessed, NotifyError, Abandon, db, order
<1>2. CASE SyncStep(r) \/ CloseStep(r)
  BY <1>2 DEF SyncStep, ReadOrder, FindLatest, QueryChannel, QueryAnswer, CloseStep,
     MarkAttemptCancelled, FollowUp, SessionFollowUp, TradeFollowUp,
     ReadForClose, WriteClosed, PickClose, CloseAtChannel, ClosesAt, SessionCloses, TradeCloses,
     LeavesAt, CancelAttempt, db, order
<1>3. CASE CashierStep(r)
  BY <1>3 DEF CashierStep, SnapshotAttempts, CreateAttempt, CreateSession, MarkAttemptReady,
     MarkAttemptFailed, MayTryAnother, db, order
<1> QED
  BY <1>1, <1>2, <1>3 DEF HandlerStep, RequestStep

LEMMA SameMoney ==
  ASSUME \A t \in Trades : Captured(t)' <=> Captured(t)
  PROVE  CapturedBy' = CapturedBy
BY DEF CapturedBy, Captured

\* Whoever is about to record a payment names a provider that has the money.
LEMMA RecorderIsCaptured ==
  ASSUME Inv, NEW r \in Requests, MarkOrderPaid(r)
  PROVE  SuccessChannelOf(req[r].att) \in CapturedBy
<1>1. /\ req[r].att \in 1..Len(attempts)
      /\ trade[TradeOf(req[r].att)] = "paid"
  BY DEF MarkOrderPaid, At, Inv, Fits, UsesAttempt
<1>2. attempts[req[r].att].channel \in Channels
  <2>1. attempts[req[r].att] \in Attempt
    BY <1>1, ElementOfSeq DEF Inv, TypeOK
  <2> QED
    BY <2>1 DEF Attempt
<1>3. TradeOf(req[r].att) \in Trades
  BY <1>1, TradeOfType DEF Inv
<1>4. TradeOf(req[r].att)[1] = attempts[req[r].att].channel
  BY DEF TradeOf
<1> QED
  BY <1>1, <1>2, <1>3, <1>4 DEF CapturedBy, SuccessChannelOf

LEMMA HandlerKeepsLedger ==
  ASSUME Inv, Alone, NEW r \in Requests, HandlerStep(r)
  PROVE  [Ledger!LedgerNext]_(Ledger!ledger)
<1>1. CapturedBy' = CapturedBy /\ overlapped' = overlapped
  BY HandlersMoveNoMoney, SameMoney, HandlerMoves
<1>2. CASE MarkOrderPaid(r) /\ orderStatus \notin Paid
  <2>1. PICK p : p = SuccessChannelOf(req[r].att)
    OBVIOUS
  <2>2. p \in CapturedBy /\ p \in Channels
    BY <1>2, <2>1, RecorderIsCaptured DEF CapturedBy
  <2>3. orderStatus' = "SUCCESS" /\ successChannel' = p /\ payTasks' = payTasks + 1
    BY <1>2, <2>1 DEF MarkOrderPaid, RecordsPayment
  <2>4. Standing # "paid" /\ Standing' = "paid"
    BY <1>2, <2>3 DEF Standing, Pending, Paid
  <2>5. Ledger!Record(p)
    BY <1>1, <2>2, <2>3, <2>4 DEF Ledger!Record
  <2> QED
    BY <2>2, <2>5 DEF Ledger!LedgerNext
<1>3. CASE WriteClosed(r)
  <2>1. orderStatus' = "CLOSED" /\ UNCHANGED <<successChannel, payTasks>>
    BY <1>3 DEF WriteClosed
  <2>2. Standing' = "over"
    BY <2>1 DEF Standing, Pending, Paid
  <2>3. CASE Standing = "over"
    BY <1>1, <2>1, <2>2, <2>3 DEF Ledger!ledger
  <2>4. CASE Standing = "paid"
    <3>1. orderStatus \in Paid
      BY <2>4 DEF Standing
    <3>2. overlapped
      BY <1>3, <3>1 DEF WriteClosed, At, Alone, Pending, Paid
    <3>3. Ledger!Overwrite
      BY <1>1, <2>1, <2>2, <2>4, <3>2 DEF Ledger!Overwrite
    <3> QED
      BY <3>3 DEF Ledger!LedgerNext
  <2>5. CASE Standing = "unpaid"
    <3>1. Ledger!GiveUp
      BY <1>1, <2>1, <2>2, <2>5 DEF Ledger!GiveUp
    <3> QED
      BY <3>1 DEF Ledger!LedgerNext
  <2> QED
    BY <2>3, <2>4, <2>5 DEF Standing
<1>4. CASE ~WriteClosed(r) /\ ~(MarkOrderPaid(r) /\ orderStatus \notin Paid)
  <2>1. UNCHANGED <<orderStatus, payTasks, successChannel>>
    BY <1>4, HandlerStatus, HandlerPayer DEF StatusStep
  <2> QED
    BY <1>1, <2>1 DEF Ledger!ledger, Standing
<1> QED
  BY <1>2, <1>3, <1>4

LEMMA BeginKeepsLedger ==
  ASSUME Inv, NEW r \in Requests,
         \/ \E op \in Ops \ {"notify"} : BeginRequest(r, op)
         \/ \E e \in Events : DeliverEvent(r, e)
  PROVE  [Ledger!LedgerNext]_(Ledger!ledger)
<1>1. /\ payTasks' = payTasks
      /\ orderStatus' = orderStatus \/ (orderStatus \in Pending /\ orderStatus' = "EXPIRED")
  BY BeginMoves DEF Inv
<1>2. successChannel' = successChannel /\ trade' = trade
  BY DEF BeginRequest, DeliverEvent, db, order, world
<1>3. CapturedBy' = CapturedBy
  BY <1>2 DEF CapturedBy
<1>4. overlapped' \in {overlapped, TRUE}
  <2>1. NoteOverlap
    BY BeginMoves DEF Inv
  <2>2. overlapped \in BOOLEAN
    BY DEF Inv, TypeOK
  <2> QED
    BY <2>1, <2>2, Zenon DEF NoteOverlap
<1>5. CASE orderStatus' = orderStatus
  <2>1. Standing' = Standing
    BY <1>5 DEF Standing
  <2>2. CASE overlapped' = overlapped
    BY <1>1, <1>2, <1>3, <2>1, <2>2 DEF Ledger!ledger
  <2>3. CASE overlapped' = TRUE
    <3>1. Ledger!Contend
      BY <1>1, <1>2, <1>3, <2>1, <2>3, Zenon DEF Ledger!Contend
    <3> QED
      BY <3>1 DEF Ledger!LedgerNext
  <2> QED
    BY <1>4, <2>2, <2>3, Zenon
<1>6. CASE orderStatus \in Pending /\ orderStatus' = "EXPIRED"
  <2>1. Standing = "unpaid" /\ Standing' = "over"
    BY <1>6 DEF Standing, Pending, Paid
  <2>2. Ledger!GiveUp
    BY <1>1, <1>2, <1>3, <1>4, <2>1, Zenon DEF Ledger!GiveUp
  <2> QED
    BY <2>2 DEF Ledger!LedgerNext
<1> QED
  BY <1>1, <1>5, <1>6

LEMMA EnvironmentKeepsLedger ==
  ASSUME Inv, EnvironmentStep
  PROVE  [Ledger!LedgerNext]_(Ledger!ledger)
<1>1. UNCHANGED <<orderStatus, successChannel, payTasks, overlapped>>
  BY DEF EnvironmentStep, PayerVisits, PayerPays, ProviderCloses, ProviderStep, DeadlinePasses,
     vars, db, order, world, history
<1>2. Standing' = Standing
  BY <1>1 DEF Standing
<1>3. trade \in [Trades -> TradeStates]
  BY DEF Inv, TypeOK
<1>4. ASSUME \A t \in Trades : Captured(t)' <=> Captured(t)
      PROVE  [Ledger!LedgerNext]_(Ledger!ledger)
  BY <1>1, <1>2, <1>4, SameMoney DEF Ledger!ledger
<1>5. CASE PayerPays
  <2>1. PICK t \in Trades : trade' = [trade EXCEPT ![t] = "paid"]
    BY <1>5 DEF PayerPays, ProviderStep
  <2>2. \A u \in Trades : Captured(u)' <=> u = t \/ Captured(u)
    BY <1>3, <2>1 DEF Captured
  <2>3. t[1] \in Channels
    BY OrderAssumption DEF Trades, OrderAssumption
  <2>4. CapturedBy' = CapturedBy \cup {t[1]}
    BY <2>2, <2>3 DEF CapturedBy, Captured
  <2>5. Ledger!Capture(t[1])
    BY <1>1, <1>2, <2>4 DEF Ledger!Capture
  <2> QED
    BY <2>3, <2>5 DEF Ledger!LedgerNext
<1>6. CASE PayerVisits \/ ProviderCloses
  <2>1. PICK t, s : /\ t \in Trades /\ s \in {"open", "closed"}
                    /\ trade[t] # "paid" /\ trade' = [trade EXCEPT ![t] = s]
    BY <1>6 DEF PayerVisits, ProviderCloses, ProviderStep
  <2>2. \A u \in Trades : Captured(u)' <=> Captured(u)
    BY <1>3, <2>1 DEF Captured
  <2> QED
    BY <1>4, <2>2
<1>7. CASE DeadlinePasses \/ UNCHANGED vars
  <2>1. UNCHANGED trade
    BY <1>7 DEF DeadlinePasses, vars, world
  <2> QED
    BY <1>4, <2>1 DEF Captured
<1> QED
  BY <1>5, <1>6, <1>7 DEF EnvironmentStep

\* OrderLifecycle implements OrderLedger: whatever its handlers read, hold and write, and
\* in whatever order, the merchant sees an order that is paid only with money, told once for
\* each payment recorded, and overwritten only once handlers have overlapped.
THEOREM HandlersKeepLedger == Spec => KeepsLedger
<1>1. Init => Ledger!LedgerInit
  <2> SUFFICES ASSUME Init PROVE Ledger!LedgerInit
    OBVIOUS
  <2>1. /\ successChannel = NoChannel /\ payTasks = 0 /\ overlapped = FALSE
        /\ \A t \in Trades : trade[t] # "paid"
    BY DEF Init
  <2>2. Standing = "unpaid"
    BY DEF Init, Standing, Pending
  <2>3. CapturedBy = {}
    BY <2>1 DEF CapturedBy
  <2> QED
    BY <2>1, <2>2, <2>3, Zenon DEF Ledger!LedgerInit
<1>2. Inv /\ Alone /\ [Next]_vars => [Ledger!LedgerNext]_(Ledger!ledger)
  BY HandlerKeepsLedger, BeginKeepsLedger, EnvironmentKeepsLedger, StepCases
<1> QED
  BY <1>1, <1>2, SpecAlone, PTL DEF Spec, KeepsLedger, Ledger!LedgerSpec
-----------------------------------------------------------------------------
(* How often a payment can be told *)

Closers == {r \in Requests : req[r].pc = "writeClosed"}

\* The order leaves the pending states once.  From then on only the closes that have
\* read it before can overwrite a payment, each of them once.
Budget ==
  /\ orderStatus \in Pending => payTasks = 0
  /\ orderStatus \in Paid => payTasks + Cardinality(Closers) <= Cardinality(Requests)
  /\ orderStatus \in {"CLOSED", "EXPIRED"} =>
       payTasks + 1 + Cardinality(Closers) <= Cardinality(Requests)

LEMMA ClosersFinite ==
  ASSUME IsFiniteSet(Requests), NEW S, S \subseteq Requests
  PROVE  /\ IsFiniteSet(S) /\ Cardinality(S) \in Nat
         /\ Cardinality(S) <= Cardinality(Requests)
         /\ \A r \in Requests \ S : Cardinality(S) + 1 <= Cardinality(Requests)
<1>1. IsFiniteSet(S) /\ Cardinality(S) <= Cardinality(Requests)
  BY FS_Subset
<1>2. Cardinality(S) \in Nat /\ Cardinality(Requests) \in Nat
  BY <1>1, FS_CardinalityType
<1>3. ASSUME NEW r \in Requests \ S PROVE Cardinality(S) + 1 <= Cardinality(Requests)
  <2>1. IsFiniteSet(Requests \ {r}) /\ Cardinality(Requests \ {r}) = Cardinality(Requests) - 1
    BY FS_RemoveElement
  <2>2. S \subseteq Requests \ {r}
    BY <1>3
  <2>3. Cardinality(S) <= Cardinality(Requests \ {r})
    BY <2>1, <2>2, FS_Subset
  <2> QED
    BY <1>2, <2>1, <2>3
<1> QED
  BY <1>1, <1>2, <1>3

\* How the set of closes about to write moves with the order.
ClosersMove ==
  /\ orderStatus \notin Pending => Closers' \subseteq Closers
  /\ orderStatus' # orderStatus => \E r \in Requests : r \notin Closers'
  /\ orderStatus \in Paid /\ orderStatus' # orderStatus =>
       \E r \in Closers : r \notin Closers'

LEMMA HandlerClosers ==
  ASSUME Inv, NEW r \in Requests, HandlerStep(r)
  PROVE  ClosersMove
<1>1. TypeOK /\ \A q \in Requests : q # r => req'[q] = req[q]
  BY HandlerMoves DEF Inv
<1>2. req'[r].pc = "writeClosed" => ReadForClose(r) /\ orderStatus \in Pending /\ orderStatus' = orderStatus
  BY <1>1, WhereTo DEF ReadForClose, Closable, db, order, TypeOK, OrderStatus
<1>3. StatusStep(r)
  BY HandlerStatus
<1>4. orderStatus \notin Pending => Closers' \subseteq Closers
  BY <1>1, <1>2 DEF Closers
<1>5. orderStatus' # orderStatus => r \notin Closers'
  BY <1>2 DEF Closers
<1>6. orderStatus \in Paid /\ orderStatus' # orderStatus => r \in Closers
  BY <1>3 DEF StatusStep, WriteClosed, At, Closers
<1> QED
  BY <1>4, <1>5, <1>6 DEF ClosersMove

LEMMA BeginClosers ==
  ASSUME TypeOK, NEW r \in Requests,
         \/ \E op \in Ops \ {"notify"} : BeginRequest(r, op)
         \/ \E e \in Events : DeliverEvent(r, e)
  PROVE  ClosersMove
<1>1. /\ \A q \in Requests : q # r => req'[q] = req[q]
      /\ req'[r].pc \in {"readOrder", "verify"}
      /\ orderStatus' # orderStatus => orderStatus \in Pending
  BY BeginMoves
<1>2. r \notin Closers' /\ Closers' \subseteq Closers
  BY <1>1 DEF Closers
<1> QED
  BY <1>1, <1>2 DEF ClosersMove, Pending, Paid

\* The statuses and tasks a step may lead to.
OrderMoves ==
  \/ UNCHANGED <<orderStatus, payTasks>>
  \/ orderStatus \notin Paid /\ orderStatus' = "SUCCESS" /\ payTasks' = payTasks + 1
  \/ orderStatus' = "CLOSED" /\ payTasks' = payTasks
  \/ orderStatus \in Pending /\ orderStatus' = "EXPIRED" /\ payTasks' = payTasks

LEMMA BudgetKept ==
  ASSUME IsFiniteSet(Requests), TypeOK, TypeOK', Budget, ClosersMove, OrderMoves
  PROVE  Budget'
<1> DEFINE n == Cardinality(Requests)
           k == Cardinality(Closers)
           m == Cardinality(Closers')
<1>1. n \in Nat /\ k \in Nat /\ m \in Nat /\ payTasks \in Nat /\ payTasks' \in Nat
  BY FS_CardinalityType, ClosersFinite DEF Closers, TypeOK
<1>2. orderStatus \in Pending \cup Paid \cup {"CLOSED", "EXPIRED"}
  BY DEF TypeOK, OrderStatus
<1>3. orderStatus \notin Pending => m <= k
  <2> SUFFICES ASSUME orderStatus \notin Pending PROVE m <= k
    OBVIOUS
  <2>1. Closers' \subseteq Closers /\ IsFiniteSet(Closers)
    BY ClosersFinite DEF ClosersMove, Closers
  <2> QED
    BY <2>1, FS_Subset
<1>4. orderStatus' # orderStatus => m + 1 <= n
  BY ClosersFinite DEF ClosersMove, Closers
<1>5. orderStatus \in Paid /\ orderStatus' # orderStatus => m + 1 <= k
  <2> SUFFICES ASSUME orderStatus \in Paid, orderStatus' # orderStatus PROVE m + 1 <= k
    OBVIOUS
  <2>1. PICK r \in Closers : r \notin Closers'
    BY DEF ClosersMove
  <2>2. Closers' \subseteq Closers \ {r}
    BY <2>1 DEF ClosersMove, Pending, Paid
  <2>3. IsFiniteSet(Closers) /\ IsFiniteSet(Closers \ {r}) /\ Cardinality(Closers \ {r}) = k - 1
    BY <2>1, ClosersFinite, FS_RemoveElement DEF Closers
  <2>4. m <= k - 1
    BY <2>2, <2>3, FS_Subset
  <2> QED
    BY <1>1, <2>4
<1> HIDE DEF n, k, m
<1>6. /\ orderStatus \in Pending => payTasks = 0
      /\ orderStatus \in Paid => payTasks + k <= n
      /\ orderStatus \in {"CLOSED", "EXPIRED"} => payTasks + 1 + k <= n
  BY DEF Budget, n, k
<1>7. /\ orderStatus' \in Pending => payTasks' = 0
      /\ orderStatus' \in Paid => payTasks' + m <= n
      /\ orderStatus' \in {"CLOSED", "EXPIRED"} => payTasks' + 1 + m <= n
  <2>1. CASE UNCHANGED <<orderStatus, payTasks>>
    BY <1>1, <1>3, <1>6, <2>1 DEF Pending, Paid
  <2>2. CASE orderStatus \notin Paid /\ orderStatus' = "SUCCESS" /\ payTasks' = payTasks + 1
    BY <1>1, <1>2, <1>3, <1>4, <1>6, <2>2 DEF Pending, Paid
  <2>3. CASE orderStatus' = "CLOSED" /\ payTasks' = payTasks
    BY <1>1, <1>2, <1>3, <1>4, <1>5, <1>6, <2>3 DEF Pending, Paid
  <2>4. CASE orderStatus \in Pending /\ orderStatus' = "EXPIRED" /\ payTasks' = payTasks
    BY <1>1, <1>4, <1>6, <2>4 DEF Pending, Paid
  <2> QED
    BY <2>1, <2>2, <2>3, <2>4 DEF OrderMoves
<1> QED
  BY <1>7 DEF Budget, n, m

LEMMA BudgetStep ==
  ASSUME IsFiniteSet(Requests), Inv, Inv', Budget, [Next]_vars
  PROVE  Budget'
<1>1. TypeOK /\ TypeOK'
  BY DEF Inv
<1>2. ASSUME NEW r \in Requests, HandlerStep(r) PROVE ClosersMove /\ OrderMoves
  BY <1>2, HandlerClosers, HandlerStatus DEF StatusStep, OrderMoves
<1>3. ASSUME NEW r \in Requests,
             \/ \E op \in Ops \ {"notify"} : BeginRequest(r, op)
             \/ \E e \in Events : DeliverEvent(r, e)
      PROVE  ClosersMove /\ OrderMoves
  BY <1>1, <1>3, BeginClosers, BeginMoves DEF OrderMoves
<1>4. ASSUME EnvironmentStep PROVE ClosersMove /\ OrderMoves
  BY <1>4, EnvironmentMoves DEF ClosersMove, OrderMoves, Closers
<1> QED
  BY <1>1, <1>2, <1>3, <1>4, StepCases, BudgetKept

\* A payment is told at most as often as handlers run at once: each repetition takes a
\* close that has read the order before it was paid, and such a close writes once.
THEOREM RepeatsAreBounded ==
  ASSUME IsFiniteSet(Requests)
  PROVE  Spec => []RepeatsNeedConcurrency
<1>1. Init => Budget
  BY DEF Init, Budget, Pending, Paid
<1>2. Inv /\ Budget => RepeatsNeedConcurrency
  <2> SUFFICES ASSUME Inv, Budget PROVE payTasks <= Cardinality(Requests)
    BY DEF RepeatsNeedConcurrency
  <2>1. /\ payTasks \in Nat /\ Cardinality(Requests) \in Nat /\ Cardinality(Closers) \in Nat
        /\ orderStatus \in Pending \cup Paid \cup {"CLOSED", "EXPIRED"}
    BY FS_CardinalityType, ClosersFinite DEF Closers, Inv, TypeOK, OrderStatus
  <2> QED
    BY <2>1 DEF Budget
<1>3. Inv /\ Inv' /\ Budget /\ [Next]_vars => Budget'
  BY BudgetStep
<1> QED
  BY <1>1, <1>2, <1>3, SpecInv, PTL DEF Spec

-----------------------------------------------------------------------------
(* One session per provider *)

\* The attempts of c the cashier would reuse.
Opened(c) == {i \in AttemptsOf(c) : attempts[i].status \in Reusable}

\* The cashier is about to open sessions where there is none, but for the attempt it is
\* working on.
OpenFits(x) ==
  /\ x.pc = "createAttempt" => \A c \in x.todo : Opened(c) = {}
  /\ x.pc \in {"createSession", "attemptReady", "attemptFailed"} =>
       /\ Opened(attempts[x.att].channel) \subseteq {x.att}
       /\ \A c \in x.todo \ {attempts[x.att].channel} : Opened(c) = {}

Single == \A c \in Channels : \A i, j \in Opened(c) : i = j

OneOpen == ~overdue /\ ~overlapped => Single /\ \A r \in Requests : OpenFits(req[r])

\* What rewriting row i does to the reusable attempts.
LEMMA RowOpened ==
  ASSUME TypeOK, NEW i \in 1..Len(attempts), NEW a, a.channel = attempts[i].channel,
         attempts' = [attempts EXCEPT ![i] = a]
  PROVE  /\ \A j \in 1..Len(attempts) : attempts'[j].channel = attempts[j].channel
         /\ \A c : c # a.channel => Opened(c)' = Opened(c)
         /\ \A c : Opened(c)' \subseteq Opened(c) \cup {i}
         /\ a.status \notin Reusable => \A c : Opened(c)' \subseteq Opened(c) \ {i}
<1>1. DOMAIN attempts = 1..Len(attempts) /\ DOMAIN attempts' = 1..Len(attempts)
  BY LenProperties DEF TypeOK
<1>2. attempts'[i] = a /\ \A j \in 1..Len(attempts) : j # i => attempts'[j] = attempts[j]
  BY <1>1
<1>3. \A c : Opened(c) = {j \in 1..Len(attempts) : attempts[j].channel = c /\ attempts[j].status \in Reusable}
  BY <1>1 DEF Opened, AttemptsOf
<1>4. \A c : Opened(c)' = {j \in 1..Len(attempts) : attempts'[j].channel = c /\ attempts'[j].status \in Reusable}
  BY <1>1 DEF Opened, AttemptsOf
<1> QED
  BY <1>2, <1>3, <1>4

LEMMA AppendOpened ==
  ASSUME TypeOK, NEW a \in Attempt, attempts' = Append(attempts, a)
  PROVE  /\ attempts'[Len(attempts) + 1] = a
         /\ \A c : c # a.channel => Opened(c)' = Opened(c)
         /\ Opened(a.channel)' \subseteq Opened(a.channel) \cup {Len(attempts) + 1}
<1>1. /\ DOMAIN attempts = 1..Len(attempts) /\ Len(attempts) \in Nat
      /\ DOMAIN attempts' = 1..(Len(attempts) + 1)
      /\ attempts'[Len(attempts) + 1] = a
      /\ \A j \in 1..Len(attempts) : attempts'[j] = attempts[j]
  BY AppendProperties, LenProperties DEF TypeOK
<1>2. \A c : Opened(c) = {j \in 1..Len(attempts) : attempts[j].channel = c /\ attempts[j].status \in Reusable}
  BY <1>1 DEF Opened, AttemptsOf
<1>3. \A c : Opened(c)' = {j \in 1..(Len(attempts) + 1) : attempts'[j].channel = c /\ attempts'[j].status \in Reusable}
  BY <1>1 DEF Opened, AttemptsOf
<1>4. 1..(Len(attempts) + 1) = (1..Len(attempts)) \cup {Len(attempts) + 1}
  BY <1>1
<1> QED
  BY <1>1, <1>2, <1>3, <1>4

LEMMA RowChanged ==
  ASSUME TypeOK, NEW i \in 1..Len(attempts), NEW st, SetAttempt(i, st)
  PROVE  \E a : /\ attempts' = [attempts EXCEPT ![i] = a]
               /\ a.channel = attempts[i].channel /\ a.status = st
<1>1. attempts[i] \in Attempt
  BY ElementOfSeq DEF TypeOK
<1>2. PICK a : a = [attempts[i] EXCEPT !.status = st]
  OBVIOUS
<1>3. a.channel = attempts[i].channel /\ a.status = st
  BY <1>1, <1>2 DEF Attempt
<1> QED
  BY <1>2, <1>3 DEF SetAttempt

\* Nothing but the cashier makes an attempt reusable.
LEMMA OthersOpenNothing ==
  ASSUME Inv, NEW r \in Requests, HandlerStep(r), ~CashierStep(r)
  PROVE  \A c : Opened(c)' \subseteq Opened(c)
<1>1. TypeOK /\ Fits(req[r])
  BY DEF Inv
<1>2. ASSUME UNCHANGED attempts PROVE \A c : Opened(c)' \subseteq Opened(c)
  BY <1>2 DEF Opened, AttemptsOf
<1>3. ASSUME NEW i \in 1..Len(attempts), NEW st, st \notin Reusable, SetAttempt(i, st)
      PROVE  \A c : Opened(c)' \subseteq Opened(c)
  <2>1. PICK a : /\ attempts' = [attempts EXCEPT ![i] = a]
                 /\ a.channel = attempts[i].channel /\ a.status = st
    BY <1>1, <1>3, RowChanged
  <2> QED
    BY <1>1, <1>3, <2>1, RowOpened
<1>4. CASE MarkAttemptSuccess(r)
  <2>1. req[r].att \in 1..Len(attempts) /\ attempts[req[r].att] \in Attempt
    BY <1>1, <1>4, ElementOfSeq DEF MarkAttemptSuccess, At, Fits, UsesAttempt, TypeOK
  <2>2. PICK a : a = [attempts[req[r].att] EXCEPT !.status = "SUCCESS", !.known = TRUE]
    OBVIOUS
  <2>3. a.channel = attempts[req[r].att].channel /\ a.status = "SUCCESS"
    BY <2>1, <2>2 DEF Attempt
  <2>4. attempts' = [attempts EXCEPT ![req[r].att] = a]
    BY <1>4, <2>2 DEF MarkAttemptSuccess
  <2> QED
    BY <1>1, <2>1, <2>3, <2>4, RowOpened DEF Reusable
<1>5. CASE MarkAttemptCancelled(r)
  BY <1>1, <1>3, <1>5 DEF MarkAttemptCancelled, FollowUp, SessionFollowUp, TradeFollowUp, At,
     Fits, UsesAttempt, Reusable
<1>6. CASE CancelAttempt(r)
  BY <1>1, <1>2, <1>3, <1>6 DEF CancelAttempt, At, Fits, UsesClosing, Reusable
<1>7. CASE SyncStep(r) \/ NotifyStep(r) \/ NotifyError(r) \/ Abandon(r)
  BY <1>2, <1>7 DEF SyncStep, NotifyStep, ReadOrder, FindLatest, QueryChannel, QueryAnswer,
     VerifyNotify,
     FindForNotify, FollowUp, SessionFollowUp, TradeFollowUp, MarkProcessed, NotifyError,
     Abandon, db
<1>8. CASE MarkOrderPaid(r) \/ RereadOrder(r) \/ ReadForClose(r) \/ WriteClosed(r)
           \/ PickClose(r) \/ CloseAtChannel(r)
  BY <1>2, <1>8 DEF MarkOrderPaid, RereadOrder, ReadForClose, WriteClosed, PickClose,
     CloseAtChannel, ClosesAt, SessionCloses, TradeCloses, LeavesAt, db
<1> QED
  BY <1>4, <1>5, <1>6, <1>7, <1>8 DEF HandlerStep, RequestStep, RecordStep, CloseStep

LEMMA SnapshotOpens ==
  ASSUME Inv, NEW r \in Requests, SnapshotAttempts(r), ~overdue
  PROVE  (\A c : Opened(c)' = Opened(c)) /\ OpenFits(req[r])'
<1>1. TypeOK /\ attempts' = attempts
  BY DEF Inv, SnapshotAttempts, db
<1>2. \A c : Opened(c)' = Opened(c)
  BY <1>1 DEF Opened, AttemptsOf
<1>3. PICK enabled \in SUBSET Channels :
        IF req[r].seen \notin Pending \/ enabled \ ReusableChannels = {} THEN Finish(r)
        ELSE req' = [req EXCEPT ![r] = [@ EXCEPT !.pc = "createAttempt",
                                                 !.todo = enabled \ ReusableChannels]]
  BY DEF SnapshotAttempts
<1>4. \A c \in enabled \ ReusableChannels : Opened(c) = {}
  BY DEF ReusableChannels, Opened
<1>5. CASE Finish(r)
  BY <1>1, <1>2, <1>5, FinishPc DEF OpenFits
<1>6. CASE req' = [req EXCEPT ![r] = [@ EXCEPT !.pc = "createAttempt",
                                               !.todo = enabled \ ReusableChannels]]
  <2>1. req \in [Requests -> Request] /\ req[r] \in Request
    BY <1>1 DEF TypeOK
  <2>2. req'[r].pc = "createAttempt" /\ req'[r].todo = enabled \ ReusableChannels
    BY <1>6, <2>1 DEF Request
  <2> QED
    BY <1>2, <1>4, <2>2 DEF OpenFits
<1> QED
  BY <1>2, <1>3, <1>5, <1>6

LEMMA CreateAttemptOpens ==
  ASSUME Inv, NEW r \in Requests, CreateAttempt(r), Single, OpenFits(req[r])
  PROVE  Single' /\ OpenFits(req[r])'
<1>1. TypeOK /\ req \in [Requests -> Request] /\ req[r] \in Request
      /\ req[r].pc = "createAttempt" /\ Len(attempts) \in Nat
  BY LenProperties DEF Inv, TypeOK, CreateAttempt, At
<1>2. CASE Finish(r) /\ UNCHANGED attempts
  BY <1>1, <1>2, FinishPc DEF Single, Opened, AttemptsOf, OpenFits
<1>3. ASSUME NEW c \in req[r].todo, attempts' = Append(attempts, NewAttempt(c)),
             req' = [req EXCEPT ![r] = [@ EXCEPT !.pc = "createSession", !.att = Len(attempts) + 1]]
      PROVE  Single' /\ OpenFits(req[r])'
  <2>1. NewAttempt(c) \in Attempt /\ NewAttempt(c).channel = c
    BY <1>1 DEF NewAttempt, Attempt, AttemptStatus, Request
  <2>2. /\ req'[r].pc = "createSession" /\ req'[r].att = Len(attempts) + 1
        /\ req'[r].todo = req[r].todo
    BY <1>1, <1>3 DEF Request
  <2>3. /\ attempts'[Len(attempts) + 1].channel = c
        /\ \A d : d # c => Opened(d)' = Opened(d)
        /\ Opened(c)' \subseteq Opened(c) \cup {Len(attempts) + 1}
    BY <1>1, <1>3, <2>1, AppendOpened
  <2>4. \A d \in req[r].todo : Opened(d) = {}
    BY <1>1 DEF OpenFits
  <2>5. Opened(c)' \subseteq {Len(attempts) + 1}
    BY <2>3, <2>4
  <2>6. Single'
    <3> SUFFICES ASSUME NEW d \in Channels, NEW i \in Opened(d)', NEW j \in Opened(d)' PROVE i = j
      BY DEF Single
    <3> QED
      BY <2>3, <2>5 DEF Single
  <2>7. OpenFits(req[r])'
    BY <2>2, <2>3, <2>4, <2>5 DEF OpenFits
  <2> QED
    BY <2>6, <2>7
<1> QED
  BY <1>2, <1>3 DEF CreateAttempt

\* The cashier leaves a channel: the channels it goes on to have nothing open.
LEMMA NextOpens ==
  ASSUME TypeOK, NEW r \in Requests, NEW todo, NextChannel(r, todo),
         \A c \in todo : Opened(c)' = {}
  PROVE  OpenFits(req[r])'
BY NextChannelPc DEF OpenFits

LEMMA CreateSessionOpens ==
  ASSUME Inv, NEW r \in Requests, CreateSession(r), OpenFits(req[r])
  PROVE  (\A c : Opened(c)' = Opened(c)) /\ OpenFits(req[r])'
<1>1. /\ TypeOK /\ req \in [Requests -> Request] /\ req[r] \in Request
      /\ req[r].pc = "createSession" /\ attempts' = attempts
  BY DEF Inv, TypeOK, CreateSession, At, db
<1>2. \A c : Opened(c)' = Opened(c)
  BY <1>1 DEF Opened, AttemptsOf
<1>3. ASSUME NEW l \in {"attemptReady", "attemptFailed"}, Goto(r, l) PROVE OpenFits(req[r])'
  <2>1. req'[r].pc = l /\ req'[r].att = req[r].att /\ req'[r].todo = req[r].todo
    BY <1>1, <1>3 DEF Goto, Request
  <2> QED
    BY <1>1, <1>2, <2>1 DEF OpenFits
<1>4. CASE NextChannel(r, req[r].todo \ {attempts[req[r].att].channel})
  <2> DEFINE rest == req[r].todo \ {attempts[req[r].att].channel}
  <2>1. \A c \in rest : Opened(c)' = {}
    BY <1>1, <1>2 DEF OpenFits
  <2>2. NextChannel(r, rest)
    BY <1>4
  <2> HIDE DEF rest
  <2> QED
    BY <1>1, <1>2, <2>1, <2>2, NextOpens
<1>5. \/ \E l \in {"attemptReady", "attemptFailed"} : Goto(r, l)
      \/ NextChannel(r, req[r].todo \ {attempts[req[r].att].channel})
  BY DEF CreateSession
<1> QED
  BY <1>2, <1>3, <1>4, <1>5

LEMMA ReadyOpens ==
  ASSUME Inv, NEW r \in Requests, MarkAttemptReady(r), Single, OpenFits(req[r])
  PROVE  Single' /\ OpenFits(req[r])'
<1>0. PICK i, c : i = req[r].att /\ c = attempts[i].channel
  OBVIOUS
<1>1. TypeOK /\ i \in 1..Len(attempts) /\ req[r].pc = "attemptReady"
  BY <1>0 DEF MarkAttemptReady, At, Inv, Fits, UsesAttempt
<1>2. attempts[i] \in Attempt
  BY <1>1, ElementOfSeq DEF TypeOK
<1>3. PICK a : a = ReadyRow(i)
  OBVIOUS
<1>4. a.channel = c /\ c = attempts[i].channel
  BY <1>0, <1>2, <1>3 DEF ReadyRow, Attempt
<1>5. attempts' = [attempts EXCEPT ![i] = a]
  BY <1>0, <1>3 DEF MarkAttemptReady
<1>6. Opened(c) \subseteq {i} /\ \A d \in req[r].todo \ {c} : Opened(d) = {}
  BY <1>0, <1>1 DEF OpenFits
<1>7. NextChannel(r, req[r].todo \ {c})
  BY <1>0 DEF MarkAttemptReady
<1>8. /\ \A d : d # c => Opened(d)' = Opened(d)
      /\ Opened(c)' \subseteq Opened(c) \cup {i}
  BY <1>1, <1>4, <1>5, RowOpened
<1>9. Single'
  <2> SUFFICES ASSUME NEW d \in Channels, NEW j \in Opened(d)', NEW k \in Opened(d)' PROVE j = k
    BY DEF Single
  <2>1. CASE d = c
    BY <1>6, <1>8, <2>1
  <2>2. CASE d # c
    BY <1>8, <2>2 DEF Single
  <2> QED
    BY <2>1, <2>2
<1>10. OpenFits(req[r])'
  BY <1>1, <1>6, <1>7, <1>8, NextOpens
<1> QED
  BY <1>9, <1>10

LEMMA FailedOpens ==
  ASSUME Inv, NEW r \in Requests, MarkAttemptFailed(r), Single, OpenFits(req[r])
  PROVE  Single' /\ OpenFits(req[r])'
<1> DEFINE i == req[r].att
           c == attempts[i].channel
<1>1. TypeOK /\ i \in 1..Len(attempts) /\ req[r].pc = "attemptFailed"
  BY DEF MarkAttemptFailed, MayTryAnother, At, Inv, Fits, UsesAttempt
<1>2. SetAttempt(i, "FAILED") /\ (NextChannel(r, req[r].todo \ {c}) \/ NextChannel(r, req[r].todo))
  BY DEF MarkAttemptFailed, MayTryAnother
<1>3. PICK a : /\ attempts' = [attempts EXCEPT ![i] = a]
               /\ a.channel = attempts[i].channel /\ a.status = "FAILED"
  BY <1>1, <1>2, RowChanged
<1>4. \A d : Opened(d)' \subseteq Opened(d) \ {i}
  BY <1>1, <1>3, RowOpened DEF Reusable
<1>5. Opened(c) \subseteq {i} /\ \A d \in req[r].todo \ {c} : Opened(d) = {}
  BY <1>1 DEF OpenFits
<1>6. \A d \in req[r].todo : Opened(d)' = {}
  BY <1>4, <1>5
<1> HIDE DEF i, c
<1>7. Single'
  BY <1>4 DEF Single
<1>8. OpenFits(req[r])'
  <2>1. CASE NextChannel(r, req[r].todo \ {c})
    BY <1>1, <1>6, <2>1, NextOpens
  <2>2. CASE NextChannel(r, req[r].todo)
    BY <1>1, <1>6, <2>2, NextOpens
  <2> QED
    BY <1>2, <2>1, <2>2
<1> QED
  BY <1>7, <1>8

LEMMA HandlerOpens ==
  ASSUME Inv, NEW r \in Requests, HandlerStep(r), Single, OpenFits(req[r]), ~overdue
  PROVE  Single' /\ OpenFits(req[r])'
<1>1. CASE SnapshotAttempts(r)
  BY <1>1, SnapshotOpens DEF Single
<1>2. CASE CreateAttempt(r)
  BY <1>2, CreateAttemptOpens
<1>3. CASE CreateSession(r)
  BY <1>3, CreateSessionOpens DEF Single
<1>4. CASE MarkAttemptReady(r)
  BY <1>4, ReadyOpens
<1>5. CASE MarkAttemptFailed(r)
  BY <1>5, FailedOpens
<1>6. CASE ~CashierStep(r)
  <2>1. \A c : Opened(c)' \subseteq Opened(c)
    BY <1>6, OthersOpenNothing
  <2>2. req'[r].pc \notin SessionLabels
    BY <1>6, WhereTo DEF Inv
  <2> QED
    BY <2>1, <2>2 DEF Single, OpenFits, SessionLabels
<1> QED
  BY <1>1, <1>2, <1>3, <1>4, <1>5, <1>6 DEF CashierStep

LEMMA OpenStep == Inv /\ Alone /\ OneOpen /\ [Next]_vars => OneOpen'
<1> SUFFICES ASSUME Inv, Alone, OneOpen, [Next]_vars, ~overdue', ~overlapped'
             PROVE  Single' /\ \A q \in Requests : OpenFits(req[q])'
  BY DEF OneOpen
<1>1. TypeOK
  BY DEF Inv
<1>2. ASSUME UNCHANGED attempts PROVE (\A c : Opened(c)' = Opened(c))
  BY <1>2 DEF Opened, AttemptsOf
<1>3. ASSUME NEW r \in Requests, HandlerStep(r)
      PROVE  Single' /\ \A q \in Requests : OpenFits(req[q])'
  <2>1. /\ \A q \in Requests : q # r => req'[q] = req[q]
        /\ ~overlapped /\ ~overdue
    BY <1>3, HandlerMoves
  <2>2. Single' /\ OpenFits(req[r])'
    BY <1>3, <2>1, HandlerOpens DEF OneOpen
  <2>3. CASE Active(r)
    <3>1. \A q \in Requests : q # r => req'[q].pc = "idle"
      BY <2>1, <2>3 DEF Alone, Active
    <3>2. \A q \in Requests : q # r => OpenFits(req[q])'
      BY <3>1 DEF OpenFits
    <3> QED
      BY <2>2, <3>2
  <2>4. CASE ~Active(r)
    <3>1. NotifyError(r)
      BY <1>1, <1>3, <2>4, StepIsActive
    <3>2. UNCHANGED attempts
      BY <3>1 DEF NotifyError
    <3>3. \A q \in Requests : q # r => OpenFits(req[q])'
      BY <1>2, <2>1, <3>2 DEF OneOpen, OpenFits
    <3> QED
      BY <2>2, <3>3
  <2> QED
    BY <2>3, <2>4
<1>4. ASSUME NEW r \in Requests,
             \/ \E op \in Ops \ {"notify"} : BeginRequest(r, op)
             \/ \E e \in Events : DeliverEvent(r, e)
      PROVE  Single' /\ \A q \in Requests : OpenFits(req[q])'
  <2>1. /\ \A q \in Requests : q # r => req'[q] = req[q]
        /\ req'[r].pc \in {"readOrder", "verify"} /\ NoteOverlap
        /\ UNCHANGED <<attempts, overdue>>
    BY <1>1, <1>4, BeginMoves
  <2>2. ~overlapped /\ \A q \in Requests : req[q].pc = "idle"
    BY <1>1, <2>1 DEF NoteOverlap, At, TypeOK
  <2>3. \A q \in Requests : req'[q].pc \in {"idle", "readOrder", "verify"}
    BY <2>1, <2>2
  <2> QED
    BY <1>2, <2>1, <2>2, <2>3 DEF OneOpen, Single, OpenFits
<1>5. ASSUME EnvironmentStep
      PROVE  Single' /\ \A q \in Requests : OpenFits(req[q])'
  <2>1. UNCHANGED <<req, attempts, overlapped>>
    BY <1>5, EnvironmentMoves
  <2>2. ~overdue
    BY <1>5, EnvironmentMoves, Zenon
  <2> QED
    BY <1>2, <2>1, <2>2 DEF OneOpen, Single, OpenFits
<1> QED
  BY <1>3, <1>4, <1>5, StepCases

LEMMA SpecOpen == Spec => []OneOpen
<1>1. Init => OneOpen
  <2> SUFFICES ASSUME Init PROVE Single /\ \A r \in Requests : OpenFits(req[r])
    BY DEF OneOpen
  <2>1. attempts = <<>> /\ \A r \in Requests : req[r].pc = "idle"
    BY DEF Init, Idle
  <2> QED
    BY <2>1 DEF Single, Opened, AttemptsOf, OpenFits
<1> QED
  BY <1>1, OpenStep, SpecAlone, PTL DEF Spec

\* The cashier page may be reloaded as often as one likes while the order can be paid: as
\* long as one handler runs at a time, getCashierSession finds the attempt it opened.
THEOREM SessionsAreReused == Spec => []OneSessionPerChannel
<1>1. OneOpen => OneSessionPerChannel
  <2> SUFFICES ASSUME Single, NEW c \in Channels PROVE Cardinality(Opened(c)) <= 1
    BY DEF OneOpen, OneSessionPerChannel, Opened
  <2>1. CASE Opened(c) = {}
    BY <2>1, FS_EmptySet
  <2>2. ASSUME NEW i \in Opened(c) PROVE Cardinality(Opened(c)) <= 1
    <3>1. Opened(c) = {i}
      BY <2>2 DEF Single
    <3>2. Cardinality(Opened(c)) = 1
      BY <3>1, FS_Singleton, Zenon
    <3> QED
      BY <3>2
  <2> QED
    BY <2>1, <2>2
<1> QED
  BY <1>1, SpecOpen, PTL
=============================================================================
