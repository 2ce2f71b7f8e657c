--------------------------- MODULE OrderLifecycle ---------------------------
(***************************************************************************)
(* The life of one pay_order row: the merchant's queries and closes, the   *)
(* cashier page that opens payment sessions, and the provider webhooks,    *)
(* all served at the same time by Node handlers that interleave at every   *)
(* await.  Orders share no state, so one order is enough.                  *)
(*                                                                         *)
(* A request is a process: its program counter, its continuation `ret`     *)
(* (where the shared helpers syncOrderIfNeeded and markOrderClosedEntity   *)
(* return to) and the values it read from the database and still holds.    *)
(* A step is one database statement, one transaction or one provider call. *)
(*                                                                         *)
(* A channel stands for one provider: the alipay products of an order      *)
(* share one trade (out_trade_no is the platform order number) and the     *)
(* cashier reuses an attempt across them.  Stripe is a session channel:    *)
(* every attempt has a Checkout Session, and so a trade, of its own.       *)
(***************************************************************************)
EXTENDS Naturals, Sequences, FiniteSets

CONSTANTS
  Requests,         \* the handlers that may run at the same time
  Channels,         \* the order's allowed channels, one per provider
  SessionChannels,  \* those with one provider trade per attempt (Stripe)
  Ops,              \* the operations that take place, among AllOps
  NoChannel,        \* an order not yet paid has no success channel
  MaxAttempts,      \* bound: pay_attempt rows
  MaxFaults         \* bound: crashes, failed calls and database errors

AllOps == {"query", "close", "cashier", "notify"}

ASSUME OrderAssumption ==
  /\ SessionChannels \subseteq Channels
  /\ NoChannel \notin Channels
  /\ Ops \subseteq AllOps
  /\ MaxAttempts \in Nat
  /\ MaxFaults \in Nat

VARIABLES
  orderStatus,     \* pay_order.status
  successChannel,  \* pay_order.success_channel
  overdue,         \* pay_order.expire_time is in the past
  reachable,       \* the providers' webhooks reach the platform at all
  attempts,        \* the pay_attempt rows, oldest first
  payTasks,        \* number of PAY_SUCCESS rows in notify_task
  processed,       \* events whose channel_event_log row says PROCESSED
  trade,           \* the trades as the providers hold them
  req,             \* the requests
  faults,          \* faults so far
  overwrites,      \* history: how often a paid order was turned CLOSED
  overlapped       \* history: two handlers have been running at once

order == <<orderStatus, successChannel>>
db    == <<orderStatus, successChannel, attempts, payTasks, processed>>
world == <<overdue, reachable, trade, faults>>
history == <<overwrites, overlapped>>
vars  == <<db, world, req, history>>

Pending == {"WAIT_PAY", "PAYING"}
Paid    == {"SUCCESS", "REFUND_PART", "REFUND_ALL"}
OrderStatus   == Pending \cup Paid \cup {"CLOSED", "EXPIRED"}
AttemptStatus == {"CHANNEL_REQUESTING", "USER_PAYING", "SUCCESS",
                  "FAILED", "CANCELLED"}
Reusable      == {"CHANNEL_REQUESTING", "USER_PAYING"}

\* `known`: the row carries the provider's own number (the session id of a
\* session channel, the trade number of any other)
Attempt == [channel : Channels, status : AttemptStatus, known : BOOLEAN]

\* Trade <<c, i>> belongs to attempt i alone, <<c, 0>> to every attempt of c.
Trades == (SessionChannels \X (1..MaxAttempts))
            \cup ((Channels \ SessionChannels) \X {0})
\* "created": only the provider knows it; "offered": the payer holds a link to
\* a trade the provider will create on the first visit; "open": payable.
TradeStates == {"absent", "created", "offered", "open", "paid", "closed"}
TradeOf(i)  ==
  LET c == attempts[i].channel
  IN  <<c, IF c \in SessionChannels THEN i ELSE 0>>

\* A webhook event is identified by the trade and what it reports.
EventKinds == {"SUCCESS", "CLOSED"}
Events     == Trades \X EventKinds
NoEvent    == <<>>
Emitted(e) == trade[e[1]] = IF e[2] = "SUCCESS" THEN "paid" ELSE "closed"

Labels == {"idle", "readOrder", "findLatest", "queryChannel",
           "attemptSuccess", "orderPaid", "rereadOrder",
           "attemptCancelled", "readForClose", "writeClosed",
           "pickClose", "closeAtChannel", "cancelAttempt",
           "snapshot", "createAttempt", "createSession",
           "attemptReady", "attemptFailed",
           "verify", "findForNotify", "logProcessed"}

Returns == {"idle", "pickClose", "snapshot", "cancelAttempt", "logProcessed"}

Request == [pc      : Labels,
            ret     : Returns,
            seen    : OrderStatus,         \* order status last read
            att     : 0..MaxAttempts,      \* attempt the helper works on
            closing : 0..MaxAttempts,      \* attempt closeOrder picked
            todo    : SUBSET Channels,     \* channels the cashier must open
            event   : Events \cup {NoEvent}]

Idle == [pc |-> "idle", ret |-> "idle", seen |-> "WAIT_PAY", att |-> 0,
         closing |-> 0, todo |-> {}, event |-> NoEvent]

TypeOK ==
  /\ orderStatus \in OrderStatus
  /\ successChannel \in Channels \cup {NoChannel}
  /\ overdue \in BOOLEAN
  /\ reachable \in BOOLEAN
  /\ attempts \in Seq(Attempt)
  /\ Len(attempts) <= MaxAttempts
  /\ payTasks \in Nat
  /\ processed \subseteq Events
  /\ trade \in [Trades -> TradeStates]
  /\ req \in [Requests -> Request]
  /\ faults \in 0..MaxFaults
  /\ overwrites \in Nat
  /\ overlapped \in BOOLEAN

Init ==
  /\ orderStatus = "WAIT_PAY"
  /\ successChannel = NoChannel
  /\ overdue = FALSE
  /\ reachable \in BOOLEAN
  /\ attempts = <<>>
  /\ payTasks = 0
  /\ processed = {}
  /\ trade = [t \in Trades |-> "absent"]
  /\ req = [r \in Requests |-> Idle]
  /\ faults = 0
  /\ overwrites = 0
  /\ overlapped = FALSE

-----------------------------------------------------------------------------
(* Helpers of the steps *)

At(r, label)  == req[r].pc = label
Goto(r, label) == req' = [req EXCEPT ![r] = [@ EXCEPT !.pc = label]]

\* A helper gives status s back to its caller; a request that is over forgets.
Return(r, s) ==
  req' = [req EXCEPT ![r] =
            IF req[r].ret = "idle" THEN Idle
            ELSE [@ EXCEPT !.pc = req[r].ret, !.seen = s]]
Finish(r) == req' = [req EXCEPT ![r] = Idle]

SetAttempt(i, s) == attempts' = [attempts EXCEPT ![i] = [@ EXCEPT !.status = s]]

Latest(S) == {i \in S : \A j \in S : j <= i}
AttemptsOf(c) == {i \in DOMAIN attempts : attempts[i].channel = c}

\* findLatestAttemptForOrder, 0 when there is none
LatestAttempt == Len(attempts)

\* A provider call that throws, a crash and a database error are all faults.
Fault == faults < MaxFaults /\ faults' = faults + 1

NoteOverlap == overlapped' = (overlapped \/ \E q \in Requests : ~At(q, "idle"))

-----------------------------------------------------------------------------
(* The operations up to the point where they differ *)

\* Where syncOrderIfNeeded returns to in each operation.
AfterSync == [query |-> "idle", close |-> "pickClose", cashier |-> "snapshot"]

\* markExpiredOrders is the first statement of every operation on an order.
\* No cashier page is opened at the bound MaxAttempts.
BeginRequest(r, op) ==
  /\ At(r, "idle")
  /\ op = "cashier" => Len(attempts) < MaxAttempts
  /\ orderStatus' = IF overdue /\ orderStatus \in Pending
                    THEN "EXPIRED" ELSE orderStatus
  /\ req' = [req EXCEPT ![r] = [@ EXCEPT !.pc = "readOrder",
                                         !.ret = AfterSync[op]]]
  /\ NoteOverlap
  /\ UNCHANGED <<successChannel, attempts, payTasks, processed, world, overwrites>>

\* The order is read once; syncOrderIfNeeded leaves a finished order alone.
ReadOrder(r) ==
  /\ At(r, "readOrder")
  /\ IF orderStatus \in Pending
     THEN req' = [req EXCEPT ![r] = [@ EXCEPT !.pc = "findLatest",
                                              !.seen = orderStatus]]
     ELSE Return(r, orderStatus)
  /\ UNCHANGED <<db, world, history>>

FindLatest(r) ==
  /\ At(r, "findLatest")
  /\ IF attempts = <<>>
     THEN Return(r, req[r].seen)
     ELSE req' = [req EXCEPT ![r] = [@ EXCEPT !.pc = "queryChannel",
                                              !.att = LatestAttempt]]
  /\ UNCHANGED <<db, world, history>>

\* A session cannot be looked up before its id was recorded.
AddressableIfPaying(i) ==   \* mutant: what is thought to be settled is not asked for
  attempts[i].status = "USER_PAYING" /\ attempts[i].known
Addressable(i) == attempts[i].channel \in SessionChannels => attempts[i].known

\* queryOrder of the adapters: a trade the provider does not know yet waits.
QueryAnswer(t) == CASE trade[t] = "paid"   -> "SUCCESS"
                    [] trade[t] = "closed" -> "CLOSED"
                    [] OTHER               -> "WAIT_PAY"

\* paymentChannelRegistryService.queryOrder and what syncOrderIfNeeded makes
\* of its answer; a disabled channel and an error are faults.
QueryChannel(r) ==
  LET i == req[r].att
      t == TradeOf(i)
  IN  /\ At(r, "queryChannel")
      /\ \/ /\ Addressable(i)
            /\ CASE QueryAnswer(t) = "SUCCESS"  -> Goto(r, "attemptSuccess")
                 [] QueryAnswer(t) = "CLOSED"   -> Goto(r, "attemptCancelled")
                 [] QueryAnswer(t) = "WAIT_PAY" -> Return(r, req[r].seen)
            /\ UNCHANGED faults
         \/ ~Addressable(i) /\ Finish(r) /\ UNCHANGED faults
         \/ Fault /\ Return(r, req[r].seen)
         \/ Fault /\ Finish(r)
      /\ UNCHANGED <<db, overdue, reachable, trade, history>>

-----------------------------------------------------------------------------
(* Recording a payment: shared by syncOrderIfNeeded and the webhooks *)

MarkAttemptSuccess(r) ==
  /\ At(r, "attemptSuccess")
  /\ attempts' = [attempts EXCEPT ![req[r].att] =
                    [@ EXCEPT !.status = "SUCCESS", !.known = TRUE]]
  /\ Goto(r, "orderPaid")
  /\ UNCHANGED <<order, payTasks, processed, world, history>>

\* The condition of the update, and of the task that goes with it
RecordsAlways      == TRUE                     \* mutant
RecordsIfPending   == orderStatus \in Pending  \* mutant
RecordsPayment     == orderStatus \notin Paid

LatestChannel(i)    == attempts[Len(attempts)].channel  \* mutant
SuccessChannelOf(i) == attempts[i].channel

\* The transaction: the conditional update and the notify task go together.
MarkOrderPaid(r) ==
  /\ At(r, "orderPaid")
  /\ IF RecordsPayment
     THEN /\ orderStatus' = "SUCCESS"
          /\ successChannel' = SuccessChannelOf(req[r].att)
          /\ payTasks' = payTasks + 1
     ELSE UNCHANGED <<order, payTasks>>
  /\ Goto(r, IF req[r].ret = "logProcessed" THEN "logProcessed"
             ELSE "rereadOrder")
  /\ UNCHANGED <<attempts, processed, world, history>>

RereadOrder(r) ==
  /\ At(r, "rereadOrder")
  /\ Return(r, orderStatus)
  /\ UNCHANGED <<db, world, history>>

-----------------------------------------------------------------------------
(* Closing: shared by syncOrderIfNeeded, closeOrder and the webhooks *)

\* What the handlers of the providers' events write for an event: the attempt found, then
\* the order.  Stripe's expiry event cancels the attempt and leaves the order alone.
TradeFollowUp(kind) ==
  IF kind = "SUCCESS" THEN [attempt |-> "attemptSuccess",   order |-> "orderPaid"]
                      ELSE [attempt |-> "attemptCancelled", order |-> "readForClose"]
SessionFollowUp(kind) ==
  IF kind = "SUCCESS" THEN [attempt |-> "attemptSuccess",   order |-> "orderPaid"]
                      ELSE [attempt |-> "attemptCancelled", order |-> "logProcessed"]
FollowUp(c, kind) == IF c \in SessionChannels THEN SessionFollowUp(kind)
                                              ELSE TradeFollowUp(kind)

MarkAttemptCancelled(r) ==
  LET i == req[r].att
  IN  /\ At(r, "attemptCancelled")
      /\ SetAttempt(i, "CANCELLED")
      /\ Goto(r, IF req[r].ret = "logProcessed"
                 THEN FollowUp(attempts[i].channel, "CLOSED").order
                 ELSE "readForClose")
      /\ UNCHANGED <<order, payTasks, processed, world, history>>

ClosableUnlessClosed == orderStatus \notin {"CLOSED", "EXPIRED"}   \* mutant
Closable == orderStatus \notin Paid \cup {"CLOSED", "EXPIRED"}

\* markOrderClosedEntity reads the order ...
ReadForClose(r) ==
  /\ At(r, "readForClose")
  /\ IF Closable THEN Goto(r, "writeClosed") ELSE Return(r, orderStatus)
  /\ UNCHANGED <<db, world, history>>

\* ... and in a later statement writes it, whatever it is by then.
WriteClosed(r) ==
  /\ At(r, "writeClosed")
  /\ orderStatus' = "CLOSED"
  /\ overwrites' = IF orderStatus \in Paid THEN overwrites + 1 ELSE overwrites
  /\ Return(r, "CLOSED")
  /\ UNCHANGED <<successChannel, attempts, payTasks, processed, world, overlapped>>

-----------------------------------------------------------------------------
(* closeOrder after its first synchronisation *)

LocalClose == "readForClose"   \* mutant
CloseStart == IF attempts = <<>> THEN "readForClose" ELSE "closeAtChannel"

PickClose(r) ==
  /\ At(r, "pickClose")
  /\ IF req[r].seen \notin Pending THEN Finish(r)
     ELSE req' = [req EXCEPT ![r] =
                    [@ EXCEPT !.pc = CloseStart,
                              !.ret = "idle",
                              !.closing = LatestAttempt]]
  /\ UNCHANGED <<db, world, history>>

\* closeOrder of the adapters: an open session is expired, an open trade closed; one that
\* nobody has visited yet the provider may know or not; any other is left as it is.
SessionCloses(i) == trade[TradeOf(i)] = "open"
TradeCloses(i)   == trade[TradeOf(i)] \in {"created", "open"}
ClosesAt(i) == IF attempts[i].channel \in SessionChannels THEN SessionCloses(i)
                                                          ELSE TradeCloses(i)
LeavesAt(i) == trade[TradeOf(i)] # "open"

\* After UNCHANGED the order is synchronised again, from the row read earlier.
CloseAtChannel(r) ==
  LET i == req[r].closing
      t == TradeOf(i)
  IN  /\ At(r, "closeAtChannel")
      /\ \/ /\ Addressable(i) /\ ClosesAt(i)
            /\ trade' = [trade EXCEPT ![t] = "closed"]
            /\ Goto(r, "cancelAttempt")
            /\ UNCHANGED faults
         \/ /\ Addressable(i) /\ LeavesAt(i)
            /\ req' = [req EXCEPT ![r] = [@ EXCEPT !.pc = "findLatest",
                                                   !.ret = "cancelAttempt"]]
            /\ UNCHANGED <<trade, faults>>
         \/ ~Addressable(i) /\ Finish(r) /\ UNCHANGED <<trade, faults>>
         \/ Fault /\ Goto(r, "cancelAttempt") /\ UNCHANGED trade
         \/ Fault /\ Finish(r) /\ UNCHANGED trade
      /\ UNCHANGED <<db, overdue, reachable, history>>

CancelAttempt(r) ==
  /\ At(r, "cancelAttempt")
  /\ IF req[r].seen \notin Pending
     THEN Finish(r) /\ UNCHANGED attempts
     ELSE /\ SetAttempt(req[r].closing, "CANCELLED")
          /\ req' = [req EXCEPT ![r] = [@ EXCEPT !.pc = "readForClose",
                                                 !.ret = "idle"]]
  /\ UNCHANGED <<order, payTasks, processed, world, history>>

-----------------------------------------------------------------------------
(* getCashierSession: one session per channel, from one snapshot of attempts *)

ReusableIfReady ==   \* mutant
  {c \in Channels : ~overdue /\ \E i \in AttemptsOf(c) : attempts[i].status = "USER_PAYING"}
ReusableChannels ==
  {c \in Channels : ~overdue /\ \E i \in AttemptsOf(c) : attempts[i].status \in Reusable}

SnapshotAttempts(r) ==
  /\ At(r, "snapshot")
  /\ \E enabled \in SUBSET Channels :
       LET todo == enabled \ ReusableChannels
       IN  IF req[r].seen \notin Pending \/ todo = {} THEN Finish(r)
           ELSE req' = [req EXCEPT ![r] = [@ EXCEPT !.pc = "createAttempt",
                                                    !.todo = todo]]
  /\ UNCHANGED <<db, world, history>>

NewReadyAttempt(c) == [channel |-> c, status |-> "READY", known |-> FALSE]   \* mutant
NewAttempt(c) == [channel |-> c, status |-> "CHANNEL_REQUESTING", known |-> FALSE]

\* The next channel; at the bound MaxAttempts the request ends instead.
CreateAttempt(r) ==
  /\ At(r, "createAttempt")
  /\ IF Len(attempts) = MaxAttempts
     THEN Finish(r) /\ UNCHANGED attempts
     ELSE \E c \in req[r].todo :
            /\ attempts' = Append(attempts, NewAttempt(c))
            /\ req' = [req EXCEPT ![r] = [@ EXCEPT !.pc = "createSession",
                                                   !.att = Len(attempts) + 1]]
  /\ UNCHANGED <<order, payTasks, processed, world, history>>

\* The request goes on to the channels left, or is over.
NextChannel(r, todo) ==
  IF todo = {} THEN Finish(r)
  ELSE req' = [req EXCEPT ![r] = [@ EXCEPT !.pc = "createAttempt", !.todo = todo]]

CreateTrade(t) == trade' = [trade EXCEPT ![t] = IF @ = "absent" THEN "created" ELSE @]

\* READY, FAILED (or thrown, the provider having served the call or not), or
\* an answer that leaves the attempt as it was created.
CreateSession(r) ==
  LET i == req[r].att
      t == TradeOf(i)
  IN  /\ At(r, "createSession")
      /\ \/ CreateTrade(t) /\ Goto(r, "attemptReady") /\ UNCHANGED faults
         \/ /\ Fault /\ Goto(r, "attemptFailed")
            /\ CreateTrade(t) \/ UNCHANGED trade
         \/ /\ Fault /\ UNCHANGED trade
            /\ NextChannel(r, req[r].todo \ {attempts[i].channel})
      /\ UNCHANGED <<db, overdue, reachable, history>>

\* Only a session has a number of its own by now.
ReadyRow(i) == [attempts[i] EXCEPT !.status = "USER_PAYING",
                                   !.known  = attempts[i].known \/ attempts[i].channel \in SessionChannels]

\* The row is stored and the payer is handed the link; a trade that was paid
\* or closed stays so.
MarkAttemptReady(r) ==
  LET i == req[r].att
      c == attempts[i].channel
      t == TradeOf(i)
  IN  /\ At(r, "attemptReady")
      /\ attempts' = [attempts EXCEPT ![i] = ReadyRow(i)]
      /\ \E s \in (IF c \in SessionChannels THEN {"open"} ELSE {"offered", "open"}) :
           trade' = [trade EXCEPT ![t] = IF @ = "created" THEN s ELSE @]
      /\ NextChannel(r, req[r].todo \ {c})
      /\ UNCHANGED <<order, payTasks, processed, overdue, reachable, faults, history>>

\* buildPreferredAlipaySession goes on to another product of the provider.
MayTryAnother(c) == c \notin SessionChannels

MarkAttemptFailed(r) ==
  LET c == attempts[req[r].att].channel
  IN  /\ At(r, "attemptFailed")
      /\ SetAttempt(req[r].att, "FAILED")
      /\ \/ NextChannel(r, req[r].todo \ {c})
         \/ MayTryAnother(c) /\ NextChannel(r, req[r].todo)
      /\ UNCHANGED <<order, payTasks, processed, world, history>>

-----------------------------------------------------------------------------
(* handleAlipayNotify, handleWechatPayNotify, handleStripeNotify *)

\* A delivery, first or repeated: the event log row is created or refreshed
\* and read.  One that is already processed is acknowledged at once: no step.
DeliverEvent(r, e) ==
  /\ At(r, "idle")
  /\ reachable
  /\ Emitted(e)
  /\ e \notin processed
  /\ req' = [req EXCEPT ![r] = [@ EXCEPT !.pc = "verify",
                                         !.ret = "logProcessed", !.event = e]]
  /\ NoteOverlap
  /\ UNCHANGED <<db, world, overwrites>>

VerifyNotify(r) ==
  /\ At(r, "verify")
  /\ \/ Goto(r, "findForNotify") /\ UNCHANGED <<processed, faults>>
     \/ /\ Fault
        /\ Finish(r)
        /\ processed' = processed \ {req[r].event}
  /\ UNCHANGED <<order, attempts, payTasks, overdue, reachable, trade, history>>

\* findAttemptByChannelTradeNo
Holders(t) == {i \in AttemptsOf(t[1]) : attempts[i].known}

\* A Stripe event names its attempt; any other is matched by trade number, or
\* else to the latest attempt of the provider.
SessionCandidates(t) == AttemptsOf(t[1]) \cap {t[2]}
TradeCandidates(t) == Latest(IF Holders(t) # {} THEN Holders(t) ELSE AttemptsOf(t[1]))

AnyLatest(t) == Latest(DOMAIN attempts)   \* mutant
NotifyCandidates(t) ==
  IF t[1] \in SessionChannels THEN SessionCandidates(t) ELSE TradeCandidates(t)

FindForNotify(r) ==
  /\ At(r, "findForNotify")
  /\ \E i \in NotifyCandidates(req[r].event[1]) :
       req' = [req EXCEPT ![r] =
                 [@ EXCEPT !.att = i,
                           !.pc = FollowUp(attempts[i].channel, req[r].event[2]).attempt]]
  /\ UNCHANGED <<db, world, history>>

MarkProcessed(r) ==
  /\ At(r, "logProcessed")
  /\ processed' = processed \cup {req[r].event}
  /\ Finish(r)
  /\ UNCHANGED <<order, attempts, payTasks, world, history>>

\* An error after verification writes PROCESS_FAILED, even over a PROCESSED
\* that another delivery of the same event wrote meanwhile.
NotifyError(r) ==
  /\ req[r].event # NoEvent
  /\ ~At(r, "verify")
  /\ Fault
  /\ Finish(r)
  /\ processed' = processed \ {req[r].event}
  /\ UNCHANGED <<order, attempts, payTasks, overdue, reachable, trade, history>>

\* A crash, or an error no handler catches, ends the request where it is.
Abandon(r) ==
  /\ ~At(r, "idle")
  /\ Fault
  /\ Finish(r)
  /\ UNCHANGED <<db, overdue, reachable, trade, history>>

-----------------------------------------------------------------------------
(* The payer, the providers and the clock *)

ProviderStep(from, to) ==
  /\ \E t \in Trades : trade[t] \in from /\ trade' = [trade EXCEPT ![t] = to]
  /\ UNCHANGED <<db, overdue, reachable, faults, req, history>>

PayerVisits    == ProviderStep({"offered"}, "open")
PayerPays      == ProviderStep({"offered", "open"}, "paid")
ProviderCloses == ProviderStep({"created", "offered", "open"}, "closed")

DeadlinePasses ==
  /\ ~overdue
  /\ overdue' = TRUE
  /\ UNCHANGED <<db, reachable, trade, faults, req, history>>

SyncStep(r)   == ReadOrder(r) \/ FindLatest(r) \/ QueryChannel(r)
RecordStep(r) == MarkAttemptSuccess(r) \/ MarkOrderPaid(r) \/ RereadOrder(r)
CloseStep(r)  == \/ MarkAttemptCancelled(r) \/ ReadForClose(r) \/ WriteClosed(r)
                 \/ PickClose(r) \/ CloseAtChannel(r) \/ CancelAttempt(r)
CashierStep(r) == \/ SnapshotAttempts(r) \/ CreateAttempt(r) \/ CreateSession(r)
                  \/ MarkAttemptReady(r) \/ MarkAttemptFailed(r)
NotifyStep(r) == VerifyNotify(r) \/ FindForNotify(r) \/ MarkProcessed(r)

\* A request that has begun runs on by itself.
RequestStep(r) == SyncStep(r) \/ RecordStep(r) \/ CloseStep(r)
                  \/ CashierStep(r) \/ NotifyStep(r)

Begin(op)  == op \in Ops /\ \E r \in Requests : BeginRequest(r, op)
Deliver(e) == "notify" \in Ops /\ \E r \in Requests : DeliverEvent(r, e)

Next ==
  \/ \E op \in Ops \ {"notify"} : Begin(op)
  \/ \E e \in Events : Deliver(e)
  \/ \E r \in Requests : RequestStep(r) \/ NotifyError(r) \/ Abandon(r)
  \/ PayerVisits \/ PayerPays \/ ProviderCloses \/ DeadlinePasses

Spec == Init /\ [][Next]_vars

\* Requests run on by themselves.  Providers whose webhooks arrive repeat the event
\* of a payment until it is acknowledged; where none arrives, the merchant keeps
\* querying the order.  Nobody has to open the cashier, close or pay, nor a provider
\* to report that a trade is closed.
Fairness ==
  /\ \A r \in Requests : WF_vars(RequestStep(r))
  /\ \A t \in Trades : SF_vars(Deliver(<<t, "SUCCESS">>))
  /\ WF_vars(~reachable /\ Begin("query"))

FairSpec == Spec /\ Fairness

-----------------------------------------------------------------------------
(* Properties *)

\* The merchant is told PAY_SUCCESS exactly once each time the order becomes
\* paid: webhooks, queries and closes that record the same payment add no task,
\* and a payment recorded again after a close overwrote it adds one.
TaskPerPayment ==
  payTasks = overwrites + (IF orderStatus \in Paid THEN 1 ELSE 0)

\* An order is paid only if its success channel holds a paid trade of it,
\* however stale the answer or the event the handler acts on.
PaymentIsReal ==
  orderStatus \in Paid =>
    \E t \in Trades : t[1] = successChannel /\ trade[t] = "paid"

\* An attempt is marked SUCCESS only for a paid trade of its own.
SuccessfulAttemptIsPaid ==
  \A i \in DOMAIN attempts :
    attempts[i].status = "SUCCESS" => trade[TradeOf(i)] = "paid"

\* An acknowledged payment event has been turned into a merchant notification,
\* whatever crashed and was delivered again in between.
ProcessedPaymentIsTold ==
  \A t \in Trades : <<t, "SUCCESS">> \in processed => payTasks > 0

\* Overwriting a payment takes a close that read the order before it was paid,
\* so a handler that runs alone never repeats PAY_SUCCESS and n handlers send
\* it at most n times.
RepeatsNeedConcurrency == payTasks <= Cardinality(Requests)

\* As long as handlers run one at a time, a paid order stays paid: no close,
\* expiry or late event of another trade takes it back.  KeepsLedger implies it.
PaidIsFinal ==
  [][(orderStatus \in Paid /\ ~overlapped) => (orderStatus' \in Paid)]_vars

\* One handler at a time opens one session per provider: reloading the cashier
\* page while the order can be paid reuses the attempt.
OneSessionPerChannel ==
  ~overdue /\ ~overlapped => \A c \in Channels :
    Cardinality({i \in AttemptsOf(c) : attempts[i].status \in Reusable}) <= 1

\* An order whose attempts are all of one session channel, closed by a handler
\* that ran alone and without a failed call, cannot be paid any more: its trade
\* was closed at the provider first.
ClosedIsUnpayable ==
  (/\ orderStatus = "CLOSED" /\ ~overlapped /\ faults = 0
   /\ \E c \in SessionChannels : AttemptsOf(c) = DOMAIN attempts)
  => \A t \in Trades : trade[t] \notin {"offered", "open"}

\* Where webhooks arrive, a payment reaches the merchant although they are late,
\* repeated and reordered, handlers crash and the order may be closed or expired
\* by then.
PaymentIsTold ==
  (reachable /\ \E t \in Trades : trade[t] = "paid") ~> (payTasks > 0)

\* A query asks about the latest attempt only (syncOrderIfNeeded).
LatestIsPaid == attempts # <<>> /\ trade[TradeOf(Len(attempts))] = "paid"

\* Without any webhook, a merchant that keeps querying learns of the payment of the latest
\* attempt, whatever failed while the session was opened or asked for, unless a newer
\* attempt comes between, or the order expires or is closed.
PollingFindsLatest ==
  ~reachable /\ []~(overdue \/ orderStatus = "CLOSED") =>
    (LatestIsPaid ~> (orderStatus \in Paid \/ ~LatestIsPaid))

\* Without any webhook, a merchant that keeps querying learns of the payment, whichever of
\* the channels of the cashier the payer chose, provided the order neither expires nor is
\* closed: SKILL.md gives the query as the fallback.
PollingFindsPayment ==
  ~reachable /\ []~(overdue \/ orderStatus = "CLOSED") =>
    \A t \in Trades : (trade[t] = "paid") ~> (orderStatus \in Paid)

\* A payment made in time is found by the order query, the fallback SKILL.md
\* gives the merchant for a notification that does not arrive.
QueryIsFallback ==
  \A t \in Trades : (trade[t] = "paid" /\ ~overdue) ~> (orderStatus \in Paid)

\* What the notification said, the order query confirms: SKILL.md lets the
\* merchant decide by either of the two.
QueryConfirmsNotification == payTasks > 0 => orderStatus \in Paid

\* What the order's rows and the providers' trades come to for the merchant
Standing == IF orderStatus \in Pending THEN "unpaid"
            ELSE IF orderStatus \in Paid THEN "paid" ELSE "over"
CapturedBy == {c \in Channels : \E t \in Trades : t[1] = c /\ trade[t] = "paid"}

Ledger == INSTANCE OrderLedger WITH
  Providers <- Channels,     Nobody    <- NoChannel,
  standing  <- Standing,     payer     <- successChannel,
  captured  <- CapturedBy,   told      <- payTasks,
  contended <- overlapped

\* Every statement of every handler, whatever it read before and whoever else
\* runs, is a step the ledger of the order allows, or one it does not show: no
\* payment without money, no second record of one, no close or expiry of a paid
\* order unless handlers overlapped.
KeepsLedger == Ledger!LedgerSpec
=============================================================================
