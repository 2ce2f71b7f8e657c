------------------------------ MODULE Checkout ------------------------------
(***************************************************************************)
(* One purchase from end to end: the merchant's shop (the quickstart)      *)
(* creates the order, the payer goes through the cashier (CashierPage),    *)
(* the platform learns of the payment and notifies the shop, and the       *)
(* result page queries the order (quickstart server.ts and store.ts, the   *)
(* merchant SDK).                                                          *)
(*                                                                         *)
(* How the platform learns of a payment and delivers a notification are    *)
(* modules of their own (OrderLifecycle, NotifyDispatcher): single steps   *)
(* here.                                                                   *)
(***************************************************************************)
EXTENDS CashierPage

CONSTANTS
  Shop,          \* the shop's own creation request; the others are other callers'
  ShopBody,      \* what it asks for
  Queries        \* result pages being rendered

ASSUME CheckoutAssumption == Shop \in Requests /\ ShopBody \in Bodies

VARIABLES
  checkout,   \* the shop's handler of POST /checkout
  store,      \* the status in the shop's file of orders, "NONE" without an entry
  query,      \* the shop's handlers of GET /result
  notice,     \* the PAY_SUCCESS tasks of the order: none, one to deliver, or all over
  closing,    \* closes have found the order open and not written yet
  overwritten \* history: a close has overwritten the payment, not recorded again since

closeVars == <<closing, overwritten>>
shopVars == <<checkout, store, query, notice, closeVars>>
cashierVars == <<order, request, pageVars>>
vars == <<cashierVars, shopVars>>

\* `read`: what had become of the payment when the answer was read.
NoQuery == [pc |-> "none", status |-> "NONE", read |-> "unpaid"]

-----------------------------------------------------------------------------
(* The merchant SDK *)

\* What a request of the SDK may meet: nothing within its time limit, a status that
\* refuses, a body that is no envelope, an envelope of another code or without data.
Replies == {"silence", "refusal", "garbled", "unsuccessful", "empty", "data"}

\* OpenCashierRequester.execute: the data of the envelope, or the kind of the error thrown.
Executed(reply) ==
  CASE reply = "data"                  -> "data"
    [] reply = "refusal"               -> "HTTP"
    [] reply = "unsuccessful"          -> "BUSINESS"
    [] reply \in {"garbled", "empty"} -> "PROTOCOL"
    [] reply = "silence"               -> "NETWORK"

\* Whatever the server does, what it sends may be lost or come out as something else.
MayThrow == \E reply \in Replies : Executed(reply) # "data"

\* What the API sends for a creation: a conflict is refused (HTTP 409).
ReplyTo(result) == CASE result = "ok"       -> "data"
                     [] result = "conflict" -> "refusal"
                     [] OTHER               -> "silence"

-----------------------------------------------------------------------------
(* POST /checkout *)

\* The button of the shop: handleCheckout sends the request, with the channels of the
\* shop's configuration.
PressCheckout(list) ==
  /\ page.at = "none" /\ checkout = "idle"
  /\ checkout' = "waiting"
  /\ page' = [page EXCEPT !.at = "shop"]
  /\ Send(Shop, ShopBody, list)
  /\ UNCHANGED <<link, late, paid, load, stale, store, query, notice, closeVars>>

Created == checkout = "waiting" /\ Executed(ReplyTo(request[Shop].result)) = "data"

\* recordCreatedOrder: a new entry, whatever was there.
RecordCreated ==
  /\ Created
  /\ checkout' = "recorded"
  /\ store' = request[Shop].told
  /\ UNCHANGED <<cashierVars, query, notice, closeVars>>

RedirectsEarly == checkout = "recorded" \/ Created   \* mutant: not after the record

MayRedirect == checkout = "recorded"

RedirectToCashier ==
  /\ MayRedirect /\ page.at = "shop"
  /\ page' = [page EXCEPT !.at = "entry"]
  /\ UNCHANGED <<order, request, link, late, paid, load, stale, shopVars>>

\* The SDK throws, whatever the server does with the request: the payer sees an error.
CheckoutFails ==
  /\ checkout = "waiting" /\ MayThrow
  /\ checkout' = "failed"
  /\ page' = [page EXCEPT !.at = IF page.at = "shop" THEN "refused" ELSE page.at]
  /\ UNCHANGED <<order, request, link, late, paid, load, stale, store, query, notice, closeVars>>

-----------------------------------------------------------------------------
(* The platform *)

\* Webhook or query: the payment is recorded, with a task, unless it is already.
LearnPayment ==
  /\ paid /\ Exists /\ order.status # "SUCCESS"
  /\ order' = [order EXCEPT !.status = "SUCCESS"]
  /\ notice' = "pending" /\ overwritten' = FALSE
  /\ UNCHANGED <<request, pageVars, checkout, store, query, closing>>

\* closeOrder, or a webhook that closes: markOrderClosedEntity finds the order open ...
ReadForClose ==
  /\ Open(order.status) /\ ~closing
  /\ closing' = TRUE
  /\ UNCHANGED <<cashierVars, checkout, store, query, notice, overwritten>>

\* ... and writes CLOSED in a later statement, whatever has been written since.  Others
\* may have read the order as well.
WriteClosed ==
  /\ closing
  /\ order' = [order EXCEPT !.status = "CLOSED"]
  /\ closing' \in BOOLEAN
  /\ overwritten' = (overwritten \/ order.status = "SUCCESS")
  /\ UNCHANGED <<request, pageVars, checkout, store, query, notice>>

\* A crash, or a failed statement.
AbandonClose ==
  /\ closing
  /\ closing' = FALSE
  /\ UNCHANGED <<cashierVars, checkout, store, query, notice, overwritten>>

\* The shop's entry takes the status the notification carries.
RecordNotify(status) == store' = status

\* handleNotify; the dispatcher hears the answer, or tries again.
Notify ==
  /\ notice = "pending"
  /\ RecordNotify("SUCCESS")
  /\ notice' \in {"pending", "over"}
  /\ UNCHANGED <<cashierVars, checkout, query, closeVars>>

\* The last try fails.
GiveUpNotice ==
  /\ notice = "pending"
  /\ notice' = "over"
  /\ UNCHANGED <<cashierVars, checkout, store, query, closeVars>>

-----------------------------------------------------------------------------
(* GET /result *)

AskOrder(q) ==
  /\ query[q] = NoQuery
  /\ query' = [query EXCEPT ![q].pc = "sent"]

\* The cashier sends the payer back, or the provider does: resolveChannelReturnUrl.
ReturnToShop(q) ==
  /\ MayReturn \/ page.at = "provider"
  /\ LeaveFor("result")
  /\ AskOrder(q)
  /\ UNCHANGED <<order, request, link, late, paid, checkout, store, notice, closeVars>>

ReloadResult(q) ==
  /\ page.at = "result"
  /\ AskOrder(q)
  /\ UNCHANGED <<cashierVars, checkout, store, notice, closeVars>>

ExpiredAnyway == IF late THEN "EXPIRED" ELSE order.status   \* mutant

\* markExpiredOrders
Expired == IF late /\ Open(order.status) THEN "EXPIRED" ELSE order.status

ReadNow == CASE notice = "none" -> "unpaid"
             [] overwritten     -> "overwritten"
             [] OTHER           -> "recorded"

\* getOrderByMerchantOrderNo
AnswerQuery(q) ==
  LET status == Expired
  IN  /\ query[q].pc = "sent"
      /\ order' = [order EXCEPT !.status = status]
      /\ query' = [query EXCEPT ![q] = [pc |-> "answered", status |-> status,
                                        read |-> ReadNow]]
      /\ UNCHANGED <<request, pageVars, checkout, store, notice, closeVars>>

\* recordQueryResult
RecordQuery(q) ==
  /\ query[q].pc = "answered"
  /\ store' = query[q].status
  /\ query' = [query EXCEPT ![q] = NoQuery]
  /\ UNCHANGED <<cashierVars, checkout, notice, closeVars>>

\* The page shows what the store has.
QueryFails(q) ==
  /\ query[q].pc # "none" /\ MayThrow
  /\ query' = [query EXCEPT ![q] = NoQuery]
  /\ UNCHANGED <<cashierVars, checkout, store, notice, closeVars>>

\* The link of the result page, shown for an order the store has.
OpenCashierAgain ==
  /\ page.at = "result" /\ store # "NONE"
  /\ page' = [ClosedPage EXCEPT !.at = "entry"]
  /\ UNCHANGED <<order, request, link, late, paid, load, stale, shopVars>>

-----------------------------------------------------------------------------
\* The shop's process dies and starts again.  While it was writing the file the file is
\* cut off, and load drops every order of a file it cannot parse.
Writing == notice = "pending" \/ Created \/ \E q \in Queries : query[q].pc = "answered"

RestartShop ==
  /\ store' \in {store} \cup (IF Writing THEN {"NONE"} ELSE {})
  /\ checkout' = IF checkout = "waiting" THEN "failed" ELSE checkout
  /\ query' = [q \in Queries |-> NoQuery]
  /\ page' = [page EXCEPT !.at = IF page.at = "shop" THEN "refused" ELSE page.at]
  /\ UNCHANGED <<order, request, link, late, paid, load, stale, notice, closeVars>>

-----------------------------------------------------------------------------
Init ==
  /\ CreationInit /\ PageInit
  /\ checkout = "idle" /\ store = "NONE" /\ notice = "none"
  /\ closing = FALSE /\ overwritten = FALSE
  /\ query = [q \in Queries |-> NoQuery]

\* Another caller's request with the number, or any step of one under way.
CreationMoves ==
  /\ \/ \E r \in Requests \ {Shop}, body \in Bodies, list \in Lists : Send(r, body, list)
     \/ \E r \in Requests : Serve(r)
  /\ UNCHANGED <<pageVars, shopVars>>

PageMoves == PageStep /\ UNCHANGED shopVars

ShopMoves ==
  \/ \E list \in Lists : PressCheckout(list)
  \/ RecordCreated \/ RedirectToCashier \/ CheckoutFails
  \/ LearnPayment \/ ReadForClose \/ WriteClosed \/ AbandonClose \/ Notify \/ GiveUpNotice
  \/ \E q \in Queries : \/ ReturnToShop(q) \/ ReloadResult(q)
                        \/ AnswerQuery(q) \/ RecordQuery(q) \/ QueryFails(q)
  \/ OpenCashierAgain \/ RestartShop

Next == CreationMoves \/ PageMoves \/ ShopMoves

\* Timers run; requests are answered, the API answers again and again, and an answer
\* comes before the next tick again and again.
Fairness ==
  /\ WF_vars(Tick /\ UNCHANGED shopVars)
  /\ SF_vars(ServeLoad /\ UNCHANGED shopVars)
  /\ SF_vars(ReceiveLoad /\ UNCHANGED shopVars)

Spec == Init /\ [][Next]_vars /\ Fairness

-----------------------------------------------------------------------------
TypeOK ==
  /\ order.status \in Statuses /\ order.channels \subseteq AppChannels
  /\ \A r \in Requests :
       /\ request[r].pc \in {"idle", "sent", "find", "insert", "again", "answered"}
       /\ request[r].result \in {"none", "ok", "conflict"}
       /\ request[r].told \in Statuses
  /\ link \subseteq order.channels
  /\ late \in BOOLEAN /\ paid \in BOOLEAN
  /\ page.at \in {"none", "shop", "refused", "entry", "web", "provider", "result", "error", "left"}
  /\ page.shown # None => DOMAIN page.shown.session = order.channels
  /\ page.chosen \in AppChannels \cup {None}
  /\ load.pc \in {"none", "sent", "answered"} /\ stale \in Statuses \cup {None}
  /\ checkout \in {"idle", "waiting", "recorded", "failed"}
  /\ store \in Statuses
  /\ query \in [Queries -> [pc : {"none", "sent", "answered"}, status : Statuses,
                            read : {"unpaid", "recorded", "overwritten"}]]
  /\ notice \in {"none", "pending", "over"}
  /\ closing \in BOOLEAN /\ overwritten \in BOOLEAN

\* However the requests for a merchant order number race, one that is answered with the
\* order asked for what that order is, and one that is refused as a conflict did not
\* (createOrder: payment-store.service.ts:151, and assertSameOrderRequest).
CreationAnswersMatch ==
  \A r \in Requests :
    /\ request[r].result = "ok" =>
         request[r].body = order.body /\ request[r].channels = order.channels
    /\ request[r].result = "conflict" =>
         request[r].body # order.body \/ request[r].channels # order.channels

\* A step that records the answer of a query, read when the payment was as said.
RecordsAnswerRead(read) ==
  \E q \in Queries : query[q].pc = "answered" /\ query[q].read = read /\ query'[q] = NoQuery

\* A payment once known is not forgotten: the shop's entry loses SUCCESS only to the answer
\* of a query that was read before the platform had recorded the payment, or while a
\* close had overwritten it (markOrderClosedEntity), or with its file, never to the
\* order it created; and a cashier page that shows it does not show another status until
\* it is loaded anew (store.ts recordCreatedOrder, CashierPage.tsx: the clean-up of the
\* loading effect).
PaymentStaysKnown ==
  [][/\ store = "SUCCESS" /\ store' # "SUCCESS" =>
          \/ RecordsAnswerRead("unpaid") \/ RecordsAnswerRead("overwritten")
          \/ RestartShop
     /\ page.shown # None /\ page.shown.status = "SUCCESS" /\ page'.shown # None
          => page'.shown.status = "SUCCESS"]_vars

\* A payer who looks at the code or link of a channel when the platform learns of the
\* payment is shown that the order is over, unless they leave or load the page anew, turn
\* to a channel that failed, or the cashier token expires (CashierPage.tsx: shouldPoll).
PaidIsShown ==
  (order.status = "SUCCESS" /\ \E c \in AppChannels : ShowsLink(c))
    ~> (\/ late \/ page.at # "web" \/ page.shown = None
        \/ ShowsOver(page)
        \/ \E c \in AppChannels : SelectedChannel(page) = c /\ page.shown.session[c] = "FAILED")
=============================================================================
