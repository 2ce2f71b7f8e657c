----------------------------- MODULE CashierPage -----------------------------
(***************************************************************************)
(* The payer's browser on the way through the cashier: the hosted entry,   *)
(* the page that loads the session every three seconds, the provider's own *)
(* page and the way back to the merchant (CashierPage.tsx,                 *)
(* cashier.service.ts, hosted-cashier.controller.ts).                      *)
(*                                                                         *)
(* Every provider has one channel here; which of its channels is offered   *)
(* (selectPreferredProviderChannel, resolveAlipayCandidateChannels) does   *)
(* not change how its session is shown.                                    *)
(***************************************************************************)
EXTENDS OrderCreation

CONSTANTS
  QrChannels,    \* channels paid by scanning a code; the others by a redirect
  OffChannels,   \* channels without a configuration, asked in vain
  None           \* nothing shown, chosen or under way

VARIABLES
  link,     \* the channels whose latest attempt carries a code or link
  late,     \* the deadline of the order, and of the cashier token, has passed
  paid,     \* the payer has paid
  page,     \* the browser
  load,     \* the session request the page waits for
  stale     \* the status in the answer of one it no longer waits for

pageVars == <<link, late, paid, page, load, stale>>

Open(status) == status = "WAIT_PAY"

isTerminalStatus(status) == status \in {"SUCCESS", "CLOSED", "EXPIRED"}

NoLoad == [pc |-> "none", answer |-> None]

ClosedPage == [at |-> "none", shown |-> None, chosen |-> None]

-----------------------------------------------------------------------------
(* What the API answers (getCashierSession), and what the attempts carry then. *)

\* createOrRestoreChannelSession: an attempt with a link is used again; else a session is
\* asked for, and the provider opens one or fails.
SessionsOf(c) ==
  IF c \in OffChannels THEN {"PENDING"}
  ELSE {"READY"} \cup (IF c \in link THEN {} ELSE {"FAILED"})

OpenedSessions ==
  {session \in [order.channels -> {"READY", "FAILED", "PENDING"}] :
     \A c \in order.channels : session[c] \in SessionsOf(c)}

\* restoreHistoricalChannels: the session is that of the latest attempt, link and all,
\* although the order is over; without one, whether it failed or waits is all the same.
RestoredSession == [c \in order.channels |-> IF c \in link THEN "READY" ELSE "FAILED"]

Sessions == IF Open(order.status) THEN OpenedSessions ELSE {RestoredSession}

\* markAttemptReady
LinksAfter(session) == link \cup {c \in DOMAIN session : session[c] = "READY"}

-----------------------------------------------------------------------------
(* The page. *)

\* The channel the payer has chosen; a single one needs no choice.
SelectedChannel(p) ==
  IF p.shown # None /\ Cardinality(DOMAIN p.shown.session) = 1
  THEN CHOOSE c \in DOMAIN p.shown.session : TRUE
  ELSE p.chosen

\* The page of an order that is over shows that and nothing else.
ShowsOver(p) == p.shown # None /\ isTerminalStatus(p.shown.status)

PollsUntilShown(p) == p.at = "web" /\ p.shown = None   \* mutant: the page loads once

\* shouldPoll: until the order is over, as long as the chosen channel, or any while none
\* is chosen, has not failed; a page without a session does not poll.
ShouldPoll(p) ==
  /\ p.at = "web" /\ p.shown # None
  /\ ~isTerminalStatus(p.shown.status)
  /\ LET c == SelectedChannel(p)
     IN  IF c # None
         THEN p.shown.session[c] # "FAILED"
         ELSE \E d \in DOMAIN p.shown.session : p.shown.session[d] # "FAILED"

\* The effect that loads the session; its clean-up makes the page deaf to the
\* request before.  A page whose token has expired asks no more.
StartLoad ==
  /\ stale' = IF load.pc = "answered" THEN load.answer.status ELSE stale
  /\ load' = IF late THEN NoLoad ELSE [NoLoad EXCEPT !.pc = "sent"]
  /\ UNCHANGED <<order, request, link, late, paid, page>>

\* Three seconds have passed.
Tick == ShouldPoll(page) /\ StartLoad

\* The buttons of a page that shows an error or a failed channel.
PressReload ==
  /\ page.at = "web" /\ load = NoLoad /\ ~late
  /\ \/ page.shown = None
     \/ /\ ~ShowsOver(page)
        /\ LET c == SelectedChannel(page) IN c # None /\ page.shown.session[c] = "FAILED"
  /\ StartLoad

\* GET /v1/cashier/:token is answered, or fails.
ServeLoad ==
  /\ load.pc = "sent"
  /\ \E session \in Sessions :
       /\ ~late
       /\ load' = [pc |-> "answered", answer |-> [status |-> order.status, session |-> session]]
       /\ link' = LinksAfter(session)
  /\ UNCHANGED <<order, request, late, paid, page, stale>>

RefuseLoad ==
  /\ load.pc = "sent"
  /\ load' = NoLoad
  /\ UNCHANGED <<order, request, link, late, paid, page, stale>>

ReceiveLoad ==
  /\ load.pc = "answered"
  /\ page' = [page EXCEPT !.shown = load.answer]
  /\ load' = NoLoad
  /\ UNCHANGED <<order, request, link, late, paid, stale>>

ShowStale ==   \* mutant: the page is not deaf to it
  /\ stale # None /\ page.shown # None
  /\ page' = [page EXCEPT !.shown.status = stale]
  /\ stale' = None
  /\ UNCHANGED <<order, request, link, late, paid, load>>

\* The answer to a cancelled request changes nothing.
ReceiveStale ==
  /\ stale # None
  /\ stale' = None
  /\ UNCHANGED <<order, request, link, late, paid, page, load>>

\* A page opened anew: nothing is remembered of the one before.
OpenPage(load0) ==
  /\ page' = [ClosedPage EXCEPT !.at = "web"]
  /\ load' = IF late THEN NoLoad ELSE load0
  /\ stale' = None

ChooseChannel(c) ==
  /\ page.at = "web" /\ page.shown # None /\ ~ShowsOver(page)
  /\ c \in DOMAIN page.shown.session /\ page.chosen # c
  /\ page' = [page EXCEPT !.chosen = c]
  /\ UNCHANGED <<order, request, link, late, paid, load, stale>>

LeaveFor(place) ==
  /\ page' = [ClosedPage EXCEPT !.at = place]
  /\ load' = NoLoad /\ stale' = None

ShowsLink(c) ==
  /\ page.at = "web" /\ page.shown # None /\ ~ShowsOver(page)
  /\ c = SelectedChannel(page) /\ c # None
  /\ page.shown.session[c] = "READY"

\* The redirect, by itself or by its button.
GoToProvider(c) ==
  /\ ShowsLink(c) /\ c \notin QrChannels
  /\ LeaveFor("provider")
  /\ UNCHANGED <<order, request, link, late, paid>>

\* The page of a paid order sends the payer back after a moment; of an order that is
\* over otherwise, by its button.
MayReturn == page.at = "web" /\ ShowsOver(page)

-----------------------------------------------------------------------------
(* GET /cashier/:token (resolveHostedCashierEntry). *)

EntryOf(session) ==
  LET c == CHOOSE d \in DOMAIN session : TRUE
  IN  CASE Cardinality(DOMAIN session) > 1                  -> "web"
        [] session[c] # "READY"                             -> "error"
        [] session[c] = "READY" /\ c \notin QrChannels      -> "provider"
        [] OTHER                                            -> "web"

EnterCashier ==
  /\ page.at = "entry" /\ ~late
  /\ \E session \in Sessions :
       /\ link' = LinksAfter(session)
       /\ IF EntryOf(session) = "web"
          THEN OpenPage([NoLoad EXCEPT !.pc = "sent"])
          ELSE LeaveFor(EntryOf(session))
  /\ UNCHANGED <<order, request, late, paid>>

\* The token has expired, or the API fails.
RefuseEntry ==
  /\ page.at = "entry"
  /\ LeaveFor("error")
  /\ UNCHANGED <<order, request, link, late, paid>>

\* The payer tries again, or follows the link of the merchant's page again.
Reenter ==
  /\ page.at = "error"
  /\ page' = [ClosedPage EXCEPT !.at = "entry"]
  /\ UNCHANGED <<order, request, link, late, paid, load, stale>>

ReloadPage ==
  /\ page.at = "web"
  /\ OpenPage([NoLoad EXCEPT !.pc = "sent"])
  /\ UNCHANGED <<order, request, link, late, paid>>

\* resolveChannelReturnUrl: the provider sends a payer who cancels back to the page.
CancelAtProvider ==
  /\ page.at = "provider"
  /\ OpenPage([NoLoad EXCEPT !.pc = "sent"])
  /\ UNCHANGED <<order, request, link, late, paid>>

CloseBrowser ==
  /\ page.at \notin {"none", "left"}
  /\ LeaveFor("left")
  /\ UNCHANGED <<order, request, link, late, paid>>

-----------------------------------------------------------------------------
\* The payer pays, by scanning the code shown or at the provider.
Pay ==
  /\ ~paid
  /\ page.at = "provider" \/ \E c \in QrChannels : ShowsLink(c)
  /\ paid' = TRUE
  /\ UNCHANGED <<order, request, link, late, page, load, stale>>

TimePasses ==
  /\ ~late /\ Exists
  /\ late' = TRUE
  /\ UNCHANGED <<order, request, link, paid, page, load, stale>>

PageInit ==
  /\ link = {}
  /\ late = FALSE /\ paid = FALSE
  /\ page = ClosedPage /\ load = NoLoad /\ stale = None

PageStep ==
  \/ Tick \/ PressReload \/ ServeLoad \/ RefuseLoad \/ ReceiveLoad \/ ReceiveStale
  \/ EnterCashier \/ RefuseEntry \/ Reenter \/ ReloadPage \/ CancelAtProvider \/ CloseBrowser
  \/ \E c \in AppChannels : ChooseChannel(c) \/ GoToProvider(c)
  \/ Pay \/ TimePasses
=============================================================================
