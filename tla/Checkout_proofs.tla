--------------------------- MODULE Checkout_proofs ---------------------------
(***************************************************************************)
(* Invariants of Checkout, for any number of requests, channels, channel   *)
(* lists and result pages.                                                 *)
(***************************************************************************)
EXTENDS Checkout, TLAPS

OrderBodies == Bodies \cup {"none"}

\* The order of the number, once there, has a status, a body and channels.
OrderRow == [status : Statuses, body : OrderBodies, channels : SUBSET AppChannels]

RequestRecord ==
  [pc : {"idle", "sent", "find", "insert", "again", "answered"}, body : OrderBodies,
   channels : SUBSET (AppChannels \cup UNION Lists), result : {"none", "ok", "conflict"},
   told : Statuses]

\* Past the check of its channels a request asks for channels of the application; one
\* that was answered found or made the order.
CreationFits ==
  /\ order \in OrderRow
  /\ request \in [Requests -> RequestRecord]
  /\ \A r \in Requests : /\ request[r].pc \in {"find", "insert", "again"} => Allowed(r)
                         /\ request[r].pc = "again" \/ request[r].result # "none" => Exists
  /\ CreationAnswersMatch

Places == {"none", "shop", "refused", "entry", "web", "provider", "result", "error", "left"}

\* Where a browser may be that has not been sent to the cashier.
Early == {"none", "shop", "refused", "left"}

\* An answer of the API, received or on its way, has a session for each channel.
Sound(answer) == DOMAIN answer.session = order.channels

\* The page shows what the API answered, and asks for nothing once that is SUCCESS; before
\* there is an order there is nothing to show.
PageFits ==
  /\ page = [at |-> page.at, shown |-> page.shown, chosen |-> page.chosen]
  /\ page.at \in Places /\ page.chosen \in AppChannels \cup {None}
  /\ load = [pc |-> load.pc, answer |-> load.answer]
  /\ load.pc \in {"none", "sent", "answered"}
  /\ load.pc = "answered" => Sound(load.answer) /\ load.answer.status \in Statuses
  /\ page.shown # None => Sound(page.shown)
  /\ page.shown # None /\ page.shown.status = "SUCCESS" => load.pc = "none"
  /\ link \subseteq order.channels
  /\ late \in BOOLEAN /\ paid \in BOOLEAN
  /\ stale \in Statuses \cup {None}
  /\ ~Exists => page.at \in Early /\ page.shown = None /\ load.pc = "none" /\ link = {}

QueryRecord ==
  [pc : {"none", "sent", "answered"}, status : Statuses,
   read : {"unpaid", "recorded", "overwritten"}]

\* Until the shop has recorded the order it created nobody else can have written its entry.
\* A payment recorded and not overwritten is in the order, and in the answers read then.
ShopFits ==
  /\ checkout \in {"idle", "waiting", "recorded", "failed"}
  /\ store \in Statuses
  /\ query \in [Queries -> QueryRecord]
  /\ notice \in {"none", "pending", "over"}
  /\ closing \in BOOLEAN /\ overwritten \in BOOLEAN
  /\ checkout = "recorded" \/ closing => Exists
  /\ notice # "none" /\ ~overwritten => order.status = "SUCCESS"
  /\ \A q \in Queries :
       query[q].pc = "answered" /\ query[q].read = "recorded" => query[q].status = "SUCCESS"
  /\ checkout \in {"idle", "waiting"} =>
       /\ page.at \in Early /\ ~paid
       /\ notice = "none" /\ store = "NONE"
       /\ \A q \in Queries : query[q] = NoQuery

Inv == CreationFits /\ PageFits /\ ShopFits

\* What no step undoes: an order keeps its body and channels ...
Stays ==
  /\ order' \in OrderRow
  /\ Exists => Exists' /\ order'.body = order.body /\ order'.channels = order.channels

\* ... and what only the overwriting close undoes: a payment recorded.
Rises == Stays /\ (order.status = "SUCCESS" => order'.status = "SUCCESS")

\* Only a creation that succeeded is recorded by the shop.
LEMMA CreatedIsOk == Created => checkout = "waiting" /\ request[Shop].result = "ok"
BY DEF Created, ReplyTo, Executed

-----------------------------------------------------------------------------
LEMMA InitInv == Init => Inv
<1> SUFFICES ASSUME Init PROVE Inv
  OBVIOUS
<1>1. IdleRequest \in RequestRecord
  BY DEF IdleRequest, RequestRecord, OrderBodies, Statuses
<1>2. NoOrder \in OrderRow
  BY DEF NoOrder, OrderRow, OrderBodies, Statuses
<1>3. CreationFits
  BY <1>1, <1>2 DEF Init, CreationInit, CreationFits, CreationAnswersMatch, IdleRequest
<1>4. PageFits
  BY DEF Init, CreationInit, PageInit, PageFits, NoOrder, Exists, ClosedPage, NoLoad, Places, Early
<1>5. /\ query \in [Queries -> QueryRecord] /\ \A q \in Queries : query[q].pc = "none"
      /\ store \in Statuses
  BY DEF Init, NoQuery, QueryRecord, Statuses
<1>6. page.at \in Early
  BY DEF Init, PageInit, ClosedPage, Early
<1>7. ShopFits
  BY <1>5, <1>6 DEF Init, PageInit, ShopFits
<1> QED
  BY <1>3, <1>4, <1>7 DEF Inv

\* A step that leaves the requests alone.
LEMMA CreationKept ==
  ASSUME CreationFits, Stays, request' = request
  PROVE  CreationFits'
<1>1. \A r \in Requests : request[r].pc \in {"find", "insert", "again"} => Allowed(r)'
  BY DEF CreationFits, Allowed
<1>2. CreationAnswersMatch' /\ \A r \in Requests : request[r].pc = "again" \/ request[r].result # "none" => Exists'
  BY DEF CreationFits, CreationAnswersMatch, Stays, RequestRecord
<1> QED
  BY <1>1, <1>2 DEF CreationFits, Stays

\* A step that leaves the browser alone.
LEMMA PageKept ==
  ASSUME PageFits, Stays, pageVars' = pageVars
  PROVE  PageFits'
<1>1. UNCHANGED <<link, late, paid, page, load, stale>>
  BY DEF pageVars
<1>2. CASE Exists
  BY <1>1, <1>2 DEF PageFits, Stays, Sound
<1>3. CASE ~Exists
  BY <1>1, <1>3 DEF PageFits, Stays, Sound, OrderRow
<1> QED
  BY <1>2, <1>3

\* A step that leaves the shop alone.
LEMMA ShopKept ==
  ASSUME ShopFits, Rises, shopVars' = shopVars,
         checkout \in {"idle", "waiting"} => page'.at \in Early /\ ~paid'
  PROVE  ShopFits'
BY DEF ShopFits, shopVars, closeVars, Rises, Stays

LEMMA SameOrder ==
  ASSUME CreationFits, order' = order
  PROVE  Rises /\ Stays
BY DEF CreationFits, Rises, Stays, Exists

\* One request moves on to x; the order stays.
LEMMA MoveFits ==
  ASSUME CreationFits, NEW r \in Requests, NEW x \in RequestRecord,
         order' = order, request' = [request EXCEPT ![r] = x],
         x.pc \in {"find", "insert", "again"} => x.channels \subseteq AppChannels,
         x.pc = "again" \/ x.result # "none" => Exists,
         x.result = "ok" => x.body = order.body /\ x.channels = order.channels,
         x.result = "conflict" => x.body # order.body \/ x.channels # order.channels
  PROVE  CreationFits' /\ Rises
<1>1. request'[r] = x /\ \A q \in Requests : q # r => request'[q] = request[q]
  BY DEF CreationFits
<1>2. request' \in [Requests -> RequestRecord]
  BY DEF CreationFits
<1>3. Rises
  BY SameOrder
<1> QED
  BY <1>1, <1>2, <1>3 DEF CreationFits, Allowed, CreationAnswersMatch, Exists

LEMMA SendFits ==
  ASSUME CreationFits, NEW r \in Requests, NEW body \in Bodies, NEW list \in Lists,
         Send(r, body, list)
  PROVE  CreationFits' /\ Rises
<1> DEFINE x == [IdleRequest EXCEPT !.pc = "sent", !.body = body,
                                    !.channels = ResolvedChannels(list)]
<1>1. order' = order /\ request' = [request EXCEPT ![r] = x]
  BY DEF Send
<1>2. x \in RequestRecord /\ x.pc = "sent" /\ x.result = "none"
  BY DEF IdleRequest, RequestRecord, OrderBodies, ResolvedChannels, Statuses
<1> HIDE DEF x
<1> QED
  BY <1>1, <1>2, MoveFits

LEMMA GiveUpFits ==
  ASSUME CreationFits, NEW r \in Requests, GiveUp(r), order' = order
  PROVE  CreationFits' /\ Rises
<1>1. IdleRequest \in RequestRecord
  BY DEF IdleRequest, RequestRecord, OrderBodies, Statuses
<1> QED
  BY <1>1, MoveFits DEF GiveUp, IdleRequest

LEMMA AnswerExistingFits ==
  ASSUME CreationFits, NEW r \in Requests, AnswerExisting(r), Exists, order' = order
  PROVE  CreationFits' /\ Rises
<1>1. request[r] \in RequestRecord /\ order.status \in Statuses
  BY DEF CreationFits, OrderRow
<1>2. CASE SameOrderRequest(r)
  <2> DEFINE x == [request[r] EXCEPT !.pc = "answered", !.result = "ok", !.told = order.status]
  <2>1. request' = [request EXCEPT ![r] = x]
    BY <1>2 DEF AnswerExisting, Answer, CreationFits
  <2>2. x \in RequestRecord /\ x.pc = "answered" /\ x.result = "ok"
        /\ x.body = request[r].body /\ x.channels = request[r].channels
    BY <1>1 DEF RequestRecord
  <2> HIDE DEF x
  <2> QED
    BY <1>2, <2>1, <2>2, MoveFits DEF SameOrderRequest
<1>3. CASE ~SameOrderRequest(r)
  <2> DEFINE x == [request[r] EXCEPT !.pc = "answered", !.result = "conflict", !.told = "NONE"]
  <2>1. request' = [request EXCEPT ![r] = x]
    BY <1>3 DEF AnswerExisting, Answer, CreationFits
  <2>2. x \in RequestRecord /\ x.pc = "answered" /\ x.result = "conflict"
        /\ x.body = request[r].body /\ x.channels = request[r].channels
    BY <1>1 DEF RequestRecord, Statuses
  <2> HIDE DEF x
  <2> QED
    BY <1>3, <2>1, <2>2, MoveFits DEF SameOrderRequest
<1> QED
  BY <1>2, <1>3

LEMMA AdvanceFits ==
  ASSUME CreationFits, NEW r \in Requests, NEW pc \in {"find", "insert", "again"},
         Allowed(r), pc = "again" => Exists,
         order' = order, request' = [request EXCEPT ![r].pc = pc]
  PROVE  CreationFits' /\ Rises
<1> DEFINE x == [request[r] EXCEPT !.pc = pc]
<1>1. request[r] \in RequestRecord
  BY DEF CreationFits
<1>2. request' = [request EXCEPT ![r] = x]
  BY DEF CreationFits
<1>3. x \in RequestRecord /\ x.pc = pc /\ x.result = request[r].result
      /\ x.body = request[r].body /\ x.channels = request[r].channels
  BY <1>1 DEF RequestRecord
<1> HIDE DEF x
<1>4. x.channels \subseteq AppChannels
  BY <1>3 DEF Allowed
<1>5. /\ x.pc = "again" \/ x.result # "none" => Exists
      /\ x.result = "ok" => x.body = order.body /\ x.channels = order.channels
      /\ x.result = "conflict" => x.body # order.body \/ x.channels # order.channels
  BY <1>3 DEF CreationFits, CreationAnswersMatch
<1> QED
  BY <1>2, <1>3, <1>4, <1>5, MoveFits

LEMMA InsertFits ==
  ASSUME CreationFits, NEW r \in Requests, InsertOrder(r), ~Exists
  PROVE  CreationFits' /\ Rises
<1> DEFINE x == [request[r] EXCEPT !.pc = "answered", !.result = "ok", !.told = "WAIT_PAY"]
<1>1. request[r] \in RequestRecord /\ Allowed(r)
  BY DEF CreationFits, InsertOrder
<1>2. request' = [request EXCEPT ![r] = x]
  BY DEF CreationFits, InsertOrder, Answer
<1>3. x \in RequestRecord /\ x.pc = "answered" /\ x.result = "ok"
      /\ x.body = request[r].body /\ x.channels = request[r].channels
  BY <1>1 DEF RequestRecord, Statuses
<1>4. order' = [status |-> "WAIT_PAY", body |-> request[r].body, channels |-> request[r].channels]
  BY DEF InsertOrder
<1>5. Rises /\ Exists'
  BY <1>1, <1>4 DEF Rises, Stays, OrderRow, RequestRecord, Allowed, Statuses, Exists
<1> HIDE DEF x
<1>6. request'[r] = x /\ \A q \in Requests : q # r => request'[q] = request[q]
  BY <1>2 DEF CreationFits
<1>7. \A q \in Requests : request[q].result = "none"
  BY DEF CreationFits
<1>8. request' \in [Requests -> RequestRecord]
  BY <1>2, <1>3 DEF CreationFits
<1>9. CreationAnswersMatch'
  BY <1>3, <1>4, <1>6, <1>7 DEF CreationAnswersMatch
<1>10. \A q \in Requests : request'[q].pc \in {"find", "insert", "again"} => Allowed(q)'
  BY <1>3, <1>6 DEF CreationFits, Allowed
<1> QED
  BY <1>5, <1>8, <1>9, <1>10 DEF CreationFits, Rises, Stays

\* Every step of a request that is served.
LEMMA ServeFits ==
  ASSUME CreationFits, NEW r \in Requests, Serve(r)
  PROVE  CreationFits' /\ Rises
<1>1. CASE Refuse(r)
  BY <1>1, GiveUpFits DEF Refuse
<1>2. CASE CheckChannels(r)
  <2>1. CASE Allowed(r)
    BY <1>2, <2>1, AdvanceFits DEF CheckChannels
  <2>2. CASE ~Allowed(r)
    BY <1>2, <2>2, GiveUpFits DEF CheckChannels
  <2> QED
    BY <2>1, <2>2
<1>3. CASE FindOrder(r)
  <2>1. CASE Exists
    BY <1>3, <2>1, AnswerExistingFits DEF FindOrder
  <2>2. CASE ~Exists
    <3>1. Allowed(r)
      BY <1>3 DEF FindOrder, CreationFits
    <3> QED
      BY <1>3, <2>2, <3>1, AdvanceFits DEF FindOrder
  <2> QED
    BY <2>1, <2>2
<1>4. CASE InsertOrder(r)
  <2>1. CASE Exists
    <3>1. Allowed(r)
      BY <1>4 DEF InsertOrder, CreationFits
    <3> QED
      BY <1>4, <2>1, <3>1, AdvanceFits DEF InsertOrder
  <2>2. CASE ~Exists
    BY <1>4, <2>2, InsertFits
  <2> QED
    BY <2>1, <2>2
<1>5. CASE FindConflicting(r)
  \* the request was sent back only because the order was there
  <2>1. Exists
    BY <1>5 DEF FindConflicting, CreationFits
  <2> QED
    BY <1>5, <2>1, AnswerExistingFits DEF FindConflicting
<1>6. CASE FailRequest(r)
  BY <1>6, GiveUpFits DEF FailRequest
<1> QED
  BY <1>1, <1>2, <1>3, <1>4, <1>5, <1>6 DEF Serve

LEMMA CreationMovesPreserve ==
  ASSUME Inv, CreationMoves
  PROVE  Inv'
<1>1. CreationFits' /\ Rises
  BY SendFits, ServeFits DEF CreationMoves, Inv
<1>2. pageVars' = pageVars /\ shopVars' = shopVars
  BY DEF CreationMoves
<1>3. PageFits'
  BY <1>1, <1>2, PageKept DEF Inv, Rises
<1>4. ShopFits'
  <2>1. checkout \in {"idle", "waiting"} => page'.at \in Early /\ ~paid'
    BY <1>2 DEF pageVars, Inv, ShopFits
  <2> QED
    BY <1>1, <1>2, <2>1, ShopKept DEF Inv
<1> QED
  BY <1>1, <1>3, <1>4 DEF Inv

-----------------------------------------------------------------------------
(* The browser: the order and the requests stay. *)

\* An answer has a session for every channel of the order.
LEMMA SessionsHaveDomain ==
  ASSUME NEW session \in Sessions
  PROVE  DOMAIN session = order.channels /\ LinksAfter(session) \subseteq link \cup order.channels
<1>1. DOMAIN session = order.channels
  BY DEF Sessions, OpenedSessions, RestoredSession
<1> QED
  BY <1>1 DEF LinksAfter

\* The browser goes to a page that shows nothing yet.
LEMMA GoesTo ==
  ASSUME PageFits, Exists, order' = order, NEW place \in Places,
         page' = [at |-> place, shown |-> None, chosen |-> None],
         load' = [pc |-> load'.pc, answer |-> load'.answer],
         load'.pc \in {"none", "sent"},
         link' \subseteq order.channels, UNCHANGED <<late, paid>>, stale' = None
  PROVE  PageFits'
BY DEF PageFits, Exists

\* Only the request for the session moves.
LEMMA Loads ==
  ASSUME PageFits, Exists, order' = order, page' = page,
         load' = [pc |-> load'.pc, answer |-> load'.answer],
         load'.pc \in {"none", "sent", "answered"},
         load'.pc = "answered" =>
           Sound(load'.answer) /\ load'.answer.status = order.status,
         order.status \in Statuses,
         page.shown # None /\ page.shown.status = "SUCCESS" => load'.pc = "none",
         link' \subseteq order.channels, UNCHANGED <<late, paid>>,
         stale' \in Statuses \cup {None}
  PROVE  PageFits'
BY DEF PageFits, Exists, Sound

LEMMA StartLoadFits ==
  ASSUME PageFits, Exists, order.status \in Statuses, ~ShowsOver(page), StartLoad
  PROVE  PageFits'
<1>1. load' = [pc |-> load'.pc, answer |-> load'.answer] /\ load'.pc \in {"none", "sent"}
  BY DEF StartLoad, NoLoad
<1>2. stale' \in Statuses \cup {None}
  BY DEF StartLoad, PageFits
<1>3. order' = order /\ page' = page /\ UNCHANGED <<link, late, paid>>
  BY DEF StartLoad
<1>4. link \subseteq order.channels
  BY DEF PageFits
<1>5. ~(page.shown # None /\ page.shown.status = "SUCCESS")
  BY DEF ShowsOver, isTerminalStatus
<1> QED
  BY <1>1, <1>2, <1>3, <1>4, <1>5, Loads

LEMMA EarlyPlaces == Early \subseteq Places
BY DEF Early, Places

LEMMA OpenPageFits ==
  ASSUME PageFits, Exists, order' = order,
         NEW sent, sent = [NoLoad EXCEPT !.pc = "sent"], OpenPage(sent),
         link' \subseteq order.channels, UNCHANGED <<late, paid>>
  PROVE  PageFits'
<1>1. page' = [at |-> "web", shown |-> None, chosen |-> None] /\ stale' = None
  BY DEF OpenPage, ClosedPage
<1>2. load' = [pc |-> load'.pc, answer |-> load'.answer] /\ load'.pc \in {"none", "sent"}
  BY DEF OpenPage, NoLoad
<1> QED
  BY <1>1, <1>2, GoesTo DEF Places

LEMMA LeaveForFits ==
  ASSUME PageFits, Exists, order' = order, NEW place \in Places, LeaveFor(place),
         link' \subseteq order.channels, UNCHANGED <<late, paid>>
  PROVE  PageFits'
<1>1. page' = [at |-> place, shown |-> None, chosen |-> None] /\ stale' = None
  BY DEF LeaveFor, ClosedPage
<1>2. load' = [pc |-> load'.pc, answer |-> load'.answer] /\ load'.pc \in {"none", "sent"}
  BY DEF LeaveFor, NoLoad
<1> QED
  BY <1>1, <1>2, GoesTo

LEMMA PageStepFits ==
  ASSUME PageFits, order \in OrderRow, PageStep
  PROVE  PageFits'
<1>0. order' = order /\ order.status \in Statuses
  BY DEF PageStep, Tick, PressReload, StartLoad, ServeLoad, RefuseLoad, ReceiveLoad, ReceiveStale,
     EnterCashier, RefuseEntry, Reenter, ReloadPage, CancelAtProvider, CloseBrowser,
     ChooseChannel, GoToProvider, Pay, TimePasses, OrderRow
<1>1. CASE Tick \/ PressReload
  <2>1. Exists /\ StartLoad /\ ~ShowsOver(page)
    BY <1>1 DEF Tick, PressReload, ShouldPoll, ShowsOver, PageFits, Early
  <2> QED
    BY <1>0, <2>1, StartLoadFits
<1>2. CASE ServeLoad
  <2>1. Exists
    BY <1>2 DEF ServeLoad, PageFits
  <2>2. PICK session \in Sessions :
          /\ load' = [pc |-> "answered", answer |-> [status |-> order.status, session |-> session]]
          /\ link' = LinksAfter(session)
    BY <1>2 DEF ServeLoad
  <2>3. link' \subseteq order.channels /\ Sound(load'.answer)
    BY <2>2, SessionsHaveDomain DEF PageFits, Sound
  <2>4. page' = page /\ UNCHANGED <<late, paid, stale>> /\ stale \in Statuses \cup {None}
    BY <1>2 DEF ServeLoad, PageFits
  <2>5. ~(page.shown # None /\ page.shown.status = "SUCCESS")
    BY <1>2 DEF ServeLoad, PageFits
  <2> QED
    BY <1>0, <2>1, <2>2, <2>3, <2>4, <2>5, Loads
<1>3. CASE RefuseLoad
  <2>1. Exists /\ load' = NoLoad /\ page' = page /\ UNCHANGED <<link, late, paid, stale>>
    BY <1>3 DEF RefuseLoad, PageFits
  <2>2. link \subseteq order.channels /\ stale \in Statuses \cup {None}
    BY DEF PageFits
  <2> QED
    BY <1>0, <2>1, <2>2, Loads DEF NoLoad
<1>4. CASE ReceiveLoad
  <2>1. Exists /\ page' = [at |-> page.at, shown |-> load.answer, chosen |-> page.chosen]
    BY <1>4 DEF ReceiveLoad, PageFits
  <2>2. load' = [pc |-> "none", answer |-> None]
    BY <1>4 DEF ReceiveLoad, NoLoad
  <2> QED
    BY <1>0, <1>4, <2>1, <2>2 DEF ReceiveLoad, PageFits, Sound, Exists
<1>5. CASE ReceiveStale
  BY <1>0, <1>5 DEF ReceiveStale, PageFits, Sound, Exists
<1>6. CASE EnterCashier
  <2>1. Exists /\ order' = order /\ UNCHANGED <<late, paid>>
    BY <1>6 DEF EnterCashier, PageFits, Early
  <2>2. PICK session \in Sessions :
          /\ link' = LinksAfter(session)
          /\ IF EntryOf(session) = "web"
             THEN OpenPage([NoLoad EXCEPT !.pc = "sent"])
             ELSE LeaveFor(EntryOf(session))
    BY <1>6 DEF EnterCashier
  <2>3. link' \subseteq order.channels
    BY <2>2, SessionsHaveDomain DEF PageFits
  <2>4. EntryOf(session) \in Places
    BY DEF EntryOf, Places
  <2>5. CASE EntryOf(session) = "web"
    BY <2>1, <2>2, <2>3, <2>5, OpenPageFits
  <2>6. CASE EntryOf(session) # "web"
    BY <2>1, <2>2, <2>3, <2>4, <2>6, LeaveForFits
  <2> QED
    BY <2>5, <2>6
<1>7. CASE RefuseEntry \/ CloseBrowser
  <2>1. PICK place \in {"error", "left"} :
          LeaveFor(place) /\ UNCHANGED <<order, link, late, paid>>
    BY <1>7 DEF RefuseEntry, CloseBrowser
  <2>2. CASE Exists
    BY <2>1, <2>2, LeaveForFits DEF PageFits, Places
  <2>3. CASE ~Exists
    <3>1. place = "left"
      BY <1>7, <2>1, <2>3 DEF RefuseEntry, CloseBrowser, LeaveFor, ClosedPage, PageFits, Early
    <3>2. page' = [at |-> "left", shown |-> None, chosen |-> None]
          /\ load' = [pc |-> "none", answer |-> None] /\ stale' = None
      BY <2>1, <3>1 DEF LeaveFor, ClosedPage, NoLoad
    <3> QED
      BY <2>1, <2>3, <3>2 DEF PageFits, Places, Early, Exists
  <2> QED
    BY <2>2, <2>3
<1>8. CASE Reenter
  <2>1. Exists /\ page' = [at |-> "entry", shown |-> None, chosen |-> None]
    BY <1>8 DEF Reenter, PageFits, Early, ClosedPage
  <2>2. UNCHANGED <<order, link, late, paid, load, stale>>
    BY <1>8 DEF Reenter
  <2>3. page'.at \in Places /\ page'.shown = None /\ page'.chosen \in AppChannels \cup {None}
        /\ page' = [at |-> page'.at, shown |-> page'.shown, chosen |-> page'.chosen]
    BY <2>1 DEF Places
  <2> QED
    BY <2>1, <2>2, <2>3 DEF PageFits, Exists, Sound
<1>9. CASE ReloadPage \/ CancelAtProvider
  <2>1. /\ Exists /\ order' = order /\ UNCHANGED <<link, late, paid>>
        /\ OpenPage([NoLoad EXCEPT !.pc = "sent"]) /\ link \subseteq order.channels
    BY <1>9 DEF ReloadPage, CancelAtProvider, PageFits, Early
  <2> QED
    BY <2>1, OpenPageFits
<1>10. ASSUME NEW c \in AppChannels, ChooseChannel(c) PROVE PageFits'
  <2>1. page' = [at |-> page.at, shown |-> page.shown, chosen |-> c]
    BY <1>10 DEF ChooseChannel, PageFits
  <2> QED
    BY <1>10, <2>1 DEF ChooseChannel, PageFits, Exists, Sound
<1>11. ASSUME NEW c \in AppChannels, GoToProvider(c) PROVE PageFits'
  <2>1. /\ Exists /\ order' = order /\ UNCHANGED <<link, late, paid>>
        /\ LeaveFor("provider") /\ link \subseteq order.channels
    BY <1>11 DEF GoToProvider, ShowsLink, PageFits
  <2> QED
    BY <2>1, LeaveForFits DEF Places
<1>12. CASE Pay \/ TimePasses
  BY <1>12 DEF Pay, TimePasses, PageFits, Exists, Sound
<1> QED
  BY <1>1, <1>2, <1>3, <1>4, <1>5, <1>6, <1>7, <1>8, <1>9, <1>10, <1>11, <1>12 DEF PageStep

\* Before the shop has recorded its order the browser gets no further and nobody pays.
LEMMA PageStepEarly ==
  ASSUME PageFits, PageStep, page.at \in Early, ~paid
  PROVE  page'.at \in Early /\ ~paid'
<1>1. ~(Tick \/ PressReload \/ EnterCashier \/ RefuseEntry \/ Reenter \/ ReloadPage
         \/ CancelAtProvider \/ Pay)
  BY DEF Tick, ShouldPoll, PressReload, EnterCashier, RefuseEntry, Reenter, ReloadPage,
     CancelAtProvider, Pay, ShowsLink, Early
<1>2. \A c \in AppChannels : ~ChooseChannel(c) /\ ~GoToProvider(c)
  BY DEF ChooseChannel, GoToProvider, ShowsLink, Early
<1>3. CASE ServeLoad \/ RefuseLoad \/ ReceiveStale \/ TimePasses
  BY <1>3 DEF ServeLoad, RefuseLoad, ReceiveStale, TimePasses
<1>4. CASE ReceiveLoad
  BY <1>4 DEF ReceiveLoad, PageFits
<1>5. CASE CloseBrowser
  BY <1>5 DEF CloseBrowser, LeaveFor, ClosedPage, Early
<1> QED
  BY <1>1, <1>2, <1>3, <1>4, <1>5 DEF PageStep

LEMMA PageMovesPreserve ==
  ASSUME Inv, PageMoves
  PROVE  Inv'
<1>1. PageFits'
  BY PageStepFits DEF PageMoves, Inv, CreationFits
<1>2. order' = order /\ request' = request
  BY DEF PageMoves, PageStep, Tick, PressReload, StartLoad, ServeLoad, RefuseLoad, ReceiveLoad,
     ReceiveStale, EnterCashier, RefuseEntry, Reenter, ReloadPage, CancelAtProvider, CloseBrowser,
     ChooseChannel, GoToProvider, Pay, TimePasses
<1>3. Rises /\ Stays
  BY <1>2, SameOrder DEF Inv
<1>4. CreationFits'
  BY <1>2, <1>3, CreationKept DEF Inv
<1>5. checkout \in {"idle", "waiting"} => page'.at \in Early /\ ~paid'
  BY PageStepEarly DEF PageMoves, Inv, ShopFits
<1>6. ShopFits'
  BY <1>3, <1>5, ShopKept DEF PageMoves, Inv
<1> QED
  BY <1>1, <1>4, <1>6 DEF Inv

-----------------------------------------------------------------------------
(* The shop and the platform. *)

\* The order takes another status.
LEMMA StatusRises ==
  ASSUME CreationFits, Exists, NEW status \in Statuses \ {"NONE"},
         order' = [order EXCEPT !.status = status],
         order.status = "SUCCESS" => status = "SUCCESS"
  PROVE  Rises /\ Stays
BY DEF CreationFits, OrderRow, Rises, Stays, Exists

\* The shop's part of the invariant, where the page is past the shop.
LEMMA LaterShop ==
  ASSUME ShopFits, Rises, checkout \notin {"idle", "waiting"}, checkout' = checkout,
         store' \in Statuses, notice' \in {"none", "pending", "over"},
         query' \in [Queries -> QueryRecord], UNCHANGED closeVars,
         notice' = "none" \/ notice # "none",
         \A q \in Queries : query'[q].pc = "answered" /\ query'[q].read = "recorded"
                              => query'[q].status = "SUCCESS"
  PROVE  ShopFits'
BY DEF ShopFits, closeVars, Rises, Stays

LEMMA Beyond ==
  ASSUME Inv, page.at \notin Early \/ paid \/ notice # "none"
         \/ \E q \in Queries : query[q] # NoQuery
  PROVE  checkout \notin {"idle", "waiting"}
BY DEF Inv, ShopFits

\* The browser moves within the shop or to the cashier's entry.
LEMMA PageAt ==
  ASSUME PageFits, CreationFits, Stays, NEW place \in Places,
         Exists \/ place \in Early,
         page' = [page EXCEPT !.at = place],
         UNCHANGED <<link, late, paid, load, stale>>
  PROVE  PageFits' /\ page'.at = place
<1>1. page' = [at |-> place, shown |-> page.shown, chosen |-> page.chosen]
  BY DEF PageFits
<1>2. Sound(page.shown)' \/ page.shown = None
  BY DEF PageFits, Sound, Stays, Exists
<1>3. load.pc = "answered" => Sound(load.answer)'
  BY DEF PageFits, Sound, Stays, Exists
<1>4. link \subseteq order'.channels
  BY DEF PageFits, Stays, OrderRow
<1> QED
  BY <1>1, <1>2, <1>3, <1>4 DEF PageFits, Stays, Sound, Exists

LEMMA QueryRecords ==
  /\ NoQuery \in QueryRecord
  /\ ShopFits => \A q \in Queries : query[q] \in QueryRecord
BY DEF NoQuery, QueryRecord, ShopFits, Statuses

LEMMA CheckoutPreserves ==
  ASSUME Inv,
         \/ \E list \in Lists : PressCheckout(list)
         \/ RecordCreated \/ RedirectToCashier \/ CheckoutFails
  PROVE  Inv'
<1>1. ASSUME NEW list \in Lists, PressCheckout(list) PROVE Inv'
  <2>1. CreationFits' /\ Rises
    BY <1>1, SendFits, CheckoutAssumption DEF PressCheckout, CheckoutAssumption, Inv
  <2>2. PageFits' /\ page'.at = "shop"
    BY <1>1, <2>1, PageAt DEF PressCheckout, Inv, Places, Early, Rises
  <2>3. ShopFits'
    BY <1>1, <2>1, <2>2 DEF PressCheckout, closeVars, Inv, ShopFits, Early, Rises, Stays
  <2> QED
    BY <2>1, <2>2, <2>3 DEF Inv
<1>2. CASE RecordCreated
  <2>1. Rises /\ CreationFits' /\ PageFits'
    BY <1>2, SameOrder, CreationKept, PageKept DEF RecordCreated, cashierVars, Inv
  <2>2. request[Shop] \in RequestRecord /\ Exists
    BY <1>2, CreatedIsOk, CheckoutAssumption DEF RecordCreated, CheckoutAssumption, Inv, CreationFits
  <2>3. /\ store' \in Statuses /\ checkout' = "recorded"
        /\ UNCHANGED <<query, notice, closing, overwritten, order>>
    BY <1>2, <2>2 DEF RecordCreated, RequestRecord, cashierVars, closeVars
  <2>4. ShopFits'
    BY <2>1, <2>2, <2>3 DEF Inv, ShopFits, Exists
  <2> QED
    BY <2>1, <2>4 DEF Inv
<1>3. CASE RedirectToCashier
  <2>1. Rises /\ CreationFits' /\ checkout = "recorded" /\ Exists
    BY <1>3, SameOrder, CreationKept DEF RedirectToCashier, MayRedirect, Inv, ShopFits
  <2>2. PageFits'
    BY <1>3, <2>1, PageAt DEF RedirectToCashier, Inv, Places, Rises
  <2>3. ShopFits'
    BY <1>3, <2>1, ShopKept DEF RedirectToCashier, Inv
  <2> QED
    BY <2>1, <2>2, <2>3 DEF Inv
<1>4. CASE CheckoutFails
  <2>1. Rises /\ CreationFits'
    BY <1>4, SameOrder, CreationKept DEF CheckoutFails, Inv
  <2>2. PICK place : page' = [page EXCEPT !.at = place] /\ place \in Early
    BY <1>4 DEF CheckoutFails, Inv, ShopFits, Early
  <2>3. PageFits'
    BY <1>4, <2>1, <2>2, EarlyPlaces, PageAt DEF CheckoutFails, Inv, Rises
  <2>4. ShopFits'
    BY <1>4, <2>1 DEF CheckoutFails, closeVars, Inv, ShopFits, Rises, Stays
  <2> QED
    BY <2>1, <2>3, <2>4 DEF Inv
<1> QED
  BY <1>1, <1>2, <1>3, <1>4

LEMMA PlatformPreserves ==
  ASSUME Inv, LearnPayment \/ Notify \/ GiveUpNotice
  PROVE  Inv'
<1>1. CASE LearnPayment
  <2>1. Rises /\ Stays /\ CreationFits'
    BY <1>1, StatusRises, CreationKept DEF LearnPayment, Inv, Statuses
  <2>2. PageFits'
    BY <1>1, <2>1, PageKept DEF LearnPayment, Inv
  <2>3. checkout \notin {"idle", "waiting"}
    BY <1>1, Beyond DEF LearnPayment
  <2>4. notice' = "pending" /\ overwritten' = FALSE /\ order'.status = "SUCCESS"
    BY <1>1 DEF LearnPayment, Inv, CreationFits, OrderRow
  <2>5. UNCHANGED <<checkout, store, query, closing>>
    BY <1>1 DEF LearnPayment
  <2>6. ShopFits'
    BY <2>1, <2>3, <2>4, <2>5 DEF Inv, ShopFits, Stays
  <2> QED
    BY <2>1, <2>2, <2>6 DEF Inv
<1>2. CASE Notify \/ GiveUpNotice
  <2>1. Rises /\ CreationFits' /\ PageFits'
    BY <1>2, SameOrder, CreationKept, PageKept DEF Notify, GiveUpNotice, cashierVars, Inv
  <2>2. checkout \notin {"idle", "waiting"}
    BY <1>2, Beyond DEF Notify, GiveUpNotice
  <2>3. store' \in Statuses /\ notice' \in {"none", "pending", "over"} /\ notice # "none"
    BY <1>2 DEF Notify, RecordNotify, GiveUpNotice, Inv, ShopFits, Statuses
  <2>4. ShopFits'
    BY <1>2, <2>1, <2>2, <2>3, LaterShop DEF Notify, GiveUpNotice, Inv, ShopFits
  <2> QED
    BY <2>1, <2>4 DEF Inv
<1> QED
  BY <1>1, <1>2

LEMMA ClosePreserves ==
  ASSUME Inv, ReadForClose \/ WriteClosed \/ AbandonClose
  PROVE  Inv'
<1>1. CASE ReadForClose \/ AbandonClose
  <2>1. Rises /\ Stays /\ CreationFits' /\ PageFits'
    BY <1>1, SameOrder, CreationKept, PageKept DEF ReadForClose, AbandonClose, cashierVars, Inv
  <2>2. closing' \in BOOLEAN /\ Exists
    BY <1>1 DEF ReadForClose, AbandonClose, Open, Exists, Inv, ShopFits
  <2>3. UNCHANGED <<order, paid, page, checkout, store, query, notice, overwritten>>
    BY <1>1 DEF ReadForClose, AbandonClose, cashierVars, pageVars
  <2>4. ShopFits'
    BY <2>1, <2>2, <2>3 DEF Inv, ShopFits, Stays
  <2> QED
    BY <2>1, <2>4 DEF Inv
<1>2. CASE WriteClosed
  <2>1. Exists
    BY <1>2 DEF WriteClosed, Inv, ShopFits
  <2>2. Stays /\ order'.status = "CLOSED" /\ CreationFits'
    BY <1>2, <2>1, CreationKept DEF WriteClosed, Inv, CreationFits, OrderRow, Stays, Statuses, Exists
  <2>3. PageFits'
    BY <1>2, <2>2, PageKept DEF WriteClosed, Inv
  <2>4. UNCHANGED <<paid, page, checkout, store, query, notice>>
    BY <1>2 DEF WriteClosed, pageVars
  <2>5. closing' \in BOOLEAN /\ overwritten' \in BOOLEAN
    BY <1>2 DEF WriteClosed
  \* a payment recorded that was not overwritten before is now
  <2>6. notice # "none" => overwritten'
    BY <1>2 DEF WriteClosed, Inv, ShopFits
  <2>7. ShopFits'
    BY <2>1, <2>2, <2>4, <2>5, <2>6 DEF Inv, ShopFits, Stays
  <2> QED
    BY <2>2, <2>3, <2>7 DEF Inv
<1> QED
  BY <1>1, <1>2

LEMMA ResultPreserves ==
  ASSUME Inv, NEW q \in Queries,
         ReturnToShop(q) \/ ReloadResult(q) \/ AnswerQuery(q) \/ RecordQuery(q) \/ QueryFails(q)
  PROVE  Inv'
<1> DEFINE Told(x) == x.pc = "answered" /\ x.read = "recorded" => x.status = "SUCCESS"
<1>1. NoQuery \in QueryRecord /\ query \in [Queries -> QueryRecord] /\ query[q] \in QueryRecord
      /\ store \in Statuses
  BY QueryRecords DEF Inv, ShopFits
<1>2. [query[q] EXCEPT !.pc = "sent"] \in QueryRecord /\ Told([query[q] EXCEPT !.pc = "sent"])
  BY <1>1 DEF QueryRecord
<1>3. Told(NoQuery)
  BY DEF NoQuery
<1>4. notice \in {"none", "pending", "over"}
  BY DEF Inv, ShopFits
\* only one query moves on, to x
<1>5. ASSUME NEW x \in QueryRecord, Told(x), query' = [query EXCEPT ![q] = x],
             Rises, checkout \notin {"idle", "waiting"}, store' \in Statuses,
             UNCHANGED <<checkout, notice, closeVars>>
      PROVE  ShopFits'
  <2>1. query' \in [Queries -> QueryRecord]
    BY <1>1, <1>5
  <2>2. \A p \in Queries : query'[p] = IF p = q THEN x ELSE query[p]
    BY <1>1, <1>5
  <2>3. \A p \in Queries : Told(query'[p])
    BY <1>5, <2>2 DEF Inv, ShopFits
  <2> QED
    BY <1>4, <1>5, <2>1, <2>3, LaterShop DEF Inv
<1> HIDE DEF Told
<1>6. CASE ReturnToShop(q)
  <2>1. Rises /\ CreationFits'
    BY <1>6, SameOrder, CreationKept DEF ReturnToShop, Inv
  <2>2. page.at \notin Early /\ Exists
    BY <1>6 DEF ReturnToShop, MayReturn, Early, Inv, PageFits
  <2>3. PageFits'
    BY <1>6, <2>2, LeaveForFits DEF ReturnToShop, Inv, PageFits, Places
  <2>4. checkout \notin {"idle", "waiting"}
    BY <2>2, Beyond
  <2>5. query' = [query EXCEPT ![q] = [query[q] EXCEPT !.pc = "sent"]]
    BY <1>1, <1>6 DEF ReturnToShop, AskOrder
  <2>6. ShopFits'
    BY <1>1, <1>2, <1>5, <1>6, <2>1, <2>4, <2>5 DEF ReturnToShop
  <2> QED
    BY <2>1, <2>3, <2>6 DEF Inv
<1>7. CASE ReloadResult(q)
  <2>1. Rises /\ CreationFits' /\ PageFits'
    BY <1>7, SameOrder, CreationKept, PageKept DEF ReloadResult, cashierVars, Inv
  <2>2. checkout \notin {"idle", "waiting"}
    BY <1>7, Beyond DEF ReloadResult, Early
  <2>3. query' = [query EXCEPT ![q] = [query[q] EXCEPT !.pc = "sent"]]
    BY <1>1, <1>7 DEF ReloadResult, AskOrder
  <2>4. ShopFits'
    BY <1>1, <1>2, <1>5, <1>7, <2>1, <2>2, <2>3 DEF ReloadResult
  <2> QED
    BY <2>1, <2>4 DEF Inv
<1>8. CASE AnswerQuery(q)
  <2> DEFINE x == [pc |-> "answered", status |-> Expired, read |-> ReadNow]
  <2>1. Expired \in Statuses /\ (order.status = "SUCCESS" => Expired = "SUCCESS")
        /\ (Exists => Expired # "NONE") /\ (~Exists => Expired = order.status)
    BY DEF Expired, Open, Exists, Inv, CreationFits, OrderRow, Statuses
  <2>2. order' = [order EXCEPT !.status = Expired] /\ query' = [query EXCEPT ![q] = x]
    BY <1>8 DEF AnswerQuery
  <2>3. Rises /\ Stays
    <3>1. CASE Exists
      BY <2>1, <2>2, <3>1, StatusRises DEF Inv
    <3>2. CASE ~Exists
      BY <2>1, <2>2, <3>2 DEF Inv, CreationFits, OrderRow, Rises, Stays, Exists
    <3> QED
      BY <3>1, <3>2
  <2>4. CreationFits' /\ PageFits'
    BY <1>8, <2>3, CreationKept, PageKept DEF AnswerQuery, Inv
  <2>5. checkout \notin {"idle", "waiting"}
    BY <1>8, Beyond DEF AnswerQuery, NoQuery
  <2>6. ReadNow \in {"unpaid", "recorded", "overwritten"}
    BY DEF ReadNow
  <2>7. ReadNow = "recorded" => order.status = "SUCCESS"
    BY DEF ReadNow, Inv, ShopFits
  <2>8. x \in QueryRecord /\ Told(x)
    BY <2>1, <2>6, <2>7 DEF QueryRecord, Told
  <2> HIDE DEF x
  <2>9. ShopFits'
    BY <1>1, <1>5, <1>8, <2>2, <2>3, <2>5, <2>8 DEF AnswerQuery
  <2> QED
    BY <2>4, <2>9 DEF Inv
<1>9. CASE RecordQuery(q) \/ QueryFails(q)
  <2>1. Rises /\ CreationFits' /\ PageFits'
    BY <1>9, SameOrder, CreationKept, PageKept DEF RecordQuery, QueryFails, cashierVars, Inv
  <2>2. checkout \notin {"idle", "waiting"}
    BY <1>9, Beyond DEF RecordQuery, QueryFails, NoQuery
  <2>3. query' = [query EXCEPT ![q] = NoQuery] /\ store' \in Statuses
    BY <1>1, <1>9 DEF RecordQuery, QueryFails, QueryRecord
  <2>4. ShopFits'
    BY <1>1, <1>3, <1>5, <1>9, <2>1, <2>2, <2>3 DEF RecordQuery, QueryFails
  <2> QED
    BY <2>1, <2>4 DEF Inv
<1> QED
  BY <1>6, <1>7, <1>8, <1>9

LEMMA RestartPreserves ==
  ASSUME Inv, OpenCashierAgain \/ RestartShop
  PROVE  Inv'
<1>1. CASE OpenCashierAgain
  <2>1. Rises /\ CreationFits'
    BY <1>1, SameOrder, CreationKept DEF OpenCashierAgain, Inv
  <2>2. page.at \notin Early /\ Exists
    BY <1>1 DEF OpenCashierAgain, Early, Inv, PageFits
  <2>3. page' = [at |-> "entry", shown |-> None, chosen |-> None]
        /\ UNCHANGED <<order, link, late, paid, load, stale>>
    BY <1>1 DEF OpenCashierAgain, ClosedPage
  <2>4. PageFits'
    BY <2>2, <2>3 DEF Inv, PageFits, Places, Exists, Sound
  <2>5. checkout \notin {"idle", "waiting"}
    BY <2>2, Beyond
  <2>6. ShopFits'
    BY <1>1, <2>1, <2>5, ShopKept DEF OpenCashierAgain, Inv
  <2> QED
    BY <2>1, <2>4, <2>6 DEF Inv
<1>2. CASE RestartShop
  <2>1. Rises /\ CreationFits'
    BY <1>2, SameOrder, CreationKept DEF RestartShop, Inv
  <2> DEFINE place == IF page.at = "shop" THEN "refused" ELSE page.at
  <2>2. /\ place \in Places /\ page' = [page EXCEPT !.at = place]
        /\ place = page.at \/ (place \in Early /\ page.at \in Early)
    BY <1>2 DEF RestartShop, Inv, PageFits, Early, Places
  <2>3. Exists \/ place \in Early
    BY <2>2 DEF Inv, PageFits
  <2>4. PageFits' /\ page'.at = place
    BY <1>2, <2>1, <2>2, <2>3, PageAt DEF RestartShop, Inv, Rises
  <2>5. \A q \in Queries : query'[q] = NoQuery
    BY <1>2 DEF RestartShop
  <2>6. query' \in [Queries -> QueryRecord] /\ NoQuery.pc = "none"
    BY <1>2, QueryRecords DEF RestartShop, NoQuery
  <2>7. checkout' \in {"idle", "waiting"} => checkout = "idle"
    BY <1>2 DEF RestartShop, Inv, ShopFits
  <2>8. store' \in {store, "NONE"} /\ UNCHANGED <<paid, notice, order, closing, overwritten>>
        /\ checkout' \in {checkout, "failed"}
    BY <1>2 DEF RestartShop, closeVars
  <2>9. ShopFits'
    BY <2>2, <2>4, <2>5, <2>6, <2>7, <2>8 DEF Inv, ShopFits, Statuses, Exists
  <2> QED
    BY <2>1, <2>4, <2>9 DEF Inv
<1> QED
  BY <1>1, <1>2

LEMMA InvStep == Inv /\ [Next]_vars => Inv'
<1> SUFFICES ASSUME Inv, [Next]_vars PROVE Inv'
  OBVIOUS
<1>1. CASE CreationMoves
  BY <1>1, CreationMovesPreserve
<1>2. CASE PageMoves
  BY <1>2, PageMovesPreserve
<1>3. CASE ShopMoves
  BY <1>3, CheckoutPreserves, PlatformPreserves, ClosePreserves, ResultPreserves, RestartPreserves DEF ShopMoves
<1>4. CASE UNCHANGED vars
  <2>1. Rises /\ CreationFits' /\ PageFits'
    BY <1>4, SameOrder, CreationKept, PageKept DEF vars, cashierVars, Inv
  <2>2. ShopFits'
    BY <1>4, <2>1, ShopKept DEF vars, cashierVars, pageVars, Inv, ShopFits
  <2> QED
    BY <2>1, <2>2 DEF Inv
<1> QED
  BY <1>1, <1>2, <1>3, <1>4 DEF Next

-----------------------------------------------------------------------------
\* Every variable of Checkout has its type (all handlers of the purchase).
THEOREM TypeCorrect == Spec => []TypeOK
<1>1. Inv => TypeOK
  BY DEF Inv, CreationFits, OrderRow, RequestRecord, PageFits, Sound, Places, ShopFits,
     QueryRecord, TypeOK
<1> QED
  BY <1>1, InitInv, InvStep, PTL DEF Spec

\* Racing requests for one merchant order number are answered with the order that is
\* there, or with a conflict (createOrder, assertSameOrderRequest).
THEOREM AnswersMatch == Spec => []CreationAnswersMatch
<1>1. Inv => CreationAnswersMatch
  BY DEF Inv, CreationFits
<1> QED
  BY <1>1, InitInv, InvStep, PTL DEF Spec

LEMMA StoreStep ==
  ASSUME Inv, [Next]_vars, store = "SUCCESS", store' # "SUCCESS"
  PROVE  \/ RecordsAnswerRead("unpaid") \/ RecordsAnswerRead("overwritten")
         \/ RestartShop
<1>1. ~RecordCreated
  BY CreatedIsOk DEF RecordCreated, Inv, ShopFits
<1>2. ASSUME NEW q \in Queries, RecordQuery(q) 
      PROVE  RecordsAnswerRead("unpaid") \/ RecordsAnswerRead("overwritten")
  <2>1. query'[q] = NoQuery /\ query[q].pc = "answered" /\ query[q].status # "SUCCESS"
    BY <1>2 DEF RecordQuery, Inv, ShopFits
  <2>2. query[q].read \in {"unpaid", "overwritten"}
    BY <2>1 DEF Inv, ShopFits, QueryRecord
  <2> QED
    BY <2>1, <2>2 DEF RecordsAnswerRead
<1>3. ~CreationMoves /\ ~PageMoves /\ vars' # vars
  BY DEF CreationMoves, PageMoves, shopVars, vars
<1>4. ~(RedirectToCashier \/ CheckoutFails \/ LearnPayment \/ ReadForClose \/ WriteClosed
         \/ AbandonClose \/ GiveUpNotice
         \/ OpenCashierAgain \/ Notify)
  BY DEF RedirectToCashier, CheckoutFails, LearnPayment, ReadForClose, WriteClosed,
     AbandonClose, GiveUpNotice, OpenCashierAgain, Notify, RecordNotify, shopVars
<1>5. \A list \in Lists : ~PressCheckout(list)
  BY DEF PressCheckout
<1>6. \A q \in Queries : ~(ReturnToShop(q) \/ ReloadResult(q) \/ AnswerQuery(q) \/ QueryFails(q))
  BY DEF ReturnToShop, ReloadResult, AnswerQuery, QueryFails
<1> QED
  BY <1>1, <1>2, <1>3, <1>4, <1>5, <1>6 DEF Next, ShopMoves

\* What the page shows is left alone, taken away or replaced by the answer awaited.
LEMMA ShownStep ==
  ASSUME PageFits, [Next]_vars
  PROVE  page'.shown \in {page.shown, None} \/ ReceiveLoad
<1>1. \A place : [page EXCEPT !.at = place].shown = page.shown
  BY DEF PageFits
<1>2. \A place : [ClosedPage EXCEPT !.at = place].shown = None
  BY DEF ClosedPage
<1>3. CASE CreationMoves \/ UNCHANGED vars
  BY <1>3 DEF CreationMoves, vars, cashierVars, pageVars
<1>4. CASE PageMoves
  <2>1. ASSUME NEW c \in AppChannels, ChooseChannel(c) PROVE page'.shown = page.shown
    BY <2>1 DEF ChooseChannel, PageFits
  <2>2. ASSUME NEW c \in AppChannels, GoToProvider(c) PROVE page'.shown = None
    BY <1>2, <2>2 DEF GoToProvider, LeaveFor
  <2>3. CASE Tick \/ PressReload \/ ServeLoad \/ RefuseLoad \/ ReceiveStale \/ Pay \/ TimePasses
    BY <2>3 DEF Tick, PressReload, StartLoad, ServeLoad, RefuseLoad, ReceiveStale, Pay, TimePasses
  <2>4. CASE EnterCashier \/ RefuseEntry \/ Reenter \/ ReloadPage \/ CancelAtProvider \/ CloseBrowser
    BY <1>2, <2>4 DEF EnterCashier, RefuseEntry, Reenter, ReloadPage, CancelAtProvider,
       CloseBrowser, OpenPage, LeaveFor
  <2> QED
    BY <1>4, <2>1, <2>2, <2>3, <2>4 DEF PageMoves, PageStep
<1>5. CASE ShopMoves
  <2>1. CASE (\E list \in Lists : PressCheckout(list)) \/ RecordCreated \/ RedirectToCashier \/ CheckoutFails
    BY <1>1, <2>1 DEF PressCheckout, RecordCreated, RedirectToCashier, CheckoutFails,
       cashierVars, pageVars
  <2>2. CASE \/ LearnPayment \/ ReadForClose \/ WriteClosed \/ AbandonClose
             \/ Notify \/ GiveUpNotice
    BY <2>2 DEF LearnPayment, ReadForClose, WriteClosed, AbandonClose, Notify, GiveUpNotice,
       cashierVars, pageVars
  <2>3. CASE OpenCashierAgain \/ RestartShop
    BY <1>1, <1>2, <2>3 DEF OpenCashierAgain, RestartShop
  <2>4. ASSUME NEW q \in Queries,
               ReturnToShop(q) \/ ReloadResult(q) \/ AnswerQuery(q) \/ RecordQuery(q) \/ QueryFails(q)
        PROVE  page'.shown \in {page.shown, None}
    BY <1>2, <2>4 DEF ReturnToShop, LeaveFor, ReloadResult, AnswerQuery, RecordQuery, QueryFails,
       cashierVars, pageVars
  <2> QED
    BY <1>5, <2>1, <2>2, <2>3, <2>4 DEF ShopMoves
<1> QED
  BY <1>3, <1>4, <1>5 DEF Next

\* The shop forgets a payment only by an answer read before the payment was recorded or
\* while a close had overwritten it, or with its file, and a cashier page never goes back
\* on it (markOrderClosedEntity; recordCreatedOrder, recordQueryResult, load;
\* CashierPage.tsx: the clean-up of the loading effect).
THEOREM PaymentsStayKnown == Spec => PaymentStaysKnown
<1>1. ASSUME Inv, [Next]_vars, page.shown # None, page.shown.status = "SUCCESS", page'.shown # None
      PROVE  page'.shown.status = "SUCCESS"
  \* nothing is under way once SUCCESS is shown
  <2>1. ~ReceiveLoad
    BY <1>1 DEF ReceiveLoad, Inv, PageFits
  <2> QED
    BY <1>1, <2>1, ShownStep DEF Inv
<1>2. Inv /\ [Next]_vars =>
        [/\ store = "SUCCESS" /\ store' # "SUCCESS" =>
              \/ RecordsAnswerRead("unpaid") \/ RecordsAnswerRead("overwritten")
              \/ RestartShop
         /\ page.shown # None /\ page.shown.status = "SUCCESS" /\ page'.shown # None
              => page'.shown.status = "SUCCESS"]_vars
  BY <1>1, StoreStep
<1> QED
  BY <1>2, InitInv, InvStep, PTL DEF Spec, PaymentStaysKnown
=============================================================================
