------------------------ MODULE OrderLifecycle_proofs ------------------------
(***************************************************************************)
(* Invariants of OrderLifecycle, for every number of handlers, channels,   *)
(* attempts and faults.                                                    *)
(***************************************************************************)
EXTENDS OrderLifecycle, SequenceTheorems, TLAPS

\* Where a request holds an attempt, an attempt to close, an event.
UsesAttempt == {"queryChannel", "attemptSuccess", "orderPaid", "attemptCancelled",
                "createSession", "attemptReady", "attemptFailed"}
UsesClosing == {"closeAtChannel", "cancelAttempt"}
UsesEvent   == {"verify", "findForNotify", "logProcessed"}

\* What a request x holds exists, and what it is about to record has happened.
Fits(x) ==
  /\ x.pc \in UsesAttempt => x.att \in 1..Len(attempts)
  /\ (x.pc \in UsesClosing \/ x.ret = "cancelAttempt") => x.closing \in 1..Len(attempts)
  /\ (x.pc \in UsesEvent \/ x.ret = "logProcessed") => x.event \in Events
  /\ (x.event \in Events /\ x.event[2] = "SUCCESS") => trade[x.event[1]] = "paid"
  /\ x.pc \in {"attemptSuccess", "orderPaid"} => trade[TradeOf(x.att)] = "paid"

Inv == TypeOK /\ \A r \in Requests : Fits(req[r])

\* TypeOK but for the requests
TablesOK ==
  /\ orderStatus \in OrderStatus
  /\ successChannel \in Channels \cup {NoChannel}
  /\ overdue \in BOOLEAN
  /\ reachable \in BOOLEAN
  /\ attempts \in Seq(Attempt)
  /\ Len(attempts) <= MaxAttempts
  /\ payTasks \in Nat
  /\ processed \subseteq Events
  /\ trade \in [Trades -> TradeStates]
  /\ faults \in 0..MaxFaults
  /\ overwrites \in Nat
  /\ overlapped \in BOOLEAN

\* What no step undoes: rows stay, with their channel, and a paid trade stays.
Monotone ==
  /\ Len(attempts) <= Len(attempts')
  /\ \A i \in 1..Len(attempts) : attempts'[i].channel = attempts[i].channel
  /\ \A t \in Trades : trade[t] = "paid" => trade'[t] = "paid"

LEMMA TradeOfType ==
  ASSUME TypeOK, NEW i \in 1..Len(attempts)
  PROVE  TradeOf(i) \in Trades
<1>1. attempts[i] \in Attempt
  BY ElementOfSeq DEF TypeOK
<1>2. i \in 1..MaxAttempts
  BY OrderAssumption, LenProperties DEF TypeOK, OrderAssumption
<1> QED
  BY <1>1, <1>2 DEF TradeOf, Trades, Attempt

\* Rewriting one row keeps the table a table and every other row.
LEMMA RowUpdate ==
  ASSUME TypeOK, NEW i \in 1..Len(attempts), NEW a \in Attempt,
         attempts' = [attempts EXCEPT ![i] = a], a.channel = attempts[i].channel
  PROVE  /\ attempts' \in Seq(Attempt)
         /\ Len(attempts') = Len(attempts)
         /\ \A j \in 1..Len(attempts) : attempts'[j] = IF j = i THEN a ELSE attempts[j]
         /\ \A j \in 1..Len(attempts) : attempts'[j].channel = attempts[j].channel
<1>1. attempts \in Seq(Attempt)
  BY DEF TypeOK
<1> QED
  BY <1>1, ExceptSeq

LEMMA StatusUpdate ==
  ASSUME TypeOK, NEW i \in 1..Len(attempts), NEW s \in AttemptStatus, SetAttempt(i, s)
  PROVE  /\ attempts' \in Seq(Attempt)
         /\ Len(attempts') = Len(attempts)
         /\ \A j \in 1..Len(attempts) : attempts'[j].channel = attempts[j].channel
         /\ \A j \in 1..Len(attempts) :
              attempts'[j].status = IF j = i THEN s ELSE attempts[j].status
<1>1. attempts[i] \in Attempt
  BY ElementOfSeq DEF TypeOK
<1>2. PICK a \in Attempt : a = [attempts[i] EXCEPT !.status = s]
  BY <1>1 DEF Attempt
<1>3. a.channel = attempts[i].channel /\ a.status = s
  BY <1>1, <1>2 DEF Attempt
<1>4. attempts' = [attempts EXCEPT ![i] = a]
  BY <1>2 DEF SetAttempt
<1>5. /\ attempts' \in Seq(Attempt)
      /\ Len(attempts') = Len(attempts)
      /\ \A j \in 1..Len(attempts) : attempts'[j] = IF j = i THEN a ELSE attempts[j]
      /\ \A j \in 1..Len(attempts) : attempts'[j].channel = attempts[j].channel
  BY <1>3, <1>4, RowUpdate
<1> QED
  BY <1>3, <1>5

LEMMA NoEventIsNone == NoEvent \notin Events
BY DEF NoEvent, Events

LEMMA InitInv == Init => Inv
<1> SUFFICES ASSUME Init PROVE Inv
  OBVIOUS
<1>1. Idle \in Request
  BY OrderAssumption DEF OrderAssumption, Idle, Request, Labels, Returns, OrderStatus, Pending
<1>2. TypeOK
  <2>1. attempts \in Seq(Attempt) /\ Len(attempts) = 0
    BY EmptySeq DEF Init
  <2>2. req \in [Requests -> Request]
    BY <1>1 DEF Init
  <2>3. orderStatus \in OrderStatus /\ successChannel \in Channels \cup {NoChannel}
    BY DEF Init, OrderStatus, Pending
  <2>4. trade \in [Trades -> TradeStates]
    BY DEF Init, TradeStates
  <2>5. processed \subseteq Events /\ payTasks \in Nat /\ overwrites \in Nat
       /\ overdue \in BOOLEAN /\ reachable \in BOOLEAN /\ overlapped \in BOOLEAN
    BY DEF Init
  <2>6. faults \in 0..MaxFaults /\ Len(attempts) <= MaxAttempts
    BY <2>1, OrderAssumption DEF Init, OrderAssumption
  <2> QED
    BY <2>1, <2>2, <2>3, <2>4, <2>5, <2>6 DEF TypeOK
<1>3. ASSUME NEW r \in Requests PROVE Fits(req[r])
  <2>1. req[r] = Idle
    BY DEF Init
  <2> QED
    BY <2>1, NoEventIsNone DEF Fits, Idle, UsesAttempt, UsesClosing, UsesEvent
<1> QED
  BY <1>2, <1>3 DEF Inv

LEMMA FitsKeep ==
  ASSUME TypeOK, Monotone, NEW x, Fits(x)
  PROVE  Fits(x)'
<1>1. 1..Len(attempts) \subseteq 1..Len(attempts')
  BY LenProperties DEF TypeOK, Monotone
<1>2. ASSUME x.pc \in {"attemptSuccess", "orderPaid"}
      PROVE  trade'[TradeOf(x.att)'] = "paid"
  <2>1. x.att \in 1..Len(attempts) /\ trade[TradeOf(x.att)] = "paid"
    BY <1>2 DEF Fits, UsesAttempt
  <2>2. TradeOf(x.att)' = TradeOf(x.att)
    BY <2>1 DEF TradeOf, Monotone
  <2> QED
    BY <2>1, <2>2, TradeOfType DEF Monotone
<1>3. (x.event \in Events /\ x.event[2] = "SUCCESS") => trade'[x.event[1]] = "paid"
  BY DEF Fits, Monotone, Events
<1> QED
  BY <1>1, <1>2, <1>3 DEF Fits

\* The invariant after a step of request r that leaves it at x.
LEMMA Preserve ==
  ASSUME Inv, NEW r \in Requests, NEW x \in Request, req' = [req EXCEPT ![r] = x],
         TablesOK', Monotone, Fits(x)'
  PROVE  Inv'
<1>1. req' \in [Requests -> Request] /\ req'[r] = x
  BY DEF Inv, TypeOK
<1>2. ASSUME NEW q \in Requests PROVE Fits(req[q])'
  <2>1. CASE q = r
    BY <2>1, <1>1
  <2>2. CASE q # r
    <3>1. req'[q] = req[q] /\ Fits(req[q])
      BY <2>2 DEF Inv, TypeOK
    <3>2. PICK y : y = req[q]
      OBVIOUS
    <3>3. Fits(y)'
      BY <3>1, <3>2, FitsKeep DEF Inv
    <3> QED
      BY <3>1, <3>2, <3>3
  <2> QED
    BY <2>1, <2>2
<1> QED
  BY <1>1, <1>2 DEF Inv, TypeOK, TablesOK, history

\* Request r goes to a request record that fits the tables as they were.
Moves(r) == \E x \in Request : Fits(x) /\ req' = [req EXCEPT ![r] = x]

LEMMA MovePreserves ==
  ASSUME Inv, NEW r \in Requests, Moves(r), TablesOK', Monotone
  PROVE  Inv'
<1>1. PICK x \in Request : Fits(x) /\ req' = [req EXCEPT ![r] = x]
  BY DEF Moves
<1>2. Fits(x)'
  BY <1>1, FitsKeep DEF Inv
<1> QED
  BY <1>1, <1>2, Preserve

LEMMA QuietPreserves ==
  ASSUME Inv, NEW r \in Requests, Moves(r), UNCHANGED <<db, world, history>>
  PROVE  Inv'
<1>1. TablesOK'
  BY DEF Inv, TypeOK, TablesOK, db, world, history
<1>2. Monotone
  BY LenProperties DEF Inv, TypeOK, Monotone, db, world
<1> QED
  BY <1>1, <1>2, MovePreserves

LEMMA IdleFits == Idle \in Request /\ Fits(Idle)
BY OrderAssumption, NoEventIsNone
   DEF OrderAssumption, Idle, Request, Labels, Returns, OrderStatus, Pending,
       Fits, UsesAttempt, UsesClosing, UsesEvent

LEMMA FinishMoves ==
  ASSUME Inv, NEW r \in Requests, Finish(r)
  PROVE  Moves(r)
BY IdleFits DEF Finish, Moves

LEMMA ReturnMoves ==
  ASSUME Inv, NEW r \in Requests, NEW st \in OrderStatus, Return(r, st)
  PROVE  Moves(r)
<1>1. CASE req[r].ret = "idle"
  <2>1. req' = [req EXCEPT ![r] = Idle]
    BY <1>1 DEF Return
  <2> QED
    BY <2>1, IdleFits DEF Moves
<1>2. CASE req[r].ret # "idle"
  <2>1. PICK x : x = [req[r] EXCEPT !.pc = req[r].ret, !.seen = st]
    OBVIOUS
  <2>2. req[r] \in Request /\ Fits(req[r])
    BY DEF Inv, TypeOK
  <2>3. x \in Request
    BY <2>1, <2>2 DEF Request, Returns, Labels
  <2>4. /\ x.pc = req[r].ret /\ x.ret = req[r].ret /\ x.att = req[r].att
        /\ x.closing = req[r].closing /\ x.event = req[r].event
    BY <2>1, <2>2 DEF Request
  <2>5. Fits(x)
    BY <1>2, <2>2, <2>4 DEF Fits, Request, Returns, UsesAttempt, UsesClosing, UsesEvent
  <2>6. req' = [req EXCEPT ![r] = x]
    BY <1>2, <2>1 DEF Return
  <2> QED
    BY <2>3, <2>5, <2>6 DEF Moves
<1> QED
  BY <1>1, <1>2

\* What the label l asks of a request that goes there.
Ready(x, l) ==
  /\ l \in UsesAttempt => x.att \in 1..Len(attempts)
  /\ l \in UsesClosing => x.closing \in 1..Len(attempts)
  /\ l \in UsesEvent => x.event \in Events
  /\ l \in {"attemptSuccess", "orderPaid"} => trade[TradeOf(x.att)] = "paid"

LEMMA GotoMoves ==
  ASSUME Inv, NEW r \in Requests, NEW l \in Labels, Goto(r, l), Ready(req[r], l)
  PROVE  Moves(r)
<1>1. PICK x : x = [req[r] EXCEPT !.pc = l]
  OBVIOUS
<1>2. req[r] \in Request /\ Fits(req[r])
  BY DEF Inv, TypeOK
<1>3. x \in Request
  BY <1>1, <1>2 DEF Request
<1>4. /\ x.pc = l /\ x.ret = req[r].ret /\ x.att = req[r].att
      /\ x.closing = req[r].closing /\ x.event = req[r].event
  BY <1>1, <1>2 DEF Request
<1>5. Fits(x)
  BY <1>2, <1>4 DEF Fits, Ready
<1>6. req' = [req EXCEPT ![r] = x]
  BY <1>1 DEF Goto
<1> QED
  BY <1>3, <1>5, <1>6 DEF Moves

-----------------------------------------------------------------------------
(* Steps that read *)

LEMMA NoteOverlapType == TypeOK /\ NoteOverlap => overlapped' \in BOOLEAN
BY Zenon DEF TypeOK, NoteOverlap

LEMMA BeginRequestInv ==
  ASSUME Inv, NEW op \in Ops \ {"notify"}, NEW r \in Requests, BeginRequest(r, op)
  PROVE  Inv'
<1>1. PICK x : x = [req[r] EXCEPT !.pc = "readOrder", !.ret = AfterSync[op]]
  OBVIOUS
<1>2. req[r] \in Request /\ Fits(req[r])
  BY DEF Inv, TypeOK
<1>3. AfterSync[op] \in {"idle", "pickClose", "snapshot"}
  BY OrderAssumption DEF OrderAssumption, AllOps, AfterSync
<1>4. x \in Request
  BY <1>1, <1>2, <1>3 DEF Request, Labels, Returns
<1>5. /\ x.pc = "readOrder" /\ x.ret = AfterSync[op] /\ x.att = req[r].att
      /\ x.closing = req[r].closing /\ x.event = req[r].event
  BY <1>1, <1>2 DEF Request
<1>6. Fits(x)
  BY <1>2, <1>3, <1>5 DEF Fits, UsesAttempt, UsesClosing, UsesEvent
<1>7. Moves(r)
  BY <1>1, <1>4, <1>6 DEF Moves, BeginRequest
<1>8. TablesOK'
  <2>1. overlapped' \in BOOLEAN
    BY NoteOverlapType DEF BeginRequest, Inv
  <2> QED
    BY <2>1 DEF BeginRequest, Inv, TypeOK, TablesOK, OrderStatus, world, history
<1>9. Monotone
  BY LenProperties DEF BeginRequest, Inv, TypeOK, Monotone, world
<1> QED
  BY <1>7, <1>8, <1>9, MovePreserves

LEMMA ReadOrderInv ==
  ASSUME Inv, NEW r \in Requests, ReadOrder(r)
  PROVE  Inv'
<1>1. orderStatus \in OrderStatus /\ req[r] \in Request /\ Fits(req[r])
  BY DEF Inv, TypeOK
<1>2. CASE orderStatus \in Pending
  <2>1. PICK x : x = [req[r] EXCEPT !.pc = "findLatest", !.seen = orderStatus]
    OBVIOUS
  <2>2. x \in Request
    BY <1>1, <2>1 DEF Request, Labels
  <2>3. /\ x.pc = "findLatest" /\ x.ret = req[r].ret /\ x.att = req[r].att
        /\ x.closing = req[r].closing /\ x.event = req[r].event
    BY <1>1, <2>1 DEF Request
  <2>4. Fits(x)
    BY <1>1, <2>3 DEF Fits, UsesAttempt, UsesClosing, UsesEvent
  <2>5. Moves(r)
    BY <1>2, <2>1, <2>2, <2>4 DEF Moves, ReadOrder
  <2> QED
    BY <2>5, QuietPreserves DEF ReadOrder
<1>3. CASE orderStatus \notin Pending
  BY <1>1, <1>3, ReturnMoves, QuietPreserves DEF ReadOrder
<1> QED
  BY <1>2, <1>3

LEMMA FindLatestInv ==
  ASSUME Inv, NEW r \in Requests, FindLatest(r)
  PROVE  Inv'
<1>1. req[r] \in Request /\ Fits(req[r]) /\ attempts \in Seq(Attempt)
  BY DEF Inv, TypeOK
<1>2. CASE attempts = <<>>
  <2>1. req[r].seen \in OrderStatus
    BY <1>1 DEF Request
  <2> QED
    BY <1>2, <2>1, ReturnMoves, QuietPreserves DEF FindLatest
<1>3. CASE attempts # <<>>
  <2>1. PICK x : x = [req[r] EXCEPT !.pc = "queryChannel", !.att = Len(attempts)]
    OBVIOUS
  <2>2. Len(attempts) \in 1..Len(attempts) /\ Len(attempts) \in 0..MaxAttempts
    BY <1>1, <1>3, EmptySeq, LenProperties, OrderAssumption
       DEF Inv, TypeOK, OrderAssumption
  <2>3. x \in Request
    BY <1>1, <2>1, <2>2 DEF Request, Labels
  <2>4. /\ x.pc = "queryChannel" /\ x.ret = req[r].ret /\ x.att = Len(attempts)
        /\ x.closing = req[r].closing /\ x.event = req[r].event
    BY <1>1, <2>1 DEF Request
  <2>5. Fits(x)
    BY <1>1, <2>2, <2>4 DEF Fits, UsesAttempt, UsesClosing, UsesEvent
  <2>6. Moves(r)
    BY <1>3, <2>1, <2>3, <2>5 DEF Moves, FindLatest, LatestAttempt
  <2> QED
    BY <2>6, QuietPreserves DEF FindLatest
<1> QED
  BY <1>2, <1>3

\* A fault only counts; the tables are otherwise as they were.
LEMMA FaultPreserves ==
  ASSUME Inv, NEW r \in Requests, Moves(r), Fault \/ UNCHANGED faults,
         UNCHANGED <<db, overdue, reachable, trade, history>>
  PROVE  Inv'
<1>1. faults' \in 0..MaxFaults
  BY OrderAssumption DEF Inv, TypeOK, Fault, OrderAssumption
<1>2. TablesOK'
  BY <1>1 DEF Inv, TypeOK, TablesOK, db, history
<1>3. Monotone
  BY LenProperties DEF Inv, TypeOK, Monotone, db
<1> QED
  BY <1>2, <1>3, MovePreserves

LEMMA QueryChannelInv ==
  ASSUME Inv, NEW r \in Requests, QueryChannel(r)
  PROVE  Inv'
<1>1. req[r] \in Request /\ Fits(req[r]) /\ req[r].seen \in OrderStatus
  BY DEF Inv, TypeOK, Request
<1>2. req[r].att \in 1..Len(attempts)
  BY <1>1 DEF QueryChannel, QueryAnswer, At, Fits, UsesAttempt
<1>3. Moves(r)
  <2>1. CASE Goto(r, "attemptSuccess") /\ trade[TradeOf(req[r].att)] = "paid"
    BY <1>2, <2>1, GotoMoves DEF Ready, Labels, UsesClosing, UsesEvent
  <2>2. CASE Goto(r, "attemptCancelled")
    BY <1>2, <2>2, GotoMoves DEF Ready, Labels, UsesClosing, UsesEvent
  <2>3. CASE Return(r, req[r].seen)
    BY <1>1, <2>3, ReturnMoves
  <2>4. CASE Finish(r)
    BY <2>4, FinishMoves
  <2> QED
    BY <2>1, <2>2, <2>3, <2>4 DEF QueryChannel, QueryAnswer
<1> QED
  BY <1>3, FaultPreserves DEF QueryChannel, QueryAnswer

-----------------------------------------------------------------------------
(* Steps that record a payment *)

LEMMA MarkAttemptSuccessInv ==
  ASSUME Inv, NEW r \in Requests, MarkAttemptSuccess(r)
  PROVE  Inv'
<1> DEFINE i == req[r].att
<1>1. req[r] \in Request /\ Fits(req[r]) /\ attempts \in Seq(Attempt)
  BY DEF Inv, TypeOK
<1>2. i \in 1..Len(attempts) /\ trade[TradeOf(i)] = "paid"
  BY <1>1 DEF MarkAttemptSuccess, At, Fits, UsesAttempt
<1>3. PICK a : a = [attempts[i] EXCEPT !.status = "SUCCESS", !.known = TRUE]
  OBVIOUS
<1>4. attempts[i] \in Attempt
  BY <1>1, <1>2, ElementOfSeq
<1>5. a \in Attempt /\ a.channel = attempts[i].channel
  BY <1>3, <1>4 DEF Attempt, AttemptStatus
<1>6. attempts' = [attempts EXCEPT ![i] = a]
  BY <1>3 DEF MarkAttemptSuccess
<1>7. /\ attempts' \in Seq(Attempt)
      /\ Len(attempts') = Len(attempts)
      /\ \A j \in 1..Len(attempts) : attempts'[j].channel = attempts[j].channel
  BY <1>2, <1>5, <1>6, RowUpdate DEF Inv
<1>8. Moves(r)
  BY <1>2, GotoMoves DEF MarkAttemptSuccess, Ready, Labels, UsesClosing, UsesEvent
<1>9. TablesOK'
  BY <1>7 DEF MarkAttemptSuccess, Inv, TypeOK, TablesOK, order, world, history
<1>10. Monotone
  BY <1>1, <1>7, LenProperties DEF MarkAttemptSuccess, Monotone, world
<1> QED
  BY <1>8, <1>9, <1>10, MovePreserves

LEMMA MarkOrderPaidInv ==
  ASSUME Inv, NEW r \in Requests, MarkOrderPaid(r)
  PROVE  Inv'
<1>1. req[r] \in Request /\ Fits(req[r]) /\ attempts \in Seq(Attempt)
  BY DEF Inv, TypeOK
<1>2. req[r].att \in 1..Len(attempts)
  BY <1>1 DEF MarkOrderPaid, At, Fits, UsesAttempt
<1>3. SuccessChannelOf(req[r].att) \in Channels
  <2>1. attempts[req[r].att] \in Attempt
    BY <1>1, <1>2, ElementOfSeq
  <2> QED
    BY <2>1 DEF SuccessChannelOf, Attempt
<1>4. Moves(r)
  <2>1. CASE req[r].ret = "logProcessed"
    BY <1>1, <2>1, GotoMoves
       DEF MarkOrderPaid, Ready, Labels, Fits, UsesAttempt, UsesClosing, UsesEvent
  <2>2. CASE req[r].ret # "logProcessed"
    BY <2>2, GotoMoves DEF MarkOrderPaid, Ready, Labels, UsesAttempt, UsesClosing, UsesEvent
  <2> QED
    BY <2>1, <2>2
<1>5. TablesOK'
  BY <1>3 DEF MarkOrderPaid, Inv, TypeOK, TablesOK, OrderStatus, Paid, order, world, history
<1>6. Monotone
  BY <1>1, LenProperties DEF MarkOrderPaid, Monotone, world
<1> QED
  BY <1>4, <1>5, <1>6, MovePreserves

LEMMA RereadOrderInv ==
  ASSUME Inv, NEW r \in Requests, RereadOrder(r)
  PROVE  Inv'
<1>1. orderStatus \in OrderStatus
  BY DEF Inv, TypeOK
<1> QED
  BY <1>1, ReturnMoves, QuietPreserves DEF RereadOrder

-----------------------------------------------------------------------------
(* Steps that close *)

\* Rewriting the status of a row that exists, and going where it is ready to.
LEMMA StatusPreserves ==
  ASSUME Inv, NEW r \in Requests, Moves(r),
         NEW i \in 1..Len(attempts), NEW st \in AttemptStatus, SetAttempt(i, st),
         UNCHANGED <<order, payTasks, processed, world, history>>
  PROVE  Inv'
<1>1. /\ attempts' \in Seq(Attempt)
      /\ Len(attempts') = Len(attempts)
      /\ \A j \in 1..Len(attempts) : attempts'[j].channel = attempts[j].channel
  BY StatusUpdate DEF Inv
<1>2. TablesOK'
  BY <1>1 DEF Inv, TypeOK, TablesOK, order, world, history
<1>3. Monotone
  BY <1>1, LenProperties DEF Inv, TypeOK, Monotone, world
<1> QED
  BY <1>2, <1>3, MovePreserves

LEMMA MarkAttemptCancelledInv ==
  ASSUME Inv, NEW r \in Requests, MarkAttemptCancelled(r)
  PROVE  Inv'
<1>1. req[r] \in Request /\ Fits(req[r])
  BY DEF Inv, TypeOK
<1>2. req[r].att \in 1..Len(attempts)
  BY <1>1 DEF MarkAttemptCancelled, FollowUp, SessionFollowUp, TradeFollowUp, At, Fits,
     UsesAttempt
<1>3. Moves(r)
  <2>1. CASE Goto(r, "logProcessed") /\ req[r].ret = "logProcessed"
    BY <1>1, <2>1, GotoMoves DEF Ready, Labels, Fits, UsesAttempt, UsesClosing, UsesEvent
  <2>2. CASE Goto(r, "readForClose")
    BY <2>2, GotoMoves DEF Ready, Labels, UsesAttempt, UsesClosing, UsesEvent
  <2> QED
    BY <2>1, <2>2 DEF MarkAttemptCancelled, FollowUp, SessionFollowUp, TradeFollowUp
<1>4. SetAttempt(req[r].att, "CANCELLED") /\ "CANCELLED" \in AttemptStatus
  BY DEF MarkAttemptCancelled, FollowUp, SessionFollowUp, TradeFollowUp, AttemptStatus
<1> QED
  BY <1>2, <1>3, <1>4, StatusPreserves DEF MarkAttemptCancelled, FollowUp, SessionFollowUp,
     TradeFollowUp

LEMMA ReadForCloseInv ==
  ASSUME Inv, NEW r \in Requests, ReadForClose(r)
  PROVE  Inv'
<1>1. orderStatus \in OrderStatus
  BY DEF Inv, TypeOK
<1>2. Moves(r)
  <2>1. CASE Goto(r, "writeClosed")
    BY <2>1, GotoMoves DEF Ready, Labels, UsesAttempt, UsesClosing, UsesEvent
  <2>2. CASE Return(r, orderStatus)
    BY <1>1, <2>2, ReturnMoves
  <2> QED
    BY <2>1, <2>2 DEF ReadForClose
<1> QED
  BY <1>2, QuietPreserves DEF ReadForClose

LEMMA WriteClosedInv ==
  ASSUME Inv, NEW r \in Requests, WriteClosed(r)
  PROVE  Inv'
<1>1. Moves(r)
  BY ReturnMoves DEF WriteClosed, OrderStatus
<1>2. TablesOK'
  BY DEF WriteClosed, Inv, TypeOK, TablesOK, OrderStatus, world, history
<1>3. Monotone
  BY LenProperties DEF WriteClosed, Inv, TypeOK, Monotone, world
<1> QED
  BY <1>1, <1>2, <1>3, MovePreserves

LEMMA PickCloseInv ==
  ASSUME Inv, NEW r \in Requests, PickClose(r)
  PROVE  Inv'
<1>1. req[r] \in Request /\ Fits(req[r]) /\ attempts \in Seq(Attempt)
  BY DEF Inv, TypeOK
<1>2. CASE req[r].seen \notin Pending
  BY <1>2, FinishMoves, QuietPreserves DEF PickClose
<1>3. CASE req[r].seen \in Pending
  <2> DEFINE l == IF attempts = <<>> THEN "readForClose" ELSE "closeAtChannel"
  <2>1. PICK x : x = [req[r] EXCEPT !.pc = l, !.ret = "idle", !.closing = Len(attempts)]
    OBVIOUS
  <2>2. Len(attempts) \in 0..MaxAttempts
    BY <1>1, LenProperties, OrderAssumption DEF Inv, TypeOK, OrderAssumption
  <2>3. x \in Request
    BY <1>1, <2>1, <2>2 DEF Request, Labels, Returns
  <2>4. /\ x.pc = l /\ x.ret = "idle" /\ x.closing = Len(attempts)
        /\ x.event = req[r].event
    BY <1>1, <2>1 DEF Request
  <2>5. attempts # <<>> => Len(attempts) \in 1..Len(attempts)
    BY <1>1, EmptySeq, LenProperties
  <2>6. Fits(x)
    BY <1>1, <2>4, <2>5 DEF Fits, UsesAttempt, UsesClosing, UsesEvent
  <2>7. Moves(r)
    BY <1>3, <2>1, <2>3, <2>6 DEF Moves, PickClose, LatestAttempt, CloseStart
  <2> QED
    BY <2>7, QuietPreserves DEF PickClose
<1> QED
  BY <1>2, <1>3

\* A trade that is not paid may change; the rest of the world only counts.
LEMMA TradePreserves ==
  ASSUME Inv, NEW r \in Requests, Moves(r), NEW t, NEW st \in TradeStates,
         trade' = [trade EXCEPT ![t] = st], trade[t] # "paid",
         Fault \/ UNCHANGED faults, UNCHANGED <<db, overdue, reachable, history>>
  PROVE  Inv'
<1>1. faults' \in 0..MaxFaults
  BY OrderAssumption DEF Inv, TypeOK, Fault, OrderAssumption
<1>2. TablesOK'
  BY <1>1 DEF Inv, TypeOK, TablesOK, db, history
<1>3. Monotone
  BY LenProperties DEF Inv, TypeOK, Monotone, db
<1> QED
  BY <1>2, <1>3, MovePreserves

LEMMA CloseAtChannelInv ==
  ASSUME Inv, NEW r \in Requests, CloseAtChannel(r)
  PROVE  Inv'
<1> DEFINE t == TradeOf(req[r].closing)
<1>1. req[r] \in Request /\ Fits(req[r])
  BY DEF Inv, TypeOK
<1>2. req[r].closing \in 1..Len(attempts)
  BY <1>1 DEF CloseAtChannel, ClosesAt, SessionCloses, TradeCloses, LeavesAt, At, Fits,
     UsesClosing
<1>3. Goto(r, "cancelAttempt") => Moves(r)
  BY <1>2, GotoMoves DEF Ready, Labels, UsesAttempt, UsesEvent
<1>4. ASSUME req' = [req EXCEPT ![r] = [@ EXCEPT !.pc = "findLatest",
                                                 !.ret = "cancelAttempt"]]
      PROVE  Moves(r)
  <2>1. PICK x : x = [req[r] EXCEPT !.pc = "findLatest", !.ret = "cancelAttempt"]
    OBVIOUS
  <2>2. x \in Request
    BY <1>1, <2>1 DEF Request, Labels, Returns
  <2>3. /\ x.pc = "findLatest" /\ x.ret = "cancelAttempt" /\ x.closing = req[r].closing
        /\ x.event = req[r].event
    BY <1>1, <2>1 DEF Request
  <2>4. Fits(x)
    BY <1>1, <1>2, <2>3 DEF Fits, UsesAttempt, UsesClosing, UsesEvent
  <2> QED
    BY <1>4, <2>1, <2>2, <2>4 DEF Moves
<1>5. Finish(r) => Moves(r)
  BY FinishMoves
<1>6. CASE trade[t] \in {"created", "open"} /\ trade' = [trade EXCEPT ![t] = "closed"]
           /\ Goto(r, "cancelAttempt") /\ UNCHANGED faults
  BY <1>3, <1>6, TradePreserves DEF CloseAtChannel, ClosesAt, SessionCloses, TradeCloses,
     LeavesAt, TradeStates
<1>7. CASE UNCHANGED trade
  <2>1. Moves(r)
    BY <1>3, <1>4, <1>5 DEF CloseAtChannel, ClosesAt, SessionCloses, TradeCloses, LeavesAt
  <2> QED
    BY <1>7, <2>1, FaultPreserves DEF CloseAtChannel, ClosesAt, SessionCloses, TradeCloses,
       LeavesAt
<1> QED
  BY <1>6, <1>7 DEF CloseAtChannel, ClosesAt, SessionCloses, TradeCloses, LeavesAt

LEMMA CancelAttemptInv ==
  ASSUME Inv, NEW r \in Requests, CancelAttempt(r)
  PROVE  Inv'
<1>1. req[r] \in Request /\ Fits(req[r])
  BY DEF Inv, TypeOK
<1>2. CASE req[r].seen \notin Pending
  BY <1>2, FinishMoves, QuietPreserves DEF CancelAttempt, db, order
<1>3. CASE req[r].seen \in Pending
  <2>1. req[r].closing \in 1..Len(attempts)
    BY <1>1 DEF CancelAttempt, At, Fits, UsesClosing
  <2>2. PICK x : x = [req[r] EXCEPT !.pc = "readForClose", !.ret = "idle"]
    OBVIOUS
  <2>3. x \in Request
    BY <1>1, <2>2 DEF Request, Labels, Returns
  <2>4. x.pc = "readForClose" /\ x.ret = "idle" /\ x.event = req[r].event
    BY <1>1, <2>2 DEF Request
  <2>5. Fits(x)
    BY <1>1, <2>4 DEF Fits, UsesAttempt, UsesClosing, UsesEvent
  <2>6. Moves(r)
    BY <1>3, <2>2, <2>3, <2>5 DEF Moves, CancelAttempt
  <2>7. SetAttempt(req[r].closing, "CANCELLED") /\ "CANCELLED" \in AttemptStatus
    BY <1>3 DEF CancelAttempt, AttemptStatus
  <2> QED
    BY <2>1, <2>6, <2>7, StatusPreserves DEF CancelAttempt
<1> QED
  BY <1>2, <1>3

-----------------------------------------------------------------------------
(* Steps of the cashier page *)

LEMMA NextChannelMoves ==
  ASSUME Inv, NEW r \in Requests, NEW todo \in SUBSET Channels,
         \/ NextChannel(r, todo)
         \/ req' = [req EXCEPT ![r] = [@ EXCEPT !.pc = "createAttempt", !.todo = todo]]
  PROVE  Moves(r)
<1>1. req[r] \in Request /\ Fits(req[r])
  BY DEF Inv, TypeOK
<1>2. PICK x : x = [req[r] EXCEPT !.pc = "createAttempt", !.todo = todo]
  OBVIOUS
<1>3. x \in Request
  BY <1>1, <1>2 DEF Request, Labels
<1>4. /\ x.pc = "createAttempt" /\ x.ret = req[r].ret
      /\ x.closing = req[r].closing /\ x.event = req[r].event
  BY <1>1, <1>2 DEF Request
<1>5. Fits(x)
  BY <1>1, <1>4 DEF Fits, UsesAttempt, UsesClosing, UsesEvent
<1>6. CASE req' = [req EXCEPT ![r] = x]
  BY <1>3, <1>5, <1>6 DEF Moves
<1>7. CASE Finish(r)
  BY <1>7, FinishMoves
<1> QED
  BY <1>2, <1>6, <1>7 DEF NextChannel

LEMMA SnapshotAttemptsInv ==
  ASSUME Inv, NEW r \in Requests, SnapshotAttempts(r)
  PROVE  Inv'
<1>1. PICK enabled \in SUBSET Channels :
        LET todo == enabled \ ReusableChannels
        IN  IF req[r].seen \notin Pending \/ todo = {} THEN Finish(r)
            ELSE req' = [req EXCEPT ![r] = [@ EXCEPT !.pc = "createAttempt",
                                                     !.todo = todo]]
  BY DEF SnapshotAttempts
<1>2. enabled \ ReusableChannels \in SUBSET Channels
  OBVIOUS
<1>3. Moves(r)
  BY <1>1, <1>2, NextChannelMoves, FinishMoves
<1> QED
  BY <1>3, QuietPreserves DEF SnapshotAttempts

LEMMA CreateAttemptInv ==
  ASSUME Inv, NEW r \in Requests, CreateAttempt(r)
  PROVE  Inv'
<1>1. /\ req[r] \in Request /\ Fits(req[r]) /\ attempts \in Seq(Attempt)
      /\ Len(attempts) \in Nat /\ Len(attempts) <= MaxAttempts /\ MaxAttempts \in Nat
  BY OrderAssumption, LenProperties DEF Inv, TypeOK, OrderAssumption
<1>2. CASE Len(attempts) = MaxAttempts
  BY <1>2, FinishMoves, QuietPreserves DEF CreateAttempt, db, order
<1>3. CASE Len(attempts) # MaxAttempts
  <2>1. PICK c \in req[r].todo :
          /\ attempts' = Append(attempts, NewAttempt(c))
          /\ req' = [req EXCEPT ![r] = [@ EXCEPT !.pc = "createSession",
                                                 !.att = Len(attempts) + 1]]
    BY <1>3 DEF CreateAttempt
  <2>2. NewAttempt(c) \in Attempt
    BY <1>1, <2>1 DEF NewAttempt, Attempt, AttemptStatus, Request
  <2>3. /\ attempts' \in Seq(Attempt)
        /\ Len(attempts') = Len(attempts) + 1
        /\ \A j \in 1..Len(attempts) : attempts'[j] = attempts[j]
    BY <1>1, <2>1, <2>2, AppendProperties
  <2>4. TablesOK'
    BY <1>1, <1>3, <2>3 DEF CreateAttempt, Inv, TypeOK, TablesOK, order, world, history
  <2>5. Monotone
    BY <1>1, <2>3 DEF CreateAttempt, Monotone, world
  <2>6. PICK x : x = [req[r] EXCEPT !.pc = "createSession", !.att = Len(attempts) + 1]
    OBVIOUS
  <2>7. x \in Request
    <3>1. Len(attempts) + 1 \in 0..MaxAttempts
      BY <1>1, <1>3
    <3> QED
      BY <1>1, <2>6, <3>1 DEF Request, Labels
  <2>8. /\ x.pc = "createSession" /\ x.ret = req[r].ret /\ x.att = Len(attempts) + 1
        /\ x.closing = req[r].closing /\ x.event = req[r].event
    BY <1>1, <2>6 DEF Request
  <2>9. Len(attempts) + 1 \in 1..Len(attempts')
    BY <1>1, <2>3
  <2>10. PICK y : y = req[r]
    OBVIOUS
  <2>11. Fits(y)'
    BY <1>1, <2>5, <2>10, FitsKeep DEF Inv
  <2>12. Fits(x)'
    BY <2>8, <2>9, <2>10, <2>11 DEF Fits, UsesAttempt, UsesClosing, UsesEvent
  <2> QED
    BY <2>1, <2>4, <2>5, <2>6, <2>7, <2>12, Preserve
<1> QED
  BY <1>2, <1>3

LEMMA CreateSessionInv ==
  ASSUME Inv, NEW r \in Requests, CreateSession(r)
  PROVE  Inv'
<1> DEFINE i == req[r].att
           t == TradeOf(i)
<1>1. req[r] \in Request /\ Fits(req[r]) /\ req[r].todo \in SUBSET Channels
  BY DEF Inv, TypeOK, Request
<1>2. i \in 1..Len(attempts)
  BY <1>1 DEF CreateSession, At, Fits, UsesAttempt
<1>3. Moves(r)
  <2>1. ASSUME NEW l \in {"attemptReady", "attemptFailed"}, Goto(r, l)
        PROVE  Moves(r)
    BY <1>2, <2>1, GotoMoves DEF Ready, Labels, UsesClosing, UsesEvent
  <2>2. req[r].todo \ {attempts[i].channel} \in SUBSET Channels
    BY <1>1
  <2>3. CASE NextChannel(r, req[r].todo \ {attempts[i].channel})
    BY <2>2, <2>3, NextChannelMoves
  <2> QED
    BY <2>1, <2>3 DEF CreateSession
<1>4. CASE UNCHANGED trade
  BY <1>3, <1>4, FaultPreserves DEF CreateSession
<1>5. CASE CreateTrade(t)
  <2>1. CASE trade[t] = "absent"
    <3>1. trade' = [trade EXCEPT ![t] = "created"]
      BY <1>5, <2>1 DEF CreateTrade
    <3> QED
      BY <1>3, <2>1, <3>1, TradePreserves DEF CreateSession, TradeStates
  <2>2. CASE trade[t] # "absent"
    <3>1. trade' = trade
      BY <1>5, <2>2 DEF CreateTrade, Inv, TypeOK
    <3> QED
      BY <1>3, <3>1, FaultPreserves DEF CreateSession
  <2> QED
    BY <2>1, <2>2
<1> QED
  BY <1>4, <1>5 DEF CreateSession

LEMMA MarkAttemptReadyInv ==
  ASSUME Inv, NEW r \in Requests, MarkAttemptReady(r)
  PROVE  Inv'
<1> DEFINE i == req[r].att
           c == attempts[i].channel
           t == TradeOf(i)
<1>1. req[r] \in Request /\ Fits(req[r]) /\ attempts \in Seq(Attempt)
  BY DEF Inv, TypeOK
<1>2. i \in 1..Len(attempts)
  BY <1>1 DEF MarkAttemptReady, At, Fits, UsesAttempt
<1>3. attempts[i] \in Attempt
  BY <1>1, <1>2, ElementOfSeq
<1>4. PICK a : a = ReadyRow(i)
  OBVIOUS
<1>5. a \in Attempt /\ a.channel = attempts[i].channel
  <2>1. /\ DOMAIN a = {"channel", "status", "known"}
        /\ a = [attempts[i] EXCEPT !.status = a.status, !.known = a.known]
        /\ a.status = "USER_PAYING" /\ a.channel = attempts[i].channel
    BY <1>3, <1>4 DEF ReadyRow, Attempt
  <2>2. a.known \in BOOLEAN
    BY <1>3, <1>4 DEF ReadyRow, Attempt
  <2> QED
    BY <1>3, <2>1, <2>2 DEF Attempt, AttemptStatus
<1>6. attempts' = [attempts EXCEPT ![i] = a]
  BY <1>4 DEF MarkAttemptReady
<1>7. /\ attempts' \in Seq(Attempt)
      /\ Len(attempts') = Len(attempts)
      /\ \A j \in 1..Len(attempts) : attempts'[j].channel = attempts[j].channel
  BY <1>2, <1>5, <1>6, RowUpdate DEF Inv
<1>8. Moves(r)
  <2>1. req[r].todo \ {c} \in SUBSET Channels
    BY <1>1 DEF Request
  <2> QED
    BY <2>1, NextChannelMoves DEF MarkAttemptReady
<1>9. PICK st \in {"open", "offered"} :
        trade' = [trade EXCEPT ![t] = IF @ = "created" THEN st ELSE @]
  BY DEF MarkAttemptReady
<1>10. /\ trade' \in [Trades -> TradeStates]
       /\ \A u \in Trades : trade[u] = "paid" => trade'[u] = "paid"
  BY <1>9 DEF Inv, TypeOK, TradeStates
<1>11. TablesOK'
  BY <1>7, <1>10 DEF MarkAttemptReady, Inv, TypeOK, TablesOK, order, history
<1>12. Monotone
  BY <1>1, <1>7, <1>10, LenProperties DEF Monotone
<1> QED
  BY <1>8, <1>11, <1>12, MovePreserves

LEMMA MarkAttemptFailedInv ==
  ASSUME Inv, NEW r \in Requests, MarkAttemptFailed(r)
  PROVE  Inv'
<1> DEFINE c == attempts[req[r].att].channel
<1>1. req[r] \in Request /\ Fits(req[r])
  BY DEF Inv, TypeOK
<1>2. req[r].att \in 1..Len(attempts)
  BY <1>1 DEF MarkAttemptFailed, MayTryAnother, At, Fits, UsesAttempt
<1>3. req[r].todo \ {c} \in SUBSET Channels /\ req[r].todo \in SUBSET Channels
  BY <1>1 DEF Request
<1>4. Moves(r)
  BY <1>3, NextChannelMoves DEF MarkAttemptFailed, MayTryAnother
<1>5. SetAttempt(req[r].att, "FAILED") /\ "FAILED" \in AttemptStatus
  BY DEF MarkAttemptFailed, MayTryAnother, AttemptStatus
<1> QED
  BY <1>2, <1>4, <1>5, StatusPreserves DEF MarkAttemptFailed, MayTryAnother

-----------------------------------------------------------------------------
(* Steps of the webhooks *)

LEMMA DeliverEventInv ==
  ASSUME Inv, NEW r \in Requests, NEW e \in Events, DeliverEvent(r, e)
  PROVE  Inv'
<1>1. req[r] \in Request /\ Fits(req[r]) /\ req[r].pc = "idle"
  BY DEF Inv, TypeOK, DeliverEvent, At
<1>2. PICK x : x = [req[r] EXCEPT !.pc = "verify", !.ret = "logProcessed", !.event = e]
  OBVIOUS
<1>3. x \in Request
  BY <1>1, <1>2 DEF Request, Labels, Returns
<1>4. /\ x.pc = "verify" /\ x.ret = "logProcessed" /\ x.event = e
      /\ x.att = req[r].att /\ x.closing = req[r].closing
  BY <1>1, <1>2 DEF Request
<1>5. e[2] = "SUCCESS" => trade[e[1]] = "paid"
  BY DEF DeliverEvent, Emitted
<1>6. Fits(x)
  BY <1>4, <1>5 DEF Fits, UsesAttempt, UsesClosing, UsesEvent
<1>7. Moves(r)
  BY <1>2, <1>3, <1>6 DEF Moves, DeliverEvent
<1>8. TablesOK'
  <2>1. overlapped' \in BOOLEAN
    BY NoteOverlapType DEF DeliverEvent, Inv
  <2> QED
    BY <2>1 DEF DeliverEvent, Inv, TypeOK, TablesOK, db, order, world
<1>9. Monotone
  BY LenProperties DEF DeliverEvent, Inv, TypeOK, Monotone, db, world
<1> QED
  BY <1>7, <1>8, <1>9, MovePreserves

\* A handler that only rewrites the event log and counts a fault.
LEMMA LogPreserves ==
  ASSUME Inv, NEW r \in Requests, Moves(r), Fault \/ UNCHANGED faults,
         processed' \subseteq Events,
         UNCHANGED <<order, attempts, payTasks, overdue, reachable, trade, history>>
  PROVE  Inv'
<1>1. faults' \in 0..MaxFaults
  BY OrderAssumption DEF Inv, TypeOK, Fault, OrderAssumption
<1>2. TablesOK'
  BY <1>1 DEF Inv, TypeOK, TablesOK, order, history
<1>3. Monotone
  BY LenProperties DEF Inv, TypeOK, Monotone
<1> QED
  BY <1>2, <1>3, MovePreserves

LEMMA VerifyNotifyInv ==
  ASSUME Inv, NEW r \in Requests, VerifyNotify(r)
  PROVE  Inv'
<1>1. req[r].event \in Events
  BY DEF Inv, Fits, VerifyNotify, At, UsesEvent
<1>2. Moves(r)
  <2>1. CASE Goto(r, "findForNotify")
    BY <1>1, <2>1, GotoMoves DEF Ready, Labels, UsesAttempt, UsesClosing, UsesEvent
  <2>2. CASE Finish(r)
    BY <2>2, FinishMoves
  <2> QED
    BY <2>1, <2>2 DEF VerifyNotify
<1>3. processed' \subseteq Events
  BY DEF VerifyNotify, Inv, TypeOK
<1> QED
  BY <1>2, <1>3, LogPreserves DEF VerifyNotify

\* The attempt an event is matched to is one whose trade the event is about.
LEMMA CandidateTrade ==
  ASSUME Inv, NEW t \in Trades, NEW i \in NotifyCandidates(t)
  PROVE  i \in 1..Len(attempts) /\ TradeOf(i) = t
<1>1. DOMAIN attempts = 1..Len(attempts)
  BY LenProperties DEF Inv, TypeOK
<1>2. i \in AttemptsOf(t[1])
  BY DEF NotifyCandidates, SessionCandidates, TradeCandidates, Holders, Latest
<1>3. i \in 1..Len(attempts) /\ attempts[i].channel = t[1]
  BY <1>1, <1>2 DEF AttemptsOf
<1>4. CASE t[1] \in SessionChannels
  <2>1. i = t[2]
    BY <1>4 DEF NotifyCandidates, SessionCandidates, TradeCandidates, Holders
  <2> QED
    BY <1>3, <1>4, <2>1 DEF TradeOf, Trades
<1>5. CASE t[1] \notin SessionChannels
  <2>1. t[2] = 0
    BY <1>5 DEF Trades
  <2> QED
    BY <1>3, <1>5, <2>1 DEF TradeOf, Trades
<1> QED
  BY <1>4, <1>5

LEMMA FindForNotifyInv ==
  ASSUME Inv, NEW r \in Requests, FindForNotify(r)
  PROVE  Inv'
<1> DEFINE e == req[r].event
<1>1. req[r] \in Request /\ Fits(req[r])
  BY DEF Inv, TypeOK
<1>2. e \in Events
  BY <1>1 DEF Fits, FindForNotify, FollowUp, SessionFollowUp, TradeFollowUp, At, UsesEvent
<1>3. e[1] \in Trades /\ e[2] \in EventKinds
  BY <1>2 DEF Events
<1>4. PICK i \in NotifyCandidates(e[1]) :
        req' = [req EXCEPT ![r] =
                  [@ EXCEPT !.att = i,
                            !.pc = IF e[2] = "SUCCESS"
                                   THEN "attemptSuccess" ELSE "attemptCancelled"]]
  BY DEF FindForNotify, FollowUp, SessionFollowUp, TradeFollowUp
<1>5. i \in 1..Len(attempts) /\ TradeOf(i) = e[1]
  BY <1>3, <1>4, CandidateTrade
<1>6. i \in 0..MaxAttempts
  BY <1>5, LenProperties, OrderAssumption DEF Inv, TypeOK, OrderAssumption
<1>7. PICK x : x = [req[r] EXCEPT !.att = i,
                                  !.pc = IF e[2] = "SUCCESS"
                                         THEN "attemptSuccess" ELSE "attemptCancelled"]
  OBVIOUS
<1>8. x \in Request
  BY <1>1, <1>6, <1>7 DEF Request, Labels
<1>9. /\ x.att = i /\ x.ret = req[r].ret /\ x.event = e /\ x.closing = req[r].closing
      /\ x.pc = IF e[2] = "SUCCESS" THEN "attemptSuccess" ELSE "attemptCancelled"
  BY <1>1, <1>7 DEF Request
<1>10. Fits(x)
  BY <1>1, <1>2, <1>5, <1>9 DEF Fits, UsesAttempt, UsesClosing, UsesEvent
<1>11. Moves(r)
  BY <1>4, <1>7, <1>8, <1>10 DEF Moves
<1> QED
  BY <1>11, QuietPreserves DEF FindForNotify, FollowUp, SessionFollowUp, TradeFollowUp

LEMMA MarkProcessedInv ==
  ASSUME Inv, NEW r \in Requests, MarkProcessed(r)
  PROVE  Inv'
<1>1. req[r].event \in Events
  BY DEF Inv, Fits, MarkProcessed, At, UsesEvent
<1>2. Moves(r)
  BY FinishMoves DEF MarkProcessed
<1>3. processed' \subseteq Events
  BY <1>1 DEF MarkProcessed, Inv, TypeOK
<1> QED
  BY <1>2, <1>3, LogPreserves DEF MarkProcessed, world

LEMMA NotifyErrorInv ==
  ASSUME Inv, NEW r \in Requests, NotifyError(r)
  PROVE  Inv'
<1>1. Moves(r)
  BY FinishMoves DEF NotifyError
<1>2. processed' \subseteq Events
  BY DEF NotifyError, Inv, TypeOK
<1> QED
  BY <1>1, <1>2, LogPreserves DEF NotifyError

LEMMA AbandonInv ==
  ASSUME Inv, NEW r \in Requests, Abandon(r)
  PROVE  Inv'
<1>1. Moves(r)
  BY FinishMoves DEF Abandon
<1> QED
  BY <1>1, FaultPreserves DEF Abandon

-----------------------------------------------------------------------------
(* Steps of the environment, and the invariant *)

\* A step that leaves the requests where they are.
LEMMA EnvironmentPreserves ==
  ASSUME Inv, UNCHANGED req, TablesOK', Monotone
  PROVE  Inv'
<1>1. ASSUME NEW q \in Requests PROVE Fits(req[q])'
  <2>1. PICK y : y = req[q]
    OBVIOUS
  <2>2. Fits(y)'
    BY <2>1, FitsKeep DEF Inv
  <2> QED
    BY <2>1, <2>2
<1> QED
  BY <1>1 DEF Inv, TypeOK, TablesOK, history

LEMMA ProviderStepInv ==
  ASSUME Inv, NEW from \in SUBSET TradeStates, NEW to \in TradeStates,
         "paid" \notin from, ProviderStep(from, to)
  PROVE  Inv'
<1>1. PICK t \in Trades : trade[t] \in from /\ trade' = [trade EXCEPT ![t] = to]
  BY DEF ProviderStep
<1>2. TablesOK'
  BY <1>1 DEF ProviderStep, Inv, TypeOK, TablesOK, db, order, history
<1>3. Monotone
  BY <1>1, LenProperties DEF ProviderStep, Inv, TypeOK, Monotone, db
<1> QED
  BY <1>2, <1>3, EnvironmentPreserves DEF ProviderStep

LEMMA DeadlinePassesInv ==
  ASSUME Inv, DeadlinePasses
  PROVE  Inv'
<1>1. TablesOK'
  BY DEF DeadlinePasses, Inv, TypeOK, TablesOK, db, order, history
<1>2. Monotone
  BY LenProperties DEF DeadlinePasses, Inv, TypeOK, Monotone, db
<1> QED
  BY <1>1, <1>2, EnvironmentPreserves DEF DeadlinePasses

LEMMA RequestStepInv ==
  ASSUME Inv, NEW r \in Requests, RequestStep(r)
  PROVE  Inv'
<1>1. CASE SyncStep(r)
  BY <1>1, ReadOrderInv, FindLatestInv, QueryChannelInv DEF SyncStep
<1>2. CASE RecordStep(r)
  BY <1>2, MarkAttemptSuccessInv, MarkOrderPaidInv, RereadOrderInv DEF RecordStep
<1>3. CASE CloseStep(r)
  BY <1>3, MarkAttemptCancelledInv, ReadForCloseInv, WriteClosedInv, PickCloseInv,
     CloseAtChannelInv, CancelAttemptInv DEF CloseStep
<1>4. CASE CashierStep(r)
  BY <1>4, SnapshotAttemptsInv, CreateAttemptInv, CreateSessionInv,
     MarkAttemptReadyInv, MarkAttemptFailedInv DEF CashierStep
<1>5. CASE NotifyStep(r)
  BY <1>5, VerifyNotifyInv, FindForNotifyInv, MarkProcessedInv DEF NotifyStep
<1> QED
  BY <1>1, <1>2, <1>3, <1>4, <1>5 DEF RequestStep

LEMMA NextInv == Inv /\ [Next]_vars => Inv'
<1> SUFFICES ASSUME Inv, [Next]_vars PROVE Inv'
  OBVIOUS
<1>1. ASSUME NEW op \in Ops \ {"notify"}, Begin(op) PROVE Inv'
  BY <1>1, BeginRequestInv DEF Begin
<1>2. ASSUME NEW e \in Events, Deliver(e) PROVE Inv'
  BY <1>2, DeliverEventInv DEF Deliver
<1>3. ASSUME NEW r \in Requests, RequestStep(r) \/ NotifyError(r) \/ Abandon(r)
      PROVE  Inv'
  BY <1>3, RequestStepInv, NotifyErrorInv, AbandonInv
<1>4. CASE PayerVisits
  BY <1>4, ProviderStepInv DEF PayerVisits, TradeStates
<1>5. CASE PayerPays
  BY <1>5, ProviderStepInv DEF PayerPays, TradeStates
<1>6. CASE ProviderCloses
  BY <1>6, ProviderStepInv DEF ProviderCloses, TradeStates
<1>7. CASE DeadlinePasses
  BY <1>7, DeadlinePassesInv
<1>8. CASE UNCHANGED vars
  <2>1. TablesOK' /\ UNCHANGED req
    BY <1>8 DEF vars, history, db, order, world, Inv, TypeOK, TablesOK
  <2>2. Monotone
    BY <1>8, LenProperties DEF vars, db, world, Inv, TypeOK, Monotone
  <2> QED
    BY <2>1, <2>2, EnvironmentPreserves
<1> QED
  BY <1>1, <1>2, <1>3, <1>4, <1>5, <1>6, <1>7, <1>8 DEF Next

LEMMA SpecInv == Spec => []Inv
BY InitInv, NextInv, PTL DEF Spec

\* Every value any interleaving of handlers, faults and events can produce has
\* its type; in particular no handler works on a row that does not exist.
THEOREM TypeCorrect == Spec => []TypeOK
<1>1. Inv => TypeOK
  BY DEF Inv
<1> QED
  BY <1>1, SpecInv, PTL

-----------------------------------------------------------------------------
(* One notification per payment *)

\* The steps that touch neither the order's status nor its notify tasks.
KeepsTasks == UNCHANGED <<orderStatus, payTasks, overwrites>>

LEMMA TaskStep == TypeOK /\ TaskPerPayment /\ [Next]_vars => TaskPerPayment'
<1> SUFFICES ASSUME TypeOK, TaskPerPayment, [Next]_vars PROVE TaskPerPayment'
  OBVIOUS
<1> USE DEF TaskPerPayment
<1>1. ASSUME KeepsTasks PROVE TaskPerPayment'
  BY <1>1 DEF KeepsTasks
<1>2. ASSUME NEW op \in Ops, NEW r \in Requests, BeginRequest(r, op) PROVE TaskPerPayment'
  BY <1>2 DEF BeginRequest, Pending, Paid
<1>3. ASSUME NEW e \in Events, NEW r \in Requests, DeliverEvent(r, e) PROVE KeepsTasks
  BY <1>3 DEF DeliverEvent, KeepsTasks, db, order, history
<1>4. ASSUME NEW r \in Requests, SyncStep(r) \/ NotifyStep(r) \/ NotifyError(r) \/ Abandon(r)
      PROVE  KeepsTasks
  BY <1>4 DEF SyncStep, NotifyStep, ReadOrder, FindLatest, QueryChannel, QueryAnswer,
     VerifyNotify,
     FindForNotify, FollowUp, SessionFollowUp, TradeFollowUp, MarkProcessed, NotifyError,
     Abandon, KeepsTasks, db, order, history
<1>5. ASSUME NEW r \in Requests, CashierStep(r) PROVE KeepsTasks
  BY <1>5 DEF CashierStep, SnapshotAttempts, CreateAttempt, CreateSession,
     MarkAttemptReady, MarkAttemptFailed, MayTryAnother, KeepsTasks, db, order, history
<1>6. ASSUME NEW r \in Requests, RecordStep(r) PROVE TaskPerPayment'
  <2>1. CASE MarkOrderPaid(r)
    <3>1. CASE RecordsPayment
      <4>1. /\ payTasks = overwrites /\ orderStatus' \in Paid
            /\ payTasks' = payTasks + 1 /\ overwrites' = overwrites
        BY <2>1, <3>1 DEF MarkOrderPaid, RecordsPayment, Paid, TypeOK, history
      <4> QED
        BY <4>1 DEF TypeOK
    <3>2. CASE ~RecordsPayment
      BY <1>1, <2>1, <3>2 DEF MarkOrderPaid, KeepsTasks, order, history
    <3> QED
      BY <3>1, <3>2
  <2>2. CASE MarkAttemptSuccess(r) \/ RereadOrder(r)
    BY <1>1, <2>2 DEF MarkAttemptSuccess, RereadOrder, KeepsTasks, db, order, history
  <2> QED
    BY <1>6, <2>1, <2>2 DEF RecordStep
<1>7. ASSUME NEW r \in Requests, CloseStep(r) PROVE TaskPerPayment'
  <2>1. CASE WriteClosed(r)
    <3>1. orderStatus' \notin Paid /\ payTasks' = payTasks
      BY <2>1 DEF WriteClosed, Paid
    <3>2. overwrites' = IF orderStatus \in Paid THEN overwrites + 1 ELSE overwrites
      BY <2>1 DEF WriteClosed
    <3> QED
      BY <3>1, <3>2 DEF TypeOK
  <2>2. CASE MarkAttemptCancelled(r) \/ ReadForClose(r) \/ PickClose(r)
    BY <1>1, <2>2 DEF MarkAttemptCancelled, FollowUp, SessionFollowUp, TradeFollowUp,
       ReadForClose, PickClose, KeepsTasks, db, order, history
  <2>3. CASE CloseAtChannel(r) \/ CancelAttempt(r)
    BY <1>1, <2>3 DEF CloseAtChannel, ClosesAt, SessionCloses, TradeCloses, LeavesAt,
       CancelAttempt, KeepsTasks, db, order, history
  <2> QED
    BY <1>7, <2>1, <2>2, <2>3 DEF CloseStep
<1>8. CASE PayerVisits \/ PayerPays \/ ProviderCloses \/ DeadlinePasses \/ UNCHANGED vars
  BY <1>1, <1>8 DEF PayerVisits, PayerPays, ProviderCloses, ProviderStep, DeadlinePasses,
     KeepsTasks, vars, db, order, history
<1> QED
  BY <1>1, <1>2, <1>3, <1>4, <1>5, <1>6, <1>7, <1>8 DEF Next, Begin, Deliver, RequestStep

\* markOrderPaidFromChannel creates the notify task in the transaction that
\* makes the order paid, and only then: one task per payment recorded, for any
\* number of concurrent handlers, repeated events, crashes and attempts.
THEOREM OneTaskPerPayment == Spec => []TaskPerPayment
<1>1. Init => TaskPerPayment
  BY DEF Init, TaskPerPayment, Paid
<1> QED
  BY <1>1, TaskStep, TypeCorrect, PTL DEF Spec

-----------------------------------------------------------------------------
(* Paid means paid *)

\* No step takes a paid trade back.
LEMMA PaidStays ==
  ASSUME Inv, [Next]_vars, NEW t \in Trades, trade[t] = "paid"
  PROVE  trade'[t] = "paid"
<1>1. trade \in [Trades -> TradeStates]
  BY DEF Inv, TypeOK
<1>2. ASSUME NEW from \in SUBSET TradeStates, NEW to \in TradeStates,
             "paid" \notin from, ProviderStep(from, to)
      PROVE  trade'[t] = "paid"
  BY <1>1, <1>2 DEF ProviderStep
<1>3. CASE PayerVisits
  BY <1>2, <1>3 DEF PayerVisits, TradeStates
<1>4. CASE PayerPays
  BY <1>2, <1>4 DEF PayerPays, TradeStates
<1>5. CASE ProviderCloses
  BY <1>2, <1>5 DEF ProviderCloses, TradeStates
<1>6. ASSUME NEW r \in Requests, CloseAtChannel(r) PROVE trade'[t] = "paid"
  BY <1>1, <1>6 DEF CloseAtChannel, ClosesAt, SessionCloses, TradeCloses, LeavesAt
<1>7. ASSUME NEW r \in Requests, CreateSession(r) PROVE trade'[t] = "paid"
  BY <1>1, <1>7 DEF CreateSession, CreateTrade
<1>8. ASSUME NEW r \in Requests, MarkAttemptReady(r) PROVE trade'[t] = "paid"
  BY <1>1, <1>8 DEF MarkAttemptReady
<1>9. ASSUME NEW r \in Requests, RequestStep(r) PROVE trade'[t] = "paid"
  <2>1. CASE SyncStep(r) \/ NotifyStep(r)
    BY <2>1 DEF SyncStep, NotifyStep, ReadOrder, FindLatest, QueryChannel, QueryAnswer,
       VerifyNotify,
       FindForNotify, FollowUp, SessionFollowUp, TradeFollowUp, MarkProcessed, world
  <2>2. CASE RecordStep(r)
    BY <2>2 DEF RecordStep, MarkAttemptSuccess, MarkOrderPaid, RereadOrder, world
  <2>3. CASE CloseStep(r)
    BY <1>6, <2>3 DEF CloseStep, MarkAttemptCancelled, FollowUp, SessionFollowUp, TradeFollowUp,
       ReadForClose, WriteClosed,
       PickClose, CancelAttempt, world
  <2>4. CASE CashierStep(r)
    BY <1>7, <1>8, <2>4 DEF CashierStep, SnapshotAttempts, CreateAttempt,
       MarkAttemptFailed, MayTryAnother, world
  <2> QED
    BY <1>9, <2>1, <2>2, <2>3, <2>4 DEF RequestStep
<1>10. ASSUME NEW op \in Ops, Begin(op) PROVE trade'[t] = "paid"
  BY <1>10 DEF Begin, BeginRequest, world
<1>11. ASSUME NEW e \in Events, Deliver(e) PROVE trade'[t] = "paid"
  BY <1>11 DEF Deliver, DeliverEvent, world
<1>12. ASSUME NEW r \in Requests, NotifyError(r) \/ Abandon(r) PROVE trade'[t] = "paid"
  BY <1>12 DEF NotifyError, Abandon
<1>13. CASE DeadlinePasses \/ UNCHANGED vars
  BY <1>13 DEF DeadlinePasses, vars, world
<1> QED
  BY <1>3, <1>4, <1>5, <1>9, <1>10, <1>11, <1>12, <1>13 DEF Next

\* The steps after which an order is paid only if it was before, by the channel
\* that paid it then.
KeepsPayment == orderStatus' \in Paid => orderStatus \in Paid /\ UNCHANGED successChannel

LEMMA PaymentStep == Inv /\ PaymentIsReal /\ [Next]_vars => PaymentIsReal'
<1> SUFFICES ASSUME Inv, PaymentIsReal, [Next]_vars PROVE PaymentIsReal'
  OBVIOUS
<1>1. ASSUME KeepsPayment PROVE PaymentIsReal'
  <2> SUFFICES ASSUME (orderStatus \in Paid)'
               PROVE  \E t \in Trades : t[1] = successChannel' /\ trade'[t] = "paid"
    BY DEF PaymentIsReal
  <2>1. PICK t \in Trades : t[1] = successChannel /\ trade[t] = "paid"
    BY <1>1 DEF KeepsPayment, PaymentIsReal
  <2> QED
    BY <1>1, <2>1, PaidStays DEF KeepsPayment
<1>2. ASSUME NEW r \in Requests, MarkOrderPaid(r), RecordsPayment PROVE PaymentIsReal'
  <2> DEFINE t == TradeOf(req[r].att)
  <2>1. trade[t] = "paid" /\ req[r].att \in 1..Len(attempts)
    BY <1>2 DEF Inv, Fits, MarkOrderPaid, At, UsesAttempt
  <2>2. t \in Trades
    BY <2>1, TradeOfType DEF Inv
  <2>3. t[1] = successChannel'
    BY <1>2 DEF MarkOrderPaid, SuccessChannelOf, TradeOf
  <2> QED
    BY <2>1, <2>2, <2>3, PaidStays DEF PaymentIsReal
<1>3. ASSUME NEW r \in Requests, RequestStep(r) PROVE PaymentIsReal'
  <2>1. CASE SyncStep(r) \/ NotifyStep(r)
    BY <1>1, <2>1 DEF SyncStep, NotifyStep, ReadOrder, FindLatest, QueryChannel, QueryAnswer,
       VerifyNotify, FindForNotify, FollowUp, SessionFollowUp, TradeFollowUp, MarkProcessed,
       KeepsPayment, db, order
  <2>2. CASE RecordStep(r)
    BY <1>1, <1>2, <2>2 DEF RecordStep, MarkAttemptSuccess, MarkOrderPaid, RereadOrder,
       KeepsPayment, db, order
  <2>3. CASE CloseStep(r)
    BY <1>1, <2>3 DEF CloseStep, MarkAttemptCancelled, FollowUp, SessionFollowUp, TradeFollowUp,
       ReadForClose, WriteClosed,
       PickClose, CloseAtChannel, ClosesAt, SessionCloses, TradeCloses, LeavesAt, CancelAttempt,
       KeepsPayment, Paid, db, order
  <2>4. CASE CashierStep(r)
    BY <1>1, <2>4 DEF CashierStep, SnapshotAttempts, CreateAttempt, CreateSession,
       MarkAttemptReady, MarkAttemptFailed, MayTryAnother, KeepsPayment, db, order
  <2> QED
    BY <1>3, <2>1, <2>2, <2>3, <2>4 DEF RequestStep
<1>4. ASSUME NEW op \in Ops, Begin(op) PROVE PaymentIsReal'
  BY <1>1, <1>4 DEF Begin, BeginRequest, KeepsPayment, Paid
<1>5. ASSUME NEW e \in Events, Deliver(e) PROVE PaymentIsReal'
  BY <1>1, <1>5 DEF Deliver, DeliverEvent, KeepsPayment, db, order
<1>6. ASSUME NEW r \in Requests, NotifyError(r) \/ Abandon(r) PROVE PaymentIsReal'
  BY <1>1, <1>6 DEF NotifyError, Abandon, KeepsPayment, db, order
<1>7. CASE PayerVisits \/ PayerPays \/ ProviderCloses \/ DeadlinePasses \/ UNCHANGED vars
  BY <1>1, <1>7 DEF PayerVisits, PayerPays, ProviderCloses, ProviderStep, DeadlinePasses,
     KeepsPayment, vars, db, order
<1> QED
  BY <1>3, <1>4, <1>5, <1>6, <1>7 DEF Next

\* An order becomes paid only through an attempt whose own trade is paid, so
\* its success channel always names a provider that holds the payer's money.
THEOREM PaymentsAreReal == Spec => []PaymentIsReal
<1>1. Init => PaymentIsReal
  BY DEF Init, PaymentIsReal, Paid
<1> QED
  BY <1>1, PaymentStep, SpecInv, PTL DEF Spec

-----------------------------------------------------------------------------
(* A successful attempt has been paid *)

\* A step after which every SUCCESS row was one before.
KeepsSuccess ==
  \A j \in 1..Len(attempts') :
    attempts'[j].status = "SUCCESS" =>
      /\ j \in 1..Len(attempts)
      /\ attempts[j].status = "SUCCESS"
      /\ attempts'[j].channel = attempts[j].channel

LEMMA StatusKeepsSuccess ==
  ASSUME Inv, NEW i \in 1..Len(attempts), NEW s \in AttemptStatus \ {"SUCCESS"},
         SetAttempt(i, s)
  PROVE  KeepsSuccess
BY StatusUpdate DEF Inv, KeepsSuccess

LEMMA ReadyKeepsSuccess ==
  ASSUME Inv, NEW r \in Requests, MarkAttemptReady(r)
  PROVE  KeepsSuccess
<1> DEFINE i == req[r].att
<1>1. i \in 1..Len(attempts) /\ attempts \in Seq(Attempt)
  BY DEF MarkAttemptReady, At, Inv, Fits, TypeOK, UsesAttempt
<1>2. attempts[i] \in Attempt
  BY <1>1, ElementOfSeq
<1>3. ReadyRow(i) \in Attempt /\ ReadyRow(i).status = "USER_PAYING"
      /\ ReadyRow(i).channel = attempts[i].channel
  <2>1. PICK a : a = ReadyRow(i)
    OBVIOUS
  <2>2. /\ DOMAIN a = {"channel", "status", "known"}
        /\ a = [attempts[i] EXCEPT !.status = a.status, !.known = a.known]
        /\ a.status = "USER_PAYING" /\ a.channel = attempts[i].channel
        /\ a.known \in BOOLEAN
    BY <1>2, <2>1 DEF ReadyRow, Attempt
  <2> QED
    BY <1>2, <2>1, <2>2 DEF Attempt, AttemptStatus
<1>4. attempts' = [attempts EXCEPT ![i] = ReadyRow(i)]
  BY DEF MarkAttemptReady
<1> QED
  BY <1>1, <1>3, <1>4, RowUpdate DEF Inv, KeepsSuccess

LEMMA CreateKeepsSuccess ==
  ASSUME Inv, NEW r \in Requests, CreateAttempt(r)
  PROVE  KeepsSuccess
<1>1. attempts \in Seq(Attempt) /\ Len(attempts) \in Nat
  BY LenProperties DEF Inv, TypeOK
<1>2. CASE UNCHANGED attempts
  BY <1>2 DEF KeepsSuccess
<1>3. CASE ~UNCHANGED attempts
  <2>1. PICK c \in req[r].todo : attempts' = Append(attempts, NewAttempt(c))
    BY <1>3 DEF CreateAttempt
  <2>2. c \in Channels
    BY <2>1 DEF Inv, TypeOK, Request
  <2>3. NewAttempt(c) \in Attempt /\ NewAttempt(c).status # "SUCCESS"
    BY <2>2 DEF NewAttempt, Attempt, AttemptStatus
  <2> QED
    BY <1>1, <2>1, <2>3, AppendProperties DEF KeepsSuccess
<1> QED
  BY <1>2, <1>3

LEMMA SuccessStep == Inv /\ SuccessfulAttemptIsPaid /\ [Next]_vars => SuccessfulAttemptIsPaid'
<1> SUFFICES ASSUME Inv, SuccessfulAttemptIsPaid, [Next]_vars
             PROVE  SuccessfulAttemptIsPaid'
  OBVIOUS
<1>1. /\ DOMAIN attempts = 1..Len(attempts) /\ attempts \in Seq(Attempt)
      /\ attempts' \in Seq(Attempt) /\ DOMAIN attempts' = 1..Len(attempts')
  BY NextInv, LenProperties DEF Inv, TypeOK
<1>2. ASSUME KeepsSuccess PROVE SuccessfulAttemptIsPaid'
  <2> SUFFICES ASSUME NEW j \in 1..Len(attempts'), attempts'[j].status = "SUCCESS"
               PROVE  trade'[TradeOf(j)'] = "paid"
    BY <1>1 DEF SuccessfulAttemptIsPaid
  <2>1. j \in 1..Len(attempts) /\ trade[TradeOf(j)] = "paid" /\ TradeOf(j)' = TradeOf(j)
    BY <1>1, <1>2 DEF KeepsSuccess, SuccessfulAttemptIsPaid, TradeOf
  <2> QED
    BY <2>1, TradeOfType, PaidStays DEF Inv
<1>3. ASSUME UNCHANGED attempts PROVE SuccessfulAttemptIsPaid'
  BY <1>2, <1>3 DEF KeepsSuccess
<1>4. ASSUME NEW r \in Requests, MarkAttemptSuccess(r) PROVE SuccessfulAttemptIsPaid'
  <2> DEFINE i == req[r].att
  <2>1. i \in 1..Len(attempts) /\ trade[TradeOf(i)] = "paid"
    BY <1>4 DEF Inv, Fits, MarkAttemptSuccess, At, UsesAttempt
  <2>2. PICK a : a = [attempts[i] EXCEPT !.status = "SUCCESS", !.known = TRUE]
    OBVIOUS
  <2>3. attempts[i] \in Attempt
    BY <1>1, <2>1, ElementOfSeq
  <2>4. a \in Attempt /\ a.channel = attempts[i].channel
    BY <2>2, <2>3 DEF Attempt, AttemptStatus
  <2>5. attempts' = [attempts EXCEPT ![i] = a]
    BY <1>4, <2>2 DEF MarkAttemptSuccess
  <2>6. /\ Len(attempts') = Len(attempts)
        /\ \A j \in 1..Len(attempts) : attempts'[j] = IF j = i THEN a ELSE attempts[j]
        /\ \A j \in 1..Len(attempts) : attempts'[j].channel = attempts[j].channel
    BY <2>1, <2>4, <2>5, RowUpdate DEF Inv
  <2> SUFFICES ASSUME NEW j \in 1..Len(attempts), attempts'[j].status = "SUCCESS"
               PROVE  trade'[TradeOf(j)'] = "paid"
    BY <1>1, <2>6 DEF SuccessfulAttemptIsPaid
  <2>7. TradeOf(j)' = TradeOf(j) /\ TradeOf(j) \in Trades
    BY <2>6, TradeOfType DEF TradeOf, Inv
  <2>8. trade[TradeOf(j)] = "paid"
    BY <1>1, <2>1, <2>6 DEF SuccessfulAttemptIsPaid
  <2> QED
    BY <2>7, <2>8, PaidStays
<1>5. ASSUME NEW r \in Requests, RequestStep(r) PROVE SuccessfulAttemptIsPaid'
  <2>1. CASE SyncStep(r) \/ NotifyStep(r)
    BY <1>3, <2>1 DEF SyncStep, NotifyStep, ReadOrder, FindLatest, QueryChannel, QueryAnswer,
       VerifyNotify, FindForNotify, FollowUp, SessionFollowUp, TradeFollowUp, MarkProcessed, db
  <2>2. CASE RecordStep(r)
    BY <1>3, <1>4, <2>2 DEF RecordStep, MarkOrderPaid, RereadOrder, db
  <2>3. CASE MarkAttemptCancelled(r)
    <3>1. req[r].att \in 1..Len(attempts)
      BY <2>3 DEF MarkAttemptCancelled, FollowUp, SessionFollowUp, TradeFollowUp, At, Inv, Fits,
         UsesAttempt
    <3> QED
      BY <1>2, <2>3, <3>1, StatusKeepsSuccess DEF MarkAttemptCancelled, FollowUp,
         SessionFollowUp, TradeFollowUp, AttemptStatus
  <2>4. CASE CancelAttempt(r)
    <3>1. req[r].closing \in 1..Len(attempts)
      BY <2>4 DEF CancelAttempt, At, Inv, Fits, UsesClosing
    <3> QED
      BY <1>2, <1>3, <2>4, <3>1, StatusKeepsSuccess DEF CancelAttempt, AttemptStatus
  <2>5. CASE ReadForClose(r) \/ WriteClosed(r) \/ PickClose(r) \/ CloseAtChannel(r)
    BY <1>3, <2>5 DEF ReadForClose, WriteClosed, PickClose, CloseAtChannel, ClosesAt,
       SessionCloses, TradeCloses, LeavesAt, db
  <2>6. CASE MarkAttemptFailed(r)
    <3>1. req[r].att \in 1..Len(attempts)
      BY <2>6 DEF MarkAttemptFailed, MayTryAnother, At, Inv, Fits, UsesAttempt
    <3> QED
      BY <1>2, <2>6, <3>1, StatusKeepsSuccess DEF MarkAttemptFailed, MayTryAnother,
         AttemptStatus
  <2>7. CASE SnapshotAttempts(r) \/ CreateSession(r)
    BY <1>3, <2>7 DEF SnapshotAttempts, CreateSession, db
  <2>8. CASE CreateAttempt(r) \/ MarkAttemptReady(r)
    BY <1>2, <2>8, CreateKeepsSuccess, ReadyKeepsSuccess
  <2> QED
    BY <1>5, <2>1, <2>2, <2>3, <2>4, <2>5, <2>6, <2>7, <2>8
       DEF RequestStep, CloseStep, CashierStep
<1>6. ASSUME NEW op \in Ops, Begin(op) PROVE SuccessfulAttemptIsPaid'
  BY <1>3, <1>6 DEF Begin, BeginRequest
<1>7. ASSUME NEW e \in Events, Deliver(e) PROVE SuccessfulAttemptIsPaid'
  BY <1>3, <1>7 DEF Deliver, DeliverEvent, db
<1>8. ASSUME NEW r \in Requests, NotifyError(r) \/ Abandon(r) PROVE SuccessfulAttemptIsPaid'
  BY <1>3, <1>8 DEF NotifyError, Abandon, db
<1>9. CASE PayerVisits \/ PayerPays \/ ProviderCloses \/ DeadlinePasses \/ UNCHANGED vars
  BY <1>3, <1>9 DEF PayerVisits, PayerPays, ProviderCloses, ProviderStep, DeadlinePasses,
     vars, db
<1> QED
  BY <1>5, <1>6, <1>7, <1>8, <1>9 DEF Next

\* markAttemptSuccess is reached only with an attempt whose own trade is paid:
\* findAttemptForNotify never pins an event on another trade's attempt.
THEOREM SuccessesArePaid == Spec => []SuccessfulAttemptIsPaid
<1>1. Init => SuccessfulAttemptIsPaid
  BY DEF Init, SuccessfulAttemptIsPaid
<1> QED
  BY <1>1, SuccessStep, SpecInv, PTL DEF Spec


-----------------------------------------------------------------------------
(* Acknowledged payments are told *)

\* Where a webhook handler is, and where one that reports a payment is.
NotifyLabels == {"verify", "findForNotify", "attemptSuccess", "orderPaid",
                 "attemptCancelled", "readForClose", "writeClosed", "logProcessed"}
TellLabels   == {"verify", "findForNotify", "attemptSuccess", "orderPaid", "logProcessed"}

\* Only a webhook handler writes the event log, and one that reports a payment
\* comes there by way of markOrderPaidFromChannel; n is the number of tasks.
Tells(x, n) ==
  /\ x.ret = "logProcessed" => x.pc \in NotifyLabels
  /\ x.pc \in UsesEvent => x.ret = "logProcessed"
  /\ (x.ret = "logProcessed" /\ x.event[2] = "SUCCESS") => x.pc \in TellLabels
  /\ (x.pc = "logProcessed" /\ x.event[2] = "SUCCESS") => n > 0

Told == /\ Inv /\ TaskPerPayment
        /\ ProcessedPaymentIsTold
        /\ \A r \in Requests : Tells(req[r], payTasks)

LEMMA IdleTells == \A n : Tells(Idle, n)
BY DEF Tells, Idle, UsesEvent

LEMMA TasksGrow == TypeOK /\ [Next]_vars => payTasks \in Nat /\ payTasks' \in Nat /\ payTasks <= payTasks'
<1> SUFFICES ASSUME TypeOK, [Next]_vars PROVE payTasks \in Nat /\ payTasks' \in Nat /\ payTasks <= payTasks'
  OBVIOUS
<1>1. payTasks \in Nat
  BY DEF TypeOK
<1>2. payTasks' = payTasks \/ payTasks' = payTasks + 1
  <2>1. CASE UNCHANGED vars
    BY <2>1 DEF vars, db
  <2>2. ASSUME NEW r \in Requests, SyncStep(r) \/ NotifyStep(r) \/ NotifyError(r) \/ Abandon(r)
        PROVE  payTasks' = payTasks
    BY <2>2 DEF SyncStep, NotifyStep, ReadOrder, FindLatest, QueryChannel, QueryAnswer,
       VerifyNotify,
       FindForNotify, FollowUp, SessionFollowUp, TradeFollowUp, MarkProcessed, NotifyError,
       Abandon, db
  <2>3. ASSUME NEW r \in Requests, CashierStep(r) PROVE payTasks' = payTasks
    BY <2>3 DEF CashierStep, SnapshotAttempts, CreateAttempt, CreateSession,
       MarkAttemptReady, MarkAttemptFailed, MayTryAnother, db
  <2>4. ASSUME NEW r \in Requests, RecordStep(r)
        PROVE  payTasks' = payTasks \/ payTasks' = payTasks + 1
    BY <2>4 DEF RecordStep, MarkAttemptSuccess, MarkOrderPaid, RereadOrder, db
  <2>5. ASSUME NEW r \in Requests, CloseStep(r) PROVE payTasks' = payTasks
    BY <2>5 DEF CloseStep, MarkAttemptCancelled, FollowUp, SessionFollowUp, TradeFollowUp,
       ReadForClose, WriteClosed, PickClose,
       CloseAtChannel, ClosesAt, SessionCloses, TradeCloses, LeavesAt, CancelAttempt, db
  <2>6. CASE PayerVisits \/ PayerPays \/ ProviderCloses \/ DeadlinePasses
    BY <2>6 DEF PayerVisits, PayerPays, ProviderCloses, ProviderStep, DeadlinePasses, db
  <2>7. ASSUME NEW r \in Requests, NEW op, BeginRequest(r, op) PROVE payTasks' = payTasks
    BY <2>7 DEF BeginRequest
  <2>8. ASSUME NEW r \in Requests, NEW e, DeliverEvent(r, e) PROVE payTasks' = payTasks
    BY <2>8 DEF DeliverEvent, db
  <2> QED
    BY <2>1, <2>2, <2>3, <2>4, <2>5, <2>6, <2>7, <2>8 DEF Next, Begin, Deliver, RequestStep
<1> QED
  BY <1>1, <1>2

\* A request that moves on, keeping its event and where it returns to.
LEMMA GotoTells ==
  ASSUME Inv, NEW r \in Requests, NEW l \in Labels, NEW n, Goto(r, l),
         Tells(req[r], n), req[r].ret = "logProcessed" => l \in NotifyLabels,
         l \in UsesEvent => req[r].ret = "logProcessed",
         (req[r].ret = "logProcessed" /\ req[r].event[2] = "SUCCESS") =>
           /\ l \in TellLabels
           /\ l = "logProcessed" => n > 0
  PROVE  Tells(req'[r], n)
<1>1. req[r] \in Request /\ req \in [Requests -> Request]
  BY DEF Inv, TypeOK
<1>2. req'[r] = [req[r] EXCEPT !.pc = l]
  BY <1>1 DEF Goto
<1>3. req'[r].pc = l /\ req'[r].ret = req[r].ret /\ req'[r].event = req[r].event
  BY <1>1, <1>2 DEF Request
<1> QED
  BY <1>3 DEF Tells, UsesEvent

LEMMA FinishTells ==
  ASSUME Inv, NEW r \in Requests, NEW n, Finish(r)
  PROVE  Tells(req'[r], n)
<1>1. req'[r] = Idle
  BY DEF Finish, Inv, TypeOK
<1> QED
  BY <1>1, IdleTells

\* A webhook handler that returns from a helper it called reports no payment.
LEMMA ReturnTells ==
  ASSUME Inv, NEW r \in Requests, NEW n, NEW st, Return(r, st),
         req[r].ret = "logProcessed" => req[r].event[2] # "SUCCESS"
  PROVE  Tells(req'[r], n)
<1>1. req[r] \in Request /\ req \in [Requests -> Request]
  BY DEF Inv, TypeOK
<1>2. CASE req[r].ret = "idle"
  <2>1. req'[r] = Idle
    BY <1>1, <1>2 DEF Return
  <2> QED
    BY <2>1, IdleTells
<1>3. CASE req[r].ret # "idle"
  <2>1. req'[r] = [req[r] EXCEPT !.pc = req[r].ret, !.seen = st]
    BY <1>1, <1>3 DEF Return
  <2>2. /\ req'[r].pc = req[r].ret /\ req'[r].ret = req[r].ret
        /\ req'[r].event = req[r].event /\ req[r].ret \in Returns
    BY <1>1, <2>1 DEF Request
  <2> QED
    BY <2>2 DEF Tells, Returns, UsesEvent, NotifyLabels
<1> QED
  BY <1>2, <1>3

\* A request that is no webhook handler does not become one by going on.
LEMMA OtherTells ==
  ASSUME NEW y, NEW n, y.ret # "logProcessed", y.pc \notin UsesEvent
  PROVE  Tells(y, n)
BY DEF Tells, UsesEvent

LEMMA SyncTells ==
  ASSUME Inv, NEW r \in Requests, Tells(req[r], payTasks), SyncStep(r)
  PROVE  Tells(req'[r], payTasks')
<1>1. req[r] \in Request /\ req \in [Requests -> Request]
  BY DEF Inv, TypeOK
<1>2. req[r].ret # "logProcessed"
  BY DEF SyncStep, ReadOrder, FindLatest, QueryChannel, QueryAnswer, At, Tells, NotifyLabels
<1>3. CASE ReadOrder(r)
  <2>1. CASE orderStatus \in Pending
    <3>1. req'[r] = [req[r] EXCEPT !.pc = "findLatest", !.seen = orderStatus]
      BY <1>1, <1>3, <2>1 DEF ReadOrder
    <3>2. req'[r].ret = req[r].ret /\ req'[r].pc = "findLatest"
      BY <1>1, <3>1 DEF Request
    <3> QED
      BY <1>2, <3>2, OtherTells DEF UsesEvent
  <2>2. CASE orderStatus \notin Pending
    BY <1>2, <1>3, <2>2, ReturnTells DEF ReadOrder
  <2> QED
    BY <2>1, <2>2
<1>4. CASE FindLatest(r)
  <2>1. CASE attempts = <<>>
    BY <1>2, <1>4, <2>1, ReturnTells DEF FindLatest
  <2>2. CASE attempts # <<>>
    <3>1. req'[r] = [req[r] EXCEPT !.pc = "queryChannel", !.att = LatestAttempt]
      BY <1>1, <1>4, <2>2 DEF FindLatest
    <3>2. req'[r].ret = req[r].ret /\ req'[r].pc = "queryChannel"
      BY <1>1, <3>1 DEF Request
    <3> QED
      BY <1>2, <3>2, OtherTells DEF UsesEvent
  <2> QED
    BY <2>1, <2>2
<1>5. CASE QueryChannel(r)
  <2>1. \/ Goto(r, "attemptSuccess") \/ Goto(r, "attemptCancelled")
        \/ Return(r, req[r].seen) \/ Finish(r)
    BY <1>5 DEF QueryChannel, QueryAnswer
  <2>4. payTasks' = payTasks
    BY <1>5 DEF QueryChannel, QueryAnswer, db
  <2>2. CASE Goto(r, "attemptSuccess") \/ Goto(r, "attemptCancelled")
    BY <1>2, <2>2, <2>4, GotoTells DEF Labels, UsesEvent
  <2>3. CASE Return(r, req[r].seen) \/ Finish(r)
    BY <1>2, <2>3, ReturnTells, FinishTells
  <2> QED
    BY <2>1, <2>2, <2>3
<1> QED
  BY <1>3, <1>4, <1>5 DEF SyncStep

\* MarkOrderPaid is where a payment comes to be told, or has been before.
LEMMA RecordTells ==
  ASSUME Inv, TaskPerPayment, TaskPerPayment', NEW r \in Requests, Tells(req[r], payTasks),
         [Next]_vars, RecordStep(r)
  PROVE  Tells(req'[r], payTasks')
<1>1. req[r] \in Request /\ req \in [Requests -> Request] /\ TypeOK
  BY DEF Inv, TypeOK
<1>2. CASE MarkAttemptSuccess(r)
  BY <1>2, GotoTells DEF MarkAttemptSuccess, Labels, UsesEvent, NotifyLabels, TellLabels
<1>3. CASE RereadOrder(r)
  <2>1. req[r].ret # "logProcessed"
    BY <1>3 DEF RereadOrder, At, Tells, NotifyLabels
  <2> QED
    BY <1>3, <2>1, ReturnTells DEF RereadOrder
<1>4. CASE MarkOrderPaid(r)
  <2> DEFINE l == IF req[r].ret = "logProcessed" THEN "logProcessed" ELSE "rereadOrder"
  <2>1. payTasks' > 0
    <3>1. orderStatus' \in Paid
      BY <1>4 DEF MarkOrderPaid, RecordsPayment, Paid, order
    <3>2. overwrites \in Nat /\ overwrites' = overwrites
      BY <1>1, <1>4 DEF TypeOK, MarkOrderPaid, history
    <3> QED
      BY <3>1, <3>2 DEF TaskPerPayment
  <2>2. Goto(r, l)
    BY <1>4 DEF MarkOrderPaid
  <2>3. Tells(req[r], payTasks')
    BY <1>4 DEF Tells, MarkOrderPaid, At, UsesEvent
  <2> QED
    BY <2>1, <2>2, <2>3, GotoTells DEF Labels, UsesEvent, NotifyLabels, TellLabels
<1> QED
  BY <1>2, <1>3, <1>4 DEF RecordStep

LEMMA CloseTells ==
  ASSUME Inv, NEW r \in Requests, Tells(req[r], payTasks), CloseStep(r)
  PROVE  Tells(req'[r], payTasks')
<1>1. req[r] \in Request /\ req \in [Requests -> Request]
  BY DEF Inv, TypeOK
<1>2. req[r].ret = "logProcessed" => req[r].event[2] # "SUCCESS"
  BY DEF CloseStep, MarkAttemptCancelled, FollowUp, SessionFollowUp, TradeFollowUp,
     ReadForClose, WriteClosed, PickClose,
     CloseAtChannel, ClosesAt, SessionCloses, TradeCloses, LeavesAt, CancelAttempt, At, Tells,
     NotifyLabels, TellLabels
<1>3. CASE MarkAttemptCancelled(r)
  <2>1. (Goto(r, "logProcessed") /\ req[r].ret = "logProcessed") \/ Goto(r, "readForClose")
    BY <1>3 DEF MarkAttemptCancelled, FollowUp, SessionFollowUp, TradeFollowUp
  <2> QED
    BY <1>2, <1>3, <2>1, GotoTells DEF MarkAttemptCancelled, FollowUp, SessionFollowUp,
       TradeFollowUp, Labels, UsesEvent, NotifyLabels
<1>4. CASE ReadForClose(r)
  <2>1. Goto(r, "writeClosed") \/ Return(r, orderStatus)
    BY <1>4 DEF ReadForClose
  <2>2. payTasks' = payTasks
    BY <1>4 DEF ReadForClose, db
  <2> QED
    BY <1>2, <1>4, <2>1, <2>2, GotoTells, ReturnTells DEF ReadForClose, Labels, UsesEvent,
       NotifyLabels
<1>5. CASE WriteClosed(r)
  BY <1>2, <1>5, ReturnTells DEF WriteClosed
<1>6. CASE PickClose(r)
  <2>1. CASE Finish(r)
    BY <2>1, FinishTells
  <2>2. CASE ~Finish(r)
    <3>1. req'[r] = [req[r] EXCEPT !.pc = CloseStart, !.ret = "idle", !.closing = LatestAttempt]
      BY <1>1, <1>6, <2>2 DEF PickClose
    <3>2. req'[r].ret = "idle" /\ req'[r].pc \in {"readForClose", "closeAtChannel"}
      BY <1>1, <3>1 DEF Request, CloseStart
    <3> QED
      BY <3>2, OtherTells DEF UsesEvent
  <2> QED
    BY <2>1, <2>2
<1>7. CASE CloseAtChannel(r)
  <2>1. req[r].ret # "logProcessed"
    BY <1>7 DEF CloseAtChannel, ClosesAt, SessionCloses, TradeCloses, LeavesAt, At, Tells,
       NotifyLabels
  <2>4. payTasks' = payTasks
    BY <1>7 DEF CloseAtChannel, ClosesAt, SessionCloses, TradeCloses, LeavesAt, db
  <2>2. CASE Goto(r, "cancelAttempt") \/ Finish(r)
    BY <2>1, <2>2, <2>4, <1>7, GotoTells, FinishTells DEF Labels, UsesEvent
  <2>3. CASE ~(Goto(r, "cancelAttempt") \/ Finish(r))
    <3>1. req'[r] = [req[r] EXCEPT !.pc = "findLatest", !.ret = "cancelAttempt"]
      BY <1>1, <1>7, <2>3 DEF CloseAtChannel, ClosesAt, SessionCloses, TradeCloses, LeavesAt
    <3>2. req'[r].ret = "cancelAttempt" /\ req'[r].pc = "findLatest"
      BY <1>1, <3>1 DEF Request
    <3> QED
      BY <3>2, OtherTells DEF UsesEvent
  <2> QED
    BY <2>2, <2>3
<1>8. CASE CancelAttempt(r)
  <2>1. CASE Finish(r)
    BY <2>1, FinishTells
  <2>2. CASE ~Finish(r)
    <3>1. req'[r] = [req[r] EXCEPT !.pc = "readForClose", !.ret = "idle"]
      BY <1>1, <1>8, <2>2 DEF CancelAttempt
    <3>2. req'[r].ret = "idle" /\ req'[r].pc = "readForClose"
      BY <1>1, <3>1 DEF Request
    <3> QED
      BY <3>2, OtherTells DEF UsesEvent
  <2> QED
    BY <2>1, <2>2
<1> QED
  BY <1>3, <1>4, <1>5, <1>6, <1>7, <1>8 DEF CloseStep

LEMMA NextChannelTells ==
  ASSUME Inv, NEW r \in Requests, NEW n, NEW todo, req[r].ret # "logProcessed",
         NextChannel(r, todo)
  PROVE  Tells(req'[r], n)
<1>1. req[r] \in Request /\ req \in [Requests -> Request]
  BY DEF Inv, TypeOK
<1>2. CASE todo # {}
  <2>1. req'[r] = [req[r] EXCEPT !.pc = "createAttempt", !.todo = todo]
    BY <1>1, <1>2 DEF NextChannel
  <2>2. req'[r].ret = req[r].ret /\ req'[r].pc = "createAttempt"
    BY <1>1, <2>1 DEF Request
  <2> QED
    BY <2>2, OtherTells DEF UsesEvent
<1> QED
  BY <1>2, FinishTells DEF NextChannel

LEMMA CashierTells ==
  ASSUME Inv, NEW r \in Requests, Tells(req[r], payTasks), CashierStep(r)
  PROVE  Tells(req'[r], payTasks')
<1>1. req[r] \in Request /\ req \in [Requests -> Request]
  BY DEF Inv, TypeOK
<1>2. req[r].ret # "logProcessed"
  BY DEF CashierStep, SnapshotAttempts, CreateAttempt, CreateSession, MarkAttemptReady,
     MarkAttemptFailed, MayTryAnother, At, Tells, NotifyLabels
<1>3. CASE SnapshotAttempts(r)
  <2>1. PICK todo : \/ Finish(r)
                    \/ req' = [req EXCEPT ![r] = [@ EXCEPT !.pc = "createAttempt", !.todo = todo]]
    BY <1>3 DEF SnapshotAttempts
  <2>2. CASE Finish(r)
    BY <2>2, FinishTells
  <2>3. CASE ~Finish(r)
    <3>1. req'[r] = [req[r] EXCEPT !.pc = "createAttempt", !.todo = todo]
      BY <1>1, <2>1, <2>3
    <3>2. req'[r].ret = req[r].ret /\ req'[r].pc = "createAttempt"
      BY <1>1, <3>1 DEF Request
    <3> QED
      BY <1>2, <3>2, OtherTells DEF UsesEvent
  <2> QED
    BY <2>2, <2>3
<1>4. CASE CreateAttempt(r)
  <2>1. CASE Finish(r)
    BY <2>1, FinishTells
  <2>2. CASE ~Finish(r)
    <3>1. req'[r] = [req[r] EXCEPT !.pc = "createSession", !.att = Len(attempts) + 1]
      BY <1>1, <1>4, <2>2 DEF CreateAttempt
    <3>2. req'[r].ret = req[r].ret /\ req'[r].pc = "createSession"
      BY <1>1, <3>1 DEF Request
    <3> QED
      BY <1>2, <3>2, OtherTells DEF UsesEvent
  <2> QED
    BY <2>1, <2>2
<1>5. CASE CreateSession(r)
  <2>1. \/ Goto(r, "attemptReady") \/ Goto(r, "attemptFailed")
        \/ NextChannel(r, req[r].todo \ {attempts[req[r].att].channel})
    BY <1>5 DEF CreateSession
  <2>3. payTasks' = payTasks
    BY <1>5 DEF CreateSession, db
  <2>2. CASE Goto(r, "attemptReady") \/ Goto(r, "attemptFailed")
    BY <1>2, <2>2, <2>3, GotoTells DEF Labels, UsesEvent
  <2> QED
    BY <1>2, <2>1, <2>2, NextChannelTells
<1>6. CASE MarkAttemptReady(r)
  BY <1>2, <1>6, NextChannelTells DEF MarkAttemptReady
<1>7. CASE MarkAttemptFailed(r)
  BY <1>2, <1>7, NextChannelTells DEF MarkAttemptFailed, MayTryAnother
<1> QED
  BY <1>3, <1>4, <1>5, <1>6, <1>7 DEF CashierStep

LEMMA NotifyTells ==
  ASSUME Inv, NEW r \in Requests, Tells(req[r], payTasks), NotifyStep(r)
  PROVE  Tells(req'[r], payTasks')
<1>1. req[r] \in Request /\ req \in [Requests -> Request]
  BY DEF Inv, TypeOK
<1>2. CASE VerifyNotify(r)
  <2>1. Goto(r, "findForNotify") \/ Finish(r)
    BY <1>2 DEF VerifyNotify
  <2>3. payTasks' = payTasks
    BY <1>2 DEF VerifyNotify
  <2>2. req[r].ret = "logProcessed"
    BY <1>2 DEF VerifyNotify, At, Tells, UsesEvent
  <2> QED
    BY <1>2, <2>1, <2>2, <2>3, GotoTells, FinishTells
       DEF VerifyNotify, Labels, UsesEvent, NotifyLabels, TellLabels
<1>3. CASE FindForNotify(r)
  <2>1. PICK i : req' = [req EXCEPT ![r] =
                   [@ EXCEPT !.att = i,
                             !.pc = IF req[r].event[2] = "SUCCESS"
                                    THEN "attemptSuccess" ELSE "attemptCancelled"]]
    BY <1>3 DEF FindForNotify, FollowUp, SessionFollowUp, TradeFollowUp
  <2>2. req'[r] = [req[r] EXCEPT !.att = i,
                                 !.pc = IF req[r].event[2] = "SUCCESS"
                                        THEN "attemptSuccess" ELSE "attemptCancelled"]
    BY <1>1, <2>1
  <2>3. /\ req'[r].ret = req[r].ret /\ req'[r].event = req[r].event
        /\ req'[r].pc = IF req[r].event[2] = "SUCCESS"
                        THEN "attemptSuccess" ELSE "attemptCancelled"
    BY <1>1, <2>2 DEF Request
  <2> QED
    BY <2>3 DEF Tells, UsesEvent, NotifyLabels, TellLabels
<1>4. CASE MarkProcessed(r)
  BY <1>4, FinishTells DEF MarkProcessed
<1> QED
  BY <1>2, <1>3, <1>4 DEF NotifyStep

LEMMA BeginTells ==
  ASSUME Inv, NEW r \in Requests, NEW n
  PROVE  /\ \A op \in Ops \ {"notify"} : BeginRequest(r, op) => Tells(req'[r], n)
         /\ \A e \in Events : DeliverEvent(r, e) => Tells(req'[r], n)
<1>1. req[r] \in Request /\ req \in [Requests -> Request]
  BY DEF Inv, TypeOK
<1>2. ASSUME NEW op \in Ops \ {"notify"}, BeginRequest(r, op) PROVE Tells(req'[r], n)
  <2>1. req'[r] = [req[r] EXCEPT !.pc = "readOrder", !.ret = AfterSync[op]]
    BY <1>1, <1>2 DEF BeginRequest
  <2>2. AfterSync[op] # "logProcessed"
    <3>1. op \in {"query", "close", "cashier"}
      BY OrderAssumption DEF OrderAssumption, AllOps
    <3>2. CASE op = "query"
      BY <3>2 DEF AfterSync
    <3>3. CASE op = "close"
      BY <3>3 DEF AfterSync
    <3>4. CASE op = "cashier"
      BY <3>4 DEF AfterSync
    <3> QED
      BY <3>1, <3>2, <3>3, <3>4
  <2>3. req'[r].pc = "readOrder" /\ req'[r].ret # "logProcessed"
    BY <1>1, <2>1, <2>2 DEF Request
  <2> QED
    BY <2>3, OtherTells DEF UsesEvent
<1>3. ASSUME NEW e \in Events, DeliverEvent(r, e) PROVE Tells(req'[r], n)
  <2>1. req'[r] = [req[r] EXCEPT !.pc = "verify", !.ret = "logProcessed", !.event = e]
    BY <1>1, <1>3 DEF DeliverEvent
  <2>2. req'[r].pc = "verify" /\ req'[r].ret = "logProcessed"
    BY <1>1, <2>1 DEF Request
  <2> QED
    BY <2>2 DEF Tells, NotifyLabels, TellLabels
<1> QED
  BY <1>2, <1>3

\* A request moves alone.
LEMMA OthersStay ==
  ASSUME Inv, NEW r \in Requests, NEW q \in Requests, q # r,
         RequestStep(r) \/ NotifyError(r) \/ Abandon(r)
  PROVE  req'[q] = req[q]
<1>1. req \in [Requests -> Request]
  BY DEF Inv, TypeOK
<1>2. ASSUME NEW l, Goto(r, l) PROVE req'[q] = req[q]
  BY <1>1, <1>2 DEF Goto
<1>3. ASSUME NEW st, Return(r, st) PROVE req'[q] = req[q]
  BY <1>1, <1>3 DEF Return
<1>4. CASE Finish(r)
  BY <1>1, <1>4 DEF Finish
<1>5. ASSUME NEW todo, NextChannel(r, todo) PROVE req'[q] = req[q]
  BY <1>1, <1>4, <1>5 DEF NextChannel
<1>6. CASE SyncStep(r)
  BY <1>1, <1>2, <1>3, <1>4, <1>6 DEF SyncStep, ReadOrder, FindLatest, QueryChannel, QueryAnswer
<1>7. CASE RecordStep(r)
  BY <1>2, <1>3, <1>7 DEF RecordStep, MarkAttemptSuccess, MarkOrderPaid, RereadOrder
<1>8. CASE CloseStep(r)
  BY <1>1, <1>2, <1>3, <1>4, <1>8 DEF CloseStep, MarkAttemptCancelled, FollowUp,
     SessionFollowUp, TradeFollowUp, ReadForClose,
     WriteClosed, PickClose, CloseAtChannel, ClosesAt, SessionCloses, TradeCloses, LeavesAt,
     CancelAttempt
<1>9. CASE CashierStep(r)
  BY <1>1, <1>2, <1>4, <1>5, <1>9 DEF CashierStep, SnapshotAttempts, CreateAttempt,
     CreateSession, MarkAttemptReady, MarkAttemptFailed, MayTryAnother
<1>10. CASE NotifyStep(r)
  BY <1>1, <1>2, <1>4, <1>10 DEF NotifyStep, VerifyNotify, FindForNotify, FollowUp,
     SessionFollowUp, TradeFollowUp, MarkProcessed
<1>11. CASE NotifyError(r) \/ Abandon(r)
  BY <1>4, <1>11 DEF NotifyError, Abandon
<1> QED
  BY <1>6, <1>7, <1>8, <1>9, <1>10, <1>11 DEF RequestStep

LEMMA ToldStep == Told /\ [Next]_vars => Told'
<1> SUFFICES ASSUME Told, [Next]_vars PROVE Told'
  OBVIOUS
<1>1. /\ Inv /\ Inv' /\ TypeOK /\ TaskPerPayment /\ TaskPerPayment'
      /\ \A r \in Requests : Tells(req[r], payTasks)
  BY NextInv, TaskStep DEF Told, Inv
<1>2. payTasks \in Nat /\ payTasks' \in Nat /\ payTasks <= payTasks'
  BY <1>1, TasksGrow
<1>3. ASSUME NEW r \in Requests, Tells(req'[r], payTasks'),
             \A q \in Requests : q # r => req'[q] = req[q]
      PROVE  \A q \in Requests : Tells(req'[q], payTasks')
  <2> SUFFICES ASSUME NEW q \in Requests, req'[q] = req[q] PROVE Tells(req'[q], payTasks')
    BY <1>3
  <2>1. Tells(req[q], payTasks)
    BY <1>1
  <2> QED
    BY <1>2, <2>1 DEF Tells
<1>4. ASSUME processed' \subseteq processed PROVE ProcessedPaymentIsTold'
  <2>1. ProcessedPaymentIsTold
    BY DEF Told
  <2> QED
    BY <1>2, <1>4, <2>1 DEF ProcessedPaymentIsTold
<1>5. ASSUME NEW r \in Requests, RequestStep(r) \/ NotifyError(r) \/ Abandon(r)
      PROVE  ProcessedPaymentIsTold' /\ \A q \in Requests : Tells(req'[q], payTasks')
  <2>1. Tells(req'[r], payTasks')
    <3>1. Tells(req[r], payTasks)
      BY <1>1
    <3>2. CASE NotifyError(r) \/ Abandon(r)
      BY <1>1, <3>2, FinishTells DEF NotifyError, Abandon
    <3> QED
      BY <1>1, <1>5, <3>1, <3>2, SyncTells, RecordTells, CloseTells, CashierTells, NotifyTells
         DEF RequestStep
  <2>2. \A q \in Requests : Tells(req'[q], payTasks')
    BY <1>1, <1>3, <1>5, <2>1, OthersStay
  <2>3. CASE MarkProcessed(r)
    <3>1. Tells(req[r], payTasks) /\ ProcessedPaymentIsTold
      BY <1>1 DEF Told
    <3>2. req[r].pc = "logProcessed" /\ processed' = processed \cup {req[r].event}
      BY <2>3 DEF MarkProcessed, At
    <3> SUFFICES ASSUME NEW t \in Trades, <<t, "SUCCESS">> \in processed'
                 PROVE  payTasks' > 0
      BY <2>2 DEF ProcessedPaymentIsTold
    <3>3. CASE <<t, "SUCCESS">> \in processed
      BY <1>2, <3>1, <3>3 DEF ProcessedPaymentIsTold
    <3>4. CASE <<t, "SUCCESS">> = req[r].event
      <4>1. req[r].event[2] = "SUCCESS"
        BY <3>4
      <4>2. payTasks > 0
        BY <3>1, <3>2, <4>1 DEF Tells, UsesEvent
      <4> QED
        BY <1>2, <4>2
    <3> QED
      BY <3>2, <3>3, <3>4
  <2>4. CASE ~MarkProcessed(r)
    <3>1. processed' \subseteq processed
      <4>1. CASE SyncStep(r) \/ RecordStep(r)
        BY <4>1 DEF SyncStep, RecordStep, ReadOrder, FindLatest, QueryChannel, QueryAnswer,
           MarkAttemptSuccess, MarkOrderPaid, RereadOrder, db
      <4>2. CASE CloseStep(r)
        BY <4>2 DEF CloseStep, MarkAttemptCancelled, FollowUp, SessionFollowUp, TradeFollowUp,
           ReadForClose, WriteClosed, PickClose,
           CloseAtChannel, ClosesAt, SessionCloses, TradeCloses, LeavesAt, CancelAttempt, db
      <4>3. CASE CashierStep(r)
        BY <4>3 DEF CashierStep, SnapshotAttempts, CreateAttempt, CreateSession,
           MarkAttemptReady, MarkAttemptFailed, MayTryAnother, db
      <4>4. CASE VerifyNotify(r) \/ FindForNotify(r) \/ NotifyError(r) \/ Abandon(r)
        BY <4>4 DEF VerifyNotify, FindForNotify, FollowUp, SessionFollowUp, TradeFollowUp,
           NotifyError, Abandon, db
      <4> QED
        BY <1>5, <2>4, <4>1, <4>2, <4>3, <4>4 DEF RequestStep, NotifyStep
    <3> QED
      BY <1>4, <2>2, <3>1
  <2> QED
    BY <2>2, <2>3, <2>4
<1>6. ASSUME NEW r \in Requests, NEW op \in Ops \ {"notify"}, BeginRequest(r, op)
      PROVE  ProcessedPaymentIsTold' /\ \A q \in Requests : Tells(req'[q], payTasks')
  <2>1. \A q \in Requests : q # r => req'[q] = req[q]
    BY <1>1, <1>6 DEF BeginRequest, TypeOK
  <2>2. processed' = processed
    BY <1>6 DEF BeginRequest
  <2>3. Tells(req'[r], payTasks')
    BY <1>1, <1>6, BeginTells
  <2> QED
    BY <1>3, <1>4, <2>1, <2>2, <2>3
<1>7. ASSUME NEW r \in Requests, NEW e \in Events, DeliverEvent(r, e)
      PROVE  ProcessedPaymentIsTold' /\ \A q \in Requests : Tells(req'[q], payTasks')
  <2>1. \A q \in Requests : q # r => req'[q] = req[q]
    BY <1>1, <1>7 DEF DeliverEvent, TypeOK
  <2>2. processed' = processed
    BY <1>7 DEF DeliverEvent, db
  <2>3. Tells(req'[r], payTasks')
    BY <1>1, <1>7, BeginTells
  <2> QED
    BY <1>3, <1>4, <2>1, <2>2, <2>3
<1>8. ASSUME PayerVisits \/ PayerPays \/ ProviderCloses \/ DeadlinePasses \/ UNCHANGED vars
      PROVE  ProcessedPaymentIsTold' /\ \A q \in Requests : Tells(req'[q], payTasks')
  <2>1. req' = req /\ processed' = processed /\ payTasks' = payTasks
    BY <1>8 DEF PayerVisits, PayerPays, ProviderCloses, ProviderStep, DeadlinePasses, vars, db
  <2>2. ProcessedPaymentIsTold'
    BY <1>4, <2>1
  <2> QED
    BY <1>1, <2>1, <2>2
<1>9. ProcessedPaymentIsTold' /\ \A q \in Requests : Tells(req'[q], payTasks')
  BY <1>5, <1>6, <1>7, <1>8 DEF Next, Begin, Deliver
<1> QED
  BY <1>1, <1>9 DEF Told

\* An event log row says PROCESSED only after markOrderPaidFromChannel told the
\* merchant, whichever handlers failed or were overtaken on the way.
THEOREM ProcessedPaymentsAreTold == Spec => []ProcessedPaymentIsTold
<1>1. Init => Told
  <2> SUFFICES ASSUME Init PROVE Told
    OBVIOUS
  <2>1. TaskPerPayment /\ ProcessedPaymentIsTold
    BY DEF Init, TaskPerPayment, ProcessedPaymentIsTold, Paid
  <2>2. \A r \in Requests : req[r] = Idle
    BY DEF Init
  <2> QED
    BY <2>1, <2>2, InitInv, IdleTells DEF Told
<1>2. Told => ProcessedPaymentIsTold
  BY DEF Told
<1> QED
  BY <1>1, <1>2, ToldStep, PTL DEF Spec
=============================================================================
