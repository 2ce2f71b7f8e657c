------------------------- MODULE OrderClosed_proofs -------------------------
(***************************************************************************)
(* What a close leaves behind at the provider: the trades of the order, as *)
(* the attempts and the handlers know them, for every number of handlers,  *)
(* channels and attempts.                                                  *)
(***************************************************************************)
EXTENDS OrderAlone_proofs

Final == {"paid", "closed"}

-----------------------------------------------------------------------------
(* The fields of a request after a step *)

\* What a request holds besides its label.
Holds(x, y) == y.att = x.att /\ y.closing = x.closing /\ y.event = x.event

LEMMA GotoFields ==
  ASSUME TypeOK, NEW r \in Requests, NEW l, Goto(r, l)
  PROVE  /\ req'[r].pc = l /\ req'[r].ret = req[r].ret /\ req'[r].seen = req[r].seen
         /\ Holds(req[r], req'[r])
<1>1. req \in [Requests -> Request] /\ req[r] \in Request
  BY DEF TypeOK
<1>2. PICK y : y = [req[r] EXCEPT !.pc = l]
  OBVIOUS
<1>3. req'[r] = y
  BY <1>1, <1>2 DEF Goto
<1>4. y.pc = l /\ y.ret = req[r].ret /\ y.seen = req[r].seen /\ Holds(req[r], y)
  BY <1>1, <1>2 DEF Request, Holds
<1> QED
  BY <1>3, <1>4

LEMMA ReturnFields ==
  ASSUME TypeOK, NEW r \in Requests, NEW st, Return(r, st)
  PROVE  \/ req'[r] = Idle
         \/ /\ req'[r].pc = req[r].ret /\ req'[r].ret = req[r].ret /\ req'[r].seen = st
            /\ req[r].ret \in Returns \ {"idle"} /\ Holds(req[r], req'[r])
<1>1. req \in [Requests -> Request] /\ req[r] \in Request
  BY DEF TypeOK
<1>2. CASE req[r].ret = "idle"
  BY <1>1, <1>2 DEF Return
<1>3. CASE req[r].ret # "idle"
  <2>1. PICK y : y = [req[r] EXCEPT !.pc = req[r].ret, !.seen = st]
    OBVIOUS
  <2>2. req'[r] = y
    BY <1>1, <1>3, <2>1 DEF Return
  <2>3. y.pc = req[r].ret /\ y.ret = req[r].ret /\ y.seen = st /\ Holds(req[r], y)
    BY <1>1, <2>1 DEF Request, Holds
  <2>4. req[r].ret \in Returns \ {"idle"}
    BY <1>1, <1>3 DEF Request
  <2> QED
    BY <2>2, <2>3, <2>4
<1> QED
  BY <1>2, <1>3

LEMMA NextChannelFields ==
  ASSUME TypeOK, NEW r \in Requests, NEW todo, NextChannel(r, todo)
  PROVE  \/ req'[r] = Idle
         \/ /\ req'[r].pc = "createAttempt" /\ req'[r].ret = req[r].ret
            /\ Holds(req[r], req'[r])
<1>1. req \in [Requests -> Request] /\ req[r] \in Request
  BY DEF TypeOK
<1>2. CASE todo = {}
  BY <1>2, FinishPc DEF NextChannel
<1>3. CASE todo # {}
  <2>1. PICK y : y = [req[r] EXCEPT !.pc = "createAttempt", !.todo = todo]
    OBVIOUS
  <2>2. req'[r] = y
    BY <1>1, <1>3, <2>1 DEF NextChannel
  <2>3. y.pc = "createAttempt" /\ y.ret = req[r].ret /\ Holds(req[r], y)
    BY <1>1, <2>1 DEF Request, Holds
  <2> QED
    BY <2>2, <2>3
<1> QED
  BY <1>2, <1>3

\* Every other step that moves a request on.
LEMMA ReadOrderFields ==
  ASSUME TypeOK, NEW r \in Requests, ReadOrder(r), orderStatus \in Pending
  PROVE  /\ req'[r].pc = "findLatest" /\ req'[r].ret = req[r].ret
         /\ req'[r].seen = orderStatus /\ Holds(req[r], req'[r])
<1>1. req \in [Requests -> Request] /\ req[r] \in Request
  BY DEF TypeOK
<1>2. PICK y : y = [req[r] EXCEPT !.pc = "findLatest", !.seen = orderStatus]
  OBVIOUS
<1>3. req'[r] = y
  BY <1>1, <1>2 DEF ReadOrder
<1>4. y.pc = "findLatest" /\ y.ret = req[r].ret /\ y.seen = orderStatus /\ Holds(req[r], y)
  BY <1>1, <1>2 DEF Request, Holds
<1> QED
  BY <1>3, <1>4

LEMMA FindLatestFields ==
  ASSUME TypeOK, NEW r \in Requests, FindLatest(r), attempts # <<>>
  PROVE  /\ req'[r].pc = "queryChannel" /\ req'[r].ret = req[r].ret
         /\ req'[r].att = Len(attempts)
         /\ req'[r].closing = req[r].closing /\ req'[r].event = req[r].event
<1>1. req \in [Requests -> Request] /\ req[r] \in Request
  BY DEF TypeOK
<1>2. PICK y : y = [req[r] EXCEPT !.pc = "queryChannel", !.att = LatestAttempt]
  OBVIOUS
<1>3. req'[r] = y
  BY <1>1, <1>2 DEF FindLatest
<1>4. /\ y.pc = "queryChannel" /\ y.ret = req[r].ret /\ y.att = Len(attempts)
      /\ y.closing = req[r].closing /\ y.event = req[r].event
  BY <1>1, <1>2 DEF Request, LatestAttempt
<1> QED
  BY <1>3, <1>4

LEMMA PickCloseFields ==
  ASSUME TypeOK, NEW r \in Requests, PickClose(r), req[r].seen \in Pending
  PROVE  /\ req'[r].pc = CloseStart /\ req'[r].ret = "idle"
         /\ req'[r].closing = Len(attempts) /\ req'[r].event = req[r].event
<1>1. req \in [Requests -> Request] /\ req[r] \in Request
  BY DEF TypeOK
<1>2. PICK y : y = [req[r] EXCEPT !.pc = CloseStart, !.ret = "idle", !.closing = LatestAttempt]
  OBVIOUS
<1>3. req'[r] = y
  BY <1>1, <1>2 DEF PickClose
<1>4. /\ y.pc = CloseStart /\ y.ret = "idle" /\ y.closing = Len(attempts)
      /\ y.event = req[r].event
  BY <1>1, <1>2 DEF Request, LatestAttempt
<1> QED
  BY <1>3, <1>4

LEMMA CancelAttemptFields ==
  ASSUME TypeOK, NEW r \in Requests, CancelAttempt(r), req[r].seen \in Pending
  PROVE  /\ req'[r].pc = "readForClose" /\ req'[r].ret = "idle"
         /\ Holds(req[r], req'[r])
<1>1. req \in [Requests -> Request] /\ req[r] \in Request
  BY DEF TypeOK
<1>2. PICK y : y = [req[r] EXCEPT !.pc = "readForClose", !.ret = "idle"]
  OBVIOUS
<1>3. req'[r] = y
  BY <1>1, <1>2 DEF CancelAttempt
<1>4. y.pc = "readForClose" /\ y.ret = "idle" /\ Holds(req[r], y)
  BY <1>1, <1>2 DEF Request, Holds
<1> QED
  BY <1>3, <1>4

LEMMA SyncAgainFields ==
  ASSUME TypeOK, NEW r \in Requests,
         req' = [req EXCEPT ![r] = [@ EXCEPT !.pc = "findLatest", !.ret = "cancelAttempt"]]
  PROVE  /\ req'[r].pc = "findLatest" /\ req'[r].ret = "cancelAttempt"
         /\ Holds(req[r], req'[r])
<1>1. req \in [Requests -> Request] /\ req[r] \in Request
  BY DEF TypeOK
<1>2. PICK y : y = [req[r] EXCEPT !.pc = "findLatest", !.ret = "cancelAttempt"]
  OBVIOUS
<1>3. req'[r] = y
  BY <1>1, <1>2
<1>4. y.pc = "findLatest" /\ y.ret = "cancelAttempt" /\ Holds(req[r], y)
  BY <1>1, <1>2 DEF Request, Holds
<1> QED
  BY <1>3, <1>4

LEMMA SnapshotFields ==
  ASSUME TypeOK, NEW r \in Requests, SnapshotAttempts(r)
  PROVE  \/ req'[r] = Idle
         \/ /\ req'[r].pc = "createAttempt" /\ req'[r].ret = req[r].ret
            /\ req[r].seen \in Pending /\ Holds(req[r], req'[r])
<1>1. req \in [Requests -> Request] /\ req[r] \in Request
  BY DEF TypeOK
<1>2. CASE Finish(r)
  BY <1>2, FinishPc
<1>3. CASE ~Finish(r)
  <2>1. PICK todo : /\ req' = [req EXCEPT ![r] = [@ EXCEPT !.pc = "createAttempt", !.todo = todo]]
                    /\ req[r].seen \in Pending
    BY <1>3 DEF SnapshotAttempts
  <2>2. PICK y : y = [req[r] EXCEPT !.pc = "createAttempt", !.todo = todo]
    OBVIOUS
  <2>3. req'[r] = y
    BY <1>1, <2>1, <2>2
  <2>4. y.pc = "createAttempt" /\ y.ret = req[r].ret /\ Holds(req[r], y)
    BY <1>1, <2>2 DEF Request, Holds
  <2> QED
    BY <2>1, <2>3, <2>4
<1> QED
  BY <1>2, <1>3

LEMMA CreateAttemptFields ==
  ASSUME TypeOK, NEW r \in Requests, CreateAttempt(r)
  PROVE  \/ req'[r] = Idle /\ UNCHANGED attempts
         \/ /\ req'[r].pc = "createSession" /\ req'[r].ret = req[r].ret
            /\ req'[r].att = Len(attempts) + 1
            /\ req'[r].closing = req[r].closing /\ req'[r].event = req[r].event
            /\ \E c \in req[r].todo : attempts' = Append(attempts, NewAttempt(c))
<1>1. req \in [Requests -> Request] /\ req[r] \in Request
  BY DEF TypeOK
<1>2. CASE Finish(r) /\ UNCHANGED attempts
  BY <1>2, FinishPc
<1>3. ASSUME NEW c \in req[r].todo, attempts' = Append(attempts, NewAttempt(c)),
             req' = [req EXCEPT ![r] = [@ EXCEPT !.pc = "createSession", !.att = Len(attempts) + 1]]
      PROVE  /\ req'[r].pc = "createSession" /\ req'[r].ret = req[r].ret
             /\ req'[r].att = Len(attempts) + 1
             /\ req'[r].closing = req[r].closing /\ req'[r].event = req[r].event
  <2>1. PICK y : y = [req[r] EXCEPT !.pc = "createSession", !.att = Len(attempts) + 1]
    OBVIOUS
  <2>2. req'[r] = y
    BY <1>1, <1>3, <2>1
  <2>3. /\ y.pc = "createSession" /\ y.ret = req[r].ret /\ y.att = Len(attempts) + 1
        /\ y.closing = req[r].closing /\ y.event = req[r].event
    BY <1>1, <2>1 DEF Request
  <2> QED
    BY <2>2, <2>3
<1> QED
  BY <1>2, <1>3 DEF CreateAttempt

LEMMA FindForNotifyFields ==
  ASSUME TypeOK, NEW r \in Requests, FindForNotify(r)
  PROVE  \E i \in NotifyCandidates(req[r].event[1]) :
           /\ req'[r].pc = IF req[r].event[2] = "SUCCESS" THEN "attemptSuccess" ELSE "attemptCancelled"
           /\ req'[r].att = i /\ req'[r].ret = req[r].ret
           /\ req'[r].closing = req[r].closing /\ req'[r].event = req[r].event
<1>1. req \in [Requests -> Request] /\ req[r] \in Request
  BY DEF TypeOK
<1>2. PICK l : l = IF req[r].event[2] = "SUCCESS" THEN "attemptSuccess" ELSE "attemptCancelled"
  OBVIOUS
<1>3. PICK i \in NotifyCandidates(req[r].event[1]) :
        req' = [req EXCEPT ![r] = [@ EXCEPT !.att = i, !.pc = l]]
  BY <1>2 DEF FindForNotify, FollowUp, SessionFollowUp, TradeFollowUp
<1>4. PICK y : y = [req[r] EXCEPT !.att = i, !.pc = l]
  OBVIOUS
<1>5. req'[r] = y
  BY <1>1, <1>3, <1>4
<1>6. /\ y.pc = l /\ y.att = i /\ y.ret = req[r].ret
      /\ y.closing = req[r].closing /\ y.event = req[r].event
  BY <1>1, <1>4 DEF Request
<1> QED
  BY <1>2, <1>5, <1>6

LEMMA BeginFields ==
  ASSUME TypeOK, NEW r \in Requests, NEW op \in Ops \ {"notify"}, BeginRequest(r, op)
  PROVE  /\ req'[r].pc = "readOrder" /\ req'[r].ret \in {"idle", "pickClose", "snapshot"}
         /\ req'[r].event = req[r].event
<1>1. req \in [Requests -> Request] /\ req[r] \in Request
  BY DEF TypeOK
<1>2. AfterSync[op] \in {"idle", "pickClose", "snapshot"}
  BY OrderAssumption DEF OrderAssumption, AllOps, AfterSync
<1>3. PICK y : y = [req[r] EXCEPT !.pc = "readOrder", !.ret = AfterSync[op]]
  OBVIOUS
<1>4. req'[r] = y
  BY <1>1, <1>3 DEF BeginRequest
<1>5. y.pc = "readOrder" /\ y.ret = AfterSync[op] /\ y.event = req[r].event
  BY <1>1, <1>3 DEF Request
<1> QED
  BY <1>2, <1>4, <1>5

LEMMA DeliverFields ==
  ASSUME TypeOK, NEW r \in Requests, NEW e \in Events, DeliverEvent(r, e)
  PROVE  req'[r].pc = "verify" /\ req'[r].ret = "logProcessed" /\ req'[r].event = e
<1>1. req \in [Requests -> Request] /\ req[r] \in Request
  BY DEF TypeOK
<1>2. PICK y : y = [req[r] EXCEPT !.pc = "verify", !.ret = "logProcessed", !.event = e]
  OBVIOUS
<1>3. req'[r] = y
  BY <1>1, <1>2 DEF DeliverEvent
<1>4. y.pc = "verify" /\ y.ret = "logProcessed" /\ y.event = e
  BY <1>1, <1>2 DEF Request
<1> QED
  BY <1>3, <1>4

-----------------------------------------------------------------------------
(* What a step does to the attempts and to the trades *)

\* Which step of r writes row i, and what.
Writes(r, i, a) ==
  \/ MarkAttemptSuccess(r) /\ i = req[r].att /\ a.status = "SUCCESS"
  \/ /\ MarkAttemptCancelled(r) /\ i = req[r].att /\ a.status = "CANCELLED"
     /\ a.known = attempts[i].known
  \/ /\ CancelAttempt(r) /\ req[r].seen \in Pending /\ i = req[r].closing
     /\ a.status = "CANCELLED" /\ a.known = attempts[i].known
  \/ MarkAttemptReady(r) /\ i = req[r].att /\ a.status = "USER_PAYING"
  \/ MarkAttemptFailed(r) /\ i = req[r].att /\ a.known = attempts[i].known

RowMoves(r) ==
  \/ UNCHANGED attempts
  \/ CreateAttempt(r) /\ \E c \in Channels : attempts' = Append(attempts, NewAttempt(c))
  \/ \E i \in 1..Len(attempts) : \E a :
       /\ attempts' = [attempts EXCEPT ![i] = a]
       /\ a.channel = attempts[i].channel
       /\ Writes(r, i, a)

LEMMA StatusRow ==
  ASSUME TypeOK, NEW i \in 1..Len(attempts), NEW st, SetAttempt(i, st)
  PROVE  \E a : /\ attempts' = [attempts EXCEPT ![i] = a]
                /\ a.channel = attempts[i].channel
                /\ a.status = st /\ a.known = attempts[i].known
<1>1. attempts[i] \in Attempt
  BY ElementOfSeq DEF TypeOK
<1>2. PICK a : a = [attempts[i] EXCEPT !.status = st]
  OBVIOUS
<1>3. a.channel = attempts[i].channel /\ a.status = st /\ a.known = attempts[i].known
  BY <1>1, <1>2 DEF Attempt
<1> QED
  BY <1>2, <1>3 DEF SetAttempt

LEMMA HandlerRows ==
  ASSUME Inv, NEW r \in Requests, HandlerStep(r)
  PROVE  RowMoves(r)
<1>1. TypeOK /\ Fits(req[r]) /\ req[r] \in Request
  BY DEF Inv, TypeOK
<1>2. CASE MarkAttemptSuccess(r)
  <2>1. req[r].att \in 1..Len(attempts) /\ attempts[req[r].att] \in Attempt
    BY <1>1, <1>2, ElementOfSeq DEF MarkAttemptSuccess, At, Fits, UsesAttempt, TypeOK
  <2>2. PICK a : a = [attempts[req[r].att] EXCEPT !.status = "SUCCESS", !.known = TRUE]
    OBVIOUS
  <2>3. a.channel = attempts[req[r].att].channel /\ a.status = "SUCCESS"
    BY <2>1, <2>2 DEF Attempt
  <2>4. attempts' = [attempts EXCEPT ![req[r].att] = a]
    BY <1>2, <2>2 DEF MarkAttemptSuccess
  <2> QED
    BY <1>2, <2>1, <2>3, <2>4 DEF RowMoves, Writes
<1>3. CASE MarkAttemptCancelled(r)
  <2>1. req[r].att \in 1..Len(attempts) /\ SetAttempt(req[r].att, "CANCELLED")
    BY <1>1, <1>3 DEF MarkAttemptCancelled, FollowUp, SessionFollowUp, TradeFollowUp, At, Fits,
       UsesAttempt
  <2>2. PICK a : /\ attempts' = [attempts EXCEPT ![req[r].att] = a]
                 /\ a.channel = attempts[req[r].att].channel
                 /\ a.status = "CANCELLED" /\ a.known = attempts[req[r].att].known
    BY <1>1, <2>1, StatusRow
  <2> QED
    BY <1>3, <2>1, <2>2 DEF RowMoves, Writes
<1>4. CASE CancelAttempt(r)
  <2>1. CASE req[r].seen \in Pending
    <3>1. req[r].closing \in 1..Len(attempts) /\ SetAttempt(req[r].closing, "CANCELLED")
      BY <1>1, <1>4, <2>1 DEF CancelAttempt, At, Fits, UsesClosing
    <3>2. PICK a : /\ attempts' = [attempts EXCEPT ![req[r].closing] = a]
                   /\ a.channel = attempts[req[r].closing].channel
                   /\ a.status = "CANCELLED" /\ a.known = attempts[req[r].closing].known
      BY <1>1, <3>1, StatusRow
    <3> QED
      BY <1>4, <2>1, <3>1, <3>2 DEF RowMoves, Writes
  <2> QED
    BY <1>4, <2>1 DEF CancelAttempt, RowMoves
<1>5. CASE MarkAttemptReady(r)
  <2>1. req[r].att \in 1..Len(attempts) /\ attempts[req[r].att] \in Attempt
    BY <1>1, <1>5, ElementOfSeq DEF MarkAttemptReady, At, Fits, UsesAttempt, TypeOK
  <2>2. PICK a : a = ReadyRow(req[r].att)
    OBVIOUS
  <2>3. a.channel = attempts[req[r].att].channel /\ a.status = "USER_PAYING"
    BY <2>1, <2>2 DEF ReadyRow, Attempt
  <2>4. attempts' = [attempts EXCEPT ![req[r].att] = a]
    BY <1>5, <2>2 DEF MarkAttemptReady
  <2> QED
    BY <1>5, <2>1, <2>3, <2>4 DEF RowMoves, Writes
<1>6. CASE MarkAttemptFailed(r)
  <2>1. req[r].att \in 1..Len(attempts) /\ SetAttempt(req[r].att, "FAILED")
    BY <1>1, <1>6 DEF MarkAttemptFailed, MayTryAnother, At, Fits, UsesAttempt
  <2>2. PICK a : /\ attempts' = [attempts EXCEPT ![req[r].att] = a]
                 /\ a.channel = attempts[req[r].att].channel
                 /\ a.known = attempts[req[r].att].known
    BY <1>1, <2>1, StatusRow
  <2> QED
    BY <1>6, <2>1, <2>2 DEF RowMoves, Writes
<1>7. CASE CreateAttempt(r)
  <2>1. req[r].todo \subseteq Channels
    BY <1>1 DEF Request
  <2> QED
    BY <1>7, <2>1 DEF CreateAttempt, RowMoves
<1>8. CASE SyncStep(r) \/ NotifyStep(r) \/ NotifyError(r) \/ Abandon(r)
  BY <1>8 DEF SyncStep, NotifyStep, ReadOrder, FindLatest, QueryChannel, QueryAnswer,
     VerifyNotify,
     FindForNotify, FollowUp, SessionFollowUp, TradeFollowUp, MarkProcessed, NotifyError,
     Abandon, db, RowMoves
<1>9. CASE MarkOrderPaid(r) \/ RereadOrder(r) \/ ReadForClose(r) \/ WriteClosed(r)
           \/ PickClose(r) \/ CloseAtChannel(r) \/ SnapshotAttempts(r) \/ CreateSession(r)
  BY <1>9 DEF MarkOrderPaid, RereadOrder, ReadForClose, WriteClosed, PickClose,
     CloseAtChannel, ClosesAt, SessionCloses, TradeCloses, LeavesAt, SnapshotAttempts,
     CreateSession, db, RowMoves
<1> QED
  BY <1>2, <1>3, <1>4, <1>5, <1>6, <1>7, <1>8, <1>9
     DEF HandlerStep, RequestStep, RecordStep, CloseStep, CashierStep

\* The rows of a table after a step of r: as they were, written, or new.
LEMMA RowCases ==
  ASSUME TypeOK, NEW r \in Requests, RowMoves(r)
  PROVE  /\ Len(attempts') \in {Len(attempts), Len(attempts) + 1}
         /\ Len(attempts') # Len(attempts) =>
              /\ CreateAttempt(r)
              /\ \E c \in Channels : attempts'[Len(attempts) + 1] = NewAttempt(c)
         /\ \A i \in 1..Len(attempts) :
              /\ attempts'[i].channel = attempts[i].channel
              /\ attempts'[i] = attempts[i] \/ Writes(r, i, attempts'[i])
<1>1. attempts \in Seq(Attempt) /\ Len(attempts) \in Nat /\ DOMAIN attempts = 1..Len(attempts)
  BY LenProperties DEF TypeOK
<1>2. CASE UNCHANGED attempts
  BY <1>1, <1>2
<1>3. ASSUME NEW c \in Channels, CreateAttempt(r), attempts' = Append(attempts, NewAttempt(c))
      PROVE  /\ Len(attempts') = Len(attempts) + 1
             /\ attempts'[Len(attempts) + 1] = NewAttempt(c)
             /\ \A i \in 1..Len(attempts) : attempts'[i] = attempts[i]
  <2>1. NewAttempt(c) \in Attempt
    BY DEF NewAttempt, Attempt, AttemptStatus
  <2> QED
    BY <1>1, <1>3, <2>1, AppendProperties
<1>4. ASSUME NEW i \in 1..Len(attempts), NEW a, attempts' = [attempts EXCEPT ![i] = a],
             a.channel = attempts[i].channel, Writes(r, i, a)
      PROVE  /\ Len(attempts') = Len(attempts)
             /\ \A j \in 1..Len(attempts) :
                  /\ attempts'[j].channel = attempts[j].channel
                  /\ attempts'[j] = attempts[j] \/ Writes(r, j, attempts'[j])
  <2>1. DOMAIN attempts' = 1..Len(attempts) /\ attempts'[i] = a
        /\ \A j \in 1..Len(attempts) : j # i => attempts'[j] = attempts[j]
    BY <1>1, <1>4
  <2>2. Len(attempts') = Len(attempts)
    BY <1>1, <1>4
  <2> QED
    BY <1>4, <2>1, <2>2
<1> QED
  BY <1>1, <1>2, <1>3, <1>4 DEF RowMoves

\* Rows stay, with their channel, and so does the trade of each.
RowsStay ==
  /\ Len(attempts) <= Len(attempts')
  /\ 1..Len(attempts) \subseteq 1..Len(attempts')
  /\ \A i \in 1..Len(attempts) :
       attempts'[i].channel = attempts[i].channel /\ TradeOf(i)' = TradeOf(i)

LEMMA NextRows ==
  ASSUME Inv, [Next]_vars
  PROVE  RowsStay
<1>1. TypeOK /\ Len(attempts) \in Nat
  BY LenProperties DEF Inv, TypeOK
<1>2. /\ Len(attempts') \in {Len(attempts), Len(attempts) + 1}
      /\ \A i \in 1..Len(attempts) : attempts'[i].channel = attempts[i].channel
  <2>1. ASSUME NEW r \in Requests, HandlerStep(r)
        PROVE  /\ Len(attempts') \in {Len(attempts), Len(attempts) + 1}
               /\ \A i \in 1..Len(attempts) : attempts'[i].channel = attempts[i].channel
    BY <1>1, <2>1, HandlerRows, RowCases
  <2>2. ASSUME NEW r \in Requests,
               \/ \E op \in Ops \ {"notify"} : BeginRequest(r, op)
               \/ \E e \in Events : DeliverEvent(r, e)
        PROVE  attempts' = attempts
    BY <1>1, <2>2, BeginMoves
  <2>3. CASE EnvironmentStep
    BY <2>3, EnvironmentMoves
  <2> QED
    BY <2>1, <2>2, <2>3, StepCases
<1>3. \A i \in 1..Len(attempts) : TradeOf(i)' = TradeOf(i)
  BY <1>2 DEF TradeOf
<1> QED
  BY <1>1, <1>2, <1>3 DEF RowsStay

\* What may become of a trade, and which handler does what.
TradeMove(t) ==
  \/ trade'[t] = trade[t]
  \/ /\ trade[t] = "absent" /\ trade'[t] = "created"
     /\ \E r \in Requests : CreateSession(r) /\ t = TradeOf(req[r].att)
  \/ /\ trade[t] = "created" /\ trade'[t] \in {"offered", "open"}
     /\ t[1] \in SessionChannels => trade'[t] = "open"
     /\ \E r \in Requests : MarkAttemptReady(r) /\ t = TradeOf(req[r].att)
  \/ trade[t] = "offered" /\ trade'[t] = "open"
  \/ trade[t] \in {"created", "offered", "open"} /\ trade'[t] \in Final

LEMMA NextTrades ==
  ASSUME Inv, [Next]_vars, NEW t \in Trades
  PROVE  TradeMove(t)
<1>1. trade \in [Trades -> TradeStates]
  BY DEF Inv, TypeOK
<1>2. CASE PayerVisits
  BY <1>1, <1>2 DEF PayerVisits, ProviderStep, TradeMove
<1>3. CASE PayerPays
  BY <1>1, <1>3 DEF PayerPays, ProviderStep, TradeMove, Final
<1>4. CASE ProviderCloses
  BY <1>1, <1>4 DEF ProviderCloses, ProviderStep, TradeMove, Final
<1>5. CASE DeadlinePasses \/ UNCHANGED vars
  BY <1>5 DEF DeadlinePasses, vars, world, TradeMove
<1>6. ASSUME UNCHANGED trade PROVE TradeMove(t)
  BY <1>6 DEF TradeMove
<1>7. ASSUME NEW r \in Requests, CloseAtChannel(r) PROVE TradeMove(t)
  <2>1. PICK u : u = TradeOf(req[r].closing)
    OBVIOUS
  <2>2. \/ UNCHANGED trade
        \/ trade[u] \in {"created", "open"} /\ trade' = [trade EXCEPT ![u] = "closed"]
    BY <1>7, <2>1 DEF CloseAtChannel, ClosesAt, SessionCloses, TradeCloses, LeavesAt
  <2> QED
    BY <1>1, <2>2 DEF TradeMove, Final
<1>8. ASSUME NEW r \in Requests, CreateSession(r) PROVE TradeMove(t)
  <2>1. PICK u : u = TradeOf(req[r].att)
    OBVIOUS
  <2>2. UNCHANGED trade \/ CreateTrade(u)
    BY <1>8, <2>1 DEF CreateSession
  <2>3. UNCHANGED trade \/ (t = u /\ trade[t] = "absent" /\ trade'[t] = "created") \/ trade'[t] = trade[t]
    BY <1>1, <2>2 DEF CreateTrade
  <2> QED
    BY <1>8, <2>1, <2>3 DEF TradeMove
<1>9. ASSUME NEW r \in Requests, MarkAttemptReady(r) PROVE TradeMove(t)
  <2>1. PICK u, c : c = attempts[req[r].att].channel /\ u = TradeOf(req[r].att)
    OBVIOUS
  <2>2. u[1] = c
    BY <2>1 DEF TradeOf
  <2>3. PICK st \in (IF c \in SessionChannels THEN {"open"} ELSE {"offered", "open"}) :
          trade' = [trade EXCEPT ![u] = IF @ = "created" THEN st ELSE @]
    BY <1>9, <2>1 DEF MarkAttemptReady
  <2>4. \/ trade'[t] = trade[t]
        \/ t = u /\ trade[t] = "created" /\ trade'[t] = st
    BY <1>1, <2>3
  <2> QED
    BY <1>9, <2>1, <2>2, <2>3, <2>4 DEF TradeMove
<1>10. ASSUME NEW r \in Requests, HandlerStep(r) PROVE TradeMove(t)
  <2>1. CASE SyncStep(r) \/ NotifyStep(r) \/ NotifyError(r) \/ Abandon(r)
    BY <1>6, <2>1 DEF SyncStep, NotifyStep, ReadOrder, FindLatest, QueryChannel, QueryAnswer,
       VerifyNotify,
       FindForNotify, FollowUp, SessionFollowUp, TradeFollowUp, MarkProcessed, NotifyError,
       Abandon, world
  <2>2. CASE RecordStep(r)
    BY <1>6, <2>2 DEF RecordStep, MarkAttemptSuccess, MarkOrderPaid, RereadOrder, world
  <2>3. CASE CloseStep(r)
    BY <1>6, <1>7, <2>3 DEF CloseStep, MarkAttemptCancelled, FollowUp, SessionFollowUp,
       TradeFollowUp, ReadForClose, WriteClosed,
       PickClose, CancelAttempt, world
  <2>4. CASE CashierStep(r)
    BY <1>6, <1>8, <1>9, <2>4 DEF CashierStep, SnapshotAttempts, CreateAttempt,
       MarkAttemptFailed, MayTryAnother, world
  <2> QED
    BY <1>10, <2>1, <2>2, <2>3, <2>4 DEF HandlerStep, RequestStep
<1>11. ASSUME NEW op \in Ops, NEW r \in Requests, BeginRequest(r, op) PROVE TradeMove(t)
  BY <1>6, <1>11 DEF BeginRequest, world
<1>12. ASSUME NEW e \in Events, NEW r \in Requests, DeliverEvent(r, e) PROVE TradeMove(t)
  BY <1>6, <1>12 DEF DeliverEvent, world
<1> QED
  BY <1>2, <1>3, <1>4, <1>5, <1>10, <1>11, <1>12, StepCases DEF EnvironmentStep

\* A trade that was there stays there, and a finished one stays finished.
LEMMA TradeStays ==
  ASSUME Inv, [Next]_vars, NEW t \in Trades
  PROVE  /\ trade[t] # "absent" => trade'[t] # "absent"
         /\ trade[t] = "closed" => trade'[t] = "closed"
         /\ trade[t] \in Final => trade'[t] \in Final
         /\ trade[t] \in Final \cup {"open"} => trade'[t] \in Final \cup {"open"}
BY NextTrades DEF TradeMove, Final

-----------------------------------------------------------------------------
(* What the order knows of its trades *)

\* Only an attempt brings a trade about, and a session that has its number is open or over.
TradesFit ==
  /\ \A t \in Trades : trade[t] # "absent" => \E i \in 1..Len(attempts) : t = TradeOf(i)
  /\ \A t \in Trades : t[1] \in SessionChannels => trade[t] # "offered"
  /\ \A i \in 1..Len(attempts) :
       attempts[i].channel \in SessionChannels /\ attempts[i].known
         => trade[TradeOf(i)] \in Final \cup {"open"}

\* What a request x was told is still so.
KnowsTrade(x) ==
  /\ x.pc = "attemptReady" => trade[TradeOf(x.att)] # "absent"
  /\ x.event \in Events /\ x.event[2] = "CLOSED" => trade[x.event[1]] = "closed"
  /\ x.pc = "attemptCancelled" => trade[TradeOf(x.att)] = "closed"
  /\ x.pc \in {"verify", "findForNotify", "logProcessed"} => x.ret = "logProcessed"
  /\ x.pc = "readOrder" => x.ret # "cancelAttempt"

TradeInv == TradesFit /\ \A r \in Requests : KnowsTrade(req[r])

LEMMA ReadyTrade ==
  ASSUME Inv, NEW r \in Requests, MarkAttemptReady(r), KnowsTrade(req[r]), TradesFit,
         attempts[req[r].att].channel \in SessionChannels
  PROVE  trade'[TradeOf(req[r].att)] \in Final \cup {"open"}
<1>1. PICK c, u : c = attempts[req[r].att].channel /\ u = TradeOf(req[r].att)
  OBVIOUS
<1>2. req[r].pc = "attemptReady" /\ req[r].att \in 1..Len(attempts)
  BY DEF MarkAttemptReady, At, Inv, Fits, UsesAttempt
<1>3. u \in Trades /\ u[1] = c
  BY <1>1, <1>2, TradeOfType DEF Inv, TradeOf
<1>4. trade[u] \in {"created", "open"} \cup Final
  BY <1>1, <1>2, <1>3 DEF KnowsTrade, TradesFit, Inv, TypeOK, TradeStates, Final
<1>5. trade' = [trade EXCEPT ![u] = IF @ = "created" THEN "open" ELSE @]
  BY <1>1 DEF MarkAttemptReady
<1>6. trade'[u] = IF trade[u] = "created" THEN "open" ELSE trade[u]
  BY <1>3, <1>5 DEF Inv, TypeOK
<1> QED
  BY <1>1, <1>4, <1>6

LEMMA TradesFitStep ==
  ASSUME Inv, TradeInv, [Next]_vars
  PROVE  TradesFit'
<1>1. TypeOK /\ TradesFit /\ RowsStay /\ Len(attempts) \in Nat
  BY NextRows, LenProperties DEF Inv, TypeOK, TradeInv
<1>2. ASSUME NEW t \in Trades, trade'[t] # "absent"
      PROVE  \E i \in 1..Len(attempts') : t = TradeOf(i)'
  <2>1. \E i \in 1..Len(attempts) : t = TradeOf(i)
    <3>1. CASE trade[t] # "absent"
      BY <1>1, <3>1 DEF TradesFit
    <3>2. CASE trade[t] = "absent"
      <4>1. PICK r \in Requests : CreateSession(r) /\ t = TradeOf(req[r].att)
        BY <1>2, <3>2, NextTrades DEF TradeMove
      <4>2. req[r].att \in 1..Len(attempts)
        BY <4>1 DEF CreateSession, At, Inv, Fits, UsesAttempt
      <4> QED
        BY <4>1, <4>2
    <3> QED
      BY <3>1, <3>2
  <2> QED
    BY <1>1, <2>1 DEF RowsStay
<1>3. ASSUME NEW t \in Trades, t[1] \in SessionChannels
      PROVE  trade'[t] # "offered"
  BY <1>1, <1>3, NextTrades DEF TradeMove, TradesFit, Final
<1>4. ASSUME NEW i \in 1..Len(attempts), attempts[i].channel \in SessionChannels,
             attempts'[i].known
      PROVE  trade'[TradeOf(i)] \in Final \cup {"open"}
  <2>1. CASE attempts[i].known
    BY <1>1, <1>4, <2>1, TradeOfType, TradeStays DEF TradesFit
  <2>2. CASE ~attempts[i].known
    <3>1. \E r \in Requests : HandlerStep(r)
      <4> SUFFICES ASSUME ~\E r \in Requests : HandlerStep(r) PROVE FALSE
        OBVIOUS
      <4>1. attempts' = attempts
        BY <1>1, StepCases, BeginMoves, EnvironmentMoves
      <4> QED
        BY <1>4, <2>2, <4>1
    <3>2. PICK r \in Requests : HandlerStep(r)
      BY <3>1
    <3>3. Writes(r, i, attempts'[i])
      BY <1>1, <1>4, <2>2, <3>2, HandlerRows, RowCases
    <3>4. CASE MarkAttemptSuccess(r) /\ i = req[r].att
      BY <1>1, <3>4, TradeOfType, TradeStays DEF MarkAttemptSuccess, At, Inv, Fits, Final
    <3>5. CASE MarkAttemptReady(r) /\ i = req[r].att
      BY <1>1, <1>4, <3>5, ReadyTrade DEF TradeInv
    <3> QED
      BY <1>4, <2>2, <3>3, <3>4, <3>5 DEF Writes
  <2> QED
    BY <2>1, <2>2
<1>5. ASSUME NEW i \in 1..Len(attempts'), attempts'[i].channel \in SessionChannels,
             attempts'[i].known
      PROVE  trade'[TradeOf(i)'] \in Final \cup {"open"}
  <2>1. CASE i \in 1..Len(attempts)
    BY <1>1, <1>4, <1>5, <2>1 DEF RowsStay
  <2>2. CASE i \notin 1..Len(attempts)
    <3>1. \E r \in Requests : HandlerStep(r)
      <4> SUFFICES ASSUME ~\E r \in Requests : HandlerStep(r) PROVE FALSE
        OBVIOUS
      <4>1. attempts' = attempts
        BY <1>1, StepCases, BeginMoves, EnvironmentMoves
      <4> QED
        BY <1>5, <2>2, <4>1
    <3>2. PICK r \in Requests : HandlerStep(r)
      BY <3>1
    <3>3. Len(attempts') = Len(attempts) + 1 /\ \E c \in Channels : attempts'[Len(attempts) + 1] = NewAttempt(c)
      BY <1>1, <1>5, <2>2, <3>2, HandlerRows, RowCases
    <3>4. i = Len(attempts) + 1
      BY <1>1, <2>2, <3>3
    <3> QED
      BY <1>5, <3>3, <3>4 DEF NewAttempt
  <2> QED
    BY <2>1, <2>2
<1> QED
  BY <1>2, <1>3, <1>5 DEF TradesFit

LEMMA KnowsKeep ==
  ASSUME Inv, [Next]_vars, NEW x, Fits(x), KnowsTrade(x)
  PROVE  KnowsTrade(x)'
<1>1. TypeOK /\ RowsStay
  BY NextRows DEF Inv
<1>2. ASSUME x.pc \in {"attemptReady", "attemptCancelled"}
      PROVE  TradeOf(x.att) \in Trades /\ TradeOf(x.att)' = TradeOf(x.att)
  BY <1>1, <1>2, TradeOfType DEF Fits, UsesAttempt, RowsStay
<1>3. x.event \in Events => x.event[1] \in Trades
  BY DEF Events
<1>4. x.pc = "attemptReady" => trade'[TradeOf(x.att)'] # "absent"
  BY <1>2, TradeStays DEF KnowsTrade
<1>5. x.pc = "attemptCancelled" => trade'[TradeOf(x.att)'] = "closed"
  BY <1>2, TradeStays DEF KnowsTrade
<1>6. x.event \in Events /\ x.event[2] = "CLOSED" => trade'[x.event[1]] = "closed"
  BY <1>3, TradeStays DEF KnowsTrade
<1> QED
  BY <1>4, <1>5, <1>6 DEF KnowsTrade

\* A request y that holds the event of x and is at no label that asks for a trade.
LEMMA PlainKnows ==
  ASSUME Inv, [Next]_vars, NEW x, KnowsTrade(x), NEW y, y.event = x.event,
         y.pc \notin {"attemptReady", "attemptCancelled"},
         y.pc \in {"verify", "findForNotify", "logProcessed"} => y.ret = "logProcessed",
         y.pc # "readOrder"
  PROVE  KnowsTrade(y)'
<1>1. y.event \in Events /\ y.event[2] = "CLOSED" => trade'[y.event[1]] = "closed"
  BY TradeStays DEF KnowsTrade, Events
<1> QED
  BY <1>1 DEF KnowsTrade

LEMMA IdleKnows == KnowsTrade(Idle) /\ KnowsTrade(Idle)'
BY NoEventIsNone DEF KnowsTrade, Idle

LEMMA GotoKnows ==
  ASSUME Inv, [Next]_vars, NEW r \in Requests, KnowsTrade(req[r]),
         NEW l \in Labels \ {"attemptReady", "attemptCancelled", "readOrder"}, Goto(r, l),
         l \in {"verify", "findForNotify", "logProcessed"} => req[r].ret = "logProcessed"
  PROVE  KnowsTrade(req[r])'
<1>1. PICK y : y = req'[r]
  OBVIOUS
<1>2. y.pc = l /\ y.ret = req[r].ret /\ y.event = req[r].event
  BY <1>1, GotoFields DEF Inv, Holds
<1>3. KnowsTrade(y)'
  BY <1>2, PlainKnows
<1> QED
  BY <1>1, <1>3

LEMMA FinishKnows ==
  ASSUME Inv, NEW r \in Requests, req'[r] = Idle
  PROVE  KnowsTrade(req[r])'
BY IdleKnows

LEMMA ReturnKnows ==
  ASSUME Inv, [Next]_vars, NEW r \in Requests, KnowsTrade(req[r]), NEW st, Return(r, st)
  PROVE  KnowsTrade(req[r])'
<1>1. CASE req'[r] = Idle
  BY <1>1, IdleKnows
<1>2. CASE req'[r] # Idle
  <2>1. PICK y : y = req'[r]
    OBVIOUS
  <2>2. y.pc = req[r].ret /\ y.ret = req[r].ret /\ y.event = req[r].event
        /\ req[r].ret \in Returns \ {"idle"}
    BY <1>2, <2>1, ReturnFields DEF Inv, Holds
  <2>3. KnowsTrade(y)'
    BY <2>2, PlainKnows DEF Returns
  <2> QED
    BY <2>1, <2>3
<1> QED
  BY <1>1, <1>2

LEMMA NextChannelKnows ==
  ASSUME Inv, [Next]_vars, NEW r \in Requests, KnowsTrade(req[r]), NEW todo, NextChannel(r, todo)
  PROVE  KnowsTrade(req[r])'
<1>1. CASE req'[r] = Idle
  BY <1>1, IdleKnows
<1>2. CASE req'[r] # Idle
  <2>1. PICK y : y = req'[r]
    OBVIOUS
  <2>2. y.pc = "createAttempt" /\ y.event = req[r].event
    BY <1>2, <2>1, NextChannelFields DEF Inv, Holds
  <2>3. KnowsTrade(y)'
    BY <2>2, PlainKnows
  <2> QED
    BY <2>1, <2>3
<1> QED
  BY <1>1, <1>2

\* A request that goes to another label with its event.
LEMMA MoveKnows ==
  ASSUME Inv, [Next]_vars, NEW r \in Requests, KnowsTrade(req[r]),
         req'[r].event = req[r].event,
         req'[r].pc \notin {"attemptReady", "attemptCancelled", "readOrder",
                            "verify", "findForNotify", "logProcessed"}
  PROVE  KnowsTrade(req[r])'
<1>1. PICK y : y = req'[r]
  OBVIOUS
<1>2. KnowsTrade(y)'
  BY <1>1, PlainKnows
<1> QED
  BY <1>1, <1>2

LEMMA SyncKnows ==
  ASSUME Inv, [Next]_vars, NEW r \in Requests, KnowsTrade(req[r]), SyncStep(r)
  PROVE  KnowsTrade(req[r])'
<1>0. TypeOK /\ Fits(req[r])
  BY DEF Inv
<1>1. CASE ReadOrder(r)
  <2>1. CASE orderStatus \in Pending
    BY <1>0, <1>1, <2>1, ReadOrderFields, MoveKnows DEF Holds
  <2> QED
    BY <1>1, <2>1, ReturnKnows DEF ReadOrder
<1>2. CASE FindLatest(r)
  <2>1. CASE attempts # <<>>
    BY <1>0, <1>2, <2>1, FindLatestFields, MoveKnows
  <2> QED
    BY <1>2, <2>1, ReturnKnows DEF FindLatest
<1>3. CASE QueryChannel(r)
  <2>1. PICK i, t : i = req[r].att /\ t = TradeOf(i)
    OBVIOUS
  <2>2. \/ Goto(r, "attemptSuccess")
        \/ Goto(r, "attemptCancelled") /\ trade[t] = "closed"
        \/ Return(r, req[r].seen)
        \/ Finish(r)
    BY <1>3, <2>1 DEF QueryChannel, QueryAnswer
  <2>3. CASE Goto(r, "attemptSuccess")
    BY <2>3, GotoKnows DEF Labels
  <2>4. CASE Goto(r, "attemptCancelled") /\ trade[t] = "closed"
    <3>1. PICK y : y = req'[r]
      OBVIOUS
    <3>2. y.pc = "attemptCancelled" /\ y.att = i /\ y.event = req[r].event
      BY <1>0, <2>1, <2>4, <3>1, GotoFields DEF Holds
    <3>3. i \in 1..Len(attempts)
      BY <1>0, <1>3, <2>1 DEF QueryChannel, QueryAnswer, At, Fits, UsesAttempt
    <3>4. TradeOf(i)' = t /\ t \in Trades
      BY <1>0, <2>1, <3>3, NextRows, TradeOfType DEF RowsStay
    <3>5. trade'[TradeOf(y.att)'] = "closed"
      BY <2>4, <3>2, <3>4, TradeStays
    <3>6. y.event \in Events /\ y.event[2] = "CLOSED" => trade'[y.event[1]] = "closed"
      BY <3>2, TradeStays DEF KnowsTrade, Events
    <3>7. KnowsTrade(y)'
      BY <3>2, <3>5, <3>6 DEF KnowsTrade
    <3> QED
      BY <3>1, <3>7
  <2>5. CASE Return(r, req[r].seen)
    BY <2>5, ReturnKnows
  <2>6. CASE Finish(r)
    BY <1>0, <2>6, FinishPc, FinishKnows
  <2> QED
    BY <2>2, <2>3, <2>4, <2>5, <2>6
<1> QED
  BY <1>1, <1>2, <1>3 DEF SyncStep

LEMMA CloseKnows ==
  ASSUME Inv, [Next]_vars, NEW r \in Requests, KnowsTrade(req[r]), CloseStep(r)
  PROVE  KnowsTrade(req[r])'
<1>0. TypeOK
  BY DEF Inv
<1>1. CASE MarkAttemptCancelled(r)
  <2>1. PICK l \in {"logProcessed", "readForClose"} :
          Goto(r, l) /\ (l = "logProcessed" => req[r].ret = "logProcessed")
    BY <1>1 DEF MarkAttemptCancelled, FollowUp, SessionFollowUp, TradeFollowUp
  <2> QED
    BY <2>1, GotoKnows DEF Labels
<1>2. CASE ReadForClose(r)
  BY <1>2, GotoKnows, ReturnKnows DEF ReadForClose, Labels
<1>3. CASE WriteClosed(r)
  BY <1>3, ReturnKnows DEF WriteClosed
<1>4. CASE PickClose(r)
  <2>1. CASE req[r].seen \in Pending
    BY <1>0, <1>4, <2>1, PickCloseFields, MoveKnows DEF CloseStart
  <2> QED
    BY <1>0, <1>4, <2>1, FinishPc, FinishKnows DEF PickClose
<1>5. CASE CloseAtChannel(r)
  <2>1. \/ Goto(r, "cancelAttempt") \/ Finish(r)
        \/ req' = [req EXCEPT ![r] = [@ EXCEPT !.pc = "findLatest", !.ret = "cancelAttempt"]]
    BY <1>5 DEF CloseAtChannel, ClosesAt, SessionCloses, TradeCloses, LeavesAt
  <2>2. CASE Goto(r, "cancelAttempt")
    BY <2>2, GotoKnows DEF Labels
  <2>3. CASE Finish(r)
    BY <1>0, <2>3, FinishPc, FinishKnows
  <2>4. CASE req' = [req EXCEPT ![r] = [@ EXCEPT !.pc = "findLatest", !.ret = "cancelAttempt"]]
    BY <1>0, <2>4, SyncAgainFields, MoveKnows DEF Holds
  <2> QED
    BY <2>1, <2>2, <2>3, <2>4
<1>6. CASE CancelAttempt(r)
  <2>1. CASE req[r].seen \in Pending
    BY <1>0, <1>6, <2>1, CancelAttemptFields, MoveKnows DEF Holds
  <2> QED
    BY <1>0, <1>6, <2>1, FinishPc, FinishKnows DEF CancelAttempt
<1> QED
  BY <1>1, <1>2, <1>3, <1>4, <1>5, <1>6 DEF CloseStep

LEMMA CashierKnows ==
  ASSUME Inv, [Next]_vars, NEW r \in Requests, KnowsTrade(req[r]), CashierStep(r)
  PROVE  KnowsTrade(req[r])'
<1>0. TypeOK /\ Fits(req[r])
  BY DEF Inv
<1>1. CASE SnapshotAttempts(r)
  BY <1>0, <1>1, SnapshotFields, MoveKnows, FinishKnows DEF Holds
<1>2. CASE CreateAttempt(r)
  BY <1>0, <1>2, CreateAttemptFields, MoveKnows, FinishKnows
<1>3. CASE CreateSession(r)
  <2>1. PICK i, t : i = req[r].att /\ t = TradeOf(i)
    OBVIOUS
  <2>2. \/ CreateTrade(t) /\ Goto(r, "attemptReady")
        \/ Goto(r, "attemptFailed")
        \/ NextChannel(r, req[r].todo \ {attempts[i].channel})
    BY <1>3, <2>1 DEF CreateSession
  <2>3. CASE CreateTrade(t) /\ Goto(r, "attemptReady")
    <3>1. PICK y : y = req'[r]
      OBVIOUS
    <3>2. y.pc = "attemptReady" /\ y.att = i /\ y.event = req[r].event
      BY <1>0, <2>1, <2>3, <3>1, GotoFields DEF Holds
    <3>3. i \in 1..Len(attempts)
      BY <1>0, <1>3, <2>1 DEF CreateSession, At, Fits, UsesAttempt
    <3>4. TradeOf(i)' = t /\ t \in Trades
      BY <1>0, <2>1, <3>3, NextRows, TradeOfType DEF RowsStay
    <3>5. trade'[t] # "absent"
      BY <1>0, <2>3, <3>4 DEF CreateTrade, TypeOK
    <3>6. y.event \in Events /\ y.event[2] = "CLOSED" => trade'[y.event[1]] = "closed"
      BY <3>2, TradeStays DEF KnowsTrade, Events
    <3>7. KnowsTrade(y)'
      BY <3>2, <3>4, <3>5, <3>6 DEF KnowsTrade
    <3> QED
      BY <3>1, <3>7
  <2>4. CASE Goto(r, "attemptFailed")
    BY <2>4, GotoKnows DEF Labels
  <2>5. CASE NextChannel(r, req[r].todo \ {attempts[i].channel})
    BY <2>5, NextChannelKnows
  <2> QED
    BY <2>2, <2>3, <2>4, <2>5
<1>4. CASE MarkAttemptReady(r) \/ MarkAttemptFailed(r)
  BY <1>4, NextChannelKnows DEF MarkAttemptReady, MarkAttemptFailed, MayTryAnother
<1> QED
  BY <1>1, <1>2, <1>3, <1>4 DEF CashierStep

LEMMA NotifyKnows ==
  ASSUME Inv, [Next]_vars, NEW r \in Requests, KnowsTrade(req[r]), NotifyStep(r)
  PROVE  KnowsTrade(req[r])'
<1>0. TypeOK /\ Fits(req[r])
  BY DEF Inv
<1>1. CASE VerifyNotify(r)
  <2>1. Goto(r, "findForNotify") \/ Finish(r)
    BY <1>1 DEF VerifyNotify
  <2>2. req[r].ret = "logProcessed"
    BY <1>1 DEF VerifyNotify, At, KnowsTrade
  <2> QED
    BY <1>0, <2>1, <2>2, GotoKnows, FinishPc, FinishKnows DEF Labels
<1>2. CASE FindForNotify(r)
  <2>1. PICK e, t : e = req[r].event /\ t = e[1]
    OBVIOUS
  <2>2. e \in Events /\ t \in Trades /\ e[2] \in EventKinds
    BY <1>0, <1>2, <2>1 DEF FindForNotify, FollowUp, SessionFollowUp, TradeFollowUp, At, Fits,
       UsesEvent, Events
  <2>3. PICK i \in NotifyCandidates(t) :
           /\ req'[r].pc = IF e[2] = "SUCCESS" THEN "attemptSuccess" ELSE "attemptCancelled"
           /\ req'[r].att = i /\ req'[r].event = e
    BY <1>0, <1>2, <2>1, FindForNotifyFields
  <2>4. i \in 1..Len(attempts) /\ TradeOf(i) = t
    BY <2>2, <2>3, CandidateTrade
  <2>5. TradeOf(i)' = t
    BY <2>4, NextRows DEF RowsStay
  <2>6. PICK y : y = req'[r]
    OBVIOUS
  <2>7. e[2] = "CLOSED" => trade'[t] = "closed"
    BY <2>1, <2>2, TradeStays DEF KnowsTrade
  <2>8. y.event \in Events /\ y.event[2] = "CLOSED" => trade'[y.event[1]] = "closed"
    BY <2>1, <2>3, <2>6, <2>7
  <2>9. y.pc = "attemptCancelled" => trade'[TradeOf(y.att)'] = "closed"
    BY <2>2, <2>3, <2>5, <2>6, <2>7 DEF EventKinds
  <2>10. KnowsTrade(y)'
    BY <2>3, <2>6, <2>8, <2>9 DEF KnowsTrade
  <2> QED
    BY <2>6, <2>10
<1>3. CASE MarkProcessed(r)
  BY <1>0, <1>3, FinishPc, FinishKnows DEF MarkProcessed
<1> QED
  BY <1>1, <1>2, <1>3 DEF NotifyStep

LEMMA HandlerKnows ==
  ASSUME Inv, [Next]_vars, NEW r \in Requests, KnowsTrade(req[r]), HandlerStep(r)
  PROVE  KnowsTrade(req[r])'
<1>1. CASE RecordStep(r)
  <2>1. CASE MarkAttemptSuccess(r)
    BY <2>1, GotoKnows DEF MarkAttemptSuccess, Labels
  <2>2. CASE MarkOrderPaid(r)
    <3>1. PICK l \in {"logProcessed", "rereadOrder"} :
            Goto(r, l) /\ (l = "logProcessed" => req[r].ret = "logProcessed")
      BY <2>2 DEF MarkOrderPaid
    <3> QED
      BY <3>1, GotoKnows DEF Labels
  <2>3. CASE RereadOrder(r)
    BY <2>3, ReturnKnows DEF RereadOrder
  <2> QED
    BY <1>1, <2>1, <2>2, <2>3 DEF RecordStep
<1>2. CASE NotifyError(r) \/ Abandon(r)
  BY <1>2, FinishPc, FinishKnows DEF NotifyError, Abandon, Inv
<1> QED
  BY <1>1, <1>2, SyncKnows, CloseKnows, CashierKnows, NotifyKnows DEF HandlerStep, RequestStep

LEMMA TradeInvNext == Inv /\ TradeInv /\ [Next]_vars => TradeInv'
<1> SUFFICES ASSUME Inv, TradeInv, [Next]_vars PROVE \A q \in Requests : KnowsTrade(req[q])'
  BY TradesFitStep DEF TradeInv
<1>1. ASSUME NEW q \in Requests, req'[q] = req[q] PROVE KnowsTrade(req[q])'
  <2>1. PICK x : x = req[q]
    OBVIOUS
  <2>2. KnowsTrade(x)'
    BY <2>1, KnowsKeep DEF Inv, TradeInv
  <2> QED
    BY <1>1, <2>1, <2>2
<1>2. ASSUME NEW r \in Requests, HandlerStep(r), NEW q \in Requests PROVE KnowsTrade(req[q])'
  BY <1>1, <1>2, HandlerKnows, HandlerMoves DEF TradeInv
<1>3. ASSUME NEW r \in Requests, NEW op \in Ops \ {"notify"}, BeginRequest(r, op), NEW q \in Requests
      PROVE  KnowsTrade(req[q])'
  <2>1. CASE q = r
    <3>1. PICK y : y = req'[r]
      OBVIOUS
    <3>2. y.pc = "readOrder" /\ y.ret # "cancelAttempt" /\ y.event = req[r].event
      BY <1>3, <3>1, BeginFields DEF Inv
    <3>3. y.event \in Events /\ y.event[2] = "CLOSED" => trade'[y.event[1]] = "closed"
      BY <3>2, TradeStays DEF TradeInv, KnowsTrade, Events
    <3>4. KnowsTrade(y)'
      BY <3>2, <3>3 DEF KnowsTrade
    <3> QED
      BY <2>1, <3>1, <3>4
  <2>2. CASE q # r
    BY <1>1, <1>3, <2>2, BeginMoves DEF Inv
  <2> QED
    BY <2>1, <2>2
<1>4. ASSUME NEW r \in Requests, NEW e \in Events, DeliverEvent(r, e), NEW q \in Requests
      PROVE  KnowsTrade(req[q])'
  <2>1. CASE q = r
    <3>1. PICK y : y = req'[r]
      OBVIOUS
    <3>2. y.pc = "verify" /\ y.ret = "logProcessed" /\ y.event = e
      BY <1>4, <3>1, DeliverFields DEF Inv
    <3>3. e[2] = "CLOSED" => trade'[e[1]] = "closed"
      BY <1>4, TradeStays DEF DeliverEvent, Emitted, Events
    <3>4. KnowsTrade(y)'
      BY <3>2, <3>3 DEF KnowsTrade
    <3> QED
      BY <2>1, <3>1, <3>4
  <2>2. CASE q # r
    BY <1>1, <1>4, <2>2, BeginMoves DEF Inv
  <2> QED
    BY <2>1, <2>2
<1>5. ASSUME EnvironmentStep, NEW q \in Requests PROVE KnowsTrade(req[q])'
  BY <1>1, <1>5, EnvironmentMoves
<1> QED
  BY <1>2, <1>3, <1>4, <1>5, StepCases

LEMMA SpecTrades == Spec => [](Inv /\ Alone /\ TradeInv)
<1>1. Init => TradeInv
  <2> SUFFICES ASSUME Init PROVE TradeInv
    OBVIOUS
  <2>1. TradesFit
    <3>1. \A t \in Trades : trade[t] = "absent"
      BY DEF Init
    <3>2. 1..Len(attempts) = {}
      BY EmptySeq DEF Init
    <3> QED
      BY <3>1, <3>2 DEF TradesFit
  <2>2. \A r \in Requests : KnowsTrade(req[r])
    BY IdleKnows DEF Init
  <2> QED
    BY <2>1, <2>2 DEF TradeInv
<1> QED
  BY <1>1, TradeInvNext, SpecAlone, PTL DEF Spec

-----------------------------------------------------------------------------
(* A handler that runs alone, without a failed call, on an order whose     *)
(* attempts are all of one session channel                                 *)

OneSession == \E c \in SessionChannels : \A i \in 1..Len(attempts) : attempts[i].channel = c

Undisturbed == ~overlapped /\ faults = 0 /\ OneSession

\* No trade of the order can be paid.
Quiet == \A t \in Trades : trade[t] \notin {"offered", "open"}

\* What x read of the order's status is still so.
Sees(x) ==
  /\ x.pc \in {"findLatest", "queryChannel", "closeAtChannel", "createAttempt",
               "createSession", "attemptReady"} => orderStatus \in Pending
  /\ x.pc \in {"pickClose", "snapshot", "cancelAttempt"} /\ x.seen \in Pending
       => orderStatus \in Pending
  /\ x.pc = "rereadOrder" => orderStatus \notin Pending
  /\ x.pc # "attemptFailed"

\* Where syncOrderIfNeeded and markOrderClosedEntity run on behalf of a close.
SyncLabels == {"findLatest", "queryChannel", "attemptSuccess", "orderPaid", "rereadOrder",
               "attemptCancelled", "readForClose", "writeClosed"}

\* The attempt x works on, and the one it closes, is the latest there is.
LooksAtLatest(x) ==
  /\ x.pc \in {"queryChannel", "createSession", "attemptReady"} => x.att = Len(attempts)
  /\ x.pc = "attemptCancelled" /\ x.ret # "logProcessed" => x.att = Len(attempts)
  /\ x.pc \in {"closeAtChannel", "cancelAttempt"} => x.closing = Len(attempts)
  /\ x.pc \in SyncLabels /\ x.ret = "cancelAttempt" => x.closing = Len(attempts)

\* A close has dealt with the trade before it cancels the attempt and closes the order.
Closes(x) ==
  /\ x.ret = "cancelAttempt" /\ x.pc \in {"findLatest", "queryChannel"}
       => trade[TradeOf(x.closing)] \in Final
  /\ x.pc = "cancelAttempt" /\ x.seen \in Pending => trade[TradeOf(x.closing)] = "closed"
  /\ x.pc \in {"readForClose", "writeClosed"} => Quiet

Good(x) == Sees(x) /\ LooksAtLatest(x) /\ Closes(x)

\* x cancels no attempt on behalf of a close.
Calm(x) ==
  \/ x.pc \in {"idle", "verify", "findForNotify", "logProcessed", "createAttempt",
               "createSession", "attemptReady"}
  \/ x.pc \in {"attemptSuccess", "orderPaid", "attemptCancelled"} /\ x.ret = "logProcessed"
  \/ x.pc = "readOrder" /\ orderStatus \notin Pending
  \/ x.pc \in {"pickClose", "snapshot", "cancelAttempt"} /\ x.seen \notin Pending

\* An attempt that is over has left a trade that is over.
Undone == \A i \in 1..Len(attempts) :
            attempts[i].status \notin Reusable => trade[TradeOf(i)] \in Final

\* All attempts but the latest are over; the cashier opens a second session only past the
\* deadline, from where no close gets to the provider any more.
Tidy == \A i \in 1..Len(attempts) : i < Len(attempts) => attempts[i].status \notin Reusable

Resting(x) == overdue /\ orderStatus # "CLOSED" /\ Calm(x)

ClosedInv ==
  Undisturbed =>
    /\ \A r \in Requests : Good(req[r])
    /\ Undone
    /\ Tidy \/ \A r \in Requests : Resting(req[r])
    /\ orderStatus = "CLOSED" => Quiet

LEMMA FaultMoves ==
  ASSUME [Next]_vars
  PROVE  UNCHANGED faults \/ Fault
<1>1. ASSUME NEW op \in Ops \ {"notify"}, NEW r \in Requests, BeginRequest(r, op)
      PROVE  UNCHANGED faults
  BY <1>1 DEF BeginRequest, world
<1>2. ASSUME NEW e \in Events, NEW r \in Requests, DeliverEvent(r, e)
      PROVE  UNCHANGED faults
  BY <1>2 DEF DeliverEvent, world
<1>3. ASSUME NEW r \in Requests, HandlerStep(r) PROVE UNCHANGED faults \/ Fault
  <2>1. CASE SyncStep(r) \/ RecordStep(r)
    BY <2>1 DEF SyncStep, RecordStep, ReadOrder, FindLatest, QueryChannel, QueryAnswer,
       MarkAttemptSuccess,
       MarkOrderPaid, RereadOrder, world
  <2>2. CASE CloseStep(r)
    BY <2>2 DEF CloseStep, MarkAttemptCancelled, FollowUp, SessionFollowUp, TradeFollowUp,
       ReadForClose, WriteClosed, PickClose,
       CloseAtChannel, ClosesAt, SessionCloses, TradeCloses, LeavesAt, CancelAttempt, world
  <2>3. CASE CashierStep(r)
    BY <2>3 DEF CashierStep, SnapshotAttempts, CreateAttempt, CreateSession,
       MarkAttemptReady, MarkAttemptFailed, MayTryAnother, world
  <2>4. CASE NotifyStep(r) \/ NotifyError(r) \/ Abandon(r)
    BY <2>4 DEF NotifyStep, VerifyNotify, FindForNotify, FollowUp, SessionFollowUp,
       TradeFollowUp, MarkProcessed, NotifyError, Abandon, world
  <2> QED
    BY <1>3, <2>1, <2>2, <2>3, <2>4 DEF HandlerStep, RequestStep
<1>4. CASE EnvironmentStep
  BY <1>4 DEF EnvironmentStep, PayerVisits, PayerPays, ProviderCloses, ProviderStep,
     DeadlinePasses, vars, world
<1> QED
  BY <1>1, <1>2, <1>3, <1>4, StepCases

\* An order that is undisturbed has been so all along.
LEMMA Before ==
  ASSUME Inv, [Next]_vars, Undisturbed'
  PROVE  Undisturbed /\ ~Fault
<1>1. faults \in Nat /\ faults' = 0
  BY OrderAssumption DEF Inv, TypeOK, OrderAssumption, Undisturbed
<1>2. ~Fault
  BY <1>1 DEF Fault
<1>3. faults = 0
  BY <1>1, <1>2, FaultMoves
<1>4. OneSession
  BY NextRows DEF RowsStay, OneSession, Undisturbed
<1>5. ~overlapped
  <2>1. overlapped => overlapped'
    <3>1. ASSUME NEW r \in Requests,
                 \/ \E op \in Ops \ {"notify"} : BeginRequest(r, op)
                 \/ \E e \in Events : DeliverEvent(r, e)
          PROVE  NoteOverlap
      BY <3>1, BeginMoves DEF Inv
    <3>2. NoteOverlap => (overlapped => overlapped')
      BY Zenon DEF NoteOverlap
    <3>3. ASSUME NEW r \in Requests, HandlerStep(r) PROVE overlapped' = overlapped
      BY <3>3, HandlerMoves
    <3>4. ASSUME EnvironmentStep PROVE overlapped' = overlapped
      BY <3>4, EnvironmentMoves
    <3> QED
      BY <3>1, <3>2, <3>3, <3>4, StepCases
  <2> QED
    BY <2>1 DEF Undisturbed
<1> QED
  BY <1>2, <1>3, <1>4, <1>5 DEF Undisturbed

\* Only the cashier makes a trade payable.
LEMMA QuietStays ==
  ASSUME Inv, [Next]_vars, Quiet, \A r \in Requests : ~MarkAttemptReady(r)
  PROVE  Quiet'
BY NextTrades DEF Quiet, TradeMove, Final

\* Once the latest attempt is over all are, and there is no trade but theirs.
LEMMA LatestIsOver ==
  ASSUME Inv, TradeInv, Undone, Tidy,
         Len(attempts) # 0 => trade[TradeOf(Len(attempts))] \in Final
  PROVE  Quiet
<1> SUFFICES ASSUME NEW t \in Trades, trade[t] # "absent" PROVE trade[t] \in Final
  BY DEF Quiet, Final
<1>1. Len(attempts) \in Nat
  BY LenProperties DEF Inv, TypeOK
<1>2. PICK i \in 1..Len(attempts) : t = TradeOf(i)
  BY DEF TradeInv, TradesFit
<1>3. CASE i = Len(attempts)
  BY <1>1, <1>2, <1>3
<1>4. CASE i < Len(attempts)
  BY <1>2, <1>4 DEF Tidy, Undone
<1> QED
  BY <1>1, <1>2, <1>3, <1>4

LEMMA UndoneStep ==
  ASSUME Inv, TradeInv, NEW r \in Requests, RequestStep(r), [Next]_vars, Good(req[r]), Undone
  PROVE  Undone'
<1>1. TypeOK /\ RowsStay /\ Len(attempts) \in Nat /\ RowMoves(r)
  BY NextRows, LenProperties, HandlerRows DEF Inv, TypeOK, HandlerStep
<1> SUFFICES ASSUME NEW i \in 1..Len(attempts'), attempts'[i].status \notin Reusable
             PROVE  trade'[TradeOf(i)'] \in Final
  BY DEF Undone
<1>2. CASE i \in 1..Len(attempts)
  <2>1. TradeOf(i) \in Trades /\ TradeOf(i)' = TradeOf(i)
    BY <1>1, <1>2, TradeOfType DEF RowsStay
  <2>2. trade[TradeOf(i)] \in Final
    <3>1. CASE attempts'[i] = attempts[i]
      BY <1>2, <3>1 DEF Undone
    <3>2. CASE Writes(r, i, attempts'[i])
      <4>1. CASE MarkAttemptSuccess(r) /\ i = req[r].att
        BY <4>1 DEF MarkAttemptSuccess, At, Inv, Fits, Final
      <4>2. CASE MarkAttemptCancelled(r) /\ i = req[r].att
        BY <4>2 DEF MarkAttemptCancelled, FollowUp, SessionFollowUp, TradeFollowUp, At,
           TradeInv, KnowsTrade, Final
      <4>3. CASE CancelAttempt(r) /\ req[r].seen \in Pending /\ i = req[r].closing
        BY <4>3 DEF CancelAttempt, At, Good, Closes, Final
      <4>4. CASE MarkAttemptFailed(r)
        BY <4>4 DEF MarkAttemptFailed, MayTryAnother, At, Good, Sees
      <4>5. CASE MarkAttemptReady(r) /\ attempts'[i].status = "USER_PAYING"
        BY <4>5 DEF Reusable
      <4> QED
        BY <3>2, <4>1, <4>2, <4>3, <4>4, <4>5 DEF Writes
    <3> QED
      BY <1>1, <1>2, <3>1, <3>2, RowCases
  <2> QED
    BY <2>1, <2>2, TradeStays
<1>3. CASE i \notin 1..Len(attempts)
  <2>1. Len(attempts') = Len(attempts) + 1
        /\ \E c \in Channels : attempts'[Len(attempts) + 1] = NewAttempt(c)
    BY <1>1, <1>3, RowCases
  <2>2. i = Len(attempts) + 1
    BY <1>1, <1>3, <2>1
  <2> QED
    BY <2>1, <2>2 DEF NewAttempt, Reusable
<1> QED
  BY <1>2, <1>3

-----------------------------------------------------------------------------
(* Where such a handler goes *)

\* What a handler r goes by that runs alone on an undisturbed order.
Working(r) ==
  /\ Inv /\ TradeInv /\ OneSession /\ Undone /\ Good(req[r])
  /\ Tidy \/ Resting(req[r])

LEMMA PlainGood ==
  ASSUME NEW r \in Requests,
         req'[r].pc \in {"idle", "verify", "findForNotify", "logProcessed", "readOrder"}
  PROVE  Good(req[r])'
BY DEF Good, Sees, LooksAtLatest, Closes, SyncLabels

\* A request in the middle of a synchronisation looks no further.
LEMMA SyncGood ==
  ASSUME NEW r \in Requests, req'[r].pc \in {"attemptSuccess", "orderPaid"},
         req'[r].ret = "cancelAttempt" => req'[r].closing = Len(attempts')
  PROVE  Good(req[r])'
BY DEF Good, Sees, LooksAtLatest, Closes, SyncLabels

LEMMA FinishGood ==
  ASSUME TypeOK, NEW r \in Requests, Finish(r)
  PROVE  Good(req[r])'
BY FinishPc, PlainGood

LEMMA ReturnGood ==
  ASSUME TypeOK, NEW r \in Requests, NEW st, Return(r, st),
         st \in Pending => orderStatus' \in Pending,
         req[r].ret = "cancelAttempt" =>
           /\ req[r].closing = Len(attempts')
           /\ st \notin Pending
  PROVE  Good(req[r])'
<1>1. CASE req'[r] = Idle
  BY <1>1, PlainGood DEF Idle
<1>2. CASE req'[r] # Idle
  <2>1. PICK y : y = req'[r]
    OBVIOUS
  <2>2. /\ y.pc = req[r].ret /\ y.ret = req[r].ret /\ y.seen = st /\ y.closing = req[r].closing
        /\ y.pc \in {"pickClose", "snapshot", "cancelAttempt", "logProcessed"}
    BY <1>2, <2>1, ReturnFields DEF Holds, Returns
  <2>3. Sees(y)' /\ LooksAtLatest(y)' /\ Closes(y)'
    BY <2>2 DEF Sees, LooksAtLatest, Closes, SyncLabels
  <2> QED
    BY <2>1, <2>3 DEF Good
<1> QED
  BY <1>1, <1>2

LEMMA ReadOrderGood ==
  ASSUME NEW r \in Requests, ReadOrder(r), Working(r)
  PROVE  Good(req[r])'
<1>1. /\ TypeOK /\ UNCHANGED <<orderStatus, attempts, trade>>
      /\ req[r].ret # "cancelAttempt"
  BY DEF Working, Inv, TradeInv, KnowsTrade, ReadOrder, At, db, order, world
<1>2. CASE orderStatus \in Pending
  BY <1>1, <1>2, ReadOrderFields DEF Good, Sees, LooksAtLatest, Closes, SyncLabels
<1>3. CASE orderStatus \notin Pending
  BY <1>1, <1>3, ReturnGood DEF ReadOrder
<1> QED
  BY <1>2, <1>3

LEMMA FindLatestGood ==
  ASSUME NEW r \in Requests, FindLatest(r), Working(r)
  PROVE  Good(req[r])'
<1>1. /\ TypeOK /\ UNCHANGED <<orderStatus, attempts, trade>> /\ req[r].pc = "findLatest"
      /\ orderStatus \in Pending
      /\ req[r].ret = "cancelAttempt" =>
           /\ req[r].closing \in 1..Len(attempts) /\ req[r].closing = Len(attempts)
           /\ trade[TradeOf(req[r].closing)] \in Final
  BY DEF Working, Inv, Fits, FindLatest, At, db, order, world, Good, Sees, LooksAtLatest,
     Closes,
     SyncLabels
<1>2. CASE attempts # <<>>
  <2>1. PICK y : y = req'[r]
    OBVIOUS
  <2>2. /\ y.pc = "queryChannel" /\ y.ret = req[r].ret /\ y.att = Len(attempts)
        /\ y.closing = req[r].closing
    BY <1>1, <1>2, <2>1, FindLatestFields
  <2>3. y.ret = "cancelAttempt" => trade'[TradeOf(y.closing)'] \in Final
    BY <1>1, <2>2 DEF TradeOf
  <2>4. Sees(y)' /\ LooksAtLatest(y)' /\ Closes(y)'
    BY <1>1, <2>2, <2>3 DEF Sees, LooksAtLatest, Closes, SyncLabels
  <2> QED
    BY <2>1, <2>4 DEF Good
<1>3. CASE attempts = <<>>
  <2>1. req[r].ret # "cancelAttempt"
    BY <1>1, <1>3, EmptySeq
  <2> QED
    BY <1>1, <1>3, <2>1, ReturnGood DEF FindLatest
<1> QED
  BY <1>2, <1>3

LEMMA QueryChannelGood ==
  ASSUME NEW r \in Requests, QueryChannel(r), ~Fault, Working(r)
  PROVE  Good(req[r])'
<1>0. PICK i, t : i = req[r].att /\ t = TradeOf(i)
  OBVIOUS
<1>1. /\ TypeOK /\ UNCHANGED <<orderStatus, attempts, trade>> /\ req[r].pc = "queryChannel"
      /\ orderStatus \in Pending /\ i = Len(attempts)
      /\ req[r].ret = "cancelAttempt" => req[r].closing = i /\ trade[t] \in Final
  BY <1>0 DEF Working, Inv, QueryChannel, QueryAnswer, At, db, order, Good, Sees, LooksAtLatest,
     Closes,
     SyncLabels
<1>2. \/ Goto(r, "attemptSuccess") \/ Goto(r, "attemptCancelled") \/ Finish(r)
      \/ Return(r, req[r].seen) /\ trade[t] \notin Final
  BY <1>0 DEF QueryChannel, QueryAnswer, Final
<1>3. CASE Goto(r, "attemptSuccess")
  BY <1>1, <1>3, GotoFields, SyncGood DEF Holds
<1>4. CASE Goto(r, "attemptCancelled")
  <2>1. PICK y : y = req'[r]
    OBVIOUS
  <2>2. y.pc = "attemptCancelled" /\ y.ret = req[r].ret /\ y.att = i /\ y.closing = req[r].closing
    BY <1>0, <1>1, <1>4, <2>1, GotoFields DEF Holds
  <2>3. Sees(y)' /\ LooksAtLatest(y)' /\ Closes(y)'
    BY <1>1, <2>2 DEF Sees, LooksAtLatest, Closes, SyncLabels
  <2> QED
    BY <2>1, <2>3 DEF Good
<1>5. CASE Finish(r)
  BY <1>1, <1>5, FinishGood
<1>6. CASE Return(r, req[r].seen) /\ trade[t] \notin Final
  BY <1>1, <1>6, ReturnGood
<1> QED
  BY <1>2, <1>3, <1>4, <1>5, <1>6

LEMMA RecordGood ==
  ASSUME NEW r \in Requests, RecordStep(r), Working(r)
  PROVE  Good(req[r])'
<1>1. TypeOK
  BY DEF Working, Inv
<1>2. CASE MarkAttemptSuccess(r)
  <2>1. req[r].pc = "attemptSuccess" /\ Goto(r, "orderPaid")
    BY <1>2 DEF MarkAttemptSuccess, At
  <2>2. Len(attempts') = Len(attempts)
    <3>1. ~CreateAttempt(r) /\ HandlerStep(r)
      BY <1>2 DEF MarkAttemptSuccess, At, CreateAttempt, HandlerStep, RequestStep, RecordStep
    <3> QED
      BY <1>1, <3>1, HandlerRows, RowCases DEF Working
  <2>3. req[r].ret = "cancelAttempt" => req[r].closing = Len(attempts)
    BY <2>1 DEF Working, Good, LooksAtLatest, SyncLabels
  <2> QED
    BY <1>1, <2>1, <2>2, <2>3, GotoFields, SyncGood DEF Holds
<1>3. CASE MarkOrderPaid(r)
  <2>1. /\ req[r].pc = "orderPaid" /\ attempts' = attempts /\ orderStatus' \in Paid
        /\ Goto(r, "logProcessed") \/ Goto(r, "rereadOrder")
    BY <1>3 DEF MarkOrderPaid, At, RecordsPayment, order, Paid
  <2>2. req[r].ret = "cancelAttempt" => req[r].closing = Len(attempts)
    BY <2>1 DEF Working, Good, LooksAtLatest, SyncLabels
  <2>3. CASE Goto(r, "logProcessed")
    BY <1>1, <2>3, GotoPc, PlainGood
  <2>4. CASE Goto(r, "rereadOrder")
    <3>1. PICK y : y = req'[r]
      OBVIOUS
    <3>2. y.pc = "rereadOrder" /\ y.ret = req[r].ret /\ y.closing = req[r].closing
      BY <1>1, <2>4, <3>1, GotoFields DEF Holds
    <3>3. Sees(y)' /\ LooksAtLatest(y)' /\ Closes(y)'
      BY <2>1, <2>2, <3>2 DEF Sees, LooksAtLatest, Closes, SyncLabels, Pending, Paid
    <3> QED
      BY <3>1, <3>3 DEF Good
  <2> QED
    BY <2>1, <2>3, <2>4
<1>4. CASE RereadOrder(r)
  <2>1. /\ req[r].pc = "rereadOrder" /\ UNCHANGED <<orderStatus, attempts>>
        /\ Return(r, orderStatus)
    BY <1>4 DEF RereadOrder, At, db, order
  <2>2. /\ orderStatus \notin Pending
        /\ req[r].ret = "cancelAttempt" => req[r].closing = Len(attempts)
    BY <2>1 DEF Working, Good, Sees, LooksAtLatest, SyncLabels
  <2> QED
    BY <1>1, <2>1, <2>2, ReturnGood
<1> QED
  BY <1>2, <1>3, <1>4 DEF RecordStep

\* A request arrives where it closes the order: no trade of it can be paid.
LEMMA ArriveGood ==
  ASSUME NEW r \in Requests, req'[r].pc \in {"readForClose", "writeClosed"}, Quiet',
         req'[r].ret = "cancelAttempt" => req'[r].closing = Len(attempts')
  PROVE  Good(req[r])'
BY DEF Good, Sees, LooksAtLatest, Closes, SyncLabels

LEMMA MarkAttemptCancelledGood ==
  ASSUME NEW r \in Requests, MarkAttemptCancelled(r), Working(r)
  PROVE  Good(req[r])'
<1>0. PICK i : i = req[r].att
  OBVIOUS
<1>1. /\ TypeOK /\ UNCHANGED trade /\ req[r].pc = "attemptCancelled" /\ i \in 1..Len(attempts)
      /\ trade[TradeOf(i)] = "closed"
      /\ req[r].ret = "cancelAttempt" => req[r].closing = Len(attempts)
      /\ req[r].ret # "logProcessed" => i = Len(attempts)
  BY <1>0 DEF Working, Inv, Fits, UsesAttempt, TradeInv, KnowsTrade, MarkAttemptCancelled,
     FollowUp, SessionFollowUp, TradeFollowUp, At, world,
     Good, LooksAtLatest, SyncLabels
<1>2. Len(attempts') = Len(attempts)
  <2>1. ~CreateAttempt(r) /\ HandlerStep(r)
    BY DEF MarkAttemptCancelled, FollowUp, SessionFollowUp, TradeFollowUp, At, CreateAttempt,
       HandlerStep, RequestStep, CloseStep
  <2> QED
    BY <1>1, <2>1, HandlerRows, RowCases DEF Working
<1>3. attempts[i].channel \in SessionChannels
  BY <1>1 DEF Working, OneSession
<1>4. CASE req[r].ret = "logProcessed"
  BY <1>0, <1>1, <1>3, <1>4, GotoPc, PlainGood DEF MarkAttemptCancelled, FollowUp,
     SessionFollowUp, TradeFollowUp
<1>5. CASE req[r].ret # "logProcessed"
  <2>1. Goto(r, "readForClose")
    BY <1>5 DEF MarkAttemptCancelled, FollowUp, SessionFollowUp, TradeFollowUp
  <2>2. Tidy
    BY <1>1, <1>5 DEF Working, Resting, Calm
  <2>3. Quiet
    BY <1>1, <1>5, <2>2, LatestIsOver DEF Working, Final
  <2>4. Quiet'
    BY <1>1, <2>3 DEF Quiet
  <2> QED
    BY <1>1, <1>2, <2>1, <2>4, GotoFields, ArriveGood DEF Holds
<1> QED
  BY <1>4, <1>5

LEMMA PickCloseGood ==
  ASSUME NEW r \in Requests, PickClose(r), Working(r)
  PROVE  Good(req[r])'
<1>1. /\ TypeOK /\ UNCHANGED <<orderStatus, attempts, trade>> /\ req[r].pc = "pickClose"
      /\ req[r].seen \in Pending => orderStatus \in Pending
  BY DEF Working, Inv, PickClose, At, db, order, world, Good, Sees
<1>2. CASE req[r].seen \notin Pending
  BY <1>1, <1>2, FinishGood DEF PickClose
<1>3. CASE req[r].seen \in Pending
  <2>1. PICK y : y = req'[r]
    OBVIOUS
  <2>2. y.pc = CloseStart /\ y.ret = "idle" /\ y.closing = Len(attempts)
    BY <1>1, <1>3, <2>1, PickCloseFields
  <2>3. CASE attempts = <<>>
    <3>1. 1..Len(attempts) = {}
      BY <2>3, EmptySeq
    <3>2. Quiet'
      BY <1>1, <3>1 DEF Working, TradeInv, TradesFit, Quiet
    <3> QED
      BY <2>1, <2>2, <2>3, <3>2, ArriveGood DEF CloseStart
  <2>4. CASE attempts # <<>>
    <3>1. y.pc = "closeAtChannel"
      BY <2>2, <2>4 DEF CloseStart
    <3>2. Sees(y)' /\ LooksAtLatest(y)' /\ Closes(y)'
      BY <1>1, <1>3, <2>2, <3>1 DEF Sees, LooksAtLatest, Closes, SyncLabels
    <3> QED
      BY <2>1, <3>2 DEF Good
  <2> QED
    BY <2>3, <2>4
<1> QED
  BY <1>2, <1>3

LEMMA CloseAtChannelGood ==
  ASSUME NEW r \in Requests, CloseAtChannel(r), ~Fault, Working(r)
  PROVE  Good(req[r])'
<1>0. PICK i, t : i = req[r].closing /\ t = TradeOf(i)
  OBVIOUS
<1>1. /\ TypeOK /\ UNCHANGED <<orderStatus, attempts>> /\ req[r].pc = "closeAtChannel"
      /\ orderStatus \in Pending /\ i = Len(attempts) /\ i \in 1..Len(attempts)
  BY <1>0 DEF Working, Inv, Fits, UsesClosing, CloseAtChannel, ClosesAt, SessionCloses,
     TradeCloses, LeavesAt, At, db, order, Good, Sees,
     LooksAtLatest
<1>2. t \in Trades /\ TradeOf(i)' = t /\ attempts[i].channel \in SessionChannels
  BY <1>0, <1>1, TradeOfType DEF Working, OneSession, TradeOf
<1>3. \/ trade' = [trade EXCEPT ![t] = "closed"] /\ Goto(r, "cancelAttempt")
      \/ /\ Addressable(i) /\ trade[t] # "open" /\ UNCHANGED trade
         /\ req' = [req EXCEPT ![r] = [@ EXCEPT !.pc = "findLatest", !.ret = "cancelAttempt"]]
      \/ Finish(r)
  BY <1>0 DEF CloseAtChannel, ClosesAt, SessionCloses, TradeCloses, LeavesAt
<1>4. PICK y : y = req'[r]
  OBVIOUS
<1>5. CASE trade' = [trade EXCEPT ![t] = "closed"] /\ Goto(r, "cancelAttempt")
  <2>1. y.pc = "cancelAttempt" /\ y.closing = i
    BY <1>0, <1>1, <1>4, <1>5, GotoFields DEF Holds
  <2>2. trade'[TradeOf(y.closing)'] = "closed"
    BY <1>1, <1>2, <1>5, <2>1 DEF TypeOK
  <2>3. Sees(y)' /\ LooksAtLatest(y)' /\ Closes(y)'
    BY <1>1, <2>1, <2>2 DEF Sees, LooksAtLatest, Closes, SyncLabels
  <2> QED
    BY <1>4, <2>3 DEF Good
<1>6. CASE /\ Addressable(i) /\ trade[t] # "open" /\ UNCHANGED trade
           /\ req' = [req EXCEPT ![r] = [@ EXCEPT !.pc = "findLatest", !.ret = "cancelAttempt"]]
  <2>1. y.pc = "findLatest" /\ y.ret = "cancelAttempt" /\ y.closing = i
    BY <1>0, <1>1, <1>4, <1>6, SyncAgainFields DEF Holds
  <2>2. trade[t] \in Final
    BY <1>0, <1>1, <1>2, <1>6 DEF Working, TradeInv, TradesFit, Addressable
  <2>3. trade'[TradeOf(y.closing)'] \in Final
    BY <1>2, <1>6, <2>1, <2>2
  <2>4. Sees(y)' /\ LooksAtLatest(y)' /\ Closes(y)'
    BY <1>1, <2>1, <2>3 DEF Sees, LooksAtLatest, Closes, SyncLabels
  <2> QED
    BY <1>4, <2>4 DEF Good
<1>7. CASE Finish(r)
  BY <1>1, <1>7, FinishGood
<1> QED
  BY <1>3, <1>5, <1>6, <1>7

LEMMA CancelAttemptGood ==
  ASSUME NEW r \in Requests, CancelAttempt(r), Working(r)
  PROVE  Good(req[r])'
<1>0. PICK i : i = req[r].closing
  OBVIOUS
<1>1. /\ TypeOK /\ UNCHANGED trade /\ req[r].pc = "cancelAttempt" /\ i = Len(attempts)
  BY <1>0 DEF Working, Inv, CancelAttempt, At, world, Good, LooksAtLatest
<1>2. CASE req[r].seen \notin Pending
  BY <1>1, <1>2, FinishGood DEF CancelAttempt
<1>3. CASE req[r].seen \in Pending
  <2>1. trade[TradeOf(i)] = "closed"
    BY <1>0, <1>1, <1>3 DEF Working, Good, Closes
  <2>2. Tidy
    BY <1>1, <1>3 DEF Working, Resting, Calm
  <2>3. Quiet
    BY <1>1, <2>1, <2>2, LatestIsOver DEF Working, Final
  <2>4. Quiet'
    BY <1>1, <2>3 DEF Quiet
  <2> QED
    BY <1>1, <1>3, <2>4, CancelAttemptFields, ArriveGood
<1> QED
  BY <1>2, <1>3

LEMMA CloseGood ==
  ASSUME NEW r \in Requests, CloseStep(r), ~Fault, Working(r)
  PROVE  Good(req[r])'
<1>1. TypeOK
  BY DEF Working, Inv
<1>2. CASE ReadForClose(r)
  <2>1. /\ req[r].pc = "readForClose" /\ UNCHANGED <<orderStatus, attempts, trade>>
        /\ req[r].ret = "cancelAttempt" => req[r].closing = Len(attempts)
        /\ Quiet
    BY <1>2 DEF ReadForClose, At, db, order, world, Working, Good, LooksAtLatest, Closes,
       SyncLabels
  <2>2. Quiet'
    BY <2>1 DEF Quiet
  <2>3. CASE Closable
    BY <1>1, <1>2, <2>1, <2>2, <2>3, GotoFields, ArriveGood DEF ReadForClose, Holds
  <2>4. CASE ~Closable
    <3>1. orderStatus \notin Pending
      BY <2>4 DEF Closable, Pending, Paid
    <3> QED
      BY <1>1, <1>2, <2>1, <2>4, <3>1, ReturnGood DEF ReadForClose
  <2> QED
    BY <2>3, <2>4
<1>3. CASE WriteClosed(r)
  <2>1. /\ req[r].pc = "writeClosed" /\ UNCHANGED attempts /\ Return(r, "CLOSED")
        /\ req[r].ret = "cancelAttempt" => req[r].closing = Len(attempts)
    BY <1>3 DEF WriteClosed, At, Working, Good, LooksAtLatest, SyncLabels
  <2> QED
    BY <1>1, <2>1, ReturnGood DEF Pending
<1> QED
  BY <1>2, <1>3, MarkAttemptCancelledGood, PickCloseGood, CloseAtChannelGood, CancelAttemptGood
     DEF CloseStep

LEMMA NextChannelGood ==
  ASSUME TypeOK, NEW r \in Requests, NEW todo, NextChannel(r, todo), orderStatus' \in Pending
  PROVE  Good(req[r])'
<1>1. CASE req'[r] = Idle
  BY <1>1, PlainGood DEF Idle
<1>2. CASE req'[r] # Idle
  <2>1. req'[r].pc = "createAttempt"
    BY <1>2, NextChannelFields
  <2> QED
    BY <2>1 DEF Good, Sees, LooksAtLatest, Closes, SyncLabels
<1> QED
  BY <1>1, <1>2

LEMMA CashierGood ==
  ASSUME NEW r \in Requests, CashierStep(r), ~Fault, Working(r)
  PROVE  Good(req[r])'
<1>1. TypeOK /\ Len(attempts) \in Nat /\ orderStatus' = orderStatus
  BY LenProperties DEF Working, Inv, TypeOK, CashierStep, SnapshotAttempts, CreateAttempt,
     CreateSession, MarkAttemptReady, MarkAttemptFailed, MayTryAnother, db, order
<1>2. CASE SnapshotAttempts(r)
  <2>1. CASE req'[r] = Idle
    BY <2>1, PlainGood DEF Idle
  <2>2. CASE req'[r] # Idle
    <3>1. req'[r].pc = "createAttempt" /\ req[r].seen \in Pending /\ req[r].pc = "snapshot"
      BY <1>1, <1>2, <2>2, SnapshotFields DEF SnapshotAttempts, At
    <3>2. orderStatus \in Pending
      BY <3>1 DEF Working, Good, Sees
    <3> QED
      BY <1>1, <3>1, <3>2 DEF Good, Sees, LooksAtLatest, Closes, SyncLabels
  <2> QED
    BY <2>1, <2>2
<1>3. CASE CreateAttempt(r)
  <2>1. CASE req'[r] = Idle
    BY <2>1, PlainGood DEF Idle
  <2>2. CASE req'[r] # Idle
    <3>1. /\ req'[r].pc = "createSession" /\ req'[r].att = Len(attempts) + 1
          /\ \E c \in req[r].todo : attempts' = Append(attempts, NewAttempt(c))
      BY <1>1, <1>3, <2>2, CreateAttemptFields
    <3>2. Len(attempts') = Len(attempts) + 1
      BY <1>1, <3>1 DEF TypeOK
    <3>3. orderStatus \in Pending
      BY <1>3 DEF CreateAttempt, At, Working, Good, Sees
    <3> QED
      BY <1>1, <3>1, <3>2, <3>3 DEF Good, Sees, LooksAtLatest, Closes, SyncLabels
  <2> QED
    BY <2>1, <2>2
<1>4. CASE CreateSession(r)
  <2>1. req[r].pc = "createSession" /\ Goto(r, "attemptReady") /\ attempts' = attempts
    BY <1>4 DEF CreateSession, At, db
  <2>2. orderStatus \in Pending /\ req[r].att = Len(attempts)
    BY <2>1 DEF Working, Good, Sees, LooksAtLatest
  <2>3. req'[r].pc = "attemptReady" /\ req'[r].att = Len(attempts)
    BY <1>1, <2>1, <2>2, GotoFields DEF Holds
  <2> QED
    BY <1>1, <2>1, <2>2, <2>3 DEF Good, Sees, LooksAtLatest, Closes, SyncLabels
<1>5. CASE MarkAttemptReady(r)
  <2>1. orderStatus \in Pending
    BY <1>5 DEF MarkAttemptReady, At, Working, Good, Sees
  <2> QED
    BY <1>1, <1>5, <2>1, NextChannelGood DEF MarkAttemptReady
<1>6. CASE MarkAttemptFailed(r)
  BY <1>6 DEF MarkAttemptFailed, MayTryAnother, At, Working, Good, Sees
<1> QED
  BY <1>2, <1>3, <1>4, <1>5, <1>6 DEF CashierStep

LEMMA NotifyGood ==
  ASSUME NEW r \in Requests, NotifyStep(r), ~Fault, Working(r)
  PROVE  Good(req[r])'
<1>1. TypeOK
  BY DEF Working, Inv
<1>2. CASE VerifyNotify(r)
  BY <1>1, <1>2, GotoPc, PlainGood DEF VerifyNotify
<1>3. CASE FindForNotify(r)
  <2>1. /\ req'[r].pc \in {"attemptSuccess", "attemptCancelled"} /\ req'[r].ret = req[r].ret
        /\ req[r].ret = "logProcessed"
    BY <1>1, <1>3, FindForNotifyFields DEF FindForNotify, FollowUp, SessionFollowUp,
       TradeFollowUp, At, Working, TradeInv, KnowsTrade
  <2> QED
    BY <2>1 DEF Good, Sees, LooksAtLatest, Closes, SyncLabels
<1>4. CASE MarkProcessed(r)
  BY <1>1, <1>4, FinishGood DEF MarkProcessed
<1> QED
  BY <1>2, <1>3, <1>4 DEF NotifyStep

LEMMA WorkGood ==
  ASSUME NEW r \in Requests, RequestStep(r), ~Fault, Working(r)
  PROVE  Good(req[r])'
BY ReadOrderGood, FindLatestGood, QueryChannelGood, RecordGood, CloseGood, CashierGood, NotifyGood
   DEF RequestStep, SyncStep

\* A handler that cancels nothing on behalf of a close goes on to cancel nothing.
LEMMA CalmStep ==
  ASSUME NEW r \in Requests, RequestStep(r), ~Fault, Working(r), Calm(req[r])
  PROVE  Calm(req[r])'
<1>1. TypeOK /\ Fits(req[r])
  BY DEF Working, Inv
<1>2. ASSUME req'[r].pc \in {"idle", "verify", "findForNotify", "logProcessed", "createAttempt",
                            "createSession", "attemptReady"}
      PROVE  Calm(req[r])'
  BY <1>2 DEF Calm
<1>3. CASE SyncStep(r)
  <2>1. ReadOrder(r) /\ orderStatus \notin Pending
    BY <1>3 DEF SyncStep, ReadOrder, FindLatest, QueryChannel, QueryAnswer, At, Calm
  <2>2. Return(r, orderStatus) /\ req[r].ret # "cancelAttempt"
    BY <2>1 DEF ReadOrder, At, Working, TradeInv, KnowsTrade
  <2>3. CASE req'[r] = Idle
    BY <1>2, <2>3 DEF Idle
  <2>4. CASE req'[r] # Idle
    <3>1. req'[r].pc \in Returns \ {"idle"} /\ req'[r].seen = orderStatus
      BY <1>1, <2>2, <2>4, ReturnFields
    <3> QED
      BY <2>1, <3>1 DEF Returns, Calm
  <2> QED
    BY <2>3, <2>4
<1>4. CASE RecordStep(r)
  <2>1. req[r].ret = "logProcessed" /\ (MarkAttemptSuccess(r) \/ MarkOrderPaid(r))
    BY <1>4 DEF RecordStep, MarkAttemptSuccess, MarkOrderPaid, RereadOrder, At, Calm
  <2>2. Goto(r, "orderPaid") \/ Goto(r, "logProcessed")
    BY <2>1 DEF MarkAttemptSuccess, MarkOrderPaid
  <2> QED
    BY <1>1, <2>1, <2>2, GotoFields DEF Calm
<1>5. CASE CloseStep(r)
  <2>1. CASE MarkAttemptCancelled(r)
    <3>1. req[r].pc = "attemptCancelled" /\ req[r].ret = "logProcessed"
          /\ req[r].att \in 1..Len(attempts)
      BY <1>1, <2>1 DEF MarkAttemptCancelled, FollowUp, SessionFollowUp, TradeFollowUp, At,
         Calm, Fits, UsesAttempt
    <3>2. Goto(r, "logProcessed")
      BY <2>1, <3>1 DEF MarkAttemptCancelled, FollowUp, SessionFollowUp, TradeFollowUp, Working,
         OneSession
    <3> QED
      BY <1>1, <1>2, <3>2, GotoPc
  <2>2. CASE PickClose(r)
    BY <1>1, <1>2, <2>2, FinishPc DEF PickClose, At, Calm
  <2>3. CASE CancelAttempt(r)
    BY <1>1, <1>2, <2>3, FinishPc DEF CancelAttempt, At, Calm
  <2>4. CASE ReadForClose(r) \/ WriteClosed(r) \/ CloseAtChannel(r)
    BY <2>4 DEF ReadForClose, WriteClosed, CloseAtChannel, ClosesAt, SessionCloses, TradeCloses,
       LeavesAt, At, Calm
  <2> QED
    BY <1>5, <2>1, <2>2, <2>3, <2>4 DEF CloseStep
<1>6. CASE CashierStep(r)
  <2>1. ~MarkAttemptFailed(r)
    BY DEF MarkAttemptFailed, MayTryAnother, At, Working, Good, Sees
  <2>2. CASE SnapshotAttempts(r)
    BY <1>1, <1>2, <2>2, SnapshotFields DEF Idle
  <2>3. CASE CreateAttempt(r)
    BY <1>1, <1>2, <2>3, CreateAttemptFields DEF Idle
  <2>4. CASE CreateSession(r)
    BY <1>1, <1>2, <2>4, GotoPc DEF CreateSession
  <2>5. CASE MarkAttemptReady(r)
    BY <1>1, <1>2, <2>5, NextChannelPc DEF MarkAttemptReady
  <2> QED
    BY <1>6, <2>1, <2>2, <2>3, <2>4, <2>5 DEF CashierStep
<1>7. CASE NotifyStep(r)
  <2>1. CASE FindForNotify(r)
    <3>1. req'[r].pc \in {"attemptSuccess", "attemptCancelled"} /\ req'[r].ret = "logProcessed"
      BY <1>1, <2>1, FindForNotifyFields DEF FindForNotify, FollowUp, SessionFollowUp,
         TradeFollowUp, At, Working, TradeInv, KnowsTrade
    <3> QED
      BY <3>1 DEF Calm
  <2>2. CASE VerifyNotify(r) \/ MarkProcessed(r)
    BY <1>1, <1>2, <2>2, GotoPc, FinishPc DEF VerifyNotify, MarkProcessed
  <2> QED
    BY <1>7, <2>1, <2>2 DEF NotifyStep
<1> QED
  BY <1>3, <1>4, <1>5, <1>6, <1>7 DEF RequestStep

\* A handler that finds its sessions open adds none; past the deadline it may, and rests.
LEMMA TidyStep ==
  ASSUME NEW r \in Requests, RequestStep(r), ~Fault, Working(r), OneSession',
         overdue' = overdue, ~overdue => OpenFits(req[r])
  PROVE  Tidy' \/ Resting(req[r])'
<1>1. /\ TypeOK /\ attempts \in Seq(Attempt) /\ Len(attempts) \in Nat /\ RowMoves(r)
      /\ Fits(req[r])
  BY LenProperties, HandlerRows DEF Working, Inv, TypeOK, HandlerStep
<1>2. CASE Tidy /\ Len(attempts') = Len(attempts)
  <2> SUFFICES ASSUME NEW i \in 1..Len(attempts), i < Len(attempts)
               PROVE  attempts'[i].status \notin Reusable
    BY <1>2 DEF Tidy
  <2>1. attempts[i].status \notin Reusable
    BY <1>2 DEF Tidy
  <2>2. ~MarkAttemptFailed(r)
    BY DEF MarkAttemptFailed, MayTryAnother, At, Working, Good, Sees
  <2>3. ~(MarkAttemptReady(r) /\ i = req[r].att)
    BY <1>1 DEF MarkAttemptReady, At, Working, Good, LooksAtLatest
  <2>4. attempts'[i] = attempts[i] \/ Writes(r, i, attempts'[i])
    BY <1>1, RowCases
  <2> QED
    BY <2>1, <2>2, <2>3, <2>4 DEF Writes, Reusable
<1>3. CASE Tidy /\ Len(attempts') # Len(attempts)
  <2>1. CreateAttempt(r) /\ req[r].pc = "createAttempt"
    BY <1>1, <1>3, RowCases DEF CreateAttempt, At
  <2>2. req'[r].pc = "createSession"
        /\ \E c \in req[r].todo : attempts' = Append(attempts, NewAttempt(c))
    BY <1>1, <1>3, <2>1, CreateAttemptFields
  <2>3. CASE overdue
    <3>1. orderStatus' \in Pending
      BY <2>1 DEF CreateAttempt, order, Working, Good, Sees
    <3> QED
      BY <2>2, <2>3, <3>1 DEF Resting, Calm, Pending
  <2>4. CASE ~overdue
    <3>1. PICK c \in req[r].todo : attempts' = Append(attempts, NewAttempt(c))
      BY <2>2
    <3>2. c \in Channels
      BY <1>1, <3>1 DEF TypeOK, Request
    <3>3. NewAttempt(c) \in Attempt /\ NewAttempt(c).channel = c
      BY <3>2 DEF NewAttempt, Attempt, AttemptStatus
    <3>4. /\ Len(attempts') = Len(attempts) + 1 /\ attempts'[Len(attempts) + 1] = NewAttempt(c)
          /\ \A i \in 1..Len(attempts) : attempts'[i] = attempts[i]
      BY <1>1, <3>1, <3>3, AppendProperties
    <3>5. \A i \in 1..Len(attempts) : attempts[i].channel = c
      BY <1>1, <3>3, <3>4 DEF OneSession
    <3>6. Opened(c) = {}
      BY <2>1, <2>4, <3>1 DEF OpenFits
    <3>7. \A i \in 1..Len(attempts) : attempts[i].status \notin Reusable
      <4>1. DOMAIN attempts = 1..Len(attempts)
        BY <1>1, LenProperties
      <4> QED
        BY <3>5, <3>6, <4>1 DEF Opened, AttemptsOf
    <3> QED
      BY <1>1, <3>4, <3>7 DEF Tidy
  <2> QED
    BY <2>3, <2>4
<1>4. CASE ~Tidy
  <2>1. overdue /\ orderStatus # "CLOSED" /\ Calm(req[r])
    BY <1>4 DEF Working, Resting
  <2>2. Calm(req[r])'
    BY <2>1, CalmStep
  <2>3. StatusStep(r) /\ ~WriteClosed(r)
    BY <2>1, HandlerStatus DEF HandlerStep, WriteClosed, At, Calm
  <2>4. orderStatus' # "CLOSED"
    BY <2>1, <2>3 DEF StatusStep
  <2> QED
    BY <2>1, <2>2, <2>4 DEF Resting
<1> QED
  BY <1>2, <1>3, <1>4

LEMMA ClosedHandler ==
  ASSUME Inv, Alone, TradeInv, OneOpen, ClosedInv, [Next]_vars,
         NEW r \in Requests, HandlerStep(r)
  PROVE  ClosedInv'
<1> SUFFICES ASSUME Undisturbed'
             PROVE  /\ \A q \in Requests : Good(req[q])'
                    /\ Undone'
                    /\ Tidy' \/ \A q \in Requests : Resting(req[q])'
                    /\ orderStatus' = "CLOSED" => Quiet'
  BY DEF ClosedInv
<1>1. Undisturbed /\ ~Fault
  BY Before
<1>2. RequestStep(r) /\ ~NotifyError(r)
  BY <1>1 DEF HandlerStep, NotifyError, Abandon
<1>3. /\ \A q \in Requests : q # r => req'[q] = req[q] /\ req[q].pc = "idle"
      /\ overdue' = overdue
  <2>1. Active(r)
    BY <1>2, StepIsActive DEF Inv
  <2> QED
    BY <1>1, <2>1, HandlerMoves DEF Alone, Active, Undisturbed
<1>4. /\ \A q \in Requests : Good(req[q])
      /\ Undone
      /\ Tidy \/ \A q \in Requests : Resting(req[q])
      /\ orderStatus = "CLOSED" => Quiet
  BY <1>1 DEF ClosedInv
<1>5. Working(r)
  BY <1>1, <1>4 DEF Working, Undisturbed
<1>6. ASSUME NEW q \in Requests PROVE Good(req[q])'
  <2>1. CASE q = r
    BY <1>1, <1>2, <1>5, <2>1, WorkGood
  <2>2. CASE q # r
    BY <1>3, <2>2, PlainGood
  <2> QED
    BY <2>1, <2>2
<1>7. Undone'
  BY <1>2, <1>4, UndoneStep
<1>8. Tidy' \/ \A q \in Requests : Resting(req[q])'
  <2>1. OneSession' /\ (~overdue => OpenFits(req[r]))
    BY <1>1 DEF Undisturbed, OneOpen
  <2>2. Tidy' \/ Resting(req[r])'
    BY <1>1, <1>2, <1>3, <1>5, <2>1, TidyStep
  <2>3. ASSUME Resting(req[r])', NEW q \in Requests PROVE Resting(req[q])'
    BY <1>3, <2>3 DEF Resting, Calm
  <2> QED
    BY <2>2, <2>3
<1>9. ASSUME orderStatus' = "CLOSED" PROVE Quiet'
  <2>1. CASE orderStatus = "CLOSED"
    <3>1. \A q \in Requests : ~MarkAttemptReady(q)
      BY <1>3, <1>4, <2>1 DEF MarkAttemptReady, At, Good, Sees, Pending
    <3> QED
      BY <1>4, <2>1, <3>1, QuietStays
  <2>2. CASE orderStatus # "CLOSED"
    <3>1. WriteClosed(r)
      BY <1>9, <2>2, HandlerStatus DEF StatusStep
    <3>2. Quiet
      BY <1>4, <3>1 DEF WriteClosed, At, Good, Closes
    <3> QED
      BY <3>1, <3>2 DEF WriteClosed, world, Quiet
  <2> QED
    BY <2>1, <2>2
<1> QED
  BY <1>6, <1>7, <1>8, <1>9

\* A step of nobody but the payer, the providers and the clock.
LEMMA ClosedEnvironment ==
  ASSUME Inv, TradeInv, ClosedInv, [Next]_vars, EnvironmentStep
  PROVE  ClosedInv'
<1> SUFFICES ASSUME Undisturbed'
             PROVE  /\ \A q \in Requests : Good(req[q])'
                    /\ Undone'
                    /\ Tidy' \/ \A q \in Requests : Resting(req[q])'
                    /\ orderStatus' = "CLOSED" => Quiet'
  BY DEF ClosedInv
<1>1. UNCHANGED <<req, orderStatus, attempts>> /\ TypeOK /\ RowsStay
  BY EnvironmentMoves, NextRows DEF Inv
<1>0. overdue => overdue'
  BY EnvironmentMoves, Zenon
<1>2. /\ \A q \in Requests : Good(req[q])
      /\ Undone
      /\ Tidy \/ \A q \in Requests : Resting(req[q])
      /\ orderStatus = "CLOSED" => Quiet
  BY Before DEF ClosedInv
<1>3. Quiet => Quiet'
  <2>1. ASSUME NEW t \in Trades, trade[t] \notin {"offered", "open"}
        PROVE  trade'[t] \notin {"offered", "open"}
    BY <2>1 DEF EnvironmentStep, PayerVisits, PayerPays, ProviderCloses, ProviderStep,
       DeadlinePasses, vars, world, Inv, TypeOK
  <2> QED
    BY <2>1 DEF Quiet
<1>4. \A i \in 1..Len(attempts) :
        /\ trade[TradeOf(i)] \in Final => trade'[TradeOf(i)'] \in Final
        /\ trade[TradeOf(i)] = "closed" => trade'[TradeOf(i)'] = "closed"
  BY <1>1, TradeOfType, TradeStays DEF RowsStay
<1>5. ASSUME NEW q \in Requests PROVE Good(req[q])'
  <2>1. PICK x : x = req[q]
    OBVIOUS
  <2>2. Fits(x) /\ Sees(x) /\ LooksAtLatest(x) /\ Closes(x)
    BY <1>2, <2>1 DEF Good, Inv
  <2>3. (x.pc \in UsesClosing \/ x.ret = "cancelAttempt") => x.closing \in 1..Len(attempts)
    BY <2>2 DEF Fits
  <2>4. Sees(x)' /\ LooksAtLatest(x)'
    BY <1>1, <2>2 DEF Sees, LooksAtLatest
  <2>5. Closes(x)'
    BY <1>1, <1>3, <1>4, <2>2, <2>3 DEF Closes, UsesClosing
  <2> QED
    BY <1>1, <2>1, <2>4, <2>5 DEF Good
<1>6. Undone'
  BY <1>1, <1>2, <1>4 DEF Undone
<1>7. Tidy' \/ \A q \in Requests : Resting(req[q])'
  <2>1. Tidy => Tidy'
    BY <1>1 DEF Tidy
  <2>2. ASSUME NEW q \in Requests, Resting(req[q]) PROVE Resting(req[q])'
    <3>1. Calm(req[q])'
      BY <1>1, <2>2 DEF Resting, Calm
    <3>2. orderStatus' # "CLOSED"
      BY <1>1, <2>2 DEF Resting
    <3> QED
      BY <1>0, <2>2, <3>1, <3>2, Zenon DEF Resting
  <2> QED
    BY <1>2, <2>1, <2>2
<1> QED
  BY <1>1, <1>2, <1>3, <1>5, <1>6, <1>7

LEMMA ClosedBegin ==
  ASSUME Inv, TradeInv, ClosedInv, [Next]_vars, NEW r \in Requests,
         \/ \E op \in Ops \ {"notify"} : BeginRequest(r, op)
         \/ \E e \in Events : DeliverEvent(r, e)
  PROVE  ClosedInv'
<1> SUFFICES ASSUME Undisturbed'
             PROVE  /\ \A q \in Requests : Good(req[q])'
                    /\ Undone'
                    /\ Tidy' \/ \A q \in Requests : Resting(req[q])'
                    /\ orderStatus' = "CLOSED" => Quiet'
  BY DEF ClosedInv
<1>1. /\ \A q \in Requests : q # r => req'[q] = req[q]
      /\ req'[r].pc \in {"readOrder", "verify"} /\ NoteOverlap
      /\ UNCHANGED <<attempts, overdue>>
      /\ orderStatus' = orderStatus \/ (orderStatus \in Pending /\ orderStatus' = "EXPIRED")
  BY BeginMoves DEF Inv
<1>2. UNCHANGED trade
  BY DEF BeginRequest, DeliverEvent, world
<1>3. \A q \in Requests : req[q].pc = "idle"
  BY <1>1 DEF NoteOverlap, At, Undisturbed
<1>4. /\ Undone
      /\ Tidy \/ \A q \in Requests : Resting(req[q])
      /\ orderStatus = "CLOSED" => Quiet
  BY Before DEF ClosedInv
<1>5. ASSUME NEW q \in Requests PROVE Good(req[q])'
  BY <1>1, <1>3, PlainGood
<1>6. Undone' /\ (Tidy => Tidy')
  BY <1>1, <1>2, <1>4 DEF Undone, Tidy, TradeOf
<1>7. orderStatus' = "CLOSED" => Quiet'
  BY <1>1, <1>2, <1>4 DEF Quiet
<1>8. ASSUME \A q \in Requests : Resting(req[q]), NEW q \in Requests PROVE Resting(req[q])'
  <2>1. overdue' /\ orderStatus' # "CLOSED"
    BY <1>1, <1>8 DEF Resting
  <2>2. CASE req'[q].pc # "readOrder"
    BY <1>1, <1>3, <2>1, <2>2 DEF Resting, Calm
  <2>3. CASE req'[q].pc = "readOrder"
    <3>1. \E op \in Ops \ {"notify"} : BeginRequest(r, op)
      BY <1>1, <1>3, <2>3, DeliverFields DEF Inv
    <3>2. orderStatus' \notin Pending
      BY <2>1, <3>1, <1>1 DEF BeginRequest, Pending
    <3> QED
      BY <2>1, <2>3, <3>2 DEF Resting, Calm
  <2> QED
    BY <2>2, <2>3
<1> QED
  BY <1>4, <1>5, <1>6, <1>7, <1>8

LEMMA ClosedNext == Inv /\ Alone /\ TradeInv /\ OneOpen /\ ClosedInv /\ [Next]_vars => ClosedInv'
BY ClosedHandler, ClosedEnvironment, ClosedBegin, StepCases

\* An order whose only provider has sessions, closed by a handler that ran alone and without
\* a failed call, cannot be paid any more: closeOrder, syncOrderIfNeeded and the webhooks
\* write CLOSED only where every session of the order is paid or has expired.
THEOREM ClosedIsSettled == Spec => []ClosedIsUnpayable
<1>1. Init => ClosedInv
  <2> SUFFICES ASSUME Init PROVE ClosedInv
    OBVIOUS
  <2>1. 1..Len(attempts) = {} /\ orderStatus # "CLOSED"
    BY EmptySeq DEF Init
  <2>2. ASSUME NEW r \in Requests PROVE Good(req[r])
    <3>1. req[r].pc = "idle"
      BY DEF Init, Idle
    <3> QED
      BY <3>1 DEF Good, Sees, LooksAtLatest, Closes, SyncLabels
  <2> QED
    BY <2>1, <2>2 DEF ClosedInv, Undone, Tidy
<1>2. Inv /\ ClosedInv => ClosedIsUnpayable
  <2> SUFFICES ASSUME Inv, ClosedInv, orderStatus = "CLOSED", ~overlapped, faults = 0,
                      NEW c \in SessionChannels, AttemptsOf(c) = DOMAIN attempts
               PROVE  Quiet
    BY DEF ClosedIsUnpayable, Quiet
  <2>1. DOMAIN attempts = 1..Len(attempts)
    BY LenProperties DEF Inv, TypeOK
  <2>2. OneSession
    BY <2>1 DEF OneSession, AttemptsOf
  <2> QED
    BY <2>2 DEF ClosedInv, Undisturbed
<1> QED
  BY <1>1, <1>2, ClosedNext, SpecTrades, SpecOpen, PTL DEF Spec

=============================================================================
