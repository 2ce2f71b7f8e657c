----------------------------- MODULE Idempotency -----------------------------
(***************************************************************************)
(* IdempotencyService: the idempotency_record rows that make every signed  *)
(* request count once (registerNonce) and every write call run once        *)
(* (execute).  One nonce and one idempotency key are enough: rows of       *)
(* different keys never meet.  Requests interleave at every statement; the *)
(* unique key on (app, action, key) decides between them.                  *)
(***************************************************************************)
EXTENDS Naturals, FiniteSets

CONSTANTS
  Requests,      \* requests that may run at the same time
  Ops,           \* what they do, among AllOps
  Fingerprints,  \* requestHash values sent with the key
  MaxFaults      \* bound: crashes, failed statements, results not stored

AllOps == {"nonce", "write"}

ASSUME IdempotencyAssumption ==
  /\ Ops \subseteq AllOps
  /\ IsFiniteSet(Requests)
  /\ Fingerprints # {}
  /\ MaxFaults \in Nat

VARIABLES
  record,    \* the row of each action's key
  req,       \* the requests
  faults,    \* faults so far
  accepted,  \* history: requests that passed with the nonce
  effects,   \* history: executions that took effect
  answered,  \* history: results returned, each with the fingerprint sent
  withdrawn  \* history: results stored and deleted again by their own request
\* The history of a key starts again when its row expires.

history == <<accepted, effects, answered, withdrawn>>
vars    == <<record, req, faults, history>>

\* Row ids are never used twice: one that nobody remembers is as good as new.
Ids == 1..(Cardinality(Requests) + Cardinality(Ops))

\* answer: response_snapshot, 0 for null and k for the k-th result
Record   == [id : Ids, hash : Fingerprints, answer : Nat, expired : BOOLEAN]
NoRecord == [id |-> 0]

Labels == {"idle", "find", "purge", "create", "refind", "repurge",
           "execute", "store", "cleanup"}

\* id: the row this request read or, from "execute" on, created
Request == [pc : Labels, op : AllOps, hash : Fingerprints, id : Ids \cup {0}, own : BOOLEAN]

TypeOK ==
  /\ record \in [Ops -> Record \cup {NoRecord}]
  /\ req \in [Requests -> Request]
  /\ faults \in 0..MaxFaults
  /\ accepted \in Nat
  /\ effects \in Nat
  /\ answered \subseteq Fingerprints \X Nat
  /\ withdrawn \in Nat

Idle == [pc |-> "idle", op |-> "write", hash |-> CHOOSE h \in Fingerprints : TRUE,
         id |-> 0, own |-> FALSE]

Init ==
  /\ record = [o \in Ops |-> NoRecord]
  /\ req = [r \in Requests |-> Idle]
  /\ faults = 0
  /\ accepted = 0
  /\ effects = 0
  /\ answered = {}
  /\ withdrawn = 0

-----------------------------------------------------------------------------
At(r, label)   == req[r].pc = label
Goto(r, label) == req' = [req EXCEPT ![r].pc = label]
Finish(r)      == req' = [req EXCEPT ![r] = Idle]
Row(r)         == record[req[r].op]
Found(r)       == Row(r) # NoRecord
Fault == faults < MaxFaults /\ faults' = faults + 1

\* delete where id = ..., an error ignored
ByKey(r)         == Found(r)   \* mutant
Deletes(r)       == Row(r).id = req[r].id
DeleteRow(r) ==
  record' = IF Deletes(r) THEN [record EXCEPT ![req[r].op] = NoRecord] ELSE record

BeginRequest(r, op, h) ==
  /\ At(r, "idle")
  /\ req' = [req EXCEPT ![r] = [@ EXCEPT !.pc = "find", !.op = op, !.hash = h]]
  /\ UNCHANGED <<record, faults, history>>

AnyFingerprint(r)  == TRUE   \* mutant
SameFingerprint(r) == Row(r).hash = req[r].hash

\* replayExistingRecord; a conflict and "still processing" are errors.  A row
\* of the nonce is always an error: the nonce was used.
Replay(r) ==
  /\ Finish(r)
  /\ answered' = IF req[r].op = "write" /\ SameFingerprint(r) /\ Row(r).answer # 0
                 THEN answered \cup {<<req[r].hash, Row(r).answer>>} ELSE answered

\* findExistingRecord: none, one to delete first, or one that counts
FindRecord(r) ==
  /\ At(r, "find")
  /\ IF ~Found(r) THEN Goto(r, "create") /\ UNCHANGED answered
     ELSE IF Row(r).expired
     THEN /\ req' = [req EXCEPT ![r] = [@ EXCEPT !.pc = "purge", !.id = Row(r).id]]
          /\ UNCHANGED answered
     ELSE Replay(r)
  /\ UNCHANGED <<record, faults, accepted, effects, withdrawn>>

PurgeExpired(r) ==
  /\ At(r, "purge")
  /\ DeleteRow(r)
  /\ req' = [req EXCEPT ![r] = [@ EXCEPT !.pc = "create", !.id = 0]]
  /\ UNCHANGED <<faults, history>>

Fresh(i) == /\ \A r \in Requests : req[r].id # i
            /\ \A o \in Ops : record[o].id # i

NewUndated(i, h) == [id |-> i, hash |-> h, answer |-> 0]   \* mutant
NewRecord(i, h)   == [id |-> i, hash |-> h, answer |-> 0, expired |-> FALSE]

\* The insert, or the unique constraint: a used nonce is refused at once, a
\* used key is looked up again.
CreateRecord(r) ==
  /\ At(r, "create")
  /\ IF Found(r)
     THEN /\ IF req[r].op = "nonce" THEN Finish(r)
             ELSE Goto(r, "refind")
          /\ UNCHANGED <<record, accepted>>
     ELSE \E i \in Ids :
            /\ Fresh(i)
            /\ record' = [record EXCEPT ![req[r].op] = NewRecord(i, req[r].hash)]
            /\ IF req[r].op = "nonce"
               THEN Finish(r) /\ accepted' = accepted + 1
               ELSE /\ req' = [req EXCEPT ![r] = [@ EXCEPT !.pc = "execute", !.id = i, !.own = TRUE]]
                    /\ UNCHANGED accepted
  /\ UNCHANGED <<faults, effects, answered, withdrawn>>

\* The operation takes effect, is refused, fails after it took effect, or fails
\* on a unique key of its own, which the catch block takes for one of this table.
Execute(r) ==
  /\ At(r, "execute")
  /\ \/ effects' = effects + 1 /\ Goto(r, "store") /\ UNCHANGED faults
     \/ Goto(r, "cleanup") /\ UNCHANGED <<effects, faults>>
     \/ Fault /\ Goto(r, "cleanup") /\ effects' = effects + 1
     \/ Fault /\ Goto(r, "refind") /\ UNCHANGED effects
  /\ UNCHANGED <<record, accepted, answered, withdrawn>>

\* The row is there: nobody deletes one whose request is running.
WriteAnswer(r) ==
  /\ Row(r).id = req[r].id
  /\ record' = [record EXCEPT ![req[r].op].answer = effects]

\* The result is returned only once it is stored.  A statement that fails may have been
\* committed all the same.
StoreAnswer(r) ==
  /\ At(r, "store")
  /\ \/ /\ WriteAnswer(r) /\ Finish(r)
        /\ answered' = answered \cup {<<req[r].hash, effects>>}
        /\ UNCHANGED faults
     \/ /\ WriteAnswer(r) \/ UNCHANGED record
        /\ Fault /\ Goto(r, "cleanup") /\ UNCHANGED answered
  /\ UNCHANGED <<accepted, effects, withdrawn>>

\* After a unique key violation, whose ever it was
Refind(r) ==
  /\ At(r, "refind")
  /\ IF ~Found(r) THEN Goto(r, "cleanup") /\ UNCHANGED answered
     ELSE IF Row(r).expired
     THEN /\ req' = [req EXCEPT ![r] = [@ EXCEPT !.pc = "repurge", !.id = Row(r).id]]
          /\ UNCHANGED answered
     ELSE Replay(r)
  /\ UNCHANGED <<record, faults, accepted, effects, withdrawn>>

Repurge(r) ==
  /\ At(r, "repurge")
  /\ DeleteRow(r)
  /\ Goto(r, "cleanup")
  /\ UNCHANGED <<faults, history>>

\* The request ends in an error and takes its own row with it, if it has one;
\* a delete that fails is ignored.
Cleanup(r) ==
  /\ At(r, "cleanup")
  /\ \/ /\ IF req[r].own THEN DeleteRow(r) ELSE UNCHANGED record
        /\ withdrawn' = IF req[r].own /\ Deletes(r) /\ Row(r).answer # 0
                        THEN withdrawn + 1 ELSE withdrawn
        /\ UNCHANGED faults
     \/ Fault /\ UNCHANGED <<record, withdrawn>>
  /\ Finish(r)
  /\ UNCHANGED <<accepted, effects, answered>>

\* A crash, or a statement that fails before the row exists.
Abandon(r) ==
  /\ ~At(r, "idle")
  /\ Fault
  /\ Finish(r)
  /\ UNCHANGED <<record, history>>

\* expire_time passes (10 minutes, 24 hours): no execution lasts that long.
Holds(r) == req[r].own
Expire(op) ==
  /\ record[op] # NoRecord /\ ~record[op].expired
  /\ \A r \in Requests : Holds(r) => req[r].op # op \/ req[r].id # record[op].id
  /\ record' = [record EXCEPT ![op].expired = TRUE]
  /\ IF op = "nonce" THEN accepted' = 0 /\ UNCHANGED <<effects, answered, withdrawn>>
     ELSE effects' = 0 /\ answered' = {} /\ withdrawn' = 0 /\ UNCHANGED accepted
  /\ UNCHANGED <<req, faults>>

\* clearExpiredRecords, every hour
SweepsAnswered(op) == record[op].expired /\ record[op].answer # 0   \* mutant
Sweeps(op)         == record[op].expired
ClearExpired(op) ==
  /\ record[op] # NoRecord /\ Sweeps(op)
  /\ record' = [record EXCEPT ![op] = NoRecord]
  /\ UNCHANGED <<req, faults, history>>

Step(r) ==
  \/ FindRecord(r) \/ PurgeExpired(r) \/ CreateRecord(r) \/ Execute(r)
  \/ StoreAnswer(r) \/ Refind(r) \/ Repurge(r) \/ Cleanup(r)

Next ==
  \/ \E r \in Requests, op \in Ops, h \in Fingerprints : BeginRequest(r, op, h)
  \/ \E r \in Requests : Step(r) \/ Abandon(r)
  \/ \E op \in Ops : Expire(op) \/ ClearExpired(op)

Spec == Init /\ [][Next]_vars

\* Requests run on, time passes and the hourly job runs; nobody has to retry.
FairSpec == /\ Spec
            /\ \A r \in Requests : WF_vars(Step(r))
            /\ \A op \in Ops : WF_vars(Expire(op)) /\ WF_vars(ClearExpired(op))

-----------------------------------------------------------------------------
(* Properties *)

\* Of all requests that carry one nonce, one passes while its row lives, however
\* they race with each other and with the deletion of an expired row.
NonceIsAcceptedOnce == accepted <= 1

\* Two requests with one key never execute side by side: one that saw an
\* expired row cannot delete the row another has created since.
OneExecution ==
  Cardinality({r \in Requests : req[r].pc \in {"execute", "store"}}) <= 1

\* Every success a merchant gets for one key is the same result, and was sent
\* for with the parameters it was computed from, however requests race; but for a result
\* that was stored by a statement reported as failed and deleted by the catch block
\* (idempotency.service.ts: execute), which a retry meanwhile may have been given.
AnswersAgree == withdrawn = 0 => \A a, b \in answered : a = b

\* A write takes effect a second time only after a fault hid its first result:
\* a plain retry never repeats it.
EffectsNeedFaults == effects <= 1 + faults

\* A key is not "still processing" for ever, even if its request crashed.
StillProcessing(op) == record[op] # NoRecord /\ record[op].answer = 0
ProcessingEnds == StillProcessing("write") ~> ~StillProcessing("write")

=============================================================================
