-------------------------- MODULE Idempotency_proofs --------------------------
(***************************************************************************)
(* Every safety property of Idempotency, for any number of requests,       *)
(* fingerprints and faults.                                                *)
(***************************************************************************)
EXTENDS Idempotency, FiniteSetTheorems, TLAPS

Live(o) == o \in Ops /\ record[o] # NoRecord /\ ~record[o].expired

\* What has happened to a key shows in its live row: a nonce was accepted once
\* when its row was created; one effect more than faults is that of the row;
\* the answers given are the row's, unless one was withdrawn.
RowsFit ==
  /\ accepted <= 1
  /\ accepted = 1 => Live("nonce")
  /\ effects <= 1 + faults
  /\ effects > faults => Live("write")
  /\ withdrawn = 0 =>
       /\ answered # {} => Live("write") /\ record["write"].answer # 0
       /\ \A a \in answered : a = <<record["write"].hash, record["write"].answer>>

\* A request that owns a row is the only one, and its row is live and has no
\* answer before it is stored; one that is about to delete a row by its id saw it expired.
Fits(r, x) ==
  /\ x.pc # "idle" => x.op \in Ops
  /\ x.own => /\ x.pc \in {"execute", "store", "refind", "cleanup"}
              /\ x.op = "write"
              /\ Live("write")
              /\ record["write"].id = x.id /\ record["write"].hash = x.hash
              /\ x.pc # "cleanup" => record["write"].answer = 0
              /\ \A p \in Requests \ {r} : ~req[p].own
  /\ x.pc \in {"execute", "store"} => x.own
  /\ x.own /\ x.pc \in {"execute", "cleanup"} => effects <= faults
  /\ x.pc = "store" => effects > 0
  /\ x.pc \in {"purge", "repurge"} =>
       (record[x.op] # NoRecord /\ record[x.op].id = x.id => record[x.op].expired)

Tables ==
  /\ record \in [Ops -> Record \cup {NoRecord}]
  /\ faults \in 0..MaxFaults
  /\ accepted \in Nat
  /\ effects \in Nat
  /\ answered \subseteq Fingerprints \X Nat
  /\ withdrawn \in Nat
  /\ RowsFit

Inv == /\ Tables
       /\ req \in [Requests -> Request]
       /\ \A r \in Requests : Fits(r, req[r])

LEMMA IdsType == Cardinality(Requests) \in Nat /\ Cardinality(Ops) \in Nat /\ 0 \notin Ids
<1>1. IsFiniteSet(AllOps)
  BY FS_EmptySet, FS_AddElement, AllOps = ({} \cup {"nonce"}) \cup {"write"} DEF AllOps
<1>2. IsFiniteSet(Ops)
  BY <1>1, FS_Subset, IdempotencyAssumption DEF IdempotencyAssumption
<1>3. Cardinality(Requests) \in Nat /\ Cardinality(Ops) \in Nat
  BY <1>2, FS_CardinalityType, IdempotencyAssumption DEF IdempotencyAssumption
<1> QED
  BY <1>3 DEF Ids

LEMMA NoRecordType ==
  /\ NoRecord.id = 0
  /\ \A x \in Record : x.id \in Ids /\ x # NoRecord
BY IdsType DEF NoRecord, Record

LEMMA IdleType == /\ Idle \in Request /\ Idle.pc = "idle" /\ ~Idle.own
BY IdempotencyAssumption DEF IdempotencyAssumption, Idle, Request, Labels, AllOps

LEMMA IdleFits == ASSUME NEW r \in Requests PROVE Fits(r, Idle) /\ Fits(r, Idle)'
BY IdleType DEF Fits

LEMMA InitInv == Init => Inv
<1> SUFFICES ASSUME Init PROVE Inv
  OBVIOUS
<1>1. Tables
  BY IdempotencyAssumption DEF IdempotencyAssumption, Init, Tables, RowsFit
<1>2. req \in [Requests -> Request]
  BY IdleType DEF Init
<1>3. ASSUME NEW r \in Requests PROVE Fits(r, req[r])
  BY IdleFits DEF Init
<1> QED
  BY <1>1, <1>2, <1>3 DEF Inv

-----------------------------------------------------------------------------
(* Steps of a request *)

\* Request r becomes x.  Whoever else owns a row keeps it, and a row that
\* appears has an id nobody remembers.
LEMMA Preserve ==
  ASSUME Inv, NEW r \in Requests, NEW x \in Request, req' = [req EXCEPT ![r] = x],
         Fits(r, x)', Tables', faults <= faults',
         \A p \in Requests \ {r} : req[p].own =>
           record'["write"] = record["write"] /\ effects' = effects /\ ~x.own,
         \A o \in Ops : \/ record'[o] \in {record[o], NoRecord}
                        \/ record[o] # NoRecord /\ record'[o].expired = record[o].expired
                             /\ record'[o].id = record[o].id
                        \/ \A p \in Requests : req[p].id # record'[o].id
  PROVE  Inv'
<1>1. req \in [Requests -> Request]
  BY DEF Inv
<1>2. req' \in [Requests -> Request] /\ req'[r] = x
  BY <1>1
<1>3. ASSUME NEW p \in Requests \ {r} PROVE Fits(p, req[p])'
  <2>1. PICK y \in Request : y = req[p]
    BY <1>1
  <2>2. Fits(p, y) /\ req'[p] = y
    BY <1>1, <2>1 DEF Inv
  <2>3. y.pc # "idle" => y.op \in Ops
    BY <2>2 DEF Fits
  <2>4. CASE y.own
    <3>1. /\ record'["write"] = record["write"] /\ effects' = effects /\ ~x.own
      BY <2>1, <2>4
    <3>2. \A q \in Requests \ {p} : ~req'[q].own
      BY <1>1, <2>2, <2>4, <3>1 DEF Fits
    <3>3. effects <= faults => effects' <= faults'
      BY <3>1 DEF Inv, Tables
    <3> QED
      BY <2>2, <2>4, <3>1, <3>2, <3>3 DEF Fits, Live
  <2>5. CASE ~y.own
    <3>1. y.pc \in {"purge", "repurge"} =>
            (record'[y.op] # NoRecord /\ record'[y.op].id = y.id => record'[y.op].expired)
      BY <2>1, <2>2, <2>3 DEF Fits
    <3> QED
      BY <2>2, <2>5, <3>1 DEF Fits
  <2> QED
    BY <2>2, <2>4, <2>5, <2>1
<1> QED
  BY <1>2, <1>3 DEF Inv

\* A step that changes no row, no effect and no answer.
LEMMA QuietStep ==
  ASSUME Inv, NEW r \in Requests, NEW x \in Request, req' = [req EXCEPT ![r] = x],
         Fits(r, x), x.own => req[r].own, Fault \/ UNCHANGED faults,
         UNCHANGED <<record, history>>
  PROVE  Inv'
<1>1. faults' \in 0..MaxFaults /\ faults <= faults'
  BY IdempotencyAssumption DEF Inv, Tables, Fault, IdempotencyAssumption
<1>2. Tables'
  <2>1. /\ record' = record /\ accepted' = accepted /\ effects' = effects
        /\ answered' = answered /\ withdrawn' = withdrawn
    BY DEF history
  <2>2. effects \in Nat /\ faults \in Nat /\ faults' \in Nat /\ effects <= 1 + faults
    BY <1>1, IdempotencyAssumption DEF Inv, Tables, RowsFit, IdempotencyAssumption
  <2>3. \A e, f, g \in Nat : e <= 1 + f /\ f <= g => e <= 1 + g /\ (e > g => e > f)
    OBVIOUS
  <2>4. effects <= 1 + faults' /\ (effects > faults' => effects > faults)
    BY <1>1, <2>2, <2>3
  <2>5. RowsFit'
    BY <2>1, <2>4 DEF Inv, Tables, RowsFit, Live
  <2> QED
    BY <1>1, <2>1, <2>5 DEF Inv, Tables
<1>3. \A p \in Requests \ {r} : req'[p] = req[p] /\ (x.own => ~req[p].own)
  BY DEF Inv, Fits
<1>4. Fits(r, x)'
  BY <1>1, <1>3 DEF Fits, Live, history, Inv, Tables
<1>5. \A p \in Requests \ {r} : req[p].own => ~x.own
  BY <1>3
<1> QED
  BY <1>1, <1>2, <1>4, <1>5, Preserve DEF history

LEMMA GotoMoves ==
  ASSUME Inv, NEW r \in Requests, NEW l \in Labels, Goto(r, l)
  PROVE  \E x \in Request :
           /\ req' = [req EXCEPT ![r] = x]
           /\ x.pc = l /\ x.op = req[r].op /\ x.hash = req[r].hash
           /\ x.id = req[r].id /\ x.own = req[r].own
<1>1. req[r] \in Request
  BY DEF Inv
<1>2. PICK x : x = [req[r] EXCEPT !.pc = l]
  OBVIOUS
<1>3. x \in Request /\ req' = [req EXCEPT ![r] = x]
  BY <1>1, <1>2 DEF Goto, Request
<1> QED
  BY <1>1, <1>2, <1>3 DEF Request

LEMMA FinishQuiet ==
  ASSUME Inv, NEW r \in Requests, Finish(r), Fault \/ UNCHANGED faults,
         UNCHANGED <<record, history>>
  PROVE  Inv'
BY IdleType, IdleFits, QuietStep DEF Finish

LEMMA BeginRequestInv ==
  ASSUME Inv, NEW r \in Requests, NEW op \in Ops, NEW h \in Fingerprints,
         BeginRequest(r, op, h)
  PROVE  Inv'
<1>1. req[r] \in Request /\ Fits(r, req[r]) /\ req[r].pc = "idle"
  BY DEF Inv, BeginRequest, At
<1>2. PICK x : x = [req[r] EXCEPT !.pc = "find", !.op = op, !.hash = h]
  OBVIOUS
<1>3. x \in Request
  BY <1>1, <1>2, IdempotencyAssumption DEF Request, Labels, IdempotencyAssumption
<1>4. x.pc = "find" /\ x.op = op /\ ~x.own
  BY <1>1, <1>2 DEF Request, Fits
<1>5. Fits(r, x)
  BY <1>4 DEF Fits
<1> QED
  BY <1>2, <1>3, <1>4, <1>5, QuietStep DEF BeginRequest

\* A row that is found is a record of its key.
LEMMA FoundRow ==
  ASSUME Inv, NEW r \in Requests, ~At(r, "idle"), Found(r)
  PROVE  Row(r) \in Record /\ req[r].op \in Ops
BY DEF Inv, Tables, Fits, At, Found, Row

\* Answering from a live row.
LEMMA ReplayInv ==
  ASSUME Inv, NEW r \in Requests, ~At(r, "idle"), Found(r), ~Row(r).expired,
         Replay(r), UNCHANGED <<record, faults, accepted, effects, withdrawn>>
  PROVE  Inv'
<1>1. Row(r) \in Record /\ req[r] \in Request /\ req[r].op \in Ops
  BY FoundRow DEF Inv
<1>2. Tables'
  <2>1. CASE answered' = answered
    BY <2>1 DEF Inv, Tables, RowsFit, Live
  <2>2. CASE answered' # answered
    <3>1. /\ req[r].op = "write" /\ req[r].hash = Row(r).hash /\ Row(r).answer # 0
          /\ answered' = answered \cup {<<req[r].hash, Row(r).answer>>}
      BY <2>2 DEF Replay, SameFingerprint
    <3>2. Live("write") /\ Row(r) = record["write"]
      BY <1>1, <3>1 DEF Live, Found, Row
    <3>3. answered' \subseteq Fingerprints \X Nat
      BY <1>1, <3>1 DEF Inv, Tables, Record, Request
    <3> QED
      BY <3>1, <3>2, <3>3 DEF Inv, Tables, RowsFit, Live
  <2> QED
    BY <2>1, <2>2
<1>3. faults <= faults'
  BY DEF Inv, Tables
<1> QED
  BY <1>2, <1>3, IdleType, IdleFits, Preserve DEF Replay, Finish

LEMMA FindRecordInv ==
  ASSUME Inv, NEW r \in Requests, FindRecord(r)
  PROVE  Inv'
<1>1. /\ req[r] \in Request /\ Fits(r, req[r]) /\ req[r].pc = "find" /\ ~At(r, "idle")
      /\ req[r].op \in Ops /\ ~req[r].own
  BY DEF Inv, FindRecord, At, Fits
<1>2. CASE ~Found(r)
  <2>1. Goto(r, "create")
    BY <1>2 DEF FindRecord
  <2>2. PICK x \in Request : /\ req' = [req EXCEPT ![r] = x]
                             /\ x.pc = "create" /\ x.op = req[r].op /\ x.own = req[r].own
    BY <2>1, GotoMoves DEF Labels
  <2>3. Fits(r, x)
    BY <1>1, <2>2 DEF Fits
  <2> QED
    BY <1>1, <1>2, <2>2, <2>3, QuietStep DEF FindRecord, history
<1>3. CASE Found(r) /\ Row(r).expired
  <2>1. PICK x : x = [req[r] EXCEPT !.pc = "purge", !.id = Row(r).id]
    OBVIOUS
  <2>2. x \in Request
    BY <1>1, <1>3, <2>1, FoundRow DEF Request, Record, Labels
  <2>3. x.pc = "purge" /\ x.op = req[r].op /\ ~x.own
    BY <1>1, <2>1 DEF Request
  <2>4. Fits(r, x)
    BY <1>1, <1>3, <2>3 DEF Fits, Row
  <2> QED
    BY <1>3, <2>1, <2>2, <2>3, <2>4, QuietStep DEF FindRecord, history
<1>4. CASE Found(r) /\ ~Row(r).expired
  BY <1>1, <1>4, ReplayInv DEF FindRecord
<1> QED
  BY <1>2, <1>3, <1>4

\* Deleting by id takes an expired row only, or the row of its own request.
LEMMA DeletesExpired ==
  ASSUME Inv, NEW r \in Requests, At(r, "purge") \/ At(r, "repurge"), DeleteRow(r)
  PROVE  /\ req[r].op \in Ops
         /\ \A o \in Ops : record'[o] = record[o] \/ (record'[o] = NoRecord /\ ~Live(o))
         /\ record' \in [Ops -> Record \cup {NoRecord}]
<1>1. Fits(r, req[r]) /\ req[r].op \in Ops
  BY DEF Inv, At, Fits
<1>2. record \in [Ops -> Record \cup {NoRecord}]
  BY DEF Inv, Tables
<1>3. CASE Deletes(r)
  <2>1. record' = [record EXCEPT ![req[r].op] = NoRecord]
    BY <1>3 DEF DeleteRow
  <2>2. ~Live(req[r].op)
    BY <1>1, <1>3 DEF Live, Deletes, Row, Fits, At
  <2> QED
    BY <1>1, <1>2, <2>1, <2>2
<1>4. CASE ~Deletes(r)
  BY <1>1, <1>2, <1>4 DEF DeleteRow
<1> QED
  BY <1>3, <1>4

\* A request deletes an expired row, or none, and goes on to x.
LEMMA PurgeStep ==
  ASSUME Inv, NEW r \in Requests, At(r, "purge") \/ At(r, "repurge"), DeleteRow(r),
         UNCHANGED <<faults, history>>,
         NEW x \in Request, req' = [req EXCEPT ![r] = x], x.pc \in {"create", "cleanup"},
         x.op = req[r].op, ~x.own
  PROVE  Inv'
<1>1. /\ req[r].op \in Ops
      /\ \A o \in Ops : record'[o] = record[o] \/ (record'[o] = NoRecord /\ ~Live(o))
      /\ record' \in [Ops -> Record \cup {NoRecord}]
  BY DeletesExpired
<1>2. /\ faults' = faults /\ accepted' = accepted /\ effects' = effects
      /\ answered' = answered /\ withdrawn' = withdrawn /\ faults <= faults'
  BY DEF history, Inv, Tables
<1>3. \A o \in Ops : Live(o) => Live(o)' /\ record'[o] = record[o]
  BY <1>1 DEF Live
<1>4. "write" \notin Ops => ~Live("write")
  BY DEF Live
<1>5. "nonce" \notin Ops => ~Live("nonce")
  BY DEF Live
<1>6. RowsFit'
  BY <1>2, <1>3, <1>4, <1>5 DEF Inv, Tables, RowsFit
<1>7. Tables'
  BY <1>1, <1>2, <1>6 DEF Inv, Tables
<1>8. Fits(r, x)'
  BY <1>1 DEF Fits
<1>9. \A p \in Requests \ {r} : req[p].own => Live("write")
  BY DEF Inv, Fits
<1>10. \A p \in Requests \ {r} : req[p].own => record'["write"] = record["write"]
  BY <1>3, <1>4, <1>9
<1>11. \A o \in Ops : record'[o] \in {record[o], NoRecord}
  BY <1>1
<1> QED
  BY <1>2, <1>7, <1>8, <1>10, <1>11, Preserve

LEMMA PurgeExpiredInv ==
  ASSUME Inv, NEW r \in Requests, PurgeExpired(r)
  PROVE  Inv'
<1>1. req[r] \in Request /\ Fits(r, req[r]) /\ req[r].pc = "purge" /\ ~req[r].own
  BY DEF Inv, PurgeExpired, At, Fits
<1>2. PICK x : x = [req[r] EXCEPT !.pc = "create", !.id = 0]
  OBVIOUS
<1>3. x \in Request /\ x.pc = "create" /\ x.op = req[r].op /\ ~x.own
  BY <1>1, <1>2 DEF Request, Labels
<1> QED
  BY <1>2, <1>3, PurgeStep DEF PurgeExpired

LEMMA RepurgeInv ==
  ASSUME Inv, NEW r \in Requests, Repurge(r)
  PROVE  Inv'
<1>1. Fits(r, req[r]) /\ req[r].pc = "repurge" /\ ~req[r].own
  BY DEF Inv, Repurge, At, Fits
<1>2. PICK x \in Request : /\ req' = [req EXCEPT ![r] = x]
                           /\ x.pc = "cleanup" /\ x.op = req[r].op /\ x.own = req[r].own
  BY GotoMoves DEF Repurge, Labels
<1> QED
  BY <1>1, <1>2, PurgeStep DEF Repurge

LEMMA RefindInv ==
  ASSUME Inv, NEW r \in Requests, Refind(r)
  PROVE  Inv'
<1>1. /\ req[r] \in Request /\ Fits(r, req[r]) /\ req[r].pc = "refind" /\ ~At(r, "idle")
      /\ req[r].op \in Ops
  BY DEF Inv, Refind, At, Fits
<1>2. req[r].own => Found(r) /\ ~Row(r).expired
  BY <1>1 DEF Fits, Live, Found, Row
<1>3. CASE ~Found(r)
  <2>1. Goto(r, "cleanup")
    BY <1>3 DEF Refind
  <2>2. PICK x \in Request : /\ req' = [req EXCEPT ![r] = x]
                             /\ x.pc = "cleanup" /\ x.op = req[r].op /\ x.own = req[r].own
    BY <2>1, GotoMoves DEF Labels
  <2>3. Fits(r, x)
    BY <1>1, <1>2, <1>3, <2>2 DEF Fits
  <2> QED
    BY <1>3, <2>2, <2>3, QuietStep DEF Refind, history
<1>4. CASE Found(r) /\ Row(r).expired
  <2>1. PICK x : x = [req[r] EXCEPT !.pc = "repurge", !.id = Row(r).id]
    OBVIOUS
  <2>2. x \in Request
    BY <1>1, <1>4, <2>1, FoundRow DEF Request, Record, Labels
  <2>3. x.pc = "repurge" /\ x.op = req[r].op /\ ~x.own
    BY <1>1, <1>2, <1>4, <2>1 DEF Request
  <2>4. Fits(r, x)
    BY <1>1, <1>4, <2>3 DEF Fits, Row
  <2> QED
    BY <1>4, <2>1, <2>2, <2>3, <2>4, QuietStep DEF Refind, history
<1>5. CASE Found(r) /\ ~Row(r).expired
  BY <1>1, <1>5, ReplayInv DEF Refind
<1> QED
  BY <1>3, <1>4, <1>5

LEMMA Counters ==
  ASSUME Inv
  PROVE  /\ effects \in Nat /\ faults \in Nat /\ accepted \in Nat
         /\ (Fault \/ UNCHANGED faults) => faults' \in 0..MaxFaults /\ faults' \in Nat
         /\ UNCHANGED faults => faults' = faults /\ faults <= faults'
         /\ Fault => faults' = faults + 1 /\ faults <= faults'
BY IdempotencyAssumption DEF Inv, Tables, Fault, IdempotencyAssumption

\* A key has no row: nobody owns one, and the new row's id is new.
LEMMA CreateRecordInv ==
  ASSUME Inv, NEW r \in Requests, CreateRecord(r)
  PROVE  Inv'
<1>1. /\ req[r] \in Request /\ Fits(r, req[r]) /\ req[r].pc = "create"
      /\ req[r].op \in Ops /\ ~req[r].own
  BY DEF Inv, CreateRecord, At, Fits
<1>2. CASE Found(r)
  <2>1. CASE req[r].op = "nonce"
    BY <1>2, <2>1, FinishQuiet DEF CreateRecord, history
  <2>2. CASE req[r].op # "nonce"
    <3>1. PICK x \in Request : /\ req' = [req EXCEPT ![r] = x]
                               /\ x.pc = "refind" /\ x.op = req[r].op /\ x.own = req[r].own
      BY <1>2, <2>2, GotoMoves DEF CreateRecord, Labels
    <3>2. Fits(r, x)
      BY <1>1, <3>1 DEF Fits
    <3> QED
      BY <1>1, <1>2, <3>1, <3>2, QuietStep DEF CreateRecord, history
  <2> QED
    BY <2>1, <2>2
<1>3. CASE ~Found(r)
  <2>1. PICK i \in Ids :
          /\ Fresh(i)
          /\ record' = [record EXCEPT ![req[r].op] = NewRecord(i, req[r].hash)]
          /\ IF req[r].op = "nonce"
             THEN Finish(r) /\ accepted' = accepted + 1
             ELSE /\ req' = [req EXCEPT ![r] = [@ EXCEPT !.pc = "execute", !.id = i, !.own = TRUE]]
                  /\ UNCHANGED accepted
    BY <1>3 DEF CreateRecord
  <2>2. /\ faults' = faults /\ effects' = effects /\ answered' = answered
        /\ withdrawn' = withdrawn /\ faults <= faults'
    BY Counters DEF CreateRecord
  <2> DEFINE new == NewRecord(i, req[r].hash)
  <2>3. new \in Record /\ new.id = i /\ ~new.expired /\ new.answer = 0 /\ new # NoRecord
        /\ new.hash = req[r].hash
    BY <1>1, <2>1, NoRecordType DEF NewRecord, Record, Request
  <2> HIDE DEF new
  <2>4. /\ record \in [Ops -> Record \cup {NoRecord}]
        /\ record' = [record EXCEPT ![req[r].op] = new]
    BY <2>1 DEF Inv, Tables, new
  <2>5. record' \in [Ops -> Record \cup {NoRecord}]
    BY <2>3, <2>4
  <2>6. \A o \in Ops : \/ record'[o] \in {record[o], NoRecord}
                       \/ \A p \in Requests : req[p].id # record'[o].id
    BY <1>1, <2>1, <2>3, <2>4 DEF Fresh
  <2>7. ~Live(req[r].op)
    BY <1>3 DEF Live, Found, Row
  <2>8. ASSUME NEW o, o # req[r].op PROVE (Live(o)' <=> Live(o))
    BY <1>1, <2>4, <2>8 DEF Live
  <2>9. ASSUME NEW o, o = req[r].op PROVE Live(o)'
    BY <1>1, <2>3, <2>4, <2>9 DEF Live
  <2>10. CASE req[r].op = "nonce"
    <3>1. Finish(r) /\ accepted' = accepted + 1 /\ accepted = 0
      BY <2>1, <2>7, <2>10, Counters DEF Inv, Tables, RowsFit
    <3>2. RowsFit'
      <4>1. accepted' = 1 /\ Live("nonce")' /\ (Live("write")' <=> Live("write"))
        BY <2>8, <2>9, <2>10, <3>1
      <4>2. Live("write") => record'["write"] = record["write"]
        BY <2>4, <2>10 DEF Live
      <4> QED
        BY <2>2, <4>1, <4>2 DEF Inv, Tables, RowsFit
    <3>3. Tables'
      BY <2>2, <2>5, <3>1, <3>2 DEF Inv, Tables
    <3>4. \A p \in Requests \ {r} : req[p].own => record'["write"] = record["write"]
      BY <2>4, <2>10 DEF Inv, Fits, Live
    <3>5. req' = [req EXCEPT ![r] = Idle]
      BY <3>1 DEF Finish
    <3> QED
      BY <2>2, <2>6, <3>3, <3>4, <3>5, IdleType, IdleFits, Preserve
  <2>11. CASE req[r].op # "nonce"
    <3>1. req[r].op = "write"
      BY <1>1, <2>11 DEF Request, AllOps
    <3>2. PICK x : x = [req[r] EXCEPT !.pc = "execute", !.id = i, !.own = TRUE]
      OBVIOUS
    <3>3. /\ x \in Request /\ x.pc = "execute" /\ x.id = i /\ x.own /\ x.op = "write"
          /\ x.hash = req[r].hash
      BY <1>1, <2>1, <3>1, <3>2 DEF Request, Labels
    <3>4. req' = [req EXCEPT ![r] = x] /\ accepted' = accepted
      BY <2>1, <2>11, <3>2
    <3>5. effects <= faults /\ (withdrawn = 0 => answered = {})
      BY <2>7, <3>1, Counters DEF Inv, Tables, RowsFit
    <3>6. RowsFit'
      <4>1. Live("nonce")' <=> Live("nonce")
        BY <2>8, <3>1
      <4>2. effects' <= 1 + faults' /\ ~(effects' > faults')
            /\ (withdrawn' = 0 => answered' = {})
        BY <2>2, <3>5, Counters
      <4> QED
        BY <3>4, <4>1, <4>2 DEF Inv, Tables, RowsFit
    <3>7. Tables'
      BY <2>2, <2>5, <3>4, <3>6 DEF Inv, Tables
    <3>8. \A p \in Requests \ {r} : ~req[p].own /\ req'[p] = req[p]
      BY <2>7, <3>1, <3>4 DEF Inv, Fits
    <3>9. Fits(r, x)'
      <4>1. Live("write")' /\ record'["write"] = new
        BY <1>1, <2>4, <2>9, <3>1
      <4>2. effects' <= faults' /\ \A p \in Requests \ {r} : ~req'[p].own
        BY <2>2, <3>5, <3>8
      <4> QED
        BY <1>1, <2>3, <3>1, <3>3, <4>1, <4>2 DEF Fits
    <3> QED
      BY <2>2, <2>6, <3>3, <3>4, <3>7, <3>8, <3>9, Preserve
  <2> QED
    BY <2>10, <2>11
<1> QED
  BY <1>2, <1>3

\* A request that owns a row does something to it or to the effects: nobody
\* else does, so only its own case is left to show.
LEMMA OwnerStep ==
  ASSUME Inv, NEW r \in Requests, req[r].own,
         NEW x \in Request, req' = [req EXCEPT ![r] = x],
         Fits(r, x)', Tables', faults <= faults',
         \/ record' = record
         \/ \A o \in Ops : record'[o] \in {record[o], NoRecord}
         \/ \A o \in Ops : record'[o] = record[o]
                             \/ (/\ record[o] # NoRecord /\ record'[o].id = record[o].id
                                 /\ record'[o].expired = record[o].expired)
  PROVE  Inv'
<1>1. \A p \in Requests \ {r} : ~req[p].own
  BY DEF Inv, Fits
<1> QED
  BY <1>1, Preserve

LEMMA ExecuteInv ==
  ASSUME Inv, NEW r \in Requests, Execute(r)
  PROVE  Inv'
<1>1. /\ req[r] \in Request /\ Fits(r, req[r]) /\ req[r].pc = "execute" /\ req[r].own
      /\ req[r].op = "write" /\ Live("write") /\ record["write"].id = req[r].id
      /\ record["write"].hash = req[r].hash
      /\ record["write"].answer = 0 /\ effects <= faults
      /\ \A p \in Requests \ {r} : ~req[p].own
  BY DEF Inv, Execute, At, Fits
<1>2. /\ effects \in Nat /\ faults \in Nat
      /\ record' = record /\ accepted' = accepted /\ answered' = answered
      /\ withdrawn' = withdrawn
  BY Counters DEF Execute
<1>3. CASE effects' = effects + 1 /\ Goto(r, "store") /\ UNCHANGED faults
  <2>1. PICK x \in Request : /\ req' = [req EXCEPT ![r] = x]
                             /\ x.pc = "store" /\ x.op = "write" /\ x.own /\ x.id = req[r].id
                             /\ x.hash = req[r].hash
    BY <1>1, <1>3, GotoMoves DEF Labels
  <2>2. /\ effects' \in Nat /\ effects' > 0 /\ effects' <= 1 + faults'
        /\ faults' = faults /\ faults <= faults'
    BY <1>1, <1>2, <1>3
  <2>3. Tables'
    BY <1>1, <1>2, <2>2 DEF Inv, Tables, RowsFit, Live
  <2>4. Fits(r, x)'
    BY <1>1, <1>2, <2>1, <2>2 DEF Fits, Live
  <2> QED
    BY <1>1, <1>2, <2>1, <2>2, <2>3, <2>4, OwnerStep
<1>4. CASE Goto(r, "cleanup") /\ UNCHANGED <<effects, faults>>
  <2>1. PICK x \in Request : /\ req' = [req EXCEPT ![r] = x]
                             /\ x.pc = "cleanup" /\ x.op = "write" /\ x.own /\ x.id = req[r].id
                             /\ x.hash = req[r].hash
    BY <1>1, <1>4, GotoMoves DEF Labels
  <2>2. Fits(r, x)
    BY <1>1, <2>1 DEF Fits
  <2> QED
    BY <1>1, <1>2, <1>4, <2>1, <2>2, QuietStep DEF history
<1>5. CASE Fault /\ Goto(r, "cleanup") /\ effects' = effects + 1
  <2>1. PICK x \in Request : /\ req' = [req EXCEPT ![r] = x]
                             /\ x.pc = "cleanup" /\ x.op = "write" /\ x.own /\ x.id = req[r].id
                             /\ x.hash = req[r].hash
    BY <1>1, <1>5, GotoMoves DEF Labels
  <2>2. faults' = faults + 1 /\ faults' \in 0..MaxFaults
    BY <1>5, Counters
  <2>3. /\ effects' \in Nat /\ effects' <= faults' /\ effects' <= 1 + faults'
        /\ faults <= faults'
    BY <1>1, <1>2, <1>5, <2>2
  <2>4. Tables'
    BY <1>1, <1>2, <2>2, <2>3 DEF Inv, Tables, RowsFit, Live
  <2>5. Fits(r, x)'
    BY <1>1, <1>2, <2>1, <2>3 DEF Fits, Live
  <2> QED
    BY <1>1, <1>2, <2>1, <2>3, <2>4, <2>5, OwnerStep
<1>6. CASE Fault /\ Goto(r, "refind") /\ UNCHANGED effects
  <2>1. PICK x \in Request : /\ req' = [req EXCEPT ![r] = x]
                             /\ x.pc = "refind" /\ x.op = "write" /\ x.own /\ x.id = req[r].id
                             /\ x.hash = req[r].hash
    BY <1>1, <1>6, GotoMoves DEF Labels
  <2>2. Fits(r, x)
    BY <1>1, <2>1 DEF Fits
  <2> QED
    BY <1>1, <1>2, <1>6, <2>1, <2>2, QuietStep DEF history
<1> QED
  BY <1>3, <1>4, <1>5, <1>6 DEF Execute

LEMMA StoreAnswerInv ==
  ASSUME Inv, NEW r \in Requests, StoreAnswer(r)
  PROVE  Inv'
<1>1. /\ req[r] \in Request /\ Fits(r, req[r]) /\ req[r].pc = "store" /\ req[r].own
      /\ req[r].op = "write" /\ Live("write") /\ record["write"].id = req[r].id
      /\ record["write"].answer = 0 /\ effects > 0
      /\ req[r].hash = record["write"].hash
      /\ \A p \in Requests \ {r} : ~req[p].own
  BY DEF Inv, StoreAnswer, At, Fits
<1>2. /\ effects \in Nat /\ faults \in Nat /\ effects <= 1 + faults
      /\ accepted' = accepted /\ effects' = effects /\ withdrawn' = withdrawn
      /\ withdrawn = 0 => answered = {}
  BY <1>1, Counters DEF StoreAnswer, Inv, Tables, RowsFit
<1>3. ASSUME WriteAnswer(r)
      PROVE  /\ record' \in [Ops -> Record \cup {NoRecord}]
             /\ record'["write"].answer = effects /\ record'["write"].hash = req[r].hash
             /\ record'["write"].id = req[r].id
             /\ Live("write")' /\ (Live("nonce")' <=> Live("nonce"))
             /\ \A o \in Ops : record'[o] = record[o]
                          \/ (/\ record[o] # NoRecord /\ record'[o].id = record[o].id
                              /\ record'[o].expired = record[o].expired)
  <2>1. /\ record["write"] \in Record /\ "write" \in Ops
        /\ record \in [Ops -> Record \cup {NoRecord}]
    BY <1>1 DEF Inv, Tables, Live
  <2>2. PICK new : new = [record["write"] EXCEPT !.answer = effects]
    OBVIOUS
  <2>3. /\ new \in Record /\ new.answer = effects /\ new.hash = record["write"].hash
        /\ new.id = record["write"].id /\ new.expired = record["write"].expired
    BY <1>2, <2>1, <2>2 DEF Record
  <2>4. record' = [record EXCEPT !["write"] = new]
    BY <1>1, <1>3, <2>2 DEF WriteAnswer
  <2>5. /\ record' \in [Ops -> Record \cup {NoRecord}] /\ record'["write"] = new
        /\ \A o \in Ops : o # "write" => record'[o] = record[o]
    BY <2>1, <2>3, <2>4
  <2>6. new # NoRecord /\ ~new.expired
    BY <1>1, <2>3, NoRecordType DEF Live
  <2>7. /\ Live("write")' /\ (Live("nonce")' <=> Live("nonce"))
    BY <2>1, <2>5, <2>6 DEF Live
  <2>8. \A o \in Ops : record'[o] = record[o]
                          \/ (/\ record[o] # NoRecord /\ record'[o].id = record[o].id
                              /\ record'[o].expired = record[o].expired)
    BY <1>1, <2>3, <2>5 DEF Live
  <2> QED
    BY <1>1, <2>3, <2>5, <2>7, <2>8
<1>4. CASE WriteAnswer(r) /\ Finish(r) /\ UNCHANGED faults
           /\ answered' = answered \cup {<<req[r].hash, effects>>}
  <2>1. faults' = faults /\ faults <= faults'
    BY <1>2, <1>4
  <2>2. answered' \subseteq Fingerprints \X Nat
    BY <1>1, <1>2, <1>4 DEF Request, Inv, Tables
  <2>3. RowsFit'
    BY <1>1, <1>2, <1>3, <1>4, <2>1 DEF Inv, Tables, RowsFit
  <2>4. Tables'
    BY <1>2, <1>3, <1>4, <2>1, <2>2, <2>3 DEF Inv, Tables
  <2> QED
    BY <1>1, <1>3, <1>4, <2>1, <2>4, IdleType, IdleFits, OwnerStep DEF Finish
<1>5. CASE (WriteAnswer(r) \/ UNCHANGED record) /\ Fault /\ Goto(r, "cleanup")
           /\ UNCHANGED answered
  <2>1. PICK x \in Request : /\ req' = [req EXCEPT ![r] = x]
                             /\ x.pc = "cleanup" /\ x.op = "write" /\ x.own /\ x.id = req[r].id
                             /\ x.hash = req[r].hash
    BY <1>1, <1>5, GotoMoves DEF Labels
  <2>2. faults' = faults + 1 /\ faults' \in 0..MaxFaults
    BY <1>5, Counters
  <2>3. /\ effects' \in Nat /\ effects' <= faults' /\ effects' <= 1 + faults'
        /\ faults <= faults'
    BY <1>2, <2>2
  <2>4. /\ record' \in [Ops -> Record \cup {NoRecord}]
        /\ record'["write"].id = req[r].id /\ record'["write"].hash = req[r].hash
        /\ Live("write")' /\ (Live("nonce")' <=> Live("nonce"))
        /\ \A o \in Ops : record'[o] = record[o]
                     \/ (/\ record[o] # NoRecord /\ record'[o].id = record[o].id
                         /\ record'[o].expired = record[o].expired)
    <3>1. CASE WriteAnswer(r)
      BY <1>3, <3>1
    <3>2. CASE UNCHANGED record
      BY <1>1, <3>2 DEF Live, Inv, Tables
    <3> QED
      BY <1>5, <3>1, <3>2
  <2>5. RowsFit'
    BY <1>1, <1>2, <1>5, <2>3, <2>4 DEF Inv, Tables, RowsFit
  <2>6. Tables'
    BY <1>2, <1>5, <2>2, <2>3, <2>4, <2>5 DEF Inv, Tables
  <2>7. Fits(r, x)'
    <3>1. \A p \in Requests \ {r} : ~req'[p].own
      BY <1>1, <2>1 DEF Inv
    <3> QED
      BY <1>1, <2>1, <2>3, <2>4, <3>1 DEF Fits, Live
  <2> QED
    BY <1>1, <2>1, <2>3, <2>4, <2>6, <2>7, OwnerStep
<1> QED
  BY <1>4, <1>5 DEF StoreAnswer

LEMMA CleanupInv ==
  ASSUME Inv, NEW r \in Requests, Cleanup(r)
  PROVE  Inv'
<1>1. Fits(r, req[r]) /\ req[r].pc = "cleanup"
  BY DEF Inv, Cleanup, At
<1>2. /\ Finish(r) /\ UNCHANGED <<accepted, effects, answered>>
      /\ Fault \/ UNCHANGED faults
  BY DEF Cleanup
<1>3. CASE UNCHANGED <<record, withdrawn>>
  BY <1>2, <1>3, FinishQuiet DEF history
<1>4. CASE /\ IF req[r].own THEN DeleteRow(r) ELSE UNCHANGED record
           /\ withdrawn' = IF req[r].own /\ Deletes(r) /\ Row(r).answer # 0
                           THEN withdrawn + 1 ELSE withdrawn
           /\ UNCHANGED faults /\ req[r].own
  <2>1. /\ req[r].own /\ DeleteRow(r) /\ UNCHANGED faults
    BY <1>4
  <2>2. /\ req[r].op = "write" /\ Live("write") /\ record["write"].id = req[r].id
        /\ effects <= faults
    BY <1>1, <2>1 DEF Fits
  <2>3. record' = [record EXCEPT !["write"] = NoRecord]
    BY <2>1, <2>2 DEF DeleteRow, Deletes, Row
  <2>4. /\ record' \in [Ops -> Record \cup {NoRecord}]
        /\ \A o \in Ops : record'[o] \in {record[o], NoRecord}
        /\ Live("nonce")' <=> Live("nonce")
    BY <2>2, <2>3 DEF Inv, Tables, Live
  <2>5. /\ effects \in Nat /\ faults \in Nat
        /\ faults' = faults /\ faults <= faults' /\ effects' = effects
        /\ accepted' = accepted /\ answered' = answered
    BY <1>2, <2>1, Counters
  <2>6. withdrawn' \in Nat /\ (withdrawn' = 0 => answered' = {})
    <3>1. CASE record["write"].answer # 0
      <4>1. withdrawn' = withdrawn + 1 /\ withdrawn \in Nat
        BY <1>4, <2>2, <3>1 DEF Row, Deletes, Inv, Tables
      <4> QED
        BY <4>1
    <3>2. CASE record["write"].answer = 0
      BY <1>4, <2>2, <2>5, <3>2 DEF Row, Deletes, Inv, Tables, RowsFit
    <3> QED
      BY <3>1, <3>2
  <2>7. RowsFit'
    BY <2>2, <2>4, <2>5, <2>6 DEF Inv, Tables, RowsFit
  <2>8. Tables'
    BY <2>4, <2>5, <2>6, <2>7 DEF Inv, Tables
  <2> QED
    BY <1>2, <2>1, <2>4, <2>5, <2>8, IdleType, IdleFits, OwnerStep DEF Finish
<1> QED
  BY <1>3, <1>4 DEF Cleanup

LEMMA StepInv ==
  ASSUME Inv, NEW r \in Requests, Step(r) \/ Abandon(r)
  PROVE  Inv'
<1>1. CASE Step(r)
  BY <1>1, FindRecordInv, PurgeExpiredInv, CreateRecordInv, ExecuteInv, StoreAnswerInv,
     RefindInv, RepurgeInv, CleanupInv DEF Step
<1>2. CASE Abandon(r)
  BY <1>2, FinishQuiet DEF Abandon, history
<1> QED
  BY <1>1, <1>2

-----------------------------------------------------------------------------
(* Time, and the invariant *)

LEMMA ExpireInv ==
  ASSUME Inv, NEW op \in Ops, Expire(op)
  PROVE  Inv'
<1>1. /\ record[op] \in Record /\ record \in [Ops -> Record \cup {NoRecord}] /\ op \in AllOps
  BY IdempotencyAssumption DEF Inv, Tables, Expire, IdempotencyAssumption
<1>2. PICK old : old = [record[op] EXCEPT !.expired = TRUE]
  OBVIOUS
<1>3. /\ old \in Record /\ old.expired /\ old.id = record[op].id
  BY <1>1, <1>2 DEF Record
<1>4. record' = [record EXCEPT ![op] = old]
  BY <1>2 DEF Expire
<1>5. /\ record' \in [Ops -> Record \cup {NoRecord}] /\ record'[op] = old
      /\ \A o \in Ops : o # op => record'[o] = record[o]
  BY <1>1, <1>3, <1>4
<1>6. ASSUME NEW o, o # op PROVE Live(o)' <=> Live(o)
  BY <1>5, <1>6 DEF Live
<1>7. faults' = faults /\ req' = req /\ faults \in Nat
  BY Counters DEF Expire
<1>8. Tables'
  <2>1. CASE op = "nonce"
    <3>1. /\ accepted' = 0 /\ effects' = effects /\ answered' = answered
          /\ withdrawn' = withdrawn
          /\ "write" \in Ops => record'["write"] = record["write"]
          /\ Live("write")' <=> Live("write")
      BY <1>5, <1>6, <2>1 DEF Expire
    <3> QED
      BY <1>5, <1>7, <3>1 DEF Inv, Tables, RowsFit, Live
  <2>2. CASE op # "nonce"
    <3>1. /\ accepted' = accepted /\ effects' = 0 /\ answered' = {} /\ withdrawn' = 0
          /\ Live("nonce")' <=> Live("nonce")
      BY <1>6, <2>2 DEF Expire
    <3>2. effects' \in Nat /\ effects' <= 1 + faults' /\ ~(effects' > faults')
      BY <1>7, <3>1
    <3> QED
      BY <1>5, <1>7, <3>1, <3>2 DEF Inv, Tables, RowsFit
  <2> QED
    BY <2>1, <2>2
<1>9. ASSUME NEW r \in Requests PROVE Fits(r, req[r])'
  <2>1. PICK y : y = req[r]
    OBVIOUS
  <2>2. Fits(r, y) /\ req'[r] = y
    BY <1>7, <2>1 DEF Inv
  <2>3. CASE y.own
    <3>1. op # "write"
      BY <2>1, <2>2, <2>3 DEF Expire, Holds, Fits
    <3>2. op = "nonce"
      BY <1>1, <3>1 DEF AllOps
    <3>3. record'["write"] = record["write"] /\ Live("write")' /\ effects' = effects
      BY <1>5, <1>6, <2>2, <2>3, <3>2 DEF Fits, Live, Expire
    <3> QED
      BY <1>7, <2>2, <2>3, <3>3 DEF Fits
  <2>4. CASE ~y.own
    BY <1>3, <1>5, <2>2, <2>4, <1>7, NoRecordType DEF Fits
  <2> QED
    BY <2>2, <2>3, <2>4
<1> QED
  BY <1>7, <1>8, <1>9 DEF Inv

LEMMA ClearExpiredInv ==
  ASSUME Inv, NEW op \in Ops, ClearExpired(op)
  PROVE  Inv'
<1>1. /\ record \in [Ops -> Record \cup {NoRecord}] /\ ~Live(op)
      /\ record' = [record EXCEPT ![op] = NoRecord]
  BY DEF Inv, Tables, ClearExpired, Sweeps, Live
<1>2. /\ record' \in [Ops -> Record \cup {NoRecord}]
      /\ \A o \in Ops : record'[o] = record[o] \/ (record'[o] = NoRecord /\ ~Live(o))
  BY <1>1
<1>3. ASSUME NEW o, Live(o) PROVE Live(o)' /\ record'[o] = record[o]
  BY <1>2, <1>3 DEF Live
<1>4. /\ faults' = faults /\ req' = req /\ accepted' = accepted
      /\ effects' = effects /\ answered' = answered /\ withdrawn' = withdrawn
  BY DEF ClearExpired, history
<1>5. Tables'
  BY <1>2, <1>3, <1>4 DEF Inv, Tables, RowsFit
<1>6. ASSUME NEW r \in Requests PROVE Fits(r, req[r])'
  <2>1. PICK y : y = req[r]
    OBVIOUS
  <2>2. Fits(r, y) /\ req'[r] = y
    BY <1>4, <2>1 DEF Inv
  <2>3. Fits(r, y)'
    BY <1>2, <1>3, <1>4, <2>2 DEF Fits
  <2> QED
    BY <2>2, <2>3
<1> QED
  BY <1>4, <1>5, <1>6 DEF Inv

LEMMA NextInv == Inv /\ [Next]_vars => Inv'
<1> SUFFICES ASSUME Inv, [Next]_vars PROVE Inv'
  OBVIOUS
<1>1. CASE UNCHANGED vars
  <2>1. Tables' /\ req' = req
    BY <1>1 DEF vars, history, Inv, Tables, RowsFit, Live
  <2>2. ASSUME NEW r \in Requests PROVE Fits(r, req[r])'
    BY <1>1, <2>2 DEF vars, history, Inv, Fits, Live
  <2> QED
    BY <2>1, <2>2 DEF Inv
<1> QED
  BY <1>1, BeginRequestInv, StepInv, ExpireInv, ClearExpiredInv DEF Next

LEMMA SpecInv == Spec => []Inv
BY InitInv, NextInv, PTL DEF Spec

-----------------------------------------------------------------------------
(* Theorems *)

\* Rows, requests and answers keep their types however requests interleave.
THEOREM TypeCorrect == Spec => []TypeOK
<1>1. Inv => TypeOK
  BY DEF Inv, Tables, TypeOK
<1> QED
  BY <1>1, SpecInv, PTL

\* registerNonce lets one request pass per nonce while its row lives: the row
\* it creates is deleted only once expired.
THEOREM NoncesCountOnce == Spec => []NonceIsAcceptedOnce
<1>1. Inv => NonceIsAcceptedOnce
  BY DEF Inv, Tables, RowsFit, NonceIsAcceptedOnce
<1> QED
  BY <1>1, SpecInv, PTL

\* execute runs one execution of a key at a time, for any number of requests:
\* whoever executes owns the live row, and only one request can.
THEOREM ExecutionsAreExclusive == Spec => []OneExecution
<1>1. Inv => OneExecution
  <2> SUFFICES ASSUME Inv PROVE OneExecution
    OBVIOUS
  <2> DEFINE S == {r \in Requests : req[r].pc \in {"execute", "store"}}
  <2>1. ASSUME NEW r \in S, NEW p \in S PROVE r = p
    BY <2>1 DEF Inv, Fits
  <2>2. CASE S = {}
    BY <2>2, FS_EmptySet DEF OneExecution
  <2>3. CASE S # {}
    <3>1. PICK r \in S : TRUE
      BY <2>3
    <3>2. S = {r}
      BY <2>1, <3>1
    <3>3. Cardinality({r}) = 1
      BY FS_Singleton
    <3>4. ASSUME NEW T, T = {r} PROVE Cardinality(T) <= 1
      <4>1. Cardinality(T) = 1
        BY <3>3, <3>4
      <4> QED
        BY <4>1
    <3>5. Cardinality(S) <= 1
      BY <3>2, <3>4
    <3> QED
      BY <3>5 DEF OneExecution
  <2> QED
    BY <2>2, <2>3
<1> QED
  BY <1>1, SpecInv, PTL

\* All successes answered for one key are one result with one fingerprint, as long as no
\* result was stored and then deleted by its own request.
THEOREM OneAnswer == Spec => []AnswersAgree
<1>1. Inv => AnswersAgree
  BY DEF Inv, Tables, RowsFit, AnswersAgree
<1> QED
  BY <1>1, SpecInv, PTL

\* Retries alone never repeat a write: each effect after the first of a row
\* needs a fault.
THEOREM RepeatsNeedFaults == Spec => []EffectsNeedFaults
<1>1. Inv => EffectsNeedFaults
  BY DEF Inv, Tables, RowsFit, EffectsNeedFaults
<1> QED
  BY <1>1, SpecInv, PTL
=============================================================================
