----------------------- MODULE NotifyDispatcher_proofs -----------------------
(***************************************************************************)
(* The fencing invariant of NotifyDispatcher and what follows from it, for *)
(* any number of tasks and workers, any retry schedule and any bounds.     *)
(***************************************************************************)
EXTENDS NotifyDispatcher, TLAPS, FiniteSetTheorems

\* What a row says has happened; only a claimed row carries a trace id.
RowFits(t) ==
  /\ row[t].trace \in 0..traces
  /\ row[t].trace # 0 => row[t].status = "RETRYING"
  /\ row[t].retryCount <= failures[t]
  /\ row[t].status = "SUCCESS" => heard[t]
  /\ row[t].status = "DEAD" => row[t].retryCount > Backoffs
  /\ row[t].status \in Open => row[t].retryCount <= Backoffs
  /\ row[t].status = "absent" => row[t].retryCount = 0

\* The fence: a job whose trace id the row carries was claimed from the row as
\* it still is, and no other job has that trace id for the task.
JobFits(w, t) ==
  LET j == job[<<w, t>>]
  IN  j.pc # "none" =>
        /\ j.trace \in 1..traces
        /\ row[t].status # "absent"
        /\ j.epoch <= epoch[t]
        /\ Owns(w, t) => j.epoch = epoch[t] /\ j.retryCount = row[t].retryCount
        /\ j.epoch = epoch[t] => /\ j.retryCount <= failures[t]
                                 /\ j.pc = "accepted" => heard[t]
                                 /\ j.pc = "failed" => j.retryCount < failures[t]
        /\ \A v \in Workers \ {w} :
             job[<<v, t>>].pc # "none" => job[<<v, t>>].trace # j.trace

Inv == /\ TypeOK
       /\ \A t \in Tasks : RowFits(t)
       /\ \A w \in Workers, t \in Tasks : JobFits(w, t)

LEMMA NewRowType ==
  ASSUME NEW s \in TaskStatus
  PROVE  NewRow(s) \in Row
BY DEF NewRow, Row

LEMMA NoJobType == NoJob \in Job /\ NoJob.pc = "none"
BY DEF NoJob, Job

LEMMA InitInv == Init => Inv
<1> SUFFICES ASSUME Init PROVE Inv
  OBVIOUS
<1>1. TypeOK
  BY NoJobType, NewRowType, DispatcherAssumption DEF Init, TypeOK, TaskStatus, DispatcherAssumption
<1>2. ASSUME NEW t \in Tasks PROVE RowFits(t)
  BY DispatcherAssumption DEF Init, RowFits, NewRow, Open, DispatcherAssumption
<1>3. ASSUME NEW w \in Workers, NEW t \in Tasks PROVE JobFits(w, t)
  BY NoJobType DEF Init, JobFits
<1> QED
  BY <1>1, <1>2, <1>3 DEF Inv

\* A step of one job of one task, which may rewrite that task's row and
\* history: the rest of the tables is as it was.
Local(w, t) ==
  /\ \E x \in Row : row' = [row EXCEPT ![t] = x]
  /\ \E y \in Job : job' = [job EXCEPT ![<<w, t>>] = y]
  /\ \E h \in BOOLEAN : heard' = [heard EXCEPT ![t] = h]
  /\ \E n \in Nat : failures' = [failures EXCEPT ![t] = n]
  /\ accepts' \in [Tasks -> Nat]
  /\ faults' \in 0..MaxFaults
  /\ UNCHANGED <<traces, epoch>>

\* The other jobs of the task keep their claim, or lose it with the row's
\* trace id; facts about the history only grow.
LEMMA LocalPreserves ==
  ASSUME Inv, NEW w \in Workers, NEW t \in Tasks, Local(w, t),
         RowFits(t)', JobFits(w, t)',
         row'[t].trace \in {0, row[t].trace},
         row'[t].trace # 0 => row'[t].retryCount = row[t].retryCount,
         row[t].status # "absent" => row'[t].status # "absent",
         heard[t] => heard'[t], failures[t] <= failures'[t]
  PROVE  Inv'
<1>1. /\ row \in [Tasks -> Row] /\ job \in [Workers \X Tasks -> Job]
      /\ heard \in [Tasks -> BOOLEAN] /\ failures \in [Tasks -> Nat]
  BY DEF Inv, TypeOK
<1>a. PICK x \in Row : row' = [row EXCEPT ![t] = x]
  BY DEF Local
<1>b. PICK y \in Job : job' = [job EXCEPT ![<<w, t>>] = y]
  BY DEF Local
<1>c. PICK h \in BOOLEAN : heard' = [heard EXCEPT ![t] = h]
  BY DEF Local
<1>d. PICK n \in Nat : failures' = [failures EXCEPT ![t] = n]
  BY DEF Local
<1>2. /\ row' = [row EXCEPT ![t] = x] /\ x \in Row
      /\ job' = [job EXCEPT ![<<w, t>>] = y] /\ y \in Job
      /\ heard' = [heard EXCEPT ![t] = h] /\ h \in BOOLEAN
      /\ failures' = [failures EXCEPT ![t] = n] /\ n \in Nat
  BY <1>a, <1>b, <1>c, <1>d
<1>3. TypeOK'
  BY <1>1, <1>2 DEF Local, Inv, TypeOK
<1>4. ASSUME NEW u \in Tasks, u # t
      PROVE  row'[u] = row[u] /\ heard'[u] = heard[u] /\ failures'[u] = failures[u]
  BY <1>1, <1>2, <1>4
<1>5. ASSUME NEW v \in Workers, NEW u \in Tasks, <<v, u>> # <<w, t>>
      PROVE  job'[<<v, u>>] = job[<<v, u>>]
  BY <1>1, <1>2, <1>5
<1>6. ASSUME NEW u \in Tasks PROVE RowFits(u)'
  <2>1. CASE u = t
    BY <2>1
  <2>2. CASE u # t
    BY <1>4, <2>2 DEF Inv, RowFits, Local
  <2> QED
    BY <2>1, <2>2
<1>7. ASSUME NEW v \in Workers, NEW u \in Tasks PROVE JobFits(v, u)'
  <2>1. CASE u # t
    <3>1. JobFits(v, u)
      BY DEF Inv
    <3>2. \A z \in Workers : job'[<<z, u>>] = job[<<z, u>>]
      BY <1>5, <2>1
    <3> QED
      BY <1>4, <2>1, <3>1, <3>2 DEF JobFits, Owns, Local
  <2>2. CASE u = t /\ v = w
    BY <2>2
  <2>3. CASE u = t /\ v # w
    <3>1. job'[<<v, t>>] = job[<<v, t>>]
      BY <1>5, <2>3
    <3>2. JobFits(v, t) /\ RowFits(t) /\ job[<<v, t>>] \in Job /\ row[t] \in Row
      BY <1>1 DEF Inv
    <3> SUFFICES ASSUME job[<<v, t>>].pc # "none" PROVE JobFits(v, t)'
      BY <2>3, <3>1 DEF JobFits
    <3>3. job[<<v, t>>].trace \in 1..traces
      BY <3>2 DEF JobFits
    <3>4. Owns(v, t)' => Owns(v, t) /\ row'[t].retryCount = row[t].retryCount
      BY <3>1, <3>3 DEF Owns, Inv, TypeOK
    <3>5. \A z \in Workers \ {v} :
            job'[<<z, t>>].pc # "none" => job'[<<z, t>>].trace # job'[<<v, t>>].trace
      <4> SUFFICES ASSUME NEW z \in Workers \ {v}, job'[<<z, t>>].pc # "none"
                   PROVE  job'[<<z, t>>].trace # job'[<<v, t>>].trace
        OBVIOUS
      <4>1. CASE z = w
        BY <2>3, <3>1, <4>1 DEF JobFits
      <4>2. CASE z # w
        BY <1>5, <3>1, <3>2, <4>2 DEF JobFits
      <4> QED
        BY <4>1, <4>2
    <3>6. failures[t] \in Nat /\ failures'[t] \in Nat /\ job[<<v, t>>].retryCount \in Nat
      BY <1>1, <1>2, <3>2 DEF Job
    <3> QED
      BY <3>1, <3>2, <3>3, <3>4, <3>5, <3>6 DEF JobFits, Local
  <2> QED
    BY <2>1, <2>2, <2>3
<1> QED
  BY <1>3, <1>6, <1>7 DEF Inv

-----------------------------------------------------------------------------
(* Steps of one delivery *)

\* A job that goes on to pc without touching the row.
LEMMA ContinueJob ==
  ASSUME Inv, NEW w \in Workers, NEW t \in Tasks,
         NEW pc \in {"post", "accepted", "failed"}, Continue(w, t, pc)
  PROVE  /\ \E y \in Job : job' = [job EXCEPT ![<<w, t>>] = y]
         /\ job'[<<w, t>>].pc = pc
         /\ job'[<<w, t>>].trace = job[<<w, t>>].trace
         /\ job'[<<w, t>>].retryCount = job[<<w, t>>].retryCount
         /\ job'[<<w, t>>].epoch = job[<<w, t>>].epoch
         /\ \A v \in Workers \ {w} : job'[<<v, t>>] = job[<<v, t>>]
<1>1. job \in [Workers \X Tasks -> Job] /\ job[<<w, t>>] \in Job
  BY DEF Inv, TypeOK
<1>2. PICK y : y = [job[<<w, t>>] EXCEPT !.pc = pc]
  OBVIOUS
<1>3. /\ y \in Job /\ y.pc = pc /\ y.trace = job[<<w, t>>].trace
      /\ y.retryCount = job[<<w, t>>].retryCount /\ y.epoch = job[<<w, t>>].epoch
  BY <1>1, <1>2 DEF Job
<1>4. job' = [job EXCEPT ![<<w, t>>] = y]
  BY <1>2 DEF Continue, SetJob
<1> QED
  BY <1>1, <1>3, <1>4

LEMMA SameRow ==
  ASSUME Inv, NEW t \in Tasks, UNCHANGED row
  PROVE  \E x \in Row : row' = [row EXCEPT ![t] = x]
<1>1. row[t] \in Row /\ row' = [row EXCEPT ![t] = row[t]]
  BY DEF Inv, TypeOK
<1> QED
  BY <1>1

LEMMA SameHeard ==
  ASSUME Inv, NEW t \in Tasks, UNCHANGED heard
  PROVE  \E h \in BOOLEAN : heard' = [heard EXCEPT ![t] = h]
<1>1. heard[t] \in BOOLEAN /\ heard' = [heard EXCEPT ![t] = heard[t]]
  BY DEF Inv, TypeOK
<1> QED
  BY <1>1

LEMMA SameFailures ==
  ASSUME Inv, NEW t \in Tasks, UNCHANGED failures
  PROVE  \E n \in Nat : failures' = [failures EXCEPT ![t] = n]
<1>1. failures[t] \in Nat /\ failures' = [failures EXCEPT ![t] = failures[t]]
  BY DEF Inv, TypeOK
<1> QED
  BY <1>1

LEMMA FaultType == Inv /\ (Fault \/ UNCHANGED faults) => faults' \in 0..MaxFaults
BY DispatcherAssumption DEF Inv, TypeOK, Fault, DispatcherAssumption

\* What the history records of an answer.
LEMMA AcceptType ==
  ASSUME Inv, NEW w \in Workers, NEW t \in Tasks, MerchantAccepts(w, t)
  PROVE  /\ \E h \in BOOLEAN : heard' = [heard EXCEPT ![t] = h]
         /\ accepts' \in [Tasks -> Nat]
         /\ heard'[t] = (heard[t] \/ Current(w, t))
<1>1. heard \in [Tasks -> BOOLEAN] /\ accepts \in [Tasks -> Nat]
  BY DEF Inv, TypeOK
<1>2. (heard[t] \/ Current(w, t)) \in BOOLEAN
  BY <1>1
<1>3. accepts[t] + 1 \in Nat
  BY <1>1
<1> QED
  BY <1>1, <1>2, <1>3 DEF MerchantAccepts

LEMMA FailType ==
  ASSUME Inv, NEW w \in Workers, NEW t \in Tasks, DeliveryFails(w, t)
  PROVE  /\ \E n \in Nat : failures' = [failures EXCEPT ![t] = n]
         /\ failures[t] \in Nat
         /\ failures'[t] = IF Current(w, t) THEN failures[t] + 1 ELSE failures[t]
<1>1. failures \in [Tasks -> Nat] /\ failures[t] \in Nat
  BY DEF Inv, TypeOK
<1>2. PICK n : n = IF Current(w, t) THEN failures[t] + 1 ELSE failures[t]
  OBVIOUS
<1>3. n \in Nat /\ failures' = [failures EXCEPT ![t] = n]
  BY <1>1, <1>2 DEF DeliveryFails
<1> QED
  BY <1>1, <1>2, <1>3

\* The facts of the invariant about one job and its row.
LEMMA Facts ==
  ASSUME Inv, NEW w \in Workers, NEW t \in Tasks
  PROVE  /\ RowFits(t) /\ JobFits(w, t)
         /\ row[t] \in Row /\ job[<<w, t>>] \in Job
         /\ failures[t] \in Nat /\ heard[t] \in BOOLEAN /\ epoch[t] \in Nat
         /\ traces \in Nat /\ accepts \in [Tasks -> Nat] /\ Backoffs \in Nat
BY DispatcherAssumption DEF Inv, TypeOK, DispatcherAssumption

LEMMA LoadMerchantAppInv ==
  ASSUME Inv, NEW w \in Workers, NEW t \in Tasks, LoadMerchantApp(w, t)
  PROVE  Inv'
<1> USE DEF LoadMerchantApp, JobAt, history
<1>1. Local(w, t)
  BY SameRow, SameHeard, SameFailures, FaultType, ContinueJob, Facts DEF Local
<1>2. RowFits(t)'
  BY Facts DEF RowFits
<1>3. JobFits(w, t)'
  BY Facts, ContinueJob DEF JobFits, Owns
<1> QED
  BY <1>1, <1>2, <1>3, LocalPreserves, Facts

LEMMA PostAcceptedInv ==
  ASSUME Inv, NEW w \in Workers, NEW t \in Tasks, PostAccepted(w, t)
  PROVE  Inv'
<1> USE DEF PostAccepted, JobAt
<1>1. Local(w, t)
  BY SameRow, AcceptType, SameFailures, FaultType, ContinueJob, Facts DEF Local
<1>2. RowFits(t)'
  BY Facts, AcceptType DEF RowFits
<1>3. JobFits(w, t)'
  <2>1. (job[<<w, t>>].epoch = epoch[t]) => heard'[t] = TRUE
    BY AcceptType DEF Current
  <2> QED
    BY <2>1, Facts, ContinueJob DEF JobFits, Owns
<1> QED
  BY <1>1, <1>2, <1>3, LocalPreserves, Facts, AcceptType

LEMMA PostRefusedInv ==
  ASSUME Inv, NEW w \in Workers, NEW t \in Tasks, PostRefused(w, t)
  PROVE  Inv'
<1> USE DEF PostRefused, JobAt
<1>1. Local(w, t)
  BY SameRow, SameHeard, FailType, FaultType, ContinueJob, Facts DEF Local
<1>2. RowFits(t)'
  BY Facts, FailType DEF RowFits, Row
<1>3. JobFits(w, t)'
  BY Facts, ContinueJob, FailType DEF JobFits, Owns, Current, Job
<1> QED
  BY <1>1, <1>2, <1>3, LocalPreserves, Facts, FailType

LEMMA AnswerLostInv ==
  ASSUME Inv, NEW w \in Workers, NEW t \in Tasks, AnswerLost(w, t)
  PROVE  Inv'
<1> USE DEF AnswerLost, JobAt
<1>1. Local(w, t)
  BY SameRow, AcceptType, FailType, FaultType, ContinueJob DEF Local
<1>2. RowFits(t)'
  BY Facts, FailType, AcceptType DEF RowFits, Row
<1>3. JobFits(w, t)'
  BY Facts, ContinueJob, FailType DEF JobFits, Owns, Current, Job
<1> QED
  BY <1>1, <1>2, <1>3, LocalPreserves, Facts, FailType, AcceptType

LEMMA SuccessNotWrittenInv ==
  ASSUME Inv, NEW w \in Workers, NEW t \in Tasks, SuccessNotWritten(w, t)
  PROVE  Inv'
<1> USE DEF SuccessNotWritten, JobAt
<1>1. Local(w, t)
  BY SameRow, SameHeard, FailType, FaultType, ContinueJob, Facts DEF Local
<1>2. RowFits(t)'
  BY Facts, FailType DEF RowFits, Row
<1>3. JobFits(w, t)'
  BY Facts, ContinueJob, FailType DEF JobFits, Owns, Current, Job
<1> QED
  BY <1>1, <1>2, <1>3, LocalPreserves, Facts, FailType

\* LocalPreserves for a step that leaves rows and history alone.
LEMMA JobPreserves ==
  ASSUME Inv, NEW w \in Workers, NEW t \in Tasks, JobFits(w, t)',
         \E y \in Job : job' = [job EXCEPT ![<<w, t>>] = y],
         Fault \/ UNCHANGED faults, UNCHANGED <<row, traces, history>>
  PROVE  Inv'
<1>1. Local(w, t)
  BY SameRow, SameHeard, SameFailures, FaultType, Facts DEF Local, history
<1>2. RowFits(t)'
  BY Facts DEF RowFits, history
<1>3. UNCHANGED row /\ UNCHANGED failures /\ UNCHANGED heard
  BY DEF history
<1>4. row'[t].trace = row[t].trace /\ row'[t].retryCount = row[t].retryCount
      /\ row'[t].status = row[t].status /\ heard'[t] = heard[t] /\ failures[t] <= failures'[t]
  BY <1>3, Facts
<1> QED
  BY <1>1, <1>2, <1>4, LocalPreserves

\* A job that ends.
LEMMA EndJob ==
  ASSUME Inv, NEW w \in Workers, NEW t \in Tasks, SetJob(w, t, NoJob)
  PROVE  /\ \E y \in Job : job' = [job EXCEPT ![<<w, t>>] = y]
         /\ JobFits(w, t)'
<1>1. job' = [job EXCEPT ![<<w, t>>] = NoJob] /\ NoJob \in Job /\ NoJob.pc = "none"
  BY NoJobType DEF SetJob
<1>2. job'[<<w, t>>] = NoJob
  BY <1>1 DEF Inv, TypeOK
<1> QED
  BY <1>1, <1>2 DEF JobFits

LEMMA JobLostInv ==
  ASSUME Inv, NEW w \in Workers, NEW t \in Tasks, JobLost(w, t)
  PROVE  Inv'
BY EndJob, JobPreserves DEF JobLost

LEMMA MarkTaskSuccessInv ==
  ASSUME Inv, NEW w \in Workers, NEW t \in Tasks, MarkTaskSuccess(w, t)
  PROVE  Inv'
<1>1. UNCHANGED <<traces, faults, epoch, heard, failures, accepts>>
  BY DEF MarkTaskSuccess, history
<1>4. SetJob(w, t, NoJob) /\ JobAt(w, t, "accepted")
  BY DEF MarkTaskSuccess
<1>2. CASE Owns(w, t)
  <2>1. PICK x : x = [row[t] EXCEPT !.status = "SUCCESS", !.due = TRUE, !.trace = 0]
    OBVIOUS
  <2>2. /\ x \in Row /\ x.status = "SUCCESS" /\ x.trace = 0
        /\ x.retryCount = row[t].retryCount
    BY <2>1, Facts DEF Row, TaskStatus
  <2>3. row' = [row EXCEPT ![t] = x] /\ row'[t] = x
    BY <1>2, <2>1 DEF MarkTaskSuccess, SetRow, Inv, TypeOK
  <2>4. heard[t]
    BY <1>2, <1>4, Facts DEF JobFits, JobAt
  <2>5. Local(w, t)
    BY <1>1, <1>4, <2>2, <2>3, SameHeard, SameFailures, FaultType, EndJob, Facts DEF Local
  <2>6. RowFits(t)'
    <3>1. RowFits(t) /\ failures[t] \in Nat /\ traces \in Nat
      BY Facts
    <3> QED
      BY <1>1, <2>2, <2>3, <2>4, <3>1 DEF RowFits, Open
  <2>7. (heard[t] => heard'[t]) /\ failures[t] <= failures'[t]
    <3>1. failures[t] \in Nat
      BY Facts
    <3> QED
      BY <1>1, <3>1
  <2> QED
    BY <1>1, <1>4, <2>2, <2>3, <2>5, <2>6, <2>7, EndJob, LocalPreserves
<1>3. CASE ~Owns(w, t)
  BY <1>1, <1>3, <1>4, EndJob, JobPreserves DEF MarkTaskSuccess
<1> QED
  BY <1>2, <1>3

LEMMA ScheduleRetryInv ==
  ASSUME Inv, NEW w \in Workers, NEW t \in Tasks, ScheduleRetry(w, t)
  PROVE  Inv'
<1> USE DEF ScheduleRetry, history
<1>1. CASE Owns(w, t)
  <2> DEFINE n == job[<<w, t>>].retryCount + 1
  <2>1. PICK x : x = RetryRow(t, n)
    OBVIOUS
  <2>2. n \in Nat /\ n <= failures[t]
    BY <1>1, Facts DEF JobFits, JobAt, Job
  <2>3. /\ x \in Row /\ x.trace = 0 /\ x.retryCount = n
        /\ x.status = IF n > Backoffs THEN "DEAD" ELSE "RETRYING"
    BY <2>1, <2>2 DEF RetryRow, ShouldDeadLetter, Row, TaskStatus, Open
  <2>4. row' = [row EXCEPT ![t] = x] /\ row'[t] = x
    BY <1>1, <2>1 DEF SetRow, Inv, TypeOK
  <2>5. Local(w, t)
    BY <2>3, <2>4, SameHeard, SameFailures, FaultType, EndJob, Facts DEF Local
  <2>6. RowFits(t)'
    <3>1. UNCHANGED <<heard, failures, traces>>
      OBVIOUS
    <3> QED
      BY <2>2, <2>3, <2>4, <3>1, Facts DEF RowFits, Open
  <2>7. heard'[t] = heard[t] /\ failures[t] <= failures'[t]
    BY Facts
  <2> QED
    BY <2>3, <2>4, <2>5, <2>6, <2>7, EndJob, LocalPreserves
<1>2. CASE ~Owns(w, t)
  BY <1>2, EndJob, JobPreserves
<1> QED
  BY <1>1, <1>2

-----------------------------------------------------------------------------
(* Steps of a worker and of a task *)

LEMMA CrashInv ==
  ASSUME Inv, NEW w \in Workers, Crash(w)
  PROVE  Inv'
<1>1. \A p \in Workers \X Tasks : job'[p] = IF p[1] = w THEN NoJob ELSE job[p]
  BY DEF Crash
<1>2. job' \in [Workers \X Tasks -> Job]
  BY NoJobType DEF Crash, Inv, TypeOK
<1>3. UNCHANGED <<row, traces, epoch, heard, failures, accepts>>
  BY DEF Crash, history
<1>4. faults' \in 0..MaxFaults
  BY FaultType DEF Crash
<1>5. TypeOK'
  BY <1>2, <1>3, <1>4 DEF Inv, TypeOK
<1>6. ASSUME NEW t \in Tasks PROVE RowFits(t)'
  BY <1>3 DEF Inv, RowFits
<1>7. ASSUME NEW v \in Workers, NEW t \in Tasks PROVE JobFits(v, t)'
  <2>1. \A z \in Workers : job'[<<z, t>>] = NoJob \/ job'[<<z, t>>] = job[<<z, t>>]
    BY <1>1
  <2> QED
    BY <1>3, <2>1, NoJobType DEF Inv, JobFits, Owns
<1> QED
  BY <1>5, <1>6, <1>7 DEF Inv

LEMMA ClaimInv ==
  ASSUME Inv, NEW w \in Workers, Claim(w)
  PROVE  Inv'
<1>1. PICK batch \in SUBSET Due :
        /\ row' = [t \in Tasks |-> IF t \in batch THEN ClaimedRow(t) ELSE row[t]]
        /\ job' = [p \in Workers \X Tasks |->
                     IF p[1] = w /\ p[2] \in batch THEN ClaimedJob(p[2]) ELSE job[p]]
  BY DEF Claim
<1>2. UNCHANGED <<faults, epoch, heard, failures, accepts>> /\ traces' = traces + 1
  BY DEF Claim, history
<1>3. traces \in Nat /\ traces' \in Nat
  BY <1>2 DEF Inv, TypeOK
<1>4. ASSUME NEW t \in batch
      PROVE  /\ t \in Tasks /\ row[t].status \in Open
             /\ ClaimedRow(t) \in Row /\ ClaimedRow(t).trace = traces'
             /\ ClaimedRow(t).status = "RETRYING"
             /\ ClaimedRow(t).retryCount = row[t].retryCount
             /\ ClaimedJob(t) \in Job /\ ClaimedJob(t).trace = traces'
             /\ ClaimedJob(t).pc = "load" /\ ClaimedJob(t).epoch = epoch[t]
             /\ ClaimedJob(t).retryCount = row[t].retryCount
  <2>1. t \in Tasks /\ row[t].status \in Open
    BY DEF Due
  <2>2. row[t] \in Row /\ epoch[t] \in Nat
    BY <2>1 DEF Inv, TypeOK
  <2>3. PICK x : x = ClaimedRow(t)
    OBVIOUS
  <2>4. /\ x \in Row /\ x.trace = traces + 1 /\ x.status = "RETRYING"
        /\ x.retryCount = row[t].retryCount
    <3>1. PICK n \in Nat : n = traces + 1
      BY <1>3
    <3>2. x = [row[t] EXCEPT !.status = "RETRYING", !.trace = n, !.due = FALSE]
      BY <2>3, <3>1 DEF ClaimedRow
    <3> QED
      BY <2>2, <3>1, <3>2 DEF Row, TaskStatus, Open
  <2>5. ClaimedJob(t) \in Job
    BY <1>3, <2>2 DEF ClaimedJob, Job, Row
  <2> QED
    BY <1>2, <2>1, <2>3, <2>4, <2>5 DEF ClaimedJob
<1>5. TypeOK'
  <2>1. row' \in [Tasks -> Row]
    BY <1>1, <1>4 DEF Inv, TypeOK
  <2>2. job' \in [Workers \X Tasks -> Job]
    BY <1>1, <1>4 DEF Inv, TypeOK
  <2> QED
    BY <1>2, <1>3, <2>1, <2>2 DEF Inv, TypeOK
<1>6. ASSUME NEW t \in Tasks PROVE RowFits(t)'
  <2>1. CASE t \in batch
    <3>1. row'[t] = ClaimedRow(t)
      BY <1>1, <2>1
    <3>2. RowFits(t) /\ traces' \in Nat /\ traces' # 0
      BY <1>2, <1>3 DEF Inv
    <3>3. PICK x : x = row'[t]
      OBVIOUS
    <3>4. x.trace = traces' /\ x.status = "RETRYING" /\ x.retryCount = row[t].retryCount
      BY <1>4, <2>1, <3>1, <3>3
    <3>5. row[t].retryCount <= failures[t] /\ row[t].retryCount <= Backoffs
      BY <1>4, <2>1, <3>2 DEF RowFits
    <3> QED
      BY <1>2, <3>2, <3>3, <3>4, <3>5 DEF RowFits, Open
  <2>2. CASE t \notin batch
    <3>1. row'[t] = row[t] /\ RowFits(t)
      BY <1>1, <2>2 DEF Inv
    <3> QED
      BY <1>2, <1>3, <3>1 DEF RowFits
  <2> QED
    BY <2>1, <2>2
<1>7. ASSUME NEW v \in Workers, NEW t \in Tasks PROVE JobFits(v, t)'
  <2>1. CASE t \notin batch
    <3>1. row'[t] = row[t] /\ \A z \in Workers : job'[<<z, t>>] = job[<<z, t>>]
      BY <1>1, <2>1
    <3>2. JobFits(v, t) /\ job[<<v, t>>] \in Job
      BY DEF Inv, TypeOK
    <3> QED
      BY <1>2, <1>3, <3>1, <3>2 DEF JobFits, Owns
  <2>2. CASE t \in batch
    <3>1. job'[<<w, t>>] = ClaimedJob(t) /\ row'[t] = ClaimedRow(t)
      BY <1>1, <2>2
    <3>2. \A z \in Workers \ {w} : job'[<<z, t>>] = job[<<z, t>>]
      BY <1>1
    <3>3. ASSUME NEW z \in Workers \ {w}, job[<<z, t>>].pc # "none"
          PROVE  job[<<z, t>>].trace \in 1..traces /\ job[<<z, t>>].trace # traces'
      BY <1>2, <1>3, <3>3 DEF Inv, JobFits
    <3>4. RowFits(t) /\ JobFits(v, t) /\ job[<<v, t>>] \in Job
      BY DEF Inv, TypeOK
    <3>5. PICK x, y : x = row'[t] /\ y = job'[<<w, t>>]
      OBVIOUS
    <3>6. /\ x.trace = traces' /\ x.status = "RETRYING" /\ x.retryCount = row[t].retryCount
          /\ y.trace = traces' /\ y.pc = "load" /\ y.epoch = epoch[t]
          /\ y.retryCount = row[t].retryCount
      BY <1>4, <2>2, <3>1, <3>5
    <3>7. CASE v = w
      <4>1. epoch[t] \in Nat /\ row[t].retryCount <= failures[t]
        BY <3>4 DEF RowFits, Inv, TypeOK
      <4>2. traces' \in 1..traces'
        BY <1>2, <1>3
      <4> QED
        BY <1>2, <3>2, <3>3, <3>5, <3>6, <3>7, <4>1, <4>2 DEF JobFits, Owns
    <3>8. CASE v # w
      <4>1. job'[<<v, t>>] = job[<<v, t>>]
        BY <3>2, <3>8
      <4> SUFFICES ASSUME job[<<v, t>>].pc # "none" PROVE JobFits(v, t)'
        BY <4>1 DEF JobFits
      <4>2. ~Owns(v, t)'
        BY <3>3, <3>5, <3>6, <3>8, <4>1 DEF Owns
      <4>3. job[<<v, t>>].trace \in 1..traces'
        BY <1>2, <1>3, <3>4 DEF JobFits
      <4>4. \A z \in Workers \ {v} :
              job'[<<z, t>>].pc # "none" => job'[<<z, t>>].trace # job[<<v, t>>].trace
        BY <3>2, <3>3, <3>4, <3>5, <3>6, <3>8 DEF JobFits
      <4> QED
        BY <1>2, <3>4, <3>5, <3>6, <4>1, <4>2, <4>3, <4>4 DEF JobFits
    <3> QED
      BY <3>7, <3>8
  <2> QED
    BY <2>1, <2>2
<1> QED
  BY <1>5, <1>6, <1>7 DEF Inv

\* A step on the row of t alone that keeps its claim and its count, if any job
\* depends on them.
LEMMA RowPreserves ==
  ASSUME Inv, NEW t \in Tasks, NEW x \in Row, SetRow(t, x), RowFits(t)',
         \/ row[t].status = "absent"
         \/ x.trace = row[t].trace /\ x.retryCount = row[t].retryCount /\ x.status # "absent",
         Fault \/ UNCHANGED faults, UNCHANGED <<job, traces, history>>
  PROVE  Inv'
<1>1. row' = [row EXCEPT ![t] = x]
  BY DEF SetRow
<1>2. faults' \in 0..MaxFaults
  BY FaultType
<1>3. TypeOK'
  BY <1>1, <1>2 DEF Inv, TypeOK, history
<1>4. row'[t] = x /\ \A u \in Tasks \ {t} : row'[u] = row[u]
  BY <1>1 DEF Inv, TypeOK
<1>5. ASSUME NEW u \in Tasks PROVE RowFits(u)'
  <2>1. CASE u = t
    BY <2>1
  <2>2. CASE u # t
    BY <1>4, <2>2 DEF Inv, RowFits, history
  <2> QED
    BY <2>1, <2>2
<1>6. ASSUME NEW v \in Workers, NEW u \in Tasks PROVE JobFits(v, u)'
  <2>1. JobFits(v, u)
    BY DEF Inv
  <2>2. CASE u = t /\ row[t].status = "absent"
    BY <2>1, <2>2 DEF JobFits
  <2>3. CASE u = t /\ row[t].status # "absent"
    BY <1>4, <2>1, <2>3 DEF JobFits, Owns, history
  <2>4. CASE u # t
    BY <1>4, <2>1, <2>4 DEF JobFits, Owns, history
  <2> QED
    BY <2>2, <2>3, <2>4
<1> QED
  BY <1>3, <1>5, <1>6 DEF Inv

LEMMA CreateTaskInv ==
  ASSUME Inv, NEW t \in Tasks, CreateTask(t)
  PROVE  Inv'
<1>1. NewRow("PENDING") \in Row
  BY NewRowType DEF TaskStatus, Open
<1>2. row[t].status = "absent" /\ SetRow(t, NewRow("PENDING"))
      /\ UNCHANGED <<job, traces, faults, history>>
  BY DEF CreateTask
<1>3. RowFits(t)'
  <2>1. row'[t] = NewRow("PENDING")
    BY <1>2 DEF SetRow, Inv, TypeOK
  <2>2. failures'[t] \in Nat /\ traces' \in Nat /\ Backoffs \in Nat
    BY <1>2, DispatcherAssumption DEF Inv, TypeOK, history, DispatcherAssumption
  <2> QED
    BY <2>1, <2>2 DEF RowFits, NewRow, Open
<1> QED
  BY <1>1, <1>2, <1>3, RowPreserves

LEMMA WaitEndsInv ==
  ASSUME Inv, NEW t \in Tasks, WaitEnds(t), Fault \/ UNCHANGED faults
  PROVE  Inv'
<1>1. row[t] \in Row /\ RowFits(t)
  BY DEF Inv, TypeOK
<1>2. PICK x : x = [row[t] EXCEPT !.due = TRUE]
  OBVIOUS
<1>3. /\ x \in Row /\ x.status = row[t].status /\ x.trace = row[t].trace
      /\ x.retryCount = row[t].retryCount
  BY <1>1, <1>2 DEF Row
<1>4. SetRow(t, x) /\ UNCHANGED <<job, traces, history>>
  BY <1>2 DEF WaitEnds
<1>5. RowFits(t)'
  <2>1. row'[t] = x
    BY <1>4 DEF SetRow, Inv, TypeOK
  <2> QED
    BY <1>1, <1>3, <1>4, <2>1 DEF RowFits, history
<1>6. CASE row[t].status = "absent"
  BY <1>3, <1>4, <1>5, <1>6, RowPreserves
<1>7. CASE row[t].status # "absent"
  BY <1>3, <1>4, <1>5, <1>7, RowPreserves
<1> QED
  BY <1>6, <1>7

LEMMA ReplayInv ==
  ASSUME Inv, NEW t \in Tasks, Replay(t)
  PROVE  Inv'
<1>1. /\ row \in [Tasks -> Row] /\ epoch \in [Tasks -> Nat] /\ heard \in [Tasks -> BOOLEAN]
      /\ failures \in [Tasks -> Nat] /\ traces \in Nat /\ Backoffs \in Nat
  BY DispatcherAssumption DEF Inv, TypeOK, DispatcherAssumption
<1>2. PICK x \in Row : x = NewRow("PENDING")
  BY NewRowType DEF TaskStatus, Open
<1>3. x.trace = 0 /\ x.status = "PENDING" /\ x.retryCount = 0
  BY <1>2 DEF NewRow
<1>4. /\ row' = [row EXCEPT ![t] = x]
      /\ epoch' = [epoch EXCEPT ![t] = epoch[t] + 1]
      /\ heard' = [heard EXCEPT ![t] = FALSE]
      /\ failures' = [failures EXCEPT ![t] = 0]
      /\ UNCHANGED <<job, traces, faults, accepts>>
  BY <1>2 DEF Replay, SetRow, ReplayedRow
<1>5. TypeOK'
  <2>1. epoch[t] + 1 \in Nat
    BY <1>1
  <2> QED
    BY <1>1, <1>4, <2>1 DEF Inv, TypeOK
<1>6. /\ row'[t] = x /\ epoch'[t] = epoch[t] + 1 /\ failures'[t] = 0
      /\ \A u \in Tasks \ {t} : /\ row'[u] = row[u] /\ epoch'[u] = epoch[u]
                                /\ failures'[u] = failures[u]
  BY <1>1, <1>4
<1>7. \A u \in Tasks \ {t} : heard'[u] = heard[u]
  BY <1>1, <1>4
<1>8. ASSUME NEW u \in Tasks PROVE RowFits(u)'
  <2>1. CASE u = t
    BY <1>1, <1>3, <1>4, <1>6, <2>1 DEF RowFits, Open
  <2>2. CASE u # t
    BY <1>4, <1>6, <1>7, <2>2 DEF Inv, RowFits
  <2> QED
    BY <2>1, <2>2
<1>9. ASSUME NEW v \in Workers, NEW u \in Tasks PROVE JobFits(v, u)'
  <2>1. JobFits(v, u) /\ job[<<v, u>>] \in Job
    BY DEF Inv, TypeOK
  <2>2. CASE u = t
    <3>1. job[<<v, t>>].pc # "none" =>
            /\ job[<<v, t>>].trace \in 1..traces
            /\ job[<<v, t>>].epoch <= epoch[t]
      BY <2>1, <2>2 DEF JobFits
    <3>2. job[<<v, t>>].epoch \in Nat /\ epoch[t] \in Nat
      BY <1>1, <2>1, <2>2 DEF Job
    <3>3. job[<<v, t>>].pc # "none" =>
            /\ job[<<v, t>>].epoch <= epoch'[t] /\ job[<<v, t>>].epoch # epoch'[t]
            /\ job[<<v, t>>].trace # row'[t].trace
      BY <1>1, <1>3, <1>6, <3>1, <3>2
    <3> QED
      BY <1>3, <1>4, <1>6, <2>1, <2>2, <3>3 DEF JobFits, Owns
  <2>3. CASE u # t
    BY <1>4, <1>6, <1>7, <2>1, <2>3 DEF JobFits, Owns
  <2> QED
    BY <2>2, <2>3
<1> QED
  BY <1>5, <1>8, <1>9 DEF Inv

-----------------------------------------------------------------------------
(* The invariant of the specification *)

LEMMA DeliverInv ==
  ASSUME Inv, NEW w \in Workers, NEW t \in Tasks, DeliverStep(w, t) \/ JobFault(w, t)
  PROVE  Inv'
BY LoadMerchantAppInv, PostAcceptedInv, PostRefusedInv, AnswerLostInv, MarkTaskSuccessInv,
   SuccessNotWrittenInv, ScheduleRetryInv, JobLostInv
   DEF DeliverStep, JobFault

LEMMA TaskStepInv ==
  ASSUME Inv, NEW t \in Tasks, TaskStep(t)
  PROVE  Inv'
BY CreateTaskInv, WaitEndsInv, ReplayInv DEF TaskStep, BackoffEnds, LeaseOutlived

LEMMA StutterInv == Inv /\ UNCHANGED vars => Inv'
BY DEF vars, history, Inv, TypeOK, RowFits, JobFits, Owns

LEMMA NextInv == Inv /\ [Next]_vars => Inv'
<1> SUFFICES ASSUME Inv, [Next]_vars PROVE Inv'
  OBVIOUS
<1>1. ASSUME NEW w \in Workers, WorkerStep(w) \/ Crash(w) PROVE Inv'
  BY <1>1, ClaimInv, CrashInv, DeliverInv DEF WorkerStep
<1>2. ASSUME NEW w \in Workers, NEW t \in Tasks, JobFault(w, t) PROVE Inv'
  BY <1>2, DeliverInv
<1>3. ASSUME NEW t \in Tasks, TaskStep(t) PROVE Inv'
  BY <1>3, TaskStepInv
<1>4. CASE UNCHANGED vars
  BY <1>4, StutterInv
<1> QED
  BY <1>1, <1>2, <1>3, <1>4 DEF Next

LEMMA SpecInv == Spec => []Inv
BY InitInv, NextInv, PTL DEF Spec

\* Rows, jobs and history keep their types under every schedule.
THEOREM TypeCorrect == Spec => []TypeOK
<1>1. Inv => TypeOK
  BY DEF Inv
<1> QED
  BY <1>1, SpecInv, PTL

\* A task is marked SUCCESS only by an answer of its current epoch: the trace
\* id of the claim fences off what workers bring back from before a replay or
\* from a lease they have outlived.
THEOREM SuccessIsHeard == Spec => []SuccessWasHeard
<1>1. Inv => SuccessWasHeard
  BY DEF Inv, RowFits, SuccessWasHeard
<1> QED
  BY <1>1, SpecInv, PTL

\* A task is dead-lettered only after more failed deliveries than there are
\* back-offs, whatever the table of back-offs is.
THEOREM DeadAfterTries == Spec => []DeadAfterAllTries
<1>1. Inv => DeadAfterAllTries
  BY DispatcherAssumption DEF Inv, TypeOK, RowFits, Row, DeadAfterAllTries, DispatcherAssumption
<1> QED
  BY <1>1, SpecInv, PTL

-----------------------------------------------------------------------------
(* Settled tasks stay settled *)

\* No job owns a row that is not being retried.
LEMMA OwnedIsRetrying ==
  ASSUME Inv, NEW w \in Workers, NEW t \in Tasks, job[<<w, t>>].pc # "none", Owns(w, t)
  PROVE  row[t].status = "RETRYING"
<1>1. job[<<w, t>>].trace \in 1..traces /\ row[t].trace = job[<<w, t>>].trace /\ traces \in Nat
  BY DEF Inv, JobFits, Owns, TypeOK
<1>2. row[t].trace # 0
  BY <1>1
<1> QED
  BY <1>2 DEF Inv, RowFits

LEMMA SettledStep ==
  ASSUME Inv, [Next]_vars, NEW t \in Tasks, row[t].status \in {"SUCCESS", "DEAD"}
  PROVE  row'[t].status = row[t].status \/ epoch'[t] # epoch[t]
<1>1. row \in [Tasks -> Row] /\ epoch \in [Tasks -> Nat] /\ row[t].status \notin Open
  BY DEF Inv, TypeOK, Open
<1>2. ASSUME NEW w \in Workers, Claim(w) PROVE row'[t] = row[t]
  BY <1>1, <1>2 DEF Claim, Due
<1>3. ASSUME NEW w \in Workers, NEW u \in Tasks, DeliverStep(w, u)
      PROVE  row'[t] = row[t]
  <2>1. CASE LoadMerchantApp(w, u) \/ PostAccepted(w, u) \/ PostRefused(w, u)
    BY <2>1 DEF LoadMerchantApp, PostAccepted, PostRefused
  <2>2. CASE MarkTaskSuccess(w, u) \/ ScheduleRetry(w, u)
    <3>1. job[<<w, u>>].pc # "none"
      BY <2>2 DEF MarkTaskSuccess, ScheduleRetry, JobAt
    <3>2. CASE ~Owns(w, u)
      BY <2>2, <3>2 DEF MarkTaskSuccess, ScheduleRetry
    <3>3. CASE Owns(w, u)
      <4>1. u # t
        BY <1>1, <3>1, <3>3, OwnedIsRetrying DEF Open
      <4>2. \E x : row' = [row EXCEPT ![u] = x]
        BY <2>2, <3>3 DEF MarkTaskSuccess, ScheduleRetry, SetRow
      <4> QED
        BY <1>1, <4>1, <4>2
    <3> QED
      BY <3>2, <3>3
  <2> QED
    BY <1>3, <2>1, <2>2 DEF DeliverStep
<1>4. ASSUME NEW w \in Workers, NEW u \in Tasks, JobFault(w, u) PROVE row'[t] = row[t]
  BY <1>4 DEF JobFault, AnswerLost, SuccessNotWritten, JobLost
<1>5. ASSUME NEW w \in Workers, Crash(w) PROVE row'[t] = row[t]
  BY <1>5 DEF Crash
<1>6. ASSUME NEW u \in Tasks, CreateTask(u) PROVE row'[t] = row[t]
  BY <1>1, <1>6 DEF CreateTask, SetRow
<1>7. ASSUME NEW u \in Tasks, WaitEnds(u) PROVE row'[t].status = row[t].status
  <2>1. row[u] \in Row /\ row' = [row EXCEPT ![u] = [row[u] EXCEPT !.due = TRUE]]
    BY <1>1, <1>7 DEF WaitEnds, SetRow
  <2> QED
    BY <1>1, <2>1 DEF Row
<1>8. ASSUME NEW u \in Tasks, Replay(u) PROVE row'[t] = row[t] \/ epoch'[t] # epoch[t]
  BY <1>1, <1>8 DEF Replay, SetRow
<1>9. CASE UNCHANGED vars
  BY <1>9 DEF vars
<1> QED
  BY <1>2, <1>3, <1>4, <1>5, <1>6, <1>7, <1>8, <1>9
     DEF Next, WorkerStep, TaskStep, BackoffEnds, LeaseOutlived

\* Nothing but a replay moves a task out of SUCCESS or DEAD.
THEOREM SettledStays == Spec => SettledIsFinal
<1>1. Inv /\ [Next]_vars =>
        [\A t \in Tasks : row[t].status \in {"SUCCESS", "DEAD"} =>
           row'[t].status = row[t].status \/ epoch'[t] # epoch[t]]_vars
  BY SettledStep
<1> QED
  BY <1>1, SpecInv, PTL DEF Spec, SettledIsFinal

-----------------------------------------------------------------------------
(* The dispatcher keeps the promise *)

BarOutcome == [t \in Tasks |-> Outcome(row[t].status)]
BarTries   == [t \in Tasks |-> row[t].retryCount]
Stutter    == UNCHANGED <<BarOutcome, BarTries, heard>>
PromiseStep == (\E t \in Tasks : Promised!Promise(t)) \/ Stutter

LEMMA Outcomes ==
  /\ Outcome("absent") = "absent" /\ Outcome("PENDING") = "pending"
  /\ Outcome("RETRYING") = "pending" /\ Outcome("SUCCESS") = "delivered"
  /\ Outcome("DEAD") = "dead"
BY DEF Outcome, Open

LEMMA BarRow ==
  ASSUME Inv, NEW t \in Tasks, NEW x \in Row, row' = [row EXCEPT ![t] = x]
  PROVE  /\ BarOutcome' = [BarOutcome EXCEPT ![t] = Outcome(x.status)]
         /\ BarTries' = [BarTries EXCEPT ![t] = x.retryCount]
         /\ BarOutcome[t] = Outcome(row[t].status) /\ BarTries[t] = row[t].retryCount
<1>1. row \in [Tasks -> Row]
  BY DEF Inv, TypeOK
<1> QED
  BY <1>1 DEF BarOutcome, BarTries

\* A row whose outcome and count do not change shows nothing.
LEMMA BarSame ==
  ASSUME Inv, UNCHANGED heard,
         \A t \in Tasks : /\ Outcome(row'[t].status) = Outcome(row[t].status)
                          /\ row'[t].retryCount = row[t].retryCount
  PROVE  Stutter
BY DEF Stutter, BarOutcome, BarTries

LEMMA RowSame ==
  ASSUME UNCHANGED <<row, heard>>
  PROVE  Stutter
BY DEF Stutter, BarOutcome, BarTries

LEMMA CreateRefines ==
  ASSUME Inv, NEW t \in Tasks, CreateTask(t)
  PROVE  Promised!Create(t)
<1>1. PICK x \in Row : x = NewRow("PENDING")
  BY NewRowType DEF TaskStatus, Open
<1>2. x.status = "PENDING" /\ x.retryCount = 0
  BY <1>1 DEF NewRow
<1>3. row' = [row EXCEPT ![t] = x] /\ row[t].status = "absent" /\ UNCHANGED heard
  BY <1>1 DEF CreateTask, SetRow, history
<1>4. row[t].retryCount = 0
  BY <1>3 DEF Inv, RowFits
<1>5. /\ BarOutcome[t] = "absent"
      /\ BarOutcome' = [BarOutcome EXCEPT ![t] = "pending"]
      /\ BarTries' = [BarTries EXCEPT ![t] = 0] /\ BarTries[t] = 0
  <2>1. row' = [row EXCEPT ![t] = x]
    BY <1>3
  <2>2. /\ BarOutcome' = [BarOutcome EXCEPT ![t] = Outcome(x.status)]
        /\ BarTries' = [BarTries EXCEPT ![t] = x.retryCount]
        /\ BarOutcome[t] = Outcome(row[t].status) /\ BarTries[t] = row[t].retryCount
    BY <2>1, BarRow
  <2>3. row[t].status = "absent"
    BY <1>3
  <2> QED
    BY <1>2, <1>4, <2>2, <2>3, Outcomes
<1>6. BarTries' = BarTries
  BY <1>5 DEF BarTries
<1> QED
  BY <1>3, <1>5, <1>6 DEF Promised!Create, BarOutcome, BarTries

LEMMA AcceptRefines ==
  ASSUME Inv, NEW w \in Workers, NEW t \in Tasks, MerchantAccepts(w, t), UNCHANGED row,
         job[<<w, t>>].pc # "none"
  PROVE  PromiseStep
<1>1. CASE Current(w, t)
  <2>1. heard' = [heard EXCEPT ![t] = TRUE]
    BY <1>1 DEF MerchantAccepts
  <2>2. row[t].status # "absent" /\ row[t] \in Row
    BY DEF Inv, JobFits, TypeOK
  <2>3. Outcome(row[t].status) # "absent"
    BY <2>2 DEF Outcome, Row, TaskStatus
  <2>4. Promised!Hear(t)
    BY <2>1, <2>3 DEF Promised!Hear
  <2> QED
    BY <2>4 DEF PromiseStep, Promised!Promise
<1>2. CASE ~Current(w, t)
  <2>1. heard' = [heard EXCEPT ![t] = heard[t]]
    BY <1>2 DEF MerchantAccepts, Inv, TypeOK
  <2>2. heard' = heard
    BY <2>1 DEF Inv, TypeOK
  <2> QED
    BY <2>2, RowSame DEF PromiseStep
<1> QED
  BY <1>1, <1>2

LEMMA SuccessRefines ==
  ASSUME Inv, NEW w \in Workers, NEW t \in Tasks, MarkTaskSuccess(w, t), Owns(w, t)
  PROVE  Promised!Settle(t)
<1>1. job[<<w, t>>].pc = "accepted" /\ row[t] \in Row /\ UNCHANGED heard
  BY DEF MarkTaskSuccess, JobAt, Inv, TypeOK, history
<1>2. row[t].status = "RETRYING" /\ heard[t]
  BY <1>1, OwnedIsRetrying DEF Inv, JobFits
<1>3. PICK x : x = [row[t] EXCEPT !.status = "SUCCESS", !.due = TRUE, !.trace = 0]
  OBVIOUS
<1>4. x \in Row /\ x.status = "SUCCESS" /\ x.retryCount = row[t].retryCount
  BY <1>1, <1>3 DEF Row, TaskStatus
<1>5. row' = [row EXCEPT ![t] = x]
  BY <1>3 DEF MarkTaskSuccess, SetRow
<1>6. /\ BarOutcome[t] = "pending"
      /\ BarOutcome' = [BarOutcome EXCEPT ![t] = "delivered"]
      /\ BarTries' = [BarTries EXCEPT ![t] = BarTries[t]]
  <2>1. /\ BarOutcome' = [BarOutcome EXCEPT ![t] = Outcome(x.status)]
        /\ BarTries' = [BarTries EXCEPT ![t] = x.retryCount]
        /\ BarOutcome[t] = Outcome(row[t].status) /\ BarTries[t] = row[t].retryCount
    BY <1>4, <1>5, BarRow
  <2>2. row[t].status = "RETRYING"
    BY <1>2
  <2> QED
    BY <1>4, <2>1, <2>2, Outcomes
<1>7. BarTries' = BarTries
  BY <1>6 DEF BarTries
<1> QED
  BY <1>1, <1>2, <1>6, <1>7 DEF Promised!Settle, BarOutcome, BarTries

LEMMA RetryRefines ==
  ASSUME Inv, NEW w \in Workers, NEW t \in Tasks, ScheduleRetry(w, t), Owns(w, t)
  PROVE  Promised!CountFailure(t)
<1>1. job[<<w, t>>].pc = "failed" /\ job[<<w, t>>] \in Job /\ row[t] \in Row
      /\ Backoffs \in Nat /\ UNCHANGED heard
  BY DispatcherAssumption DEF ScheduleRetry, JobAt, Inv, TypeOK, history, DispatcherAssumption
<1>2. row[t].status = "RETRYING"
  BY <1>1, OwnedIsRetrying
<1>3. job[<<w, t>>].retryCount = row[t].retryCount /\ row[t].retryCount <= Backoffs
      /\ row[t].retryCount \in Nat
  BY <1>1, <1>2 DEF Inv, JobFits, RowFits, Open, Row
<1>4. PICK x : x = RetryRow(t, row[t].retryCount + 1)
  OBVIOUS
<1>5. /\ x \in Row /\ x.retryCount = row[t].retryCount + 1
      /\ x.status = IF row[t].retryCount + 1 > Backoffs THEN "DEAD" ELSE "RETRYING"
  BY <1>1, <1>3, <1>4 DEF RetryRow, ShouldDeadLetter, Row, TaskStatus, Open
<1>6. row' = [row EXCEPT ![t] = x]
  BY <1>3, <1>4 DEF ScheduleRetry, SetRow
<1>7. row[t].retryCount + 1 > Backoffs <=> row[t].retryCount + 1 = Backoffs + 1
  BY <1>1, <1>3
<1>8. /\ BarOutcome[t] = "pending" /\ BarTries[t] = row[t].retryCount
      /\ BarOutcome' = [BarOutcome EXCEPT ![t] = Outcome(x.status)]
      /\ BarTries' = [BarTries EXCEPT ![t] = BarTries[t] + 1]
  BY <1>2, <1>5, <1>6, BarRow, Outcomes
<1>9. Outcome(x.status) = IF BarTries[t] + 1 = Backoffs + 1 THEN "dead" ELSE "pending"
  BY <1>5, <1>7, <1>8, Outcomes
<1> QED
  BY <1>1, <1>8, <1>9 DEF Promised!CountFailure, BarOutcome, BarTries

LEMMA ReplayRefines ==
  ASSUME Inv, NEW t \in Tasks, Replay(t)
  PROVE  Promised!ReplayTask(t)
<1>1. PICK x \in Row : x = NewRow("PENDING")
  BY NewRowType DEF TaskStatus, Open
<1>2. x.status = "PENDING" /\ x.retryCount = 0
  BY <1>1 DEF NewRow
<1>3. /\ row' = [row EXCEPT ![t] = x] /\ row[t].status # "absent" /\ row[t] \in Row
      /\ heard' = [heard EXCEPT ![t] = FALSE]
  BY <1>1 DEF Replay, SetRow, ReplayedRow, Inv, TypeOK
<1>4. Outcome(row[t].status) # "absent"
  BY <1>3 DEF Outcome, Row, TaskStatus
<1>5. /\ BarOutcome[t] # "absent"
      /\ BarOutcome' = [BarOutcome EXCEPT ![t] = "pending"]
      /\ BarTries' = [BarTries EXCEPT ![t] = 0]
  <2>1. row' = [row EXCEPT ![t] = x]
    BY <1>3
  <2>2. /\ BarOutcome' = [BarOutcome EXCEPT ![t] = Outcome(x.status)]
        /\ BarTries' = [BarTries EXCEPT ![t] = x.retryCount]
        /\ BarOutcome[t] = Outcome(row[t].status)
    BY <2>1, BarRow
  <2> QED
    BY <1>2, <1>4, <2>2, Outcomes
<1> QED
  BY <1>3, <1>5 DEF Promised!ReplayTask, BarOutcome, BarTries

LEMMA ClaimRefines ==
  ASSUME Inv, NEW w \in Workers, Claim(w)
  PROVE  Stutter
<1>1. PICK batch \in SUBSET Due :
        row' = [t \in Tasks |-> IF t \in batch THEN ClaimedRow(t) ELSE row[t]]
  BY DEF Claim
<1>2. ASSUME NEW t \in Tasks
      PROVE  /\ Outcome(row'[t].status) = Outcome(row[t].status)
             /\ row'[t].retryCount = row[t].retryCount
  <2>1. CASE t \in batch
    <3>1. row[t] \in Row /\ row[t].status \in Open
      BY <2>1 DEF Due, Inv, TypeOK
    <3>2. PICK n : n = traces + 1
      OBVIOUS
    <3>3. row'[t] = [row[t] EXCEPT !.status = "RETRYING", !.trace = n, !.due = FALSE]
      BY <1>1, <2>1, <3>2 DEF ClaimedRow
    <3>4. row'[t].status = "RETRYING" /\ row'[t].retryCount = row[t].retryCount
      BY <3>1, <3>3 DEF Row
    <3> QED
      BY <3>1, <3>4, Outcomes DEF Open
  <2>2. CASE t \notin batch
    BY <1>1, <2>2
  <2> QED
    BY <2>1, <2>2
<1>3. UNCHANGED heard
  BY DEF Claim, history
<1> QED
  BY <1>2, <1>3, BarSame

LEMMA WaitRefines ==
  ASSUME Inv, NEW t \in Tasks, WaitEnds(t)
  PROVE  Stutter
<1>1. row \in [Tasks -> Row] /\ row[t] \in Row
  BY DEF Inv, TypeOK
<1>2. PICK x : x = [row[t] EXCEPT !.due = TRUE]
  OBVIOUS
<1>3. x.status = row[t].status /\ x.retryCount = row[t].retryCount
  BY <1>1, <1>2 DEF Row
<1>4. row' = [row EXCEPT ![t] = x] /\ UNCHANGED heard
  BY <1>2 DEF WaitEnds, SetRow, history
<1> QED
  BY <1>1, <1>3, <1>4, BarSame

LEMMA StepRefines == Inv /\ [Next]_vars => PromiseStep
<1> SUFFICES ASSUME Inv, [Next]_vars PROVE PromiseStep
  OBVIOUS
<1> USE DEF PromiseStep
<1>1. ASSUME NEW w \in Workers, Claim(w) \/ Crash(w) PROVE PromiseStep
  BY <1>1, ClaimRefines, RowSame DEF Crash, history
<1>2. ASSUME NEW w \in Workers, NEW t \in Tasks, DeliverStep(w, t) \/ JobFault(w, t)
      PROVE  PromiseStep
  <2>1. CASE LoadMerchantApp(w, t) \/ PostRefused(w, t) \/ SuccessNotWritten(w, t) \/ JobLost(w, t)
    BY <2>1, RowSame DEF LoadMerchantApp, PostRefused, SuccessNotWritten, JobLost, history
  <2>2. CASE PostAccepted(w, t) \/ AnswerLost(w, t)
    BY <2>2, AcceptRefines DEF PostAccepted, AnswerLost, JobAt
  <2>3. CASE MarkTaskSuccess(w, t)
    BY <2>3, SuccessRefines, RowSame DEF MarkTaskSuccess, history, Promised!Promise
  <2>4. CASE ScheduleRetry(w, t)
    BY <2>4, RetryRefines, RowSame DEF ScheduleRetry, history, Promised!Promise
  <2> QED
    BY <1>2, <2>1, <2>2, <2>3, <2>4 DEF DeliverStep, JobFault
<1>3. ASSUME NEW t \in Tasks, TaskStep(t) PROVE PromiseStep
  BY <1>3, CreateRefines, ReplayRefines, WaitRefines
     DEF TaskStep, BackoffEnds, LeaseOutlived, Promised!Promise
<1>4. CASE UNCHANGED vars
  BY <1>4, RowSame DEF vars, history
<1> QED
  BY <1>1, <1>2, <1>3, <1>4 DEF Next, WorkerStep

\* The dispatcher implements MerchantNotification: what claims, leases, fences,
\* crashes and replays do to the table is what the promise allows.
THEOREM DispatcherKeepsPromise == Spec => KeepsPromise
<1>1. Init => Promised!NotificationInit
  <2> SUFFICES ASSUME Init PROVE Promised!NotificationInit
    OBVIOUS
  <2>1. \A t \in Tasks : row[t].status = "absent" /\ row[t].retryCount = 0
    BY DEF Init, NewRow
  <2> QED
    BY <2>1, Outcomes DEF Init, Promised!NotificationInit
<1>2. Inv /\ [Next]_vars => [\E t \in Tasks : Promised!Promise(t)]_(Promised!notification)
  BY StepRefines DEF PromiseStep, Stutter, BarOutcome, BarTries, Promised!notification
<1> QED
  BY <1>1, <1>2, SpecInv, PTL DEF Spec, KeepsPromise, Promised!NotificationSpec
-----------------------------------------------------------------------------
(* Every acceptance is paid for *)

\* The jobs that may still have the merchant accept the task.
Delivering(t) == {w \in Workers : job[<<w, t>>].pc \in {"load", "post", "failed"}}

\* A worker may claim the task, now or once its back-off ends, and no job holds it.
Claimable(t) ==
  \/ row[t].status = "absent"
  \/ row[t].status \in Open /\ (row[t].due \/ ~Leased(t))

Spare(t)   == IF Claimable(t) THEN 1 ELSE 0
Allowed(t) == 1 + epoch[t] + faults

\* Acceptances, those under way and the next claim together are paid for by the
\* payment, the replays and the faults.
Budget(t) == accepts[t] + Cardinality(Delivering(t)) + Spare(t) <= Allowed(t)

LEMMA CountJobs ==
  ASSUME IsFiniteSet(Workers), NEW t \in Tasks
  PROVE  /\ Cardinality(Delivering(t)) \in Nat /\ Cardinality(Delivering(t)') \in Nat
         /\ Delivering(t)' \subseteq Delivering(t)
              => Cardinality(Delivering(t)') <= Cardinality(Delivering(t))
         /\ \A w \in Delivering(t) : Delivering(t)' \subseteq Delivering(t) \ {w}
              => Cardinality(Delivering(t)') <= Cardinality(Delivering(t)) - 1
         /\ \A w : Delivering(t)' \subseteq Delivering(t) \cup {w}
              => Cardinality(Delivering(t)') <= Cardinality(Delivering(t)) + 1
<1> DEFINE D == Delivering(t)
           E == Delivering(t)'
<1>1. IsFiniteSet(D)
  <2>1. D \subseteq Workers
    BY DEF Delivering
  <2> QED
    BY <2>1, FS_Subset, Zenon
<1>2. IsFiniteSet(E)
  <2>1. E \subseteq Workers
    BY DEF Delivering
  <2> QED
    BY <2>1, FS_Subset, Zenon
<1> HIDE DEF D, E
<1>3. Cardinality(D) \in Nat /\ Cardinality(E) \in Nat
  BY <1>1, <1>2, FS_CardinalityType
<1>4. E \subseteq D => Cardinality(E) <= Cardinality(D)
  BY <1>1, FS_Subset
<1>5. ASSUME NEW w \in D, E \subseteq D \ {w} PROVE Cardinality(E) <= Cardinality(D) - 1
  <2>1. IsFiniteSet(D \ {w}) /\ Cardinality(D \ {w}) = Cardinality(D) - 1
    BY <1>1, FS_RemoveElement
  <2> QED
    BY <1>5, <2>1, FS_Subset
<1>6. ASSUME NEW w, E \subseteq D \cup {w} PROVE Cardinality(E) <= Cardinality(D) + 1
  <2>0. PICK S : S = D \cup {w}
    OBVIOUS
  <2>1. /\ IsFiniteSet(S)
        /\ Cardinality(S) = IF w \in D THEN Cardinality(D) ELSE Cardinality(D) + 1
    BY <1>1, <2>0, FS_AddElement, Zenon
  <2>2. Cardinality(S) \in Nat /\ Cardinality(E) <= Cardinality(S)
    BY <1>6, <2>0, <2>1, FS_CardinalityType, FS_Subset
  <2> QED
    BY <1>3, <2>1, <2>2
<1> QED
  BY <1>3, <1>4, <1>5, <1>6 DEF D, E

\* The ways a step keeps within the budget of a task.
Within(t) ==
  \/ /\ Delivering(t)' \subseteq Delivering(t) /\ (Claimable(t)' => Claimable(t))
     /\ accepts'[t] = accepts[t] /\ Allowed(t)' >= Allowed(t)
  \/ /\ Delivering(t)' \subseteq Delivering(t) /\ accepts'[t] = accepts[t]
     /\ Allowed(t)' = Allowed(t) + 1
  \/ /\ Delivering(t)' \subseteq Delivering(t) /\ (Claimable(t)' => Claimable(t))
     /\ accepts'[t] = accepts[t] + 1 /\ Allowed(t)' = Allowed(t) + 1
  \/ \E w \in Workers :
       /\ Delivering(t)' \subseteq Delivering(t) \cup {w} /\ (Claimable(t)' => Claimable(t))
       /\ accepts'[t] = accepts[t] /\ Allowed(t)' = Allowed(t) + 1
  \/ \E w \in Workers :
       /\ Delivering(t)' \subseteq Delivering(t) \cup {w} /\ Claimable(t) /\ ~Claimable(t)'
       /\ accepts'[t] = accepts[t] /\ Allowed(t)' = Allowed(t)
  \/ \E w \in Delivering(t) :
       /\ Delivering(t)' \subseteq Delivering(t) \ {w} /\ Allowed(t)' = Allowed(t)
       /\ \/ accepts'[t] = accepts[t] + 1 /\ (Claimable(t)' => Claimable(t))
          \/ accepts'[t] = accepts[t]

LEMMA WithinBudget ==
  ASSUME IsFiniteSet(Workers), TypeOK, TypeOK', NEW t \in Tasks, Budget(t), Within(t)
  PROVE  Budget(t)'
<1>1. /\ accepts[t] \in Nat /\ accepts'[t] \in Nat /\ Allowed(t) \in Nat /\ Allowed(t)' \in Nat
      /\ Spare(t) \in {0, 1} /\ Spare(t)' \in {0, 1}
  BY DispatcherAssumption DEF TypeOK, Allowed, Spare, DispatcherAssumption
<1>2. /\ Claimable(t) => Spare(t) = 1
      /\ ~Claimable(t)' => Spare(t)' = 0
      /\ (Claimable(t)' => Claimable(t)) => Spare(t)' <= Spare(t)
  BY DEF Spare
<1> DEFINE n == Cardinality(Delivering(t))
           m == Cardinality(Delivering(t)')
<1>3. /\ n \in Nat /\ m \in Nat
      /\ Delivering(t)' \subseteq Delivering(t) => m <= n
      /\ \A w \in Delivering(t) : Delivering(t)' \subseteq Delivering(t) \ {w} => m <= n - 1
      /\ \A w : Delivering(t)' \subseteq Delivering(t) \cup {w} => m <= n + 1
  BY CountJobs
<1>4. accepts[t] + n + Spare(t) <= Allowed(t)
  BY DEF Budget
<1> HIDE DEF n, m
<1>5. accepts'[t] + m + Spare(t)' <= Allowed(t)'
  BY <1>1, <1>2, <1>3, <1>4 DEF Within
<1> QED
  BY <1>5 DEF Budget, m

\* A step on other tasks.
LEMMA SameJobs ==
  ASSUME NEW t \in Tasks, row'[t] = row[t], \A w \in Workers : job'[<<w, t>>] = job[<<w, t>>]
  PROVE  Delivering(t)' = Delivering(t) /\ (Claimable(t)' <=> Claimable(t))
BY DEF Delivering, Claimable, Leased, JobAt, Owns

LEMMA AllowedGrows ==
  ASSUME TypeOK, NEW t \in Tasks, epoch' = epoch, faults' = faults \/ faults' = faults + 1
  PROVE  /\ Allowed(t) \in Nat /\ Allowed(t)' >= Allowed(t)
         /\ faults' = faults => Allowed(t)' = Allowed(t)
         /\ faults' = faults + 1 => Allowed(t)' = Allowed(t) + 1
BY DispatcherAssumption DEF TypeOK, Allowed, DispatcherAssumption

LEMMA ClaimWithin ==
  ASSUME Inv, NEW w \in Workers, Claim(w), NEW t \in Tasks
  PROVE  Within(t)
<1>1. PICK batch \in SUBSET Due :
        /\ row' = [u \in Tasks |-> IF u \in batch THEN ClaimedRow(u) ELSE row[u]]
        /\ job' = [p \in Workers \X Tasks |->
                     IF p[1] = w /\ p[2] \in batch THEN ClaimedJob(p[2]) ELSE job[p]]
  BY DEF Claim
<1>2. /\ row \in [Tasks -> Row] /\ job \in [Workers \X Tasks -> Job] /\ traces \in Nat
      /\ accepts' = accepts /\ Allowed(t)' = Allowed(t) /\ Allowed(t) \in Nat
  BY AllowedGrows DEF Claim, history, Inv, TypeOK
<1>3. CASE t \in batch
  <2>1. Claimable(t)
    BY <1>3 DEF Due, Claimable
  <2>2. /\ row'[t].status = "RETRYING" /\ row'[t].due = FALSE /\ row'[t].trace = traces + 1
    BY <1>1, <1>2, <1>3 DEF ClaimedRow, Row
  <2>3. job'[<<w, t>>].pc = "load" /\ job'[<<w, t>>].trace = traces + 1
    BY <1>1, <1>3 DEF ClaimedJob
  <2>4. ~Claimable(t)'
    BY <2>2, <2>3 DEF Claimable, Leased, JobAt, Owns
  <2>5. \A v \in Workers : v # w => job'[<<v, t>>] = job[<<v, t>>]
    BY <1>1
  <2>6. Delivering(t)' \subseteq Delivering(t) \cup {w}
    BY <2>5 DEF Delivering
  <2> QED
    BY <1>2, <2>1, <2>4, <2>6 DEF Within
<1>4. CASE t \notin batch
  <2>1. row'[t] = row[t] /\ \A v \in Workers : job'[<<v, t>>] = job[<<v, t>>]
    BY <1>1, <1>4
  <2> QED
    BY <1>2, <2>1, SameJobs DEF Within
<1> QED
  BY <1>3, <1>4

\* A step of a job: the other jobs of the task stay.
LEMMA JobMoves ==
  ASSUME TypeOK, NEW w \in Workers, NEW t \in Tasks, NEW y, SetJob(w, t, y)
  PROVE  /\ job'[<<w, t>>] = y
         /\ \A v \in Workers, u \in Tasks : v # w \/ u # t => job'[<<v, u>>] = job[<<v, u>>]
BY DEF TypeOK, SetJob

LEMMA ContinueMoves ==
  ASSUME TypeOK, NEW w \in Workers, NEW t \in Tasks, NEW l, Continue(w, t, l),
         job[<<w, t>>].pc # "none", l # "none", row'[t] = row[t]
  PROVE  /\ job'[<<w, t>>].pc = l
         /\ \A v \in Workers : v # w => job'[<<v, t>>] = job[<<v, t>>]
         /\ Claimable(t)' <=> Claimable(t)
<1>1. job[<<w, t>>] \in Job
  BY DEF TypeOK
<1>2. PICK y : y = [job[<<w, t>>] EXCEPT !.pc = l]
  OBVIOUS
<1>3. y.pc = l /\ y.trace = job[<<w, t>>].trace
  BY <1>1, <1>2 DEF Job
<1>4. /\ job'[<<w, t>>] = y
      /\ \A v \in Workers : v # w => job'[<<v, t>>] = job[<<v, t>>]
  BY <1>2, JobMoves DEF Continue
<1>5. Leased(t)' <=> Leased(t)
  BY <1>3, <1>4 DEF Leased, JobAt, Owns
<1> QED
  BY <1>3, <1>4, <1>5 DEF Claimable

LEMMA EndMoves ==
  ASSUME TypeOK, NEW w \in Workers, NEW t \in Tasks, SetJob(w, t, NoJob)
  PROVE  Delivering(t)' \subseteq Delivering(t) \ {w}
<1>1. job'[<<w, t>>].pc = "none" /\ \A v \in Workers : v # w => job'[<<v, t>>] = job[<<v, t>>]
  BY JobMoves, NoJobType
<1> QED
  BY <1>1 DEF Delivering

LEMMA OwnJobWithin ==
  ASSUME Inv, NEW w \in Workers, NEW t \in Tasks, DeliverStep(w, t) \/ JobFault(w, t)
  PROVE  Within(t)
<1>1. TypeOK /\ accepts \in [Tasks -> Nat]
  BY DEF Inv, TypeOK
<1> USE DEF Within
<1>2. CASE LoadMerchantApp(w, t) \/ PostRefused(w, t)
  <2>1. PICK l \in {"post", "failed"} : Continue(w, t, l)
    BY <1>2 DEF LoadMerchantApp, PostRefused
  <2>2. /\ job[<<w, t>>].pc \in {"load", "post"} /\ accepts' = accepts /\ row' = row
        /\ epoch' = epoch /\ faults' = faults
    BY <1>2 DEF LoadMerchantApp, PostRefused, JobAt, history
  <2>3. /\ job'[<<w, t>>].pc = l /\ (Claimable(t)' <=> Claimable(t))
        /\ \A v \in Workers : v # w => job'[<<v, t>>] = job[<<v, t>>]
    BY <1>1, <2>1, <2>2, ContinueMoves
  <2>4. Delivering(t)' \subseteq Delivering(t)
    BY <2>2, <2>3 DEF Delivering
  <2> QED
    BY <1>1, <2>2, <2>3, <2>4, AllowedGrows
<1>3. CASE PostAccepted(w, t)
  <2>1. /\ job[<<w, t>>].pc = "post" /\ Continue(w, t, "accepted") /\ row' = row
        /\ epoch' = epoch /\ faults' = faults
    BY <1>3 DEF PostAccepted, JobAt
  <2>2. /\ job'[<<w, t>>].pc = "accepted" /\ (Claimable(t)' <=> Claimable(t))
        /\ \A v \in Workers : v # w => job'[<<v, t>>] = job[<<v, t>>]
    BY <1>1, <2>1, ContinueMoves
  <2>3. w \in Delivering(t) /\ Delivering(t)' \subseteq Delivering(t) \ {w}
    BY <2>1, <2>2 DEF Delivering
  <2>4. accepts'[t] = accepts[t] + 1
    BY <1>1, <1>3 DEF PostAccepted, MerchantAccepts
  <2> QED
    BY <1>1, <2>1, <2>2, <2>3, <2>4, AllowedGrows
<1>4. CASE AnswerLost(w, t)
  <2>1. /\ job[<<w, t>>].pc = "post" /\ Continue(w, t, "failed") /\ row' = row
        /\ epoch' = epoch /\ faults' = faults + 1
    BY <1>4 DEF AnswerLost, JobAt, Fault
  <2>2. /\ job'[<<w, t>>].pc = "failed" /\ (Claimable(t)' <=> Claimable(t))
        /\ \A v \in Workers : v # w => job'[<<v, t>>] = job[<<v, t>>]
    BY <1>1, <2>1, ContinueMoves
  <2>3. Delivering(t)' \subseteq Delivering(t)
    BY <2>1, <2>2 DEF Delivering
  <2>4. accepts'[t] = accepts[t] + 1
    BY <1>1, <1>4 DEF AnswerLost, MerchantAccepts
  <2> QED
    BY <1>1, <2>1, <2>2, <2>3, <2>4, AllowedGrows
<1>5. CASE SuccessNotWritten(w, t)
  <2>1. /\ job[<<w, t>>].pc = "accepted" /\ Continue(w, t, "failed") /\ row' = row
        /\ epoch' = epoch /\ faults' = faults + 1 /\ accepts' = accepts
    BY <1>5 DEF SuccessNotWritten, JobAt, Fault
  <2>2. /\ job'[<<w, t>>].pc = "failed" /\ (Claimable(t)' <=> Claimable(t))
        /\ \A v \in Workers : v # w => job'[<<v, t>>] = job[<<v, t>>]
    BY <1>1, <2>1, ContinueMoves
  <2>3. Delivering(t)' \subseteq Delivering(t) \cup {w}
    BY <2>2 DEF Delivering
  <2> QED
    BY <1>1, <2>1, <2>2, <2>3, AllowedGrows
<1>6. CASE MarkTaskSuccess(w, t)
  <2>1. /\ SetJob(w, t, NoJob) /\ accepts' = accepts /\ epoch' = epoch /\ faults' = faults
    BY <1>6 DEF MarkTaskSuccess, history
  <2>2. Delivering(t)' \subseteq Delivering(t)
    BY <1>1, <2>1, EndMoves
  <2>3. Claimable(t)' => Claimable(t)
    <3>1. CASE Owns(w, t)
      <4>1. PICK x : x = [row[t] EXCEPT !.status = "SUCCESS", !.due = TRUE, !.trace = 0]
        OBVIOUS
      <4>2. row' = [row EXCEPT ![t] = x]
        BY <1>6, <3>1, <4>1 DEF MarkTaskSuccess, SetRow
      <4>3. x.status = "SUCCESS" /\ row'[t] = x
        BY <1>1, <4>1, <4>2 DEF TypeOK, Row
      <4> QED
        BY <4>3 DEF Claimable, Open
    <3>2. CASE ~Owns(w, t)
      <4>1. row' = row
        BY <1>6, <3>2 DEF MarkTaskSuccess
      <4>2. \A v \in Workers : v # w => job'[<<v, t>>] = job[<<v, t>>]
        BY <1>1, <2>1, JobMoves
      <4>3. Leased(t) => Leased(t)'
        BY <3>2, <4>1, <4>2 DEF Leased, JobAt, Owns
      <4> QED
        BY <4>1, <4>3 DEF Claimable
    <3> QED
      BY <3>1, <3>2
  <2> QED
    BY <1>1, <2>1, <2>2, <2>3, AllowedGrows
<1>7. CASE ScheduleRetry(w, t)
  <2>1. /\ SetJob(w, t, NoJob) /\ accepts' = accepts /\ epoch' = epoch /\ faults' = faults
        /\ job[<<w, t>>].pc = "failed"
    BY <1>7 DEF ScheduleRetry, history, JobAt
  <2>2. w \in Delivering(t) /\ Delivering(t)' \subseteq Delivering(t) \ {w}
    BY <1>1, <2>1, EndMoves DEF Delivering
  <2> QED
    BY <1>1, <2>1, <2>2, AllowedGrows
<1>8. CASE JobLost(w, t)
  <2>1. /\ SetJob(w, t, NoJob) /\ accepts' = accepts /\ epoch' = epoch /\ faults' = faults + 1
    BY <1>8 DEF JobLost, history, Fault
  <2>2. Delivering(t)' \subseteq Delivering(t)
    BY <1>1, <2>1, EndMoves
  <2> QED
    BY <1>1, <2>1, <2>2, AllowedGrows
<1> QED
  BY <1>2, <1>3, <1>4, <1>5, <1>6, <1>7, <1>8 DEF DeliverStep, JobFault

LEMMA OtherTaskWithin ==
  ASSUME Inv, NEW w \in Workers, NEW u \in Tasks, NEW t \in Tasks, t # u,
         DeliverStep(w, u) \/ JobFault(w, u)
  PROVE  Within(t)
<1>1. /\ TypeOK /\ row \in [Tasks -> Row] /\ accepts \in [Tasks -> Nat]
  BY DEF Inv, TypeOK
<1>2. \E y : SetJob(w, u, y)
  BY DEF DeliverStep, JobFault, LoadMerchantApp, PostAccepted, PostRefused, MarkTaskSuccess,
     ScheduleRetry, AnswerLost, SuccessNotWritten, JobLost, Continue
<1>3. row' = row \/ \E x : row' = [row EXCEPT ![u] = x]
  BY DEF DeliverStep, JobFault, LoadMerchantApp, PostAccepted, PostRefused, MarkTaskSuccess,
     ScheduleRetry, AnswerLost, SuccessNotWritten, JobLost, SetRow
<1>4. epoch' = epoch /\ (faults' = faults \/ faults' = faults + 1)
  BY DEF DeliverStep, JobFault, LoadMerchantApp, PostAccepted, PostRefused, MarkTaskSuccess,
     ScheduleRetry, AnswerLost, SuccessNotWritten, JobLost, Fault, history
<1>5. accepts' = accepts \/ accepts' = [accepts EXCEPT ![u] = accepts[u] + 1]
  BY DEF DeliverStep, JobFault, LoadMerchantApp, PostAccepted, PostRefused, MarkTaskSuccess,
     ScheduleRetry, AnswerLost, SuccessNotWritten, JobLost, MerchantAccepts, history
<1>6. /\ row'[t] = row[t] /\ accepts'[t] = accepts[t]
      /\ \A v \in Workers : job'[<<v, t>>] = job[<<v, t>>]
  <2>1. row'[t] = row[t]
    BY <1>1, <1>3
  <2>2. accepts'[t] = accepts[t]
    BY <1>1, <1>5
  <2>3. \A v \in Workers : job'[<<v, t>>] = job[<<v, t>>]
    <3>1. PICK y : SetJob(w, u, y)
      BY <1>2
    <3> QED
      BY <1>1, <3>1, JobMoves
  <2> QED
    BY <2>1, <2>2, <2>3
<1>7. Delivering(t)' = Delivering(t) /\ (Claimable(t)' <=> Claimable(t))
  BY <1>6, SameJobs
<1>8. Allowed(t)' >= Allowed(t)
  BY <1>1, <1>4, AllowedGrows
<1> QED
  BY <1>6, <1>7, <1>8 DEF Within

LEMMA CrashWithin ==
  ASSUME Inv, NEW w \in Workers, Crash(w), NEW t \in Tasks
  PROVE  Within(t)
<1>1. job' = [p \in Workers \X Tasks |-> IF p[1] = w THEN NoJob ELSE job[p]]
  BY DEF Crash
<1>2. \A v \in Workers : job'[<<v, t>>] = IF v = w THEN NoJob ELSE job[<<v, t>>]
  BY <1>1
<1>3. Delivering(t)' \subseteq Delivering(t)
  BY <1>2, NoJobType DEF Delivering
<1>4. epoch' = epoch /\ faults' = faults + 1 /\ accepts' = accepts
  BY DEF Crash, Fault, history
<1> QED
  BY <1>3, <1>4, AllowedGrows DEF Within, Inv

LEMMA TaskWithin ==
  ASSUME Inv, NEW u \in Tasks, TaskStep(u), NEW t \in Tasks
  PROVE  Within(t)
<1>1. /\ TypeOK /\ row \in [Tasks -> Row] /\ epoch \in [Tasks -> Nat] /\ faults \in Nat
      /\ Allowed(t) \in Nat
  BY DispatcherAssumption DEF Inv, TypeOK, Allowed, DispatcherAssumption
<1>2. job' = job /\ accepts' = accepts /\ Delivering(t)' = Delivering(t)
  BY DEF TaskStep, CreateTask, BackoffEnds, LeaseOutlived, WaitEnds, Replay, history, Delivering
<1>3. CASE CreateTask(u)
  <2>1. row[u].status = "absent" /\ epoch' = epoch /\ faults' = faults
        /\ \E x : row' = [row EXCEPT ![u] = x]
    BY <1>3 DEF CreateTask, SetRow, history
  <2>2. t = u => Claimable(t)
    BY <2>1 DEF Claimable
  <2>3. t # u => row'[t] = row[t]
    BY <1>1, <2>1
  <2>4. Claimable(t)' => Claimable(t)
    BY <1>2, <2>2, <2>3, SameJobs
  <2> QED
    BY <1>1, <1>2, <2>1, <2>4, AllowedGrows DEF Within
<1>4. CASE BackoffEnds(u)
  <2>1. PICK x : x = [row[u] EXCEPT !.due = TRUE]
    OBVIOUS
  <2>2. /\ row' = [row EXCEPT ![u] = x] /\ epoch' = epoch /\ faults' = faults
        /\ ~Leased(u)
    BY <1>4, <2>1 DEF BackoffEnds, WaitEnds, SetRow, history
  <2>3. row'[u].status = row[u].status /\ \A v \in Tasks : v # u => row'[v] = row[v]
    BY <1>1, <2>1, <2>2 DEF Row
  <2>4. Claimable(t)' => Claimable(t)
    BY <1>2, <2>2, <2>3, SameJobs DEF Claimable
  <2> QED
    BY <1>1, <1>2, <2>2, <2>4, AllowedGrows DEF Within
<1>5. CASE LeaseOutlived(u)
  BY <1>1, <1>2, <1>5, AllowedGrows DEF Within, LeaseOutlived, WaitEnds, Fault, history
<1>6. CASE Replay(u)
  <2>1. /\ epoch' = [epoch EXCEPT ![u] = epoch[u] + 1] /\ faults' = faults
        /\ \E x : row' = [row EXCEPT ![u] = x]
    BY <1>6 DEF Replay, SetRow
  <2>2. CASE t = u
    <3>1. Allowed(t)' = Allowed(t) + 1
      BY <1>1, <2>1, <2>2 DEF Allowed
    <3> QED
      BY <1>2, <3>1 DEF Within
  <2>3. CASE t # u
    <3>1. Allowed(t)' = Allowed(t) /\ row'[t] = row[t]
      BY <1>1, <2>1, <2>3 DEF Allowed
    <3> QED
      BY <1>1, <1>2, <3>1, SameJobs DEF Within
  <2> QED
    BY <2>2, <2>3
<1> QED
  BY <1>3, <1>4, <1>5, <1>6 DEF TaskStep

LEMMA BudgetStep ==
  ASSUME IsFiniteSet(Workers), Inv, Inv', [Next]_vars, NEW t \in Tasks, Budget(t)
  PROVE  Budget(t)'
<1>1. TypeOK /\ TypeOK'
  BY DEF Inv
<1>2. CASE \E w \in Workers : Claim(w) \/ Crash(w)
  BY <1>1, <1>2, ClaimWithin, CrashWithin, WithinBudget
<1>3. ASSUME NEW w \in Workers, NEW u \in Tasks, DeliverStep(w, u) \/ JobFault(w, u)
      PROVE  Budget(t)'
  BY <1>1, <1>3, OwnJobWithin, OtherTaskWithin, WithinBudget
<1>4. CASE \E u \in Tasks : TaskStep(u)
  BY <1>1, <1>4, TaskWithin, WithinBudget
<1>5. CASE UNCHANGED vars
  BY <1>5 DEF vars, history, Budget, Delivering, Spare, Claimable, Leased, JobAt, Owns, Allowed
<1> QED
  BY <1>2, <1>3, <1>4, <1>5 DEF Next, WorkerStep

\* With finitely many instances, the merchant accepts a task once, and once more for a
\* replay or a fault at most: the lease and the fence give no other delivery away.
THEOREM RepeatsArePaidFor ==
  ASSUME IsFiniteSet(Workers)
  PROVE  Spec => []RepeatsNeedFaults
<1> DEFINE InBudget == \A t \in Tasks : Budget(t)
<1>1. Init => InBudget
  <2> SUFFICES ASSUME Init, NEW t \in Tasks PROVE Budget(t)
    OBVIOUS
  <2>1. Delivering(t) = {} /\ accepts[t] = 0 /\ Allowed(t) = 1 /\ Spare(t) \in {0, 1}
    BY NoJobType DEF Init, Delivering, Allowed, Spare
  <2>2. Cardinality(Delivering(t)) = 0
    BY <2>1, FS_EmptySet
  <2> QED
    BY <2>1, <2>2 DEF Budget
<1>2. Inv /\ Inv' /\ InBudget /\ [Next]_vars => InBudget'
  BY BudgetStep
<1>3. Inv /\ InBudget => RepeatsNeedFaults
  <2> SUFFICES ASSUME Inv, NEW t \in Tasks, Budget(t)
               PROVE  accepts[t] <= 1 + epoch[t] + faults
    BY DEF RepeatsNeedFaults
  <2>1. /\ accepts[t] \in Nat /\ Allowed(t) \in Nat /\ Spare(t) \in {0, 1}
        /\ Cardinality(Delivering(t)) \in Nat
    BY CountJobs, DispatcherAssumption DEF Inv, TypeOK, Allowed, Spare, DispatcherAssumption
  <2> QED
    BY <2>1 DEF Budget, Allowed
<1> HIDE DEF InBudget
<1> QED
  BY <1>1, <1>2, <1>3, SpecInv, PTL DEF Spec
=============================================================================
