-------------------------- MODULE NotifyDispatcher --------------------------
(***************************************************************************)
(* MerchantNotifyDispatcherService: API instances (workers) claim the due  *)
(* notify_task rows under a lease, POST them to the merchant and write the *)
(* outcome back, fenced by the trace id of their claim.  Workers crash,    *)
(* leases run out under slow deliveries, answers are lost, and operators   *)
(* replay a task at any moment.                                            *)
(***************************************************************************)
EXTENDS Naturals, FiniteSets

CONSTANTS
  Tasks,       \* notify_task rows
  Workers,     \* API instances that run the cron job
  BatchSize,   \* NOTIFY_BATCH_SIZE
  Backoffs,    \* length of NOTIFY_RETRY_BACKOFF_MINUTES
  MaxReplays,  \* bound: replays of a task
  MaxFaults    \* bound: crashes, lost answers, errors, leases outlived

ASSUME DispatcherAssumption ==
  /\ BatchSize \in Nat \ {0}
  /\ Backoffs \in Nat
  /\ MaxReplays \in Nat
  /\ MaxFaults \in Nat

VARIABLES
  row,       \* the notify_task table
  job,       \* the delivery of task t that worker w has in flight
  traces,    \* trace ids handed out: claim n writes trace id n
  faults,    \* faults so far
  epoch,     \* history: how often the task was replayed
  heard,     \* history: the merchant accepted a delivery of this epoch
  failures,  \* history: deliveries of this epoch that failed
  accepts    \* history: how often the merchant accepted the task at all

history == <<epoch, heard, failures, accepts>>
vars    == <<row, job, traces, faults, history>>

Open       == {"PENDING", "RETRYING"}
TaskStatus == {"absent", "SUCCESS", "DEAD"} \cup Open

\* due: next_retry_time is null or past; trace: trace_id, 0 for null
Row == [status : TaskStatus, retryCount : Nat, due : BOOLEAN, trace : Nat]

\* A job keeps what the claim returned; "none" where there is no delivery.
Job == [pc : {"none", "load", "post", "accepted", "failed"},
        trace : Nat, retryCount : Nat, epoch : Nat]

NoJob  == [pc |-> "none", trace |-> 0, retryCount |-> 0, epoch |-> 0]
NewRow(status) == [status |-> status, retryCount |-> 0, due |-> TRUE, trace |-> 0]

TypeOK ==
  /\ row \in [Tasks -> Row]
  /\ job \in [Workers \X Tasks -> Job]
  /\ traces \in Nat
  /\ faults \in 0..MaxFaults
  /\ epoch \in [Tasks -> Nat]
  /\ heard \in [Tasks -> BOOLEAN]
  /\ failures \in [Tasks -> Nat]
  /\ accepts \in [Tasks -> Nat]

Init ==
  /\ row = [t \in Tasks |-> NewRow("absent")]
  /\ job = [p \in Workers \X Tasks |-> NoJob]
  /\ traces = 0
  /\ faults = 0
  /\ epoch = [t \in Tasks |-> 0]
  /\ heard = [t \in Tasks |-> FALSE]
  /\ failures = [t \in Tasks |-> 0]
  /\ accepts = [t \in Tasks |-> 0]

-----------------------------------------------------------------------------
SetRow(t, x)    == row' = [row EXCEPT ![t] = x]
SetJob(w, t, x) == job' = [job EXCEPT ![<<w, t>>] = x]
JobAt(w, t, pc) == job[<<w, t>>].pc = pc
Continue(w, t, pc) == SetJob(w, t, [job[<<w, t>>] EXCEPT !.pc = pc])

Fault == faults < MaxFaults /\ faults' = faults + 1

\* createNotifyTask, in the transaction of a payment or refund
CreateTask(t) ==
  /\ row[t].status = "absent"
  /\ SetRow(t, NewRow("PENDING"))
  /\ UNCHANGED <<job, traces, faults, history>>

\* isDispatching
Busy(w) == \E t \in Tasks : ~JobAt(w, t, "none")

DuePending == {t \in Tasks : row[t].status = "PENDING" /\ row[t].due}   \* mutant
Due == {t \in Tasks : row[t].status \in Open /\ row[t].due}

UnleasedRow(t) == [row[t] EXCEPT !.status = "RETRYING", !.trace = traces + 1]   \* mutant
ClaimedRow(t) == [row[t] EXCEPT !.status = "RETRYING", !.trace = traces + 1, !.due = FALSE]
ClaimedJob(t) == [pc |-> "load", trace |-> traces + 1,
                  retryCount |-> row[t].retryCount, epoch |-> epoch[t]]

\* dispatchDueTasks and claimDueTasks: one statement takes at most BatchSize
\* of the due rows (which ones go first is left open).
Claim(w) ==
  /\ ~Busy(w)
  /\ \E batch \in SUBSET Due :
       /\ batch # {}
       /\ batch = Due \/ Cardinality(batch) = BatchSize
       /\ Cardinality(batch) <= BatchSize
       /\ row' = [t \in Tasks |-> IF t \in batch THEN ClaimedRow(t) ELSE row[t]]
       /\ job' = [p \in Workers \X Tasks |->
                    IF p[1] = w /\ p[2] \in batch THEN ClaimedJob(p[2]) ELSE job[p]]
  /\ traces' = traces + 1
  /\ UNCHANGED <<faults, history>>

LoadMerchantApp(w, t) ==
  /\ JobAt(w, t, "load")
  /\ Continue(w, t, "post")
  /\ UNCHANGED <<row, traces, faults, history>>

Current(w, t) == job[<<w, t>>].epoch = epoch[t]
MerchantAccepts(w, t) ==
  /\ heard' = [heard EXCEPT ![t] = heard[t] \/ Current(w, t)]
  /\ accepts' = [accepts EXCEPT ![t] = accepts[t] + 1]
DeliveryFails(w, t) ==
  failures' = [failures EXCEPT ![t] = IF Current(w, t) THEN failures[t] + 1 ELSE failures[t]]

\* The merchant answers 2xx with the body "success", anything else, or its
\* acceptance is lost on the way back.
PostAccepted(w, t) ==
  /\ JobAt(w, t, "post")
  /\ MerchantAccepts(w, t)
  /\ Continue(w, t, "accepted")
  /\ UNCHANGED <<row, traces, faults, epoch, failures>>

PostRefused(w, t) ==
  /\ JobAt(w, t, "post")
  /\ DeliveryFails(w, t)
  /\ Continue(w, t, "failed")
  /\ UNCHANGED <<row, traces, faults, epoch, heard, accepts>>

AnswerLost(w, t) ==
  /\ JobAt(w, t, "post")
  /\ Fault
  /\ MerchantAccepts(w, t)
  /\ DeliveryFails(w, t)
  /\ Continue(w, t, "failed")
  /\ UNCHANGED <<row, traces, epoch>>

\* The fence of markTaskSuccess and scheduleRetry
OwnsAlways(w, t) == TRUE   \* mutant
Owns(w, t) == row[t].trace = job[<<w, t>>].trace

MarkTaskSuccess(w, t) ==
  /\ JobAt(w, t, "accepted")
  /\ IF Owns(w, t)
     THEN SetRow(t, [row[t] EXCEPT !.status = "SUCCESS", !.due = TRUE, !.trace = 0])
     ELSE UNCHANGED row
  /\ SetJob(w, t, NoJob)
  /\ UNCHANGED <<traces, faults, history>>

\* The database refuses the update: the catch block schedules a retry.
SuccessNotWritten(w, t) ==
  /\ JobAt(w, t, "accepted")
  /\ Fault
  /\ DeliveryFails(w, t)
  /\ Continue(w, t, "failed")
  /\ UNCHANGED <<row, traces, epoch, heard, accepts>>

ShouldDeadLetterEarly(count) == count >= Backoffs   \* mutant
ShouldDeadLetter(count) == count > Backoffs

FailedRow(t, count) == [status |-> "FAILED", retryCount |-> count, due |-> TRUE, trace |-> 0]   \* mutant
RetryRow(t, count) ==
  IF ShouldDeadLetter(count)
  THEN [status |-> "DEAD", retryCount |-> count, due |-> TRUE, trace |-> 0]
  ELSE [status |-> "RETRYING", retryCount |-> count, due |-> FALSE, trace |-> 0]

\* The count is the one the claim read, not the row's.
ScheduleRetry(w, t) ==
  /\ JobAt(w, t, "failed")
  /\ IF Owns(w, t) THEN SetRow(t, RetryRow(t, job[<<w, t>>].retryCount + 1))
     ELSE UNCHANGED row
  /\ SetJob(w, t, NoJob)
  /\ UNCHANGED <<traces, faults, history>>

\* loadMerchantApp or scheduleRetry throws: nothing is written and the row
\* stays leased.
JobLost(w, t) ==
  /\ JobAt(w, t, "load") \/ JobAt(w, t, "failed")
  /\ Fault
  /\ SetJob(w, t, NoJob)
  /\ UNCHANGED <<row, traces, history>>

Crash(w) ==
  /\ Busy(w)
  /\ Fault
  /\ job' = [p \in Workers \X Tasks |-> IF p[1] = w THEN NoJob ELSE job[p]]
  /\ UNCHANGED <<row, traces, history>>

\* A back-off ends, or the lease of a delivery that is gone; the lease of one
\* still running ends only if it takes two minutes.
Leased(t) == \E w \in Workers : ~JobAt(w, t, "none") /\ Owns(w, t)
WaitEnds(t) ==
  /\ ~row[t].due
  /\ SetRow(t, [row[t] EXCEPT !.due = TRUE])
  /\ UNCHANGED <<job, traces, history>>
BackoffEnds(t)   == ~Leased(t) /\ WaitEnds(t) /\ UNCHANGED faults
LeaseOutlived(t) == Leased(t) /\ Fault /\ WaitEnds(t)

ReplayKeepsTrace(t) == [NewRow("PENDING") EXCEPT !.trace = row[t].trace]   \* mutant
ReplayedRow(t) == NewRow("PENDING")

Replay(t) ==
  /\ row[t].status # "absent"
  /\ epoch[t] < MaxReplays
  /\ SetRow(t, ReplayedRow(t))
  /\ epoch' = [epoch EXCEPT ![t] = epoch[t] + 1]
  /\ heard' = [heard EXCEPT ![t] = FALSE]
  /\ failures' = [failures EXCEPT ![t] = 0]
  /\ UNCHANGED <<job, traces, faults, accepts>>

-----------------------------------------------------------------------------
DeliverStep(w, t) ==
  \/ LoadMerchantApp(w, t) \/ PostAccepted(w, t) \/ PostRefused(w, t)
  \/ MarkTaskSuccess(w, t) \/ ScheduleRetry(w, t)
JobFault(w, t) == AnswerLost(w, t) \/ SuccessNotWritten(w, t) \/ JobLost(w, t)

WorkerStep(w) == Claim(w) \/ \E t \in Tasks : DeliverStep(w, t)
TaskStep(t)   == CreateTask(t) \/ BackoffEnds(t) \/ LeaseOutlived(t) \/ Replay(t)

Next ==
  \/ \E w \in Workers : WorkerStep(w) \/ Crash(w)
  \/ \E w \in Workers, t \in Tasks : JobFault(w, t)
  \/ \E t \in Tasks : TaskStep(t)

Spec == Init /\ [][Next]_vars

\* The cron job fires every ten seconds on every instance, fetch and database
\* calls end, and time passes.
FairSpec == /\ Spec
            /\ \A w \in Workers : WF_vars(WorkerStep(w))
            /\ \A t \in Tasks : WF_vars(BackoffEnds(t))

-----------------------------------------------------------------------------
(* Properties *)

\* markTaskSuccess is written only for a delivery of the current epoch that
\* the merchant accepted: an answer from before a replay settles nothing.
SuccessWasHeard == \A t \in Tasks : row[t].status = "SUCCESS" => heard[t]

\* A task is dead-lettered only after every back-off was used: crashes, leases
\* outlived and answers counted twice never use one up.
DeadAfterAllTries ==
  \A t \in Tasks : row[t].status = "DEAD" => failures[t] > Backoffs

\* SUCCESS and DEAD are left by a replay only: no late answer of an earlier
\* claim reopens a settled task or turns one into the other.
SettledIsFinal ==
  [][\A t \in Tasks : row[t].status \in {"SUCCESS", "DEAD"} =>
       row'[t].status = row[t].status \/ epoch'[t] # epoch[t]]_vars

\* The merchant accepts a task twice only after a replay or a fault: two
\* instances never deliver the same due row side by side.
RepeatsNeedFaults == \A t \in Tasks : accepts[t] <= 1 + epoch[t] + faults

\* Every task is settled in the end, and at some time all are: no crash leaves one leased
\* for ever, no failure drops one from the retry schedule and none waits for the others.
EveryTaskSettles ==
  []<>(\A t \in Tasks : row[t].status \in {"absent", "SUCCESS", "DEAD"})

\* The dispatcher keeps the platform's promise to the merchant.
Outcome(status) == CASE status = "absent"  -> "absent"
                     [] status \in Open    -> "pending"
                     [] status = "SUCCESS" -> "delivered"
                     [] OTHER              -> "dead"

Promised == INSTANCE MerchantNotification WITH
  MaxTries <- Backoffs + 1,
  outcome  <- [t \in Tasks |-> Outcome(row[t].status)],
  tries    <- [t \in Tasks |-> row[t].retryCount]

\* Every step of claiming, delivering, retrying, crashing and replaying is a
\* step the promise allows, or one the merchant does not see.
KeepsPromise == Promised!NotificationSpec
=============================================================================
