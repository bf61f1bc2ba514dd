----------------------------- MODULE EmailOutbox -----------------------------
(***************************************************************************)
(* The transactional outbox for after-action emails (groups/email_outbox,  *)
(* groups/email_sender.send_after_action_email and the worker command):    *)
(* worker processes claim due jobs in batches, send each job's messages    *)
(* over SMTP, record one delivery row per recipient and conclude the job.  *)
(* A worker may crash between any two of these steps; jobs it held stay    *)
(* "processing" until they are 15 minutes old and are then reclaimed.      *)
(*                                                                         *)
(* Time is abstract: a job's available_at in the future is due = FALSE     *)
(* until TimePasses; processing_started_at older than 15 minutes is        *)
(* stale = TRUE.  LiveStalls says whether a job may also grow stale in the *)
(* hands of a live worker (a slow SMTP server, or the tail of a batch).    *)
(***************************************************************************)
EXTENDS Naturals, FiniteSets

CONSTANTS
  Jobs, Recipients, Workers,
  NoJob,
  Primary,             \* the participant's first address
  MaxAttempts,         \* GroupEmailOutboxJob.MAX_ATTEMPTS
  Limit,               \* jobs claimed per pass
  LiveStalls,
  MaxInterruptions     \* bound: crashes plus stalls of live workers

ASSUME OutboxAssumption ==
  /\ NoJob \notin Jobs
  /\ Primary \in Recipients
  /\ MaxAttempts \in Nat \ {0}
  /\ Limit \in Nat \ {0}
  /\ LiveStalls \in BOOLEAN
  /\ MaxInterruptions \in Nat

VARIABLES
  job,            \* GroupEmailOutboxJob rows
  sent,           \* recipients with a SENT delivery row, by job
  failed,         \* recipients with a FAILED delivery row, by job
  lastFailure,    \* classification of the newest FAILED row, by job
  received,       \* recipients whose mailbox got the message, by job
  worker,         \* memory of each worker process
  brokenOff,      \* history: jobs an attempt of which ended among its rows
  interruptions

vars == <<job, sent, failed, lastFailure, received, worker, brokenOff, interruptions>>
auditVars == <<sent, failed, lastFailure>>
history == <<brokenOff, interruptions>>

Terminal == {"succeeded", "failed"}

Absent == [status |-> "absent", attempts |-> 0, due |-> FALSE, stale |-> FALSE]
Fresh  == [status |-> "pending", attempts |-> 0, due |-> TRUE, stale |-> FALSE]

(* A worker between passes; otherwise batch is what it claimed and has not *)
(* begun, cur the job in hand with the attempt_count it read, todo the     *)
(* recipients of this attempt and ok those the SMTP batch reported sent.   *)
IdleWorker == [pc |-> "idle", batch |-> {}, cur |-> NoJob, attempts |-> 0,
               todo |-> {}, ok |-> {}]

Init ==
  /\ job = [j \in Jobs |-> Absent]
  /\ sent = [j \in Jobs |-> {}]
  /\ failed = [j \in Jobs |-> {}]
  /\ lastFailure = [j \in Jobs |-> "none"]
  /\ received = [j \in Jobs |-> {}]
  /\ worker = [w \in Workers |-> IdleWorker]
  /\ brokenOff = {}
  /\ interruptions = 0

Held(j) == \E w \in Workers : j \in worker[w].batch \/ worker[w].cur = j
-----------------------------------------------------------------------------
(* Enqueue, committed together with the ActionRecord.                      *)
Enqueue(j) ==
  /\ job[j].status = "absent"
  /\ job' = [job EXCEPT ![j] = Fresh]
  /\ UNCHANGED <<auditVars, received, worker, history>>

(* available_at is reached.                                                *)
TimePasses(j) ==
  /\ job[j].status = "pending"
  /\ ~job[j].due
  /\ job' = [job EXCEPT ![j].due = TRUE]
  /\ UNCHANGED <<auditVars, received, worker, history>>

(* Fifteen minutes after the claim the job is still processing.            *)
GrowsStale(j) ==
  /\ job[j].status = "processing"
  /\ ~job[j].stale
  /\ IF Held(j)
       THEN LiveStalls /\ interruptions < MaxInterruptions
            /\ interruptions' = interruptions + 1
       ELSE UNCHANGED interruptions
  /\ job' = [job EXCEPT ![j].stale = TRUE]
  /\ UNCHANGED <<auditVars, received, worker, brokenOff>>

(* Mutant: every processing job is reclaimed, however young.               *)
ReclaimAnyAge(w) ==
  /\ worker[w].pc = "idle"
  /\ job' = [j \in Jobs |->
       IF job[j].status = "processing"
         THEN [status |-> "pending", attempts |-> job[j].attempts, due |-> TRUE, stale |-> FALSE]
         ELSE job[j]]
  /\ UNCHANGED <<auditVars, received, worker, history>>

(* reclaim_stale_processing, run by every pass before it claims.           *)
Reclaim(w) ==
  /\ worker[w].pc = "idle"
  /\ \E j \in Jobs : job[j].stale
  /\ job' = [j \in Jobs |->
       IF job[j].stale
         THEN [status |-> "pending", attempts |-> job[j].attempts, due |-> TRUE, stale |-> FALSE]
         ELSE job[j]]
  /\ UNCHANGED <<auditVars, received, worker, history>>

(* Mutant: a failed job is picked up again while it has attempts left.     *)
ClaimableWhileAttemptsLeft ==
  {j \in Jobs : /\ job[j].status \in {"pending", "failed"}
                /\ job[j].attempts < MaxAttempts}

(* claim_due_jobs: SKIP LOCKED may leave any due job to somebody else.     *)
Claimable == {j \in Jobs : job[j].status = "pending" /\ job[j].due}

Claim(w) ==
  /\ worker[w].pc = "idle"
  /\ \E S \in SUBSET Claimable :
       /\ S # {}
       /\ Cardinality(S) <= Limit
       /\ job' = [j \in Jobs |->
            IF j \in S THEN [job[j] EXCEPT !.status = "processing"] ELSE job[j]]
       /\ worker' = [worker EXCEPT ![w].pc = "working", ![w].batch = S]
  /\ UNCHANGED <<auditVars, received, history>>
-----------------------------------------------------------------------------
(* process_outbox_job.                                                     *)

(* Mutant: no delivery row at all counts as fully sent.                    *)
NoneFailed(j) == failed[j] = {}

AlreadyFullySent(j) == sent[j] # {} /\ failed[j] = {}

(* Mutant: the job in hand is not put down.                                *)
KeepsJobInHand(w, rest) ==
  worker' = [worker EXCEPT ![w].pc = IF rest = {} THEN "idle" ELSE "working"]

(* The worker goes on with its batch, or starts a new pass.                *)
NextJob(w, rest) ==
  worker' = [worker EXCEPT ![w] =
    IF rest = {} THEN IdleWorker ELSE [IdleWorker EXCEPT !.pc = "working", !.batch = rest]]

Concluded(status, attempts) ==
  [status |-> status, attempts |-> attempts, due |-> FALSE, stale |-> FALSE]

(* Mutant: one attempt too many.                                           *)
OneAttemptMore(n) ==
  IF n >= MaxAttempts THEN Concluded("failed", n + 1) ELSE Concluded("pending", n + 1)

(* Mutant: the attempt is not counted.                                     *)
AttemptNotCounted(n) == Concluded("pending", n)

(* _schedule_retry: one more attempt counted, the last one is terminal.    *)
AfterTemporaryFailure(n) ==
  IF n + 1 >= MaxAttempts THEN Concluded("failed", n + 1) ELSE Concluded("pending", n + 1)

(* Every recorded recipient was sent: nothing to do.                       *)
Skip(w, j) ==
  /\ worker[w].pc = "working"
  /\ j \in worker[w].batch
  /\ AlreadyFullySent(j)
  /\ job' = [job EXCEPT ![j] = Concluded("succeeded", @.attempts)]
  /\ NextJob(w, worker[w].batch \ {j})
  /\ UNCHANGED <<auditVars, received, history>>

(* Mutant: the SENT rows are not consulted.                                *)
ToEveryone(j) == Recipients

(* Recipients of this attempt: those without a SENT row.                   *)
ToSend(j) == Recipients \ sent[j]

(* The job is read again, whatever its status is by now, and recipients    *)
(* already marked sent are filtered out.                                   *)
Begin(w, j) ==
  /\ worker[w].pc = "working"
  /\ j \in worker[w].batch
  /\ ~AlreadyFullySent(j)
  /\ worker' = [worker EXCEPT ![w] =
       [pc |-> IF ToSend(j) = {} THEN "inspect" ELSE "sending",
        batch |-> @.batch \ {j}, cur |-> j, attempts |-> job[j].attempts,
        todo |-> ToSend(j), ok |-> {}]]
  /\ UNCHANGED <<job, auditVars, received, history>>

(* No participation email on file, or the Group's sender is not ready: one *)
(* FAILED row and nothing is sent.                                         *)
Refuse(w, j) ==
  /\ worker[w].pc = "working"
  /\ j \in worker[w].batch
  /\ ~AlreadyFullySent(j)
  /\ failed' = [failed EXCEPT ![j] = @ \cup {Primary}]
  /\ lastFailure' = [lastFailure EXCEPT ![j] = "permanent"]
  /\ worker' = [worker EXCEPT ![w] =
       [pc |-> "inspect", batch |-> @.batch \ {j}, cur |-> j,
        attempts |-> job[j].attempts, todo |-> {}, ok |-> {}]]
  /\ UNCHANGED <<job, sent, received, history>>

(* send_messages_batch: some messages arrive, and the server may fail to   *)
(* confirm one that did.                                                   *)
Send(w) ==
  /\ worker[w].pc = "sending"
  /\ \E arrived \in SUBSET worker[w].todo : \E ok \in SUBSET arrived :
       /\ received' = [received EXCEPT ![worker[w].cur] = @ \cup arrived]
       /\ worker' = [worker EXCEPT ![w].pc = "recording", ![w].ok = ok]
  /\ UNCHANGED <<job, auditVars, history>>

(* Mutant: a row is written for confirmed recipients only.                 *)
RecordConfirmedOnly(w, r) ==
  LET j == worker[w].cur
  IN  /\ worker[w].pc = "recording"
      /\ r \in worker[w].todo
      /\ sent' = [sent EXCEPT ![j] = IF r \in worker[w].ok THEN @ \cup {r} ELSE @]
      /\ worker' = [worker EXCEPT ![w].todo = @ \ {r},
           ![w].pc = IF worker[w].todo = {r} THEN "inspect" ELSE "recording"]
      /\ UNCHANGED <<job, failed, lastFailure, received, history>>

(* One delivery row per recipient, each committed on its own.              *)
Record(w, r) ==
  LET j == worker[w].cur
  IN  /\ worker[w].pc = "recording"
      /\ r \in worker[w].todo
      /\ IF r \in worker[w].ok
           THEN /\ sent' = [sent EXCEPT ![j] = @ \cup {r}]
                /\ UNCHANGED <<failed, lastFailure>>
           ELSE /\ failed' = [failed EXCEPT ![j] = @ \cup {r}]
                /\ \E k \in {"temporary", "permanent"} :
                     lastFailure' = [lastFailure EXCEPT ![j] = k]
                /\ UNCHANGED sent
      /\ worker' = [worker EXCEPT ![w].todo = @ \ {r},
           ![w].pc = IF worker[w].todo = {r} THEN "inspect" ELSE "recording"]
      /\ UNCHANGED <<job, received, history>>

(* Mutant: only a permanent failure keeps a job from succeeding.           *)
OnlyPermanentFails(j, n) ==
  IF failed[j] # {} /\ sent[j] = {} /\ lastFailure[j] = "permanent"
    THEN Concluded("failed", n + 1) ELSE Concluded("succeeded", n + 1)

(* The delivery rows decide; the row is written from the copy in memory.   *)
Verdict(j, n) ==
  IF failed[j] # {} /\ sent[j] = {}
    THEN IF lastFailure[j] = "permanent"
           THEN Concluded("failed", n + 1) ELSE AfterTemporaryFailure(n)
    ELSE Concluded("succeeded", n + 1)

Inspect(w) ==
  /\ worker[w].pc = "inspect"
  /\ job' = [job EXCEPT ![worker[w].cur] = Verdict(worker[w].cur, worker[w].attempts)]
  /\ NextJob(w, worker[w].batch)
  /\ UNCHANGED <<auditVars, received, history>>

(* The job in hand is put down after the first SENT row of its attempt and *)
(* before the last row.                                                    *)
BreaksOff(w) ==
  brokenOff' = brokenOff \cup
    {j \in {worker[w].cur} : worker[w].pc = "recording" /\ sent[j] # {}}

(* Rendering, the sender or the connection raises before anything is sent, *)
(* or the database while a row is written: _handle_send_failure.           *)
SendRaises(w) ==
  LET n == worker[w].attempts
  IN  /\ worker[w].pc \in {"sending", "recording"}
      /\ \E outcome \in {AfterTemporaryFailure(n), Concluded("failed", n + 1)} :
           job' = [job EXCEPT ![worker[w].cur] = outcome]
      /\ NextJob(w, worker[w].batch)
      /\ BreaksOff(w)
      /\ UNCHANGED <<auditVars, received, interruptions>>

(* The process dies and is started again without memory.                   *)
Crash(w) ==
  /\ interruptions < MaxInterruptions
  /\ worker[w].pc # "idle"
  /\ worker' = [worker EXCEPT ![w] = IdleWorker]
  /\ BreaksOff(w)
  /\ interruptions' = interruptions + 1
  /\ UNCHANGED <<job, auditVars, received>>
-----------------------------------------------------------------------------
Process(w) ==
  \/ \E j \in Jobs : Skip(w, j) \/ Begin(w, j) \/ Refuse(w, j)
  \/ Send(w)
  \/ \E r \in Recipients : Record(w, r)
  \/ Inspect(w)
  \/ SendRaises(w)

Next ==
  \/ \E j \in Jobs : Enqueue(j) \/ TimePasses(j) \/ GrowsStale(j)
  \/ \E w \in Workers : Reclaim(w) \/ Claim(w) \/ Process(w) \/ Crash(w)

(* The command loops for ever and is restarted when it exits; time passes. *)
Fairness ==
  /\ \A w \in Workers : WF_vars(Claim(w)) /\ WF_vars(Reclaim(w)) /\ WF_vars(Process(w))
  /\ \A j \in Jobs : WF_vars(TimePasses(j)) /\ WF_vars(GrowsStale(j) /\ ~Held(j))

Spec == Init /\ [][Next]_vars

FairSpec == Spec /\ Fairness
-----------------------------------------------------------------------------
JobType ==
  [status : {"absent", "pending", "processing"} \cup Terminal,
   attempts : Nat, due : BOOLEAN, stale : BOOLEAN]

WorkerType ==
  [pc : {"idle", "working", "sending", "recording", "inspect"},
   batch : SUBSET Jobs, cur : Jobs \cup {NoJob}, attempts : Nat,
   todo : SUBSET Recipients, ok : SUBSET Recipients]

(* Every variable has its type, and a worker past Begin has a job in hand. *)
TypeOK ==
  /\ job \in [Jobs -> JobType]
  /\ sent \in [Jobs -> SUBSET Recipients]
  /\ failed \in [Jobs -> SUBSET Recipients]
  /\ lastFailure \in [Jobs -> {"none", "temporary", "permanent"}]
  /\ received \in [Jobs -> SUBSET Recipients]
  /\ worker \in [Workers -> WorkerType]
  /\ \A w \in Workers : worker[w].cur = NoJob <=> worker[w].pc \in {"idle", "working"}
  /\ brokenOff \in SUBSET Jobs
  /\ interruptions \in Nat

(* A job is in the hands of at most one worker, as long as only jobs of    *)
(* dead workers grow stale (claim_due_jobs 186-211).                       *)
Holds(w, j) == j \in worker[w].batch \/ worker[w].cur = j

OneOwner ==
  \A j \in Jobs, v, w \in Workers : Holds(v, j) /\ Holds(w, j) => v = w

(* "never send again to a recipient already marked sent"                   *)
(* (email_sender.py:1111): a worker about to send has no such recipient.   *)
NeverResend ==
  \A w \in Workers :
    worker[w].pc = "sending" => worker[w].todo \cap sent[worker[w].cur] = {}

(* A succeeded job has a SENT row and that message did arrive, also when   *)
(* two workers process the same job.                                       *)
SuccessIsReal ==
  \A j \in Jobs :
    /\ sent[j] \subseteq received[j]
    /\ job[j].status = "succeeded" => sent[j] # {}

(* A job ends once: no later write changes its outcome.                    *)
TerminalIsFinal ==
  [][\A j \in Jobs : job[j].status \in Terminal => job'[j].status = job[j].status]_vars

(* max_attempts bounds the counted attempts and a job that used them up is *)
(* not scheduled again (_schedule_retry 400-405).                          *)
AttemptsBounded ==
  \A j \in Jobs :
    /\ job[j].attempts <= MaxAttempts
    /\ job[j].status \in {"pending", "processing"} => job[j].attempts < MaxAttempts

(* "Remaining failures are audited" (email_outbox.py:352): when a job has  *)
(* succeeded, every recipient has a SENT or a FAILED row.                  *)
SuccessIsAudited ==
  \A j \in Jobs :
    job[j].status = "succeeded" => sent[j] \cup failed[j] = Recipients

(* The same of every job no attempt of which was broken off between a SENT *)
(* row and its last row (email_sender.py 1174-1215), however many workers  *)
(* die or messages fail: a retry takes up what the attempts before it have *)
(* recorded, and does not conclude from it that everybody has been served. *)
AuditedUnlessBrokenOff ==
  \A j \in Jobs \ brokenOff :
    job[j].status = "succeeded" => sent[j] \cup failed[j] = Recipients

(* Every job that was enqueued ends and stays ended, through crashes,      *)
(* stalls and double processing.                                           *)
EveryJobEnds ==
  \A j \in Jobs : <>[](job[j].status \in Terminal \cup {"absent"})

(* What the promise sees of a job; pending and processing are both open.   *)
Outcome ==
  [j \in Jobs |->
     IF job[j].status = "absent" THEN "none"
     ELSE IF job[j].status \in Terminal THEN job[j].status
     ELSE "open"]

Promise == INSTANCE OutboxPromise WITH outcome <- Outcome, confirmed <- sent

(* The outbox implements its promise (OutboxPromise): every step is a step *)
(* of the promise or invisible to it (groups/email_outbox.py as a whole).  *)
KeepsPromise == Promise!Spec
=============================================================================
