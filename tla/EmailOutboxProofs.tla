-------------------------- MODULE EmailOutboxProofs --------------------------
(***************************************************************************)
(* Theorems about EmailOutbox for any number of jobs, workers, recipients, *)
(* crashes and attempts.  Type correctness and SuccessIsReal hold whether  *)
(* or not live workers lose their jobs to the 15-minute reclaim; ownership *)
(* and what rests on it are proved for ~LiveStalls.                        *)
(***************************************************************************)
EXTENDS EmailOutbox, TLAPS

USE DEF Terminal

-----------------------------------------------------------------------------
(* Type correctness.                                                       *)

LEMMA ConcludedType ==
  ASSUME NEW s \in {"pending"} \cup Terminal, NEW n \in Nat
  PROVE  Concluded(s, n) \in JobType
BY DEF Concluded, JobType

LEMMA IdleType == IdleWorker \in WorkerType /\ IdleWorker.cur = NoJob /\ IdleWorker.pc = "idle"
BY DEF IdleWorker, WorkerType

LEMMA TemporaryType ==
  ASSUME NEW n \in Nat
  PROVE  AfterTemporaryFailure(n) \in JobType
BY ConcludedType, OutboxAssumption DEF AfterTemporaryFailure

LEMMA VerdictType ==
  ASSUME NEW j \in Jobs, NEW n \in Nat
  PROVE  Verdict(j, n) \in JobType
BY ConcludedType, TemporaryType DEF Verdict

(* The worker after NextJob is well typed and has no job in hand.          *)
LEMMA NextJobType ==
  ASSUME TypeOK, NEW w \in Workers, NEW rest \in SUBSET Jobs, NextJob(w, rest)
  PROVE  /\ worker' \in [Workers -> WorkerType]
         /\ \A v \in Workers : worker'[v].cur = NoJob <=> worker'[v].pc \in {"idle", "working"}
<1> DEFINE busy == [IdleWorker EXCEPT !.pc = "working", !.batch = rest]
<1>1. busy \in WorkerType /\ busy.cur = NoJob /\ busy.pc = "working"
  BY DEF IdleWorker, WorkerType
<1>2. worker' = [worker EXCEPT ![w] = IF rest = {} THEN IdleWorker ELSE busy]
  BY DEF NextJob
<1> HIDE DEF busy
<1> QED BY <1>1, <1>2, IdleType DEF TypeOK

LEMMA BreakOffType ==
  ASSUME TypeOK, NEW w \in Workers, BreaksOff(w)
  PROVE  /\ brokenOff' \in SUBSET Jobs /\ brokenOff \subseteq brokenOff'
         /\ worker[w].pc = "recording" /\ sent[worker[w].cur] # {} =>
              worker[w].cur \in brokenOff'
<1>1. worker[w].pc = "recording" => worker[w].cur \in Jobs
  BY DEF TypeOK, WorkerType
<1>2. QED
  BY <1>1 DEF BreaksOff, TypeOK

LEMMA TypeInit == Init => TypeOK
BY OutboxAssumption, IdleType
   DEF Init, TypeOK, Absent, JobType, WorkerType, IdleWorker

LEMMA TypeStep == TypeOK /\ [Next]_vars => TypeOK'
<1> SUFFICES ASSUME TypeOK, [Next]_vars PROVE TypeOK'
  OBVIOUS
<1> USE DEF auditVars, history
<1>1. ASSUME NEW j \in Jobs, Enqueue(j) PROVE TypeOK'
  BY <1>1 DEF Enqueue, Fresh, TypeOK, JobType
<1>2. ASSUME NEW j \in Jobs, TimePasses(j) PROVE TypeOK'
  BY <1>2 DEF TimePasses, TypeOK, JobType
<1>3. ASSUME NEW j \in Jobs, GrowsStale(j) PROVE TypeOK'
  <2>1. job' \in [Jobs -> JobType]
    BY ZenonT(60), <1>3 DEF GrowsStale, TypeOK, JobType
  <2>2. interruptions' \in Nat
    BY <1>3 DEF GrowsStale, TypeOK
  <2> QED BY <1>3, <2>1, <2>2 DEF GrowsStale, TypeOK
<1>4. ASSUME NEW w \in Workers, Reclaim(w) PROVE TypeOK'
  BY <1>4 DEF Reclaim, TypeOK, JobType
<1>5. ASSUME NEW w \in Workers, Claim(w) PROVE TypeOK'
  <2>1. PICK S \in SUBSET Claimable :
          /\ job' = [j \in Jobs |->
               IF j \in S THEN [job[j] EXCEPT !.status = "processing"] ELSE job[j]]
          /\ worker' = [worker EXCEPT ![w].pc = "working", ![w].batch = S]
    BY <1>5 DEF Claim
  <2>2. S \in SUBSET Jobs
    BY DEF Claimable
  <2>3. job' \in [Jobs -> JobType]
    BY <2>1 DEF TypeOK, JobType
  <2>4. worker' \in [Workers -> WorkerType]
    <3>1. [worker[w] EXCEPT !.pc = "working", !.batch = S] \in WorkerType
      BY ZenonT(60), <2>1, <2>2 DEF TypeOK, WorkerType
    <3>2. worker' = [worker EXCEPT ![w] = [worker[w] EXCEPT !.pc = "working", !.batch = S]]
      BY <2>1, <2>2 DEF TypeOK, WorkerType
    <3> QED BY <3>1, <3>2 DEF TypeOK
  <2>5. \A v \in Workers : worker'[v].cur = NoJob <=> worker'[v].pc \in {"idle", "working"}
    BY <1>5, <2>1 DEF Claim, TypeOK, WorkerType
  <2> QED BY <1>5, <2>3, <2>4, <2>5 DEF Claim, TypeOK
<1>6. ASSUME NEW w \in Workers, NEW j \in Jobs, Skip(w, j) PROVE TypeOK'
  <2>1. worker[w].batch \ {j} \in SUBSET Jobs
    BY DEF TypeOK, WorkerType
  <2>2. job' \in [Jobs -> JobType]
    BY <1>6, ConcludedType DEF Skip, TypeOK, JobType
  <2> QED BY <1>6, <2>1, <2>2, NextJobType DEF Skip, TypeOK
<1>7. ASSUME NEW w \in Workers, NEW j \in Jobs, Begin(w, j) PROVE TypeOK'
  BY <1>7, OutboxAssumption DEF Begin, ToSend, TypeOK, WorkerType, JobType
<1>8. ASSUME NEW w \in Workers, NEW j \in Jobs, Refuse(w, j) PROVE TypeOK'
  BY <1>8, OutboxAssumption DEF Refuse, TypeOK, WorkerType, JobType
<1>9. ASSUME NEW w \in Workers, Send(w) PROVE TypeOK'
  <2>1. PICK arrived \in SUBSET worker[w].todo, ok \in SUBSET worker[w].todo :
          /\ received' = [received EXCEPT ![worker[w].cur] = received[worker[w].cur] \cup arrived]
          /\ worker' = [worker EXCEPT ![w].pc = "recording", ![w].ok = ok]
    BY <1>9 DEF Send
  <2>2. arrived \in SUBSET Recipients /\ ok \in SUBSET Recipients /\ worker[w].cur \in Jobs
    BY <1>9, <2>1 DEF Send, TypeOK, WorkerType
  <2>3. received' \in [Jobs -> SUBSET Recipients]
    BY <2>1, <2>2 DEF TypeOK
  <2>4. worker' \in [Workers -> WorkerType]
    <3>1. [worker[w] EXCEPT !.pc = "recording", !.ok = ok] \in WorkerType
      BY ZenonT(60), <2>1, <2>2 DEF TypeOK, WorkerType
    <3>2. worker' = [worker EXCEPT ![w] = [worker[w] EXCEPT !.pc = "recording", !.ok = ok]]
      BY <2>1, <2>2 DEF TypeOK, WorkerType
    <3> QED BY <3>1, <3>2 DEF TypeOK
  <2>5. \A v \in Workers : worker'[v].cur = NoJob <=> worker'[v].pc \in {"idle", "working"}
    BY <1>9, <2>1 DEF Send, TypeOK, WorkerType
  <2> QED BY <1>9, <2>3, <2>4, <2>5 DEF Send, TypeOK
<1>10. ASSUME NEW w \in Workers, NEW r \in Recipients, Record(w, r) PROVE TypeOK'
  <2>1. worker[w].cur \in Jobs
    BY <1>10 DEF Record, TypeOK, WorkerType
  <2>2. /\ sent' \in [Jobs -> SUBSET Recipients]
        /\ failed' \in [Jobs -> SUBSET Recipients]
        /\ lastFailure' \in [Jobs -> {"none", "temporary", "permanent"}]
    BY <1>10, <2>1 DEF Record, TypeOK
  <2> DEFINE next == IF worker[w].todo = {r} THEN "inspect" ELSE "recording"
              rec == [worker[w] EXCEPT !.todo = worker[w].todo \ {r}, !.pc = next]
  <2>3. worker' \in [Workers -> WorkerType]
    <3>1. rec \in WorkerType
      BY ZenonT(60) DEF TypeOK, WorkerType
    <3>2. worker' = [worker EXCEPT ![w] = rec]
      BY <1>10 DEF Record, TypeOK, WorkerType
    <3> QED BY <3>1, <3>2 DEF TypeOK
  <2>4. \A v \in Workers : worker'[v].cur = NoJob <=> worker'[v].pc \in {"idle", "working"}
    BY <1>10 DEF Record, TypeOK, WorkerType
  <2> QED BY <1>10, <2>2, <2>3, <2>4 DEF Record, TypeOK
<1>11. ASSUME NEW w \in Workers, Inspect(w) PROVE TypeOK'
  <2>1. worker[w].batch \in SUBSET Jobs /\ worker[w].cur \in Jobs /\ worker[w].attempts \in Nat
    BY <1>11 DEF Inspect, TypeOK, WorkerType
  <2>2. job' \in [Jobs -> JobType]
    BY <1>11, <2>1, VerdictType DEF Inspect, TypeOK
  <2> QED BY <1>11, <2>1, <2>2, NextJobType DEF Inspect, TypeOK
<1>12. ASSUME NEW w \in Workers, SendRaises(w) PROVE TypeOK'
  <2>1. worker[w].batch \in SUBSET Jobs /\ worker[w].attempts \in Nat
    BY DEF TypeOK, WorkerType
  <2>2. job' \in [Jobs -> JobType]
    <3>1. PICK outcome \in {AfterTemporaryFailure(worker[w].attempts),
                            Concluded("failed", worker[w].attempts + 1)} :
            job' = [job EXCEPT ![worker[w].cur] = outcome]
      BY <1>12 DEF SendRaises
    <3>2. outcome \in JobType
      BY <2>1, TemporaryType, ConcludedType
    <3> QED BY <3>1, <3>2 DEF TypeOK
  <2> QED BY <1>12, <2>1, <2>2, NextJobType, BreakOffType DEF SendRaises, TypeOK
<1>13. ASSUME NEW w \in Workers, Crash(w) PROVE TypeOK'
  BY <1>13, IdleType, BreakOffType DEF Crash, TypeOK
<1>14. CASE UNCHANGED vars
  BY <1>14 DEF vars, TypeOK
<1> QED
  BY <1>1, <1>2, <1>3, <1>4, <1>5, <1>6, <1>7, <1>8, <1>9, <1>10, <1>11, <1>12, <1>13, <1>14
     DEF Next, Process

(* The outbox is well typed (groups/email_outbox.py, whole module).        *)
THEOREM TypeCorrect == Spec => []TypeOK
<1> QED BY TypeInit, TypeStep, PTL DEF Spec
-----------------------------------------------------------------------------
(* Success rests on a delivery.                                            *)

(* What a worker is about to write is true of the mailboxes and the rows.  *)
HandReal ==
  \A w \in Workers :
    /\ worker[w].pc = "recording" => worker[w].ok \subseteq received[worker[w].cur]
    /\ worker[w].pc = "inspect" => sent[worker[w].cur] \cup failed[worker[w].cur] # {}

RealInv == TypeOK /\ SuccessIsReal /\ HandReal

(* After NextJob the worker neither records nor inspects.                  *)
LEMMA NextJobEffect ==
  ASSUME TypeOK, NEW w \in Workers, NEW rest \in SUBSET Jobs, NextJob(w, rest)
  PROVE  /\ \A v \in Workers \ {w} : worker'[v] = worker[v]
         /\ worker'[w].pc \in {"idle", "working"}
         /\ worker'[w].batch = rest
         /\ worker'[w].cur = NoJob
BY DEF NextJob, TypeOK, WorkerType, IdleWorker

(* Record leaves the worker its job and its batch.                         *)
LEMMA RecordEffect ==
  ASSUME TypeOK, NEW w \in Workers, NEW r \in Recipients, Record(w, r)
  PROVE  /\ \A v \in Workers \ {w} : worker'[v] = worker[v]
         /\ worker'[w].cur = worker[w].cur
         /\ worker'[w].batch = worker[w].batch
         /\ worker'[w].ok = worker[w].ok
         /\ worker'[w].attempts = worker[w].attempts
         /\ worker'[w].pc \in {"recording", "inspect"}
         /\ job' = job
<1> DEFINE next == IF worker[w].todo = {r} THEN "inspect" ELSE "recording"
           rec == [worker[w] EXCEPT !.todo = worker[w].todo \ {r}, !.pc = next]
<1>1. worker' = [worker EXCEPT ![w] = rec] /\ job' = job
  BY DEF Record, TypeOK, WorkerType
<1>2. /\ rec.cur = worker[w].cur /\ rec.ok = worker[w].ok /\ rec.batch = worker[w].batch
      /\ rec.attempts = worker[w].attempts /\ rec.pc \in {"recording", "inspect"}
  BY DEF TypeOK, WorkerType
<1> HIDE DEF rec
<1> QED BY <1>1, <1>2 DEF TypeOK

LEMMA RealInit == Init => RealInv
BY TypeInit DEF Init, RealInv, SuccessIsReal, HandReal, Absent, IdleWorker

LEMMA RealStep == RealInv /\ [Next]_vars => RealInv'
<1> SUFFICES ASSUME RealInv, [Next]_vars PROVE SuccessIsReal' /\ HandReal'
  BY TypeStep DEF RealInv
<1> USE DEF auditVars, history
<1>0. TypeOK /\ TypeOK'
  BY TypeStep DEF RealInv
<1>1. ASSUME NEW j \in Jobs, Enqueue(j) \/ TimePasses(j) \/ GrowsStale(j)
      PROVE  SuccessIsReal' /\ HandReal'
  <2>1. UNCHANGED <<sent, failed, received, worker>>
    BY <1>1 DEF Enqueue, TimePasses, GrowsStale
  <2>2. job'[j].status # "succeeded" \/ job'[j].status = job[j].status
    <3>1. CASE Enqueue(j)
      BY <1>0, <3>1 DEF Enqueue, Fresh, TypeOK
    <3>2. CASE TimePasses(j)
      BY <1>0, <3>2 DEF TimePasses, TypeOK, JobType
    <3>3. CASE GrowsStale(j)
      BY <1>0, <3>3 DEF GrowsStale, TypeOK, JobType
    <3> QED BY <1>1, <3>1, <3>2, <3>3
  <2>3. \A i \in Jobs \ {j} : job'[i] = job[i]
    BY <1>0, <1>1 DEF Enqueue, TimePasses, GrowsStale, TypeOK
  <2> QED BY <2>1, <2>2, <2>3 DEF RealInv, SuccessIsReal, HandReal
<1>2. ASSUME NEW w \in Workers, Reclaim(w) PROVE SuccessIsReal' /\ HandReal'
  BY <1>0, <1>2 DEF Reclaim, RealInv, SuccessIsReal, HandReal, TypeOK, JobType
<1>3. ASSUME NEW w \in Workers, Claim(w) PROVE SuccessIsReal' /\ HandReal'
  <2>1. PICK S \in SUBSET Claimable :
          /\ job' = [j \in Jobs |->
               IF j \in S THEN [job[j] EXCEPT !.status = "processing"] ELSE job[j]]
          /\ worker' = [worker EXCEPT ![w].pc = "working", ![w].batch = S]
    BY <1>3 DEF Claim
  <2>2. HandReal'
    BY SMTT(30), <1>0, <1>3, <2>1 DEF Claim, RealInv, HandReal, TypeOK, WorkerType
  <2>3. SuccessIsReal'
    BY <1>0, <1>3, <2>1 DEF Claim, RealInv, SuccessIsReal, TypeOK, JobType
  <2> QED BY <2>2, <2>3
<1>4. ASSUME NEW w \in Workers, NEW j \in Jobs, Skip(w, j) PROVE SuccessIsReal' /\ HandReal'
  <2>1. worker[w].batch \ {j} \in SUBSET Jobs
    BY <1>0 DEF TypeOK, WorkerType
  <2>2. HandReal'
    BY <1>0, <1>4, <2>1, NextJobEffect DEF Skip, RealInv, HandReal
  <2>3. SuccessIsReal'
    BY <1>0, <1>4 DEF Skip, AlreadyFullySent, Concluded, RealInv, SuccessIsReal, TypeOK
  <2> QED BY <2>2, <2>3
<1>5. ASSUME NEW w \in Workers, NEW j \in Jobs, Begin(w, j) PROVE SuccessIsReal' /\ HandReal'
  <2>1. SuccessIsReal'
    BY <1>5 DEF Begin, RealInv, SuccessIsReal
  <2>2. ToSend(j) = {} => sent[j] # {}
    BY OutboxAssumption DEF ToSend
  <2>3. HandReal'
    BY <1>0, <1>5, <2>2 DEF Begin, RealInv, HandReal, TypeOK
  <2> QED BY <2>1, <2>3
<1>6. ASSUME NEW w \in Workers, NEW j \in Jobs, Refuse(w, j) PROVE SuccessIsReal' /\ HandReal'
  <2>1. SuccessIsReal'
    BY <1>6 DEF Refuse, RealInv, SuccessIsReal
  <2>2. /\ \A v \in Workers \ {w} : worker'[v] = worker[v]
        /\ worker'[w].pc = "inspect" /\ worker'[w].cur = j /\ UNCHANGED <<sent, received>>
    BY <1>0, <1>6 DEF Refuse, TypeOK
  <2>3. Primary \in failed'[j] /\ \A i \in Jobs : failed[i] \subseteq failed'[i]
    BY <1>0, <1>6 DEF Refuse, TypeOK
  <2>4. \A v \in Workers : worker[v].pc \in {"recording", "inspect"} => worker[v].cur \in Jobs
    BY <1>0 DEF TypeOK, WorkerType
  <2>5. HandReal'
    BY <2>2, <2>3, <2>4 DEF RealInv, HandReal
  <2> QED BY <2>1, <2>5
<1>7. ASSUME NEW w \in Workers, Send(w) PROVE SuccessIsReal' /\ HandReal'
  <2>1. PICK arrived \in SUBSET worker[w].todo, ok \in SUBSET worker[w].todo :
          /\ ok \subseteq arrived
          /\ received' = [received EXCEPT ![worker[w].cur] = received[worker[w].cur] \cup arrived]
          /\ worker' = [worker EXCEPT ![w].pc = "recording", ![w].ok = ok]
    BY <1>7 DEF Send
  <2>2. worker[w].cur \in Jobs
    BY <1>0, <1>7 DEF Send, TypeOK, WorkerType
  <2>3. \A j \in Jobs : received[j] \subseteq received'[j]
    BY <1>0, <2>1, <2>2 DEF TypeOK
  <2>4. SuccessIsReal'
    BY <1>7, <2>3 DEF Send, RealInv, SuccessIsReal
  <2>5. ASSUME NEW v \in Workers
        PROVE  /\ worker'[v].pc = "recording" => worker'[v].ok \subseteq received'[worker'[v].cur]
               /\ worker'[v].pc = "inspect" => sent'[worker'[v].cur] \cup failed'[worker'[v].cur] # {}
    <3>1. CASE v = w
      BY <1>0, <2>1, <2>2, <3>1 DEF TypeOK, WorkerType
    <3>2. CASE v # w
      <4>1. worker'[v] = worker[v]
        BY <1>0, <2>1, <3>2 DEF TypeOK
      <4>2. worker[v].pc = "recording" => worker[v].cur \in Jobs
        BY <1>0 DEF TypeOK, WorkerType
      <4> QED BY <1>7, <2>3, <4>1, <4>2 DEF Send, RealInv, HandReal
    <3> QED BY <3>1, <3>2
  <2> QED BY <2>4, <2>5 DEF HandReal
<1>8. ASSUME NEW w \in Workers, NEW r \in Recipients, Record(w, r)
      PROVE  SuccessIsReal' /\ HandReal'
  <2>1. worker[w].cur \in Jobs
    BY <1>0, <1>8 DEF Record, TypeOK, WorkerType
  <2>2. /\ \A j \in Jobs : sent[j] \subseteq sent'[j] /\ failed[j] \subseteq failed'[j]
        /\ r \in sent'[worker[w].cur] \cup failed'[worker[w].cur]
    BY <1>0, <1>8, <2>1 DEF Record, TypeOK
  <2>3. r \in worker[w].ok => r \in received[worker[w].cur]
    BY <1>8 DEF Record, RealInv, HandReal
  <2>4. SuccessIsReal'
    <3>1. \A j \in Jobs : sent'[j] \subseteq received'[j]
      BY <1>0, <1>8, <2>1, <2>3 DEF Record, RealInv, SuccessIsReal, TypeOK
    <3>2. \A j \in Jobs : job'[j].status = "succeeded" => sent'[j] # {}
      BY <1>8, <2>2 DEF Record, RealInv, SuccessIsReal
    <3> QED BY <3>1, <3>2 DEF SuccessIsReal
  <2>5. HandReal'
    <3>1. /\ \A v \in Workers \ {w} : worker'[v] = worker[v]
          /\ worker'[w].cur = worker[w].cur /\ worker'[w].ok = worker[w].ok
      BY <1>0, <1>8, RecordEffect
    <3>2. \A v \in Workers : worker[v].pc \in {"recording", "inspect"} => worker[v].cur \in Jobs
      BY <1>0 DEF TypeOK, WorkerType
    <3>3. received' = received /\ worker[w].pc = "recording"
      BY <1>8 DEF Record
    <3>4. ASSUME NEW v \in Workers
          PROVE  /\ worker'[v].pc = "recording" => worker'[v].ok \subseteq received'[worker'[v].cur]
                 /\ worker'[v].pc = "inspect" => sent'[worker'[v].cur] \cup failed'[worker'[v].cur] # {}
      <4>1. CASE v = w
        BY <2>2, <3>1, <3>3, <4>1 DEF RealInv, HandReal
      <4>2. CASE v # w
        BY <2>2, <3>1, <3>2, <3>3, <4>2 DEF RealInv, HandReal
      <4> QED BY <4>1, <4>2
    <3> QED BY <3>4 DEF HandReal
  <2> QED BY <2>4, <2>5
<1>9. ASSUME NEW w \in Workers, Inspect(w) PROVE SuccessIsReal' /\ HandReal'
  <2>1. worker[w].batch \in SUBSET Jobs /\ worker[w].cur \in Jobs
    BY <1>0, <1>9 DEF Inspect, TypeOK, WorkerType
  <2>2. HandReal'
    BY <1>0, <1>9, <2>1, NextJobEffect DEF Inspect, RealInv, HandReal
  <2>3. Verdict(worker[w].cur, worker[w].attempts).status = "succeeded" => sent[worker[w].cur] # {}
    BY <1>9 DEF Inspect, Verdict, AfterTemporaryFailure, Concluded, RealInv, HandReal
  <2>4. SuccessIsReal'
    BY <1>0, <1>9, <2>1, <2>3 DEF Inspect, RealInv, SuccessIsReal, TypeOK
  <2> QED BY <2>2, <2>4
<1>10. ASSUME NEW w \in Workers, SendRaises(w) PROVE SuccessIsReal' /\ HandReal'
  <2>1. worker[w].batch \in SUBSET Jobs
    BY <1>0 DEF TypeOK, WorkerType
  <2>2. HandReal'
    BY <1>0, <1>10, <2>1, NextJobEffect DEF SendRaises, RealInv, HandReal
  <2>3. PICK outcome \in {AfterTemporaryFailure(worker[w].attempts),
                          Concluded("failed", worker[w].attempts + 1)} :
          job' = [job EXCEPT ![worker[w].cur] = outcome]
    BY <1>10 DEF SendRaises
  <2>4. outcome.status # "succeeded"
    BY DEF AfterTemporaryFailure, Concluded
  <2>5. SuccessIsReal'
    BY <1>0, <1>10, <2>3, <2>4 DEF SendRaises, RealInv, SuccessIsReal, TypeOK
  <2> QED BY <2>2, <2>5
<1>11. ASSUME NEW w \in Workers, Crash(w) PROVE SuccessIsReal' /\ HandReal'
  BY <1>0, <1>11 DEF Crash, IdleWorker, RealInv, SuccessIsReal, HandReal, TypeOK
<1>12. CASE UNCHANGED vars
  BY <1>12 DEF vars, RealInv, SuccessIsReal, HandReal
<1> QED
  BY <1>1, <1>2, <1>3, <1>4, <1>5, <1>6, <1>7, <1>8, <1>9, <1>10, <1>11, <1>12 DEF Next, Process

(* A job counts as succeeded only with a confirmed delivery that arrived,  *)
(* whatever crashes and however many workers process it.                   *)
THEOREM SuccessReal == Spec => []SuccessIsReal
<1>1. RealInv => SuccessIsReal
  BY DEF RealInv
<1> QED BY RealInit, RealStep, <1>1, PTL DEF Spec
-----------------------------------------------------------------------------
(* Ownership, for ~LiveStalls: only jobs that no worker holds grow stale.  *)

(* A held job is processing and young, in one hand only, and the hand does *)
(* not hold it twice.                                                      *)
HeldInv ==
  \A w \in Workers, j \in Jobs : Holds(w, j) => job[j].status = "processing" /\ ~job[j].stale

HandInv ==
  \A w \in Workers :
    /\ worker[w].cur \notin worker[w].batch
    /\ worker[w].pc = "idle" => worker[w].batch = {}

StaleInv == \A j \in Jobs : job[j].stale => job[j].status = "processing"

OwnInv == TypeOK /\ OneOwner /\ HeldInv /\ HandInv /\ StaleInv

Ownership == OneOwner /\ HeldInv /\ HandInv /\ StaleInv

(* Worker w lets go of j, whose row it writes, or of nothing: nobody else  *)
(* is concerned.                                                           *)
LEMMA LetGo ==
  ASSUME OwnInv, NEW w \in Workers, NEW j \in Jobs,
         Holds(w, j),
         \A v \in Workers \ {w} : worker'[v] = worker[v],
         \A i \in Jobs : Holds(w, i)' => Holds(w, i) /\ i # j,
         \A i \in Jobs \ {j} : job'[i] = job[i],
         ~job'[j].stale
  PROVE  OneOwner' /\ HeldInv' /\ StaleInv'
<1>1. \A v \in Workers, i \in Jobs : Holds(v, i)' => Holds(v, i) /\ i # j
  BY DEF OwnInv, OneOwner, Holds
<1> QED BY <1>1 DEF OwnInv, OneOwner, HeldInv, StaleInv

LEMMA KeepHolding ==
  ASSUME OwnInv, NEW w \in Workers,
         \A v \in Workers \ {w} : worker'[v] = worker[v],
         \A i \in Jobs : Holds(w, i)' => Holds(w, i),
         job' = job
  PROVE  OneOwner' /\ HeldInv' /\ StaleInv'
<1>1. \A v \in Workers, i \in Jobs : Holds(v, i)' => Holds(v, i)
  BY DEF Holds
<1> QED BY <1>1 DEF OwnInv, OneOwner, HeldInv, StaleInv

LEMMA OwnInit == Init => OwnInv
BY TypeInit, OutboxAssumption
   DEF Init, OwnInv, OneOwner, HeldInv, HandInv, StaleInv, Holds, Absent, IdleWorker

LEMMA OwnStep ==
  ASSUME ~LiveStalls, OwnInv, [Next]_vars
  PROVE  OwnInv'
<1> SUFFICES Ownership'
  BY TypeStep DEF OwnInv, Ownership
<1> USE DEF auditVars, history
<1>0. TypeOK /\ TypeOK'
  BY TypeStep DEF OwnInv
<1>1. ASSUME NEW j \in Jobs, Enqueue(j) \/ TimePasses(j) PROVE Ownership'
  <2>2. worker' = worker
    BY <1>1 DEF Enqueue, TimePasses
  <2>3. \A w \in Workers : ~Holds(w, j)
    BY <1>1 DEF Enqueue, TimePasses, OwnInv, HeldInv
  <2>4. \A i \in Jobs \ {j} : job'[i] = job[i]
    BY <1>0, <1>1 DEF Enqueue, TimePasses, TypeOK
  <2>5. ~job'[j].stale
    <3>1. CASE Enqueue(j)
      BY <1>0, <3>1 DEF Enqueue, Fresh, TypeOK
    <3>2. CASE TimePasses(j)
      BY <1>0, <3>2 DEF TimePasses, TypeOK, JobType, OwnInv, StaleInv
    <3> QED BY <1>1, <3>1, <3>2
  <2> QED BY <2>2, <2>3, <2>4, <2>5
          DEF Ownership, OwnInv, OneOwner, HeldInv, HandInv, StaleInv, Holds
<1>2. ASSUME NEW j \in Jobs, GrowsStale(j) PROVE Ownership'
  <2>1. worker' = worker /\ job[j].status = "processing" /\ job'[j].status = job[j].status
    BY <1>0, <1>2 DEF GrowsStale, TypeOK, JobType
  <2>2. \A w \in Workers : ~Holds(w, j)
    BY <1>2 DEF GrowsStale, Held, Holds
  <2>3. \A i \in Jobs \ {j} : job'[i] = job[i]
    BY <1>0, <1>2 DEF GrowsStale, TypeOK
  <2> QED BY <2>1, <2>2, <2>3
          DEF Ownership, OwnInv, OneOwner, HeldInv, HandInv, StaleInv, Holds
<1>3. ASSUME NEW w \in Workers, Reclaim(w) PROVE Ownership'
  <2>1. worker' = worker
    BY <1>3 DEF Reclaim
  <2>2. \A j \in Jobs : ~job'[j].stale /\ (~job[j].stale => job'[j] = job[j])
    BY <1>0, <1>3 DEF Reclaim, TypeOK, JobType
  <2> QED BY <2>1, <2>2 DEF Ownership, OwnInv, OneOwner, HeldInv, HandInv, StaleInv, Holds
<1>4. ASSUME NEW w \in Workers, Claim(w) PROVE Ownership'
  <2>1. PICK S \in SUBSET Claimable :
          /\ job' = [j \in Jobs |->
               IF j \in S THEN [job[j] EXCEPT !.status = "processing"] ELSE job[j]]
          /\ worker' = [worker EXCEPT ![w].pc = "working", ![w].batch = S]
    BY <1>4 DEF Claim
  <2>2. worker[w].pc = "idle" /\ worker[w].cur = NoJob /\ worker[w].batch = {}
    BY <1>0, <1>4 DEF Claim, TypeOK, OwnInv, HandInv
  <2>3. /\ \A v \in Workers \ {w} : worker'[v] = worker[v]
        /\ worker'[w].batch = S /\ worker'[w].cur = NoJob /\ worker'[w].pc = "working"
    BY <1>0, <2>1, <2>2 DEF TypeOK, WorkerType
  <2>4. \A j \in S : j \in Jobs /\ job[j].status = "pending" /\ ~job[j].stale
    BY <1>0 DEF Claimable, OwnInv, StaleInv, TypeOK, JobType
  <2>5. /\ \A j \in S : job'[j].status = "processing" /\ ~job'[j].stale
        /\ \A j \in Jobs \ S : job'[j] = job[j]
    BY <1>0, <2>1, <2>4 DEF TypeOK, JobType
  <2>6. \A v \in Workers, j \in S : ~Holds(v, j)
    BY <2>4 DEF OwnInv, HeldInv
  <2>7. \A v \in Workers, j \in Jobs :
          Holds(v, j)' => IF v = w THEN j \in S ELSE Holds(v, j) /\ j \notin S
    BY <2>3, <2>6, OutboxAssumption DEF Holds
  <2>8. OneOwner'
    BY <2>7 DEF OwnInv, OneOwner
  <2>9. HeldInv'
    BY <2>5, <2>7 DEF OwnInv, HeldInv
  <2>10. HandInv'
    BY <2>3, <2>4, OutboxAssumption DEF OwnInv, HandInv
  <2>11. StaleInv'
    BY <2>5 DEF OwnInv, StaleInv
  <2> QED BY <2>8, <2>9, <2>10, <2>11 DEF Ownership
<1>5. ASSUME NEW w \in Workers, NEW j \in Jobs, NEW n \in JobType,
             Holds(w, j), ~n.stale, job' = [job EXCEPT ![j] = n],
             NextJob(w, worker[w].batch \ {j})
      PROVE  Ownership'
  <2>1. worker[w].batch \ {j} \in SUBSET Jobs
    BY <1>0 DEF TypeOK, WorkerType
  <2>2. /\ \A v \in Workers \ {w} : worker'[v] = worker[v]
        /\ worker'[w].pc \in {"idle", "working"} /\ worker'[w].cur = NoJob
        /\ worker'[w].batch = worker[w].batch \ {j}
    BY <1>0, <1>5, <2>1, NextJobEffect
  <2>3. worker'[w].pc = "idle" => worker'[w].batch = {}
    BY <1>0, <1>5 DEF NextJob, IdleWorker, TypeOK
  <2>4. \A i \in Jobs : Holds(w, i)' => Holds(w, i) /\ i # j
    BY <2>2, OutboxAssumption DEF Holds
  <2>5. ~job'[j].stale /\ \A i \in Jobs \ {j} : job'[i] = job[i]
    BY <1>0, <1>5 DEF TypeOK
  <2>6. HandInv'
    BY <2>1, <2>2, <2>3, OutboxAssumption DEF OwnInv, HandInv
  <2> QED BY <1>5, <2>2, <2>4, <2>5, <2>6, LetGo DEF Ownership
<1>6. ASSUME NEW w \in Workers, NEW j \in Jobs, Skip(w, j) PROVE Ownership'
  <2>2. Concluded("succeeded", job[j].attempts) \in JobType
    BY <1>0, ConcludedType DEF TypeOK, JobType
  <2>3. ~Concluded("succeeded", job[j].attempts).stale
    BY DEF Concluded
  <2> QED BY <1>0, <1>5, <1>6, <2>2, <2>3 DEF Skip, Holds, TypeOK
<1>7. ASSUME NEW w \in Workers, Inspect(w) PROVE Ownership'
  <2>1. worker[w].cur \in Jobs /\ worker[w].attempts \in Nat
        /\ worker[w].batch = worker[w].batch \ {worker[w].cur}
    BY <1>0, <1>7 DEF Inspect, TypeOK, WorkerType, OwnInv, HandInv
  <2>2. Verdict(worker[w].cur, worker[w].attempts) \in JobType
    BY <2>1, VerdictType
  <2>3. ~Verdict(worker[w].cur, worker[w].attempts).stale
    BY DEF Verdict, AfterTemporaryFailure, Concluded
  <2> QED BY <1>5, <1>7, <2>1, <2>2, <2>3 DEF Inspect, Holds
<1>8. ASSUME NEW w \in Workers, SendRaises(w) PROVE Ownership'
  <2>1. worker[w].cur \in Jobs /\ worker[w].attempts \in Nat
        /\ worker[w].batch = worker[w].batch \ {worker[w].cur}
    BY <1>0, <1>8 DEF SendRaises, TypeOK, WorkerType, OwnInv, HandInv
  <2>2. PICK outcome \in {AfterTemporaryFailure(worker[w].attempts),
                          Concluded("failed", worker[w].attempts + 1)} :
          job' = [job EXCEPT ![worker[w].cur] = outcome]
    BY <1>8 DEF SendRaises
  <2>3. outcome \in JobType
    BY <2>1, TemporaryType, ConcludedType
  <2>4. ~outcome.stale
    BY DEF AfterTemporaryFailure, Concluded
  <2> QED BY ZenonT(60), <1>5, <1>8, <2>1, <2>2, <2>3, <2>4 DEF SendRaises, Holds
<1>9. ASSUME NEW w \in Workers, NEW j \in Jobs, Begin(w, j) \/ Refuse(w, j) PROVE Ownership'
  <2>1. /\ \A v \in Workers \ {w} : worker'[v] = worker[v]
        /\ worker'[w].cur = j /\ worker'[w].batch = worker[w].batch \ {j}
        /\ worker'[w].pc # "idle" /\ job' = job /\ j \in worker[w].batch
    BY <1>0, <1>9 DEF Begin, Refuse, TypeOK
  <2>2. HandInv'
    BY <2>1 DEF OwnInv, HandInv
  <2> QED BY <2>1, <2>2, KeepHolding DEF Ownership, Holds
<1>10. ASSUME NEW w \in Workers, Send(w) \/ \E r \in Recipients : Record(w, r) PROVE Ownership'
  <2>1. /\ \A v \in Workers \ {w} : worker'[v] = worker[v]
        /\ worker'[w].cur = worker[w].cur /\ worker'[w].batch = worker[w].batch
        /\ worker'[w].pc # "idle" /\ job' = job
    <3>1. CASE Send(w)
      BY <1>0, <3>1 DEF Send, TypeOK, WorkerType
    <3>2. ASSUME NEW r \in Recipients, Record(w, r) PROVE <2>1!:
      BY <1>0, <3>2, RecordEffect
    <3> QED BY <1>10, <3>1, <3>2
  <2>2. HandInv'
    BY <2>1 DEF OwnInv, HandInv
  <2> QED BY <2>1, <2>2, KeepHolding DEF Ownership, Holds
<1>11. ASSUME NEW w \in Workers, Crash(w) PROVE Ownership'
  <2>1. /\ \A v \in Workers \ {w} : worker'[v] = worker[v]
        /\ worker'[w] = IdleWorker /\ job' = job
    BY <1>0, <1>11 DEF Crash, TypeOK
  <2>2. HandInv'
    BY <2>1, OutboxAssumption DEF OwnInv, HandInv, IdleWorker
  <2>3. \A i \in Jobs : ~Holds(w, i)'
    BY <2>1, OutboxAssumption DEF Holds, IdleWorker
  <2> QED BY <2>1, <2>2, <2>3, KeepHolding DEF Ownership
<1>12. CASE UNCHANGED vars
  BY <1>12 DEF vars, Ownership, OwnInv, OneOwner, HeldInv, HandInv, StaleInv, Holds
<1> QED
  BY <1>1, <1>2, <1>3, <1>4, <1>6, <1>7, <1>8, <1>9, <1>10, <1>11, <1>12 DEF Next, Process

(* A job has one owner, for any number of workers and crashes.             *)
THEOREM Owned == ASSUME ~LiveStalls PROVE Spec => []OneOwner
<1>1. OwnInv /\ [Next]_vars => OwnInv'
  BY OwnStep
<1>2. OwnInv => OneOwner
  BY DEF OwnInv
<1> QED BY OwnInit, <1>1, <1>2, PTL DEF Spec

-----------------------------------------------------------------------------
(* What rests on ownership.                                                *)

SendInv == OwnInv /\ NeverResend

LEMMA SendStep ==
  ASSUME ~LiveStalls, SendInv, [Next]_vars
  PROVE  SendInv'
<1> SUFFICES NeverResend'
  BY OwnStep DEF SendInv
<1> USE DEF auditVars, history
<1>0. TypeOK /\ OwnInv
  BY DEF SendInv, OwnInv
<1>1. ASSUME NEW w \in Workers, NEW r \in Recipients, Record(w, r) PROVE NeverResend'
  <2>1. /\ \A v \in Workers \ {w} : worker'[v] = worker[v]
        /\ worker'[w].pc # "sending"
    BY <1>0, <1>1, RecordEffect
  <2>2. worker[w].cur \in Jobs
    BY <1>0, <1>1 DEF Record, TypeOK, WorkerType
  <2>3. \A j \in Jobs \ {worker[w].cur} : sent'[j] = sent[j]
    BY <1>0, <1>1 DEF Record, TypeOK
  <2>4. ASSUME NEW v \in Workers, v # w, worker[v].pc = "sending"
        PROVE  worker[v].cur \in Jobs \ {worker[w].cur}
    BY <1>0, <2>2, <2>4 DEF OwnInv, OneOwner, Holds, TypeOK, WorkerType
  <2> QED BY <2>1, <2>3, <2>4 DEF SendInv, NeverResend
<1>2. ASSUME NEW w \in Workers, NEW j \in Jobs, Begin(w, j) PROVE NeverResend'
  BY <1>0, <1>2 DEF Begin, ToSend, SendInv, NeverResend, TypeOK
<1>3. ASSUME NEW w \in Workers, NEW rest \in SUBSET Jobs, NextJob(w, rest), UNCHANGED sent
      PROVE  NeverResend'
  BY <1>0, <1>3, NextJobEffect DEF SendInv, NeverResend
<1>4. ASSUME NEW w \in Workers, (\E j \in Jobs : Skip(w, j)) \/ Inspect(w) \/ SendRaises(w)
      PROVE  NeverResend'
  <2>1. UNCHANGED sent /\ \E rest \in SUBSET Jobs : NextJob(w, rest)
    BY <1>0, <1>4 DEF Skip, Inspect, SendRaises, TypeOK, WorkerType
  <2> QED BY <1>3, <2>1
<1>5. ASSUME NEW w \in Workers, Claim(w) \/ (\E j \in Jobs : Refuse(w, j)) \/ Send(w) \/ Crash(w)
      PROVE  NeverResend'
  <2>1. UNCHANGED sent
    BY <1>5 DEF Claim, Refuse, Send, Crash
  <2>2. \A v \in Workers \ {w} : worker'[v] = worker[v]
    BY <1>0, <1>5 DEF Claim, Refuse, Send, Crash, TypeOK
  <2>3. worker'[w].pc # "sending"
    BY <1>0, <1>5 DEF Claim, Refuse, Send, Crash, IdleWorker, TypeOK, WorkerType
  <2> QED BY <2>1, <2>2, <2>3 DEF SendInv, NeverResend
<1>6. ASSUME UNCHANGED <<sent, worker>> PROVE NeverResend'
  BY <1>6 DEF SendInv, NeverResend
<1>7. ASSUME NEW j \in Jobs, Enqueue(j) \/ TimePasses(j) \/ GrowsStale(j) PROVE NeverResend'
  BY <1>6, <1>7 DEF Enqueue, TimePasses, GrowsStale
<1>8. ASSUME NEW w \in Workers, Reclaim(w) PROVE NeverResend'
  BY <1>6, <1>8 DEF Reclaim
<1>9. CASE UNCHANGED vars
  BY <1>6, <1>9 DEF vars
<1> QED
  BY <1>1, <1>2, <1>4, <1>5, <1>7, <1>8, <1>9 DEF Next, Process

(* Retries never send to a recipient already marked sent, as long as only  *)
(* jobs of dead workers are reclaimed.                                     *)
THEOREM RetriesAreIdempotent == ASSUME ~LiveStalls PROVE Spec => []NeverResend
<1>1. Init => SendInv
  BY OwnInit DEF Init, SendInv, NeverResend, IdleWorker
<1>2. SendInv /\ [Next]_vars => SendInv'
  BY SendStep
<1>3. SendInv => NeverResend
  BY DEF SendInv
<1> QED BY <1>1, <1>2, <1>3, PTL DEF Spec

(* A row whose job somebody holds, or that is pending, is not terminal;    *)
(* only such rows are written.                                             *)
LEMMA TerminalStep ==
  ASSUME OwnInv, [Next]_vars, NEW j \in Jobs, job[j].status \in Terminal
  PROVE  job'[j].status = job[j].status
<1> USE DEF auditVars, history
<1>0. TypeOK /\ \A w \in Workers : ~Holds(w, j)
  BY DEF OwnInv, HeldInv
<1>1. ~job[j].stale
  BY DEF OwnInv, StaleInv
<1>2. ASSUME NEW i \in Jobs, Enqueue(i) \/ TimePasses(i) \/ GrowsStale(i)
      PROVE  job'[j] = job[j]
  BY <1>0, <1>2 DEF Enqueue, TimePasses, GrowsStale, TypeOK
<1>3. ASSUME NEW w \in Workers, Reclaim(w) PROVE job'[j] = job[j]
  BY <1>0, <1>1, <1>3 DEF Reclaim, TypeOK
<1>4. ASSUME NEW w \in Workers, Claim(w) PROVE job'[j] = job[j]
  BY <1>0, <1>4 DEF Claim, Claimable, TypeOK
<1>5. ASSUME NEW w \in Workers, NEW i \in Jobs, Skip(w, i) PROVE job'[j] = job[j]
  BY <1>0, <1>5 DEF Skip, Holds, TypeOK
<1>6. ASSUME NEW w \in Workers, Inspect(w) \/ SendRaises(w) PROVE job'[j] = job[j]
  BY <1>0, <1>6 DEF Inspect, SendRaises, Holds, TypeOK
<1>7. ASSUME NEW w \in Workers,
             \/ \E i \in Jobs : Begin(w, i) \/ Refuse(w, i)
             \/ Send(w) \/ (\E r \in Recipients : Record(w, r)) \/ Crash(w)
      PROVE  job' = job
  BY <1>7 DEF Begin, Refuse, Send, Record, Crash
<1>8. CASE UNCHANGED vars
  BY <1>8 DEF vars
<1> QED
  BY <1>2, <1>3, <1>4, <1>5, <1>6, <1>7, <1>8 DEF Next, Process

(* The outcome of a job never changes.                                     *)
THEOREM OutcomeIsFinal == ASSUME ~LiveStalls PROVE Spec => TerminalIsFinal
<1>1. OwnInv /\ [Next]_vars => OwnInv'
  BY OwnStep
<1>2. OwnInv /\ [Next]_vars =>
        [\A j \in Jobs : job[j].status \in Terminal => job'[j].status = job[j].status]_vars
  BY TerminalStep
<1> QED BY OwnInit, <1>1, <1>2, PTL DEF Spec, TerminalIsFinal

-----------------------------------------------------------------------------
(* Attempts.                                                               *)

(* The attempt count a worker carries is below the cap.                    *)
AttemptInv ==
  /\ OwnInv
  /\ AttemptsBounded
  /\ \A w \in Workers : worker[w].cur # NoJob => worker[w].attempts < MaxAttempts

LEMMA AttemptStep ==
  ASSUME ~LiveStalls, AttemptInv, [Next]_vars
  PROVE  AttemptInv'
<1> DEFINE Counts == \A w \in Workers : worker[w].cur # NoJob => worker[w].attempts < MaxAttempts
<1> SUFFICES AttemptsBounded' /\ Counts'
  BY OwnStep DEF AttemptInv
<1> USE DEF auditVars, history
<1>0. TypeOK /\ OwnInv /\ AttemptsBounded /\ Counts /\ MaxAttempts \in Nat \ {0}
  BY OutboxAssumption DEF AttemptInv, OwnInv
<1> HIDE DEF Counts
<1>1. ASSUME UNCHANGED worker PROVE Counts'
  BY <1>0, <1>1 DEF Counts
<1>2. ASSUME UNCHANGED job PROVE AttemptsBounded'
  BY <1>0, <1>2 DEF AttemptsBounded
<1>3. ASSUME NEW w \in Workers, NEW rest \in SUBSET Jobs, NextJob(w, rest) PROVE Counts'
  BY <1>0, <1>3, NextJobEffect DEF Counts
<1>4. ASSUME NEW j \in Jobs, NEW n \in JobType, job' = [job EXCEPT ![j] = n],
             n.attempts <= MaxAttempts,
             n.status \in {"pending", "processing"} => n.attempts < MaxAttempts
      PROVE  AttemptsBounded'
  BY <1>0, <1>4 DEF AttemptsBounded, TypeOK
<1>5. ASSUME NEW n \in Nat, n < MaxAttempts, NEW s \in Terminal
      PROVE  /\ Concluded(s, n + 1).attempts <= MaxAttempts
             /\ Concluded(s, n + 1).status \notin {"pending", "processing"}
             /\ AfterTemporaryFailure(n).attempts <= MaxAttempts
             /\ AfterTemporaryFailure(n).status \in {"pending", "processing"}
                  => AfterTemporaryFailure(n).attempts < MaxAttempts
  BY <1>0, <1>5 DEF AfterTemporaryFailure, Concluded
<1>6. ASSUME NEW j \in Jobs, Enqueue(j) \/ TimePasses(j) \/ GrowsStale(j)
      PROVE  AttemptsBounded' /\ Counts'
  <2>1. UNCHANGED worker /\ \A i \in Jobs \ {j} : job'[i] = job[i]
    BY <1>0, <1>6 DEF Enqueue, TimePasses, GrowsStale, TypeOK
  <2>2. \/ job'[j].attempts = 0
        \/ job'[j].attempts = job[j].attempts /\ job'[j].status = job[j].status
    <3>1. CASE Enqueue(j)
      BY <1>0, <3>1 DEF Enqueue, Fresh, TypeOK
    <3>2. CASE TimePasses(j)
      BY <1>0, <3>2 DEF TimePasses, TypeOK, JobType
    <3>3. CASE GrowsStale(j)
      BY <1>0, <3>3 DEF GrowsStale, TypeOK, JobType
    <3> QED BY <1>6, <3>1, <3>2, <3>3
  <2> QED BY <1>0, <1>1, <2>1, <2>2 DEF AttemptsBounded
<1>7. ASSUME NEW w \in Workers, Reclaim(w) PROVE AttemptsBounded' /\ Counts'
  <2>1. \A j \in Jobs : /\ job'[j].attempts = job[j].attempts
                        /\ job[j].stale => job[j].status = "processing"
                        /\ ~job[j].stale => job'[j] = job[j]
    BY <1>0, <1>7 DEF Reclaim, OwnInv, StaleInv, TypeOK, JobType
  <2> QED BY <1>0, <1>1, <1>7, <2>1 DEF Reclaim, AttemptsBounded
<1>8. ASSUME NEW w \in Workers, Claim(w) PROVE AttemptsBounded' /\ Counts'
  <2>1. PICK S \in SUBSET Claimable :
          /\ job' = [j \in Jobs |->
               IF j \in S THEN [job[j] EXCEPT !.status = "processing"] ELSE job[j]]
          /\ worker' = [worker EXCEPT ![w].pc = "working", ![w].batch = S]
    BY <1>8 DEF Claim
  <2>2. \A j \in Jobs : /\ job'[j].attempts = job[j].attempts
                        /\ j \in S => job[j].status = "pending"
                        /\ j \notin S => job'[j] = job[j]
    BY <1>0, <2>1 DEF Claimable, TypeOK, JobType
  <2>3. \A v \in Workers : worker'[v].cur = worker[v].cur /\ worker'[v].attempts = worker[v].attempts
    BY <1>0, <2>1 DEF TypeOK, WorkerType
  <2> QED BY <1>0, <2>2, <2>3 DEF AttemptsBounded, Counts
<1>9. ASSUME NEW w \in Workers, NEW j \in Jobs, Skip(w, j) PROVE AttemptsBounded' /\ Counts'
  <2>1. worker[w].batch \ {j} \in SUBSET Jobs
    BY <1>0 DEF TypeOK, WorkerType
  <2>2. /\ Concluded("succeeded", job[j].attempts) \in JobType
        /\ Concluded("succeeded", job[j].attempts).attempts <= MaxAttempts
        /\ Concluded("succeeded", job[j].attempts).status \notin {"pending", "processing"}
    BY <1>0, ConcludedType DEF Concluded, AttemptsBounded, TypeOK, JobType
  <2>3. job' = [job EXCEPT ![j] = Concluded("succeeded", job[j].attempts)]
    BY <1>9 DEF Skip
  <2> QED BY <1>3, <1>4, <1>9, <2>1, <2>2, <2>3 DEF Skip
<1>10. ASSUME NEW w \in Workers, NEW j \in Jobs, Begin(w, j) \/ Refuse(w, j)
       PROVE  AttemptsBounded' /\ Counts'
  <2>1. /\ \A v \in Workers \ {w} : worker'[v] = worker[v]
        /\ worker'[w].attempts = job[j].attempts /\ job' = job /\ Holds(w, j)
    BY <1>0, <1>10 DEF Begin, Refuse, Holds, TypeOK
  <2>2. job[j].attempts < MaxAttempts
    BY <1>0, <2>1 DEF OwnInv, HeldInv, AttemptsBounded
  <2> QED BY <1>0, <1>2, <2>1, <2>2 DEF Counts
<1>11. ASSUME NEW w \in Workers, Send(w) \/ \E r \in Recipients : Record(w, r)
       PROVE  AttemptsBounded' /\ Counts'
  <2>1. /\ \A v \in Workers \ {w} : worker'[v] = worker[v]
        /\ worker'[w].cur = worker[w].cur /\ worker'[w].attempts = worker[w].attempts
        /\ job' = job
    <3>1. CASE Send(w)
      BY <1>0, <3>1 DEF Send, TypeOK, WorkerType
    <3>2. CASE \E r \in Recipients : Record(w, r)
      BY <1>0, <3>2, RecordEffect
    <3> QED BY <1>11, <3>1, <3>2
  <2> QED BY <1>0, <1>2, <2>1 DEF Counts
<1>12. ASSUME NEW w \in Workers, Inspect(w) \/ SendRaises(w)
       PROVE  AttemptsBounded' /\ Counts'
  <2> DEFINE n == worker[w].attempts
  <2>1. /\ worker[w].cur \in Jobs /\ worker[w].cur # NoJob
        /\ worker[w].batch \in SUBSET Jobs /\ n \in Nat /\ NextJob(w, worker[w].batch)
    BY <1>0, <1>12, OutboxAssumption DEF Inspect, SendRaises, TypeOK, WorkerType
  <2>2. n < MaxAttempts
    BY <1>0, <2>1 DEF Counts
  <2>3. PICK row \in {Verdict(worker[w].cur, n), AfterTemporaryFailure(n), Concluded("failed", n + 1)} :
          job' = [job EXCEPT ![worker[w].cur] = row]
    BY <1>12 DEF Inspect, SendRaises
  <2> HIDE DEF n
  <2>4. row \in {Concluded("failed", n + 1), Concluded("succeeded", n + 1), AfterTemporaryFailure(n)}
    BY <2>3 DEF Verdict
  <2>5. /\ row \in JobType /\ row.attempts <= MaxAttempts
        /\ row.status \in {"pending", "processing"} => row.attempts < MaxAttempts
    BY <1>5, <2>1, <2>2, <2>4, ConcludedType, TemporaryType
  <2> QED BY <1>3, <1>4, <2>1, <2>3, <2>5
<1>13. ASSUME NEW w \in Workers, Crash(w) PROVE AttemptsBounded' /\ Counts'
  BY <1>0, <1>2, <1>13 DEF Crash, IdleWorker, Counts, TypeOK
<1>14. CASE UNCHANGED vars
  BY <1>1, <1>2, <1>14 DEF vars
<1> QED
  BY <1>6, <1>7, <1>8, <1>9, <1>10, <1>11, <1>12, <1>13, <1>14 DEF Next, Process

(* max_attempts bounds the attempts of every job.                          *)
THEOREM AttemptsAreBounded == ASSUME ~LiveStalls PROVE Spec => []AttemptsBounded
<1>1. Init => AttemptInv
  BY OwnInit, OutboxAssumption DEF Init, AttemptInv, AttemptsBounded, Absent, IdleWorker
<1>2. AttemptInv /\ [Next]_vars => AttemptInv'
  BY AttemptStep
<1>3. AttemptInv => AttemptsBounded
  BY DEF AttemptInv
<1> QED BY <1>1, <1>2, <1>3, PTL DEF Spec

-----------------------------------------------------------------------------
(* Refinement of OutboxPromise.                                            *)

RefInv == OwnInv /\ RealInv

(* Rewriting the row of an open job moves the promise by that job alone.   *)
LEMMA OutcomeMoves ==
  ASSUME TypeOK, NEW j \in Jobs, NEW n \in JobType, job' = [job EXCEPT ![j] = n],
         n.status # "absent"
  PROVE  Outcome' = [Outcome EXCEPT ![j] =
                       IF n.status \in Terminal THEN n.status ELSE "open"]
<1>1. \A i \in Jobs : job'[i] = IF i = j THEN n ELSE job[i]
  BY DEF TypeOK
<1> QED BY <1>1 DEF Outcome

LEMMA SameOutcome ==
  ASSUME \A j \in Jobs :
           \/ job'[j].status = job[j].status
           \/ {job[j].status, job'[j].status} \cap ({"absent"} \cup Terminal) = {}
  PROVE  Outcome' = Outcome
BY DEF Outcome

LEMMA PromiseInit == Init => Promise!Init
BY DEF Init, Promise!Init, Outcome, Absent

LEMMA PromiseStep ==
  ASSUME RefInv, [Next]_vars
  PROVE  [Promise!Next]_(Promise!vars)
<1> USE DEF auditVars, history
<1>0. TypeOK /\ OwnInv /\ RealInv
  BY DEF RefInv, OwnInv
<1>1. ASSUME Outcome' = Outcome, sent' = sent PROVE UNCHANGED Promise!vars
  BY <1>1 DEF Promise!vars
<1>2. ASSUME NEW j \in Jobs, Enqueue(j) PROVE Promise!Next
  <2>1. Outcome[j] = "none" /\ sent' = sent
    BY <1>2 DEF Enqueue, Outcome
  <2>2. Fresh \in JobType /\ Fresh.status = "pending"
    BY DEF Fresh, JobType
  <2>3. Outcome' = [Outcome EXCEPT ![j] = "open"]
    BY <1>0, <1>2, <2>2, OutcomeMoves DEF Enqueue
  <2> QED BY <2>1, <2>3 DEF Promise!Next, Promise!Accept
<1>3. ASSUME NEW j \in Jobs, TimePasses(j) \/ GrowsStale(j) PROVE UNCHANGED Promise!vars
  <2>1. sent' = sent /\ \A i \in Jobs : job'[i].status = job[i].status
    <3>1. CASE TimePasses(j)
      BY <1>0, <3>1 DEF TimePasses, TypeOK, JobType
    <3>2. CASE GrowsStale(j)
      BY <1>0, <3>2 DEF GrowsStale, TypeOK, JobType
    <3> QED BY <1>3, <3>1, <3>2
  <2> QED BY <1>1, <2>1, SameOutcome
<1>4. ASSUME NEW w \in Workers, Reclaim(w) \/ Claim(w) PROVE UNCHANGED Promise!vars
  <2>1. \A j \in Jobs :
          \/ job'[j].status = job[j].status
          \/ {job[j].status, job'[j].status} \subseteq {"pending", "processing"}
    <3>1. CASE Reclaim(w)
      BY <1>0, <3>1 DEF Reclaim, OwnInv, StaleInv, TypeOK, JobType
    <3>2. CASE Claim(w)
      BY <1>0, <3>2 DEF Claim, Claimable, TypeOK, JobType
    <3> QED BY <1>4, <3>1, <3>2
  <2> QED BY <1>1, <1>4, <2>1, SameOutcome DEF Reclaim, Claim
<1>5. ASSUME NEW j \in Jobs, NEW n \in JobType, job' = [job EXCEPT ![j] = n],
             NEW w \in Workers, Holds(w, j), sent' = sent,
             n.status \in {"pending"} \cup Terminal,
             n.status = "succeeded" => sent[j] # {}
      PROVE  [Promise!Next]_(Promise!vars)
  <2>1. Outcome[j] = "open"
    BY <1>0, <1>5 DEF OwnInv, HeldInv, Outcome
  <2>2. Outcome' = [Outcome EXCEPT ![j] = IF n.status \in Terminal THEN n.status ELSE "open"]
    BY <1>0, <1>5, OutcomeMoves
  <2>3. CASE n.status = "pending"
    <3>1. Outcome' = Outcome
      BY <2>1, <2>2, <2>3 DEF Outcome
    <3> QED BY <1>1, <1>5, <3>1
  <2>4. CASE n.status = "succeeded"
    BY <1>5, <2>1, <2>2, <2>4 DEF Promise!Next, Promise!Succeed
  <2>5. CASE n.status = "failed"
    BY <1>5, <2>1, <2>2, <2>5 DEF Promise!Next, Promise!Fail
  <2> QED BY <1>5, <2>3, <2>4, <2>5
<1>6. ASSUME NEW w \in Workers, NEW j \in Jobs, Skip(w, j) PROVE [Promise!Next]_(Promise!vars)
  <2>1. Concluded("succeeded", job[j].attempts) \in JobType
    BY <1>0, ConcludedType DEF TypeOK, JobType
  <2> QED BY <1>5, <1>6, <2>1 DEF Skip, AlreadyFullySent, Holds, Concluded
<1>7. ASSUME NEW w \in Workers, NEW j \in Jobs, Begin(w, j) \/ Refuse(w, j)
      PROVE  UNCHANGED Promise!vars
  BY <1>1, <1>7 DEF Begin, Refuse, Outcome
<1>8. ASSUME NEW w \in Workers, Send(w) \/ Crash(w) PROVE UNCHANGED Promise!vars
  BY <1>1, <1>8 DEF Send, Crash, Outcome
<1>9. ASSUME NEW w \in Workers, NEW r \in Recipients, Record(w, r)
      PROVE  [Promise!Next]_(Promise!vars)
  <2>1. worker[w].cur \in Jobs
    BY <1>0, <1>9 DEF Record, TypeOK, WorkerType
  <2>2. Outcome' = Outcome /\ Outcome[worker[w].cur] = "open"
    BY <1>0, <1>9, <2>1 DEF Record, Outcome, OwnInv, HeldInv, Holds
  <2>3. CASE r \in worker[w].ok /\ r \notin sent[worker[w].cur]
    <3>1. sent' = [sent EXCEPT ![worker[w].cur] = sent[worker[w].cur] \cup {r}]
      BY <1>9, <2>3 DEF Record
    <3> QED BY <2>1, <2>2, <2>3, <3>1 DEF Promise!Next, Promise!Confirm
  <2>4. CASE ~(r \in worker[w].ok /\ r \notin sent[worker[w].cur])
    <3>1. CASE r \notin worker[w].ok
      BY <1>1, <1>9, <2>2, <3>1 DEF Record
    <3>2. CASE r \in sent[worker[w].cur] /\ r \in worker[w].ok
      <4>1. sent' = [sent EXCEPT ![worker[w].cur] = sent[worker[w].cur] \cup {r}]
        BY <1>9, <3>2 DEF Record
      <4>2. sent[worker[w].cur] \cup {r} = sent[worker[w].cur]
        BY <3>2
      <4>3. sent' = sent
        BY <1>0, <2>1, <4>1, <4>2 DEF TypeOK
      <4> QED BY <1>1, <2>2, <4>3
    <3> QED BY <2>4, <3>1, <3>2
  <2> QED BY <2>3, <2>4
<1>10. ASSUME NEW w \in Workers, Inspect(w) PROVE [Promise!Next]_(Promise!vars)
  <2> DEFINE j == worker[w].cur
             n == Verdict(worker[w].cur, worker[w].attempts)
  <2>1. j \in Jobs /\ n \in JobType
    BY <1>0, <1>10, VerdictType DEF Inspect, TypeOK, WorkerType
  <2>2. n.status \in {"pending"} \cup Terminal
    BY DEF Verdict, AfterTemporaryFailure, Concluded
  <2>3. n.status = "succeeded" => sent[j] # {}
    BY <1>0, <1>10 DEF Inspect, Verdict, AfterTemporaryFailure, Concluded, RealInv, HandReal
  <2>4. job' = [job EXCEPT ![j] = n] /\ Holds(w, j) /\ sent' = sent
    BY <1>10 DEF Inspect, Holds
  <2> HIDE DEF j, n
  <2> QED BY <1>5, <2>1, <2>2, <2>3, <2>4
<1>11. ASSUME NEW w \in Workers, SendRaises(w) PROVE [Promise!Next]_(Promise!vars)
  <2>1. worker[w].cur \in Jobs /\ worker[w].attempts \in Nat
    BY <1>0, <1>11 DEF SendRaises, TypeOK, WorkerType
  <2>2. PICK n \in {AfterTemporaryFailure(worker[w].attempts),
                    Concluded("failed", worker[w].attempts + 1)} :
          job' = [job EXCEPT ![worker[w].cur] = n]
    BY <1>11 DEF SendRaises
  <2>3. n \in JobType
    BY <2>1, TemporaryType, ConcludedType
  <2>4. n.status \in {"pending", "failed"}
    BY DEF AfterTemporaryFailure, Concluded
  <2>5. Holds(w, worker[w].cur) /\ sent' = sent
    BY <1>11 DEF SendRaises, Holds
  <2> QED BY <1>5, <2>1, <2>2, <2>3, <2>4, <2>5
<1>12. CASE UNCHANGED vars
  BY <1>1, <1>12 DEF vars, Outcome
<1> QED
  BY <1>2, <1>3, <1>4, <1>6, <1>7, <1>8, <1>9, <1>10, <1>11, <1>12 DEF Next, Process

(* Every step of the outbox, crashes included, is a step of its promise or *)
(* leaves it alone.                                                        *)
THEOREM ImplementsPromise == ASSUME ~LiveStalls PROVE Spec => KeepsPromise
<1>1. Init => RefInv
  BY OwnInit, RealInit DEF RefInv
<1>2. RefInv /\ [Next]_vars => RefInv'
  BY OwnStep, RealStep DEF RefInv
<1>3. RefInv /\ [Next]_vars => [Promise!Next]_(Promise!vars)
  BY PromiseStep
<1> QED BY PromiseInit, <1>1, <1>2, <1>3, PTL DEF Spec, KeepsPromise, Promise!Spec

-----------------------------------------------------------------------------
(* Every recipient of a job that succeeded has a row, if none of its       *)
(* attempts was broken off after a SENT row: such a job has no SENT row,   *)
(* or all its rows, when nobody has it in hand, and a worker that has      *)
(* written the last row of an attempt has written all.                     *)

InHand(j) == \E w \in Workers : worker[w].cur = j
Complete(j) == sent[j] \cup failed[j] = Recipients
Whole(j) == sent[j] = {} \/ Complete(j)

Unsent ==
  \A j \in Jobs \ brokenOff : job[j].status \notin Terminal /\ ~InHand(j) => Whole(j)

(* A worker's job, between the steps of an attempt.                        *)
Works(w) ==
  /\ worker[w].pc = "sending" =>
       Whole(worker[w].cur) /\ Recipients \subseteq sent[worker[w].cur] \cup worker[w].todo
  /\ worker[w].pc = "recording" =>
       Recipients \subseteq sent[worker[w].cur] \cup failed[worker[w].cur] \cup worker[w].todo
  /\ worker[w].pc = "inspect" =>
       \/ Complete(worker[w].cur)
       \/ sent[worker[w].cur] = {} /\ failed[worker[w].cur] # {}
InWork ==
  \A w \in Workers : worker[w].cur \in Jobs \ brokenOff => Works(w)

Audited  == Unsent /\ InWork /\ AuditedUnlessBrokenOff
AuditInv == OwnInv /\ Audited

(* A worker puts the job in hand down and may write its row.               *)
LEMMA AuditEnds ==
  ASSUME OwnInv, Audited, NEW w \in Workers, NEW j \in Jobs, NEW n \in JobType,
         Holds(w, j), worker[w].cur \in {j, NoJob},
         job' = [job EXCEPT ![j] = n], UNCHANGED <<sent, failed>>,
         \A v \in Workers \ {w} : worker'[v] = worker[v],
         worker'[w].cur = NoJob,
         brokenOff \subseteq brokenOff', brokenOff' \subseteq Jobs,
         j \notin brokenOff' /\ n.status \notin Terminal => Whole(j),
         j \notin brokenOff' /\ n.status = "succeeded" => Complete(j)
  PROVE  Audited'
<1>1. job'[j] = n /\ \A i \in Jobs \ {j} : job'[i] = job[i]
  BY DEF OwnInv, TypeOK
<1>2. \A i \in Jobs \ {j} : InHand(i) => InHand(i)'
  BY OutboxAssumption DEF InHand
<1>3. Unsent'
  BY <1>1, <1>2 DEF Audited, Unsent, Whole, Complete
<1>4. InWork'
  <2>1. ASSUME NEW v \in Workers, worker'[v].cur \in Jobs \ brokenOff'
        PROVE  Works(v)'
    <3>1. v # w /\ worker'[v] = worker[v] /\ worker[v].cur \in Jobs \ brokenOff
      BY <2>1, OutboxAssumption
    <3>2. Works(v)
      BY <3>1 DEF Audited, InWork
    <3>3. QED
      BY <3>1, <3>2 DEF Works, Whole, Complete
  <2>2. QED
    BY <2>1 DEF InWork
<1>5. AuditedUnlessBrokenOff'
  BY <1>1 DEF Audited, AuditedUnlessBrokenOff, Complete
<1>6. QED
  BY <1>3, <1>4, <1>5 DEF Audited

(* A worker goes on with the job it holds, and writes rows of that job.    *)
LEMMA AuditWorks ==
  ASSUME OwnInv, Audited, NEW w \in Workers, NEW j \in Jobs,
         Holds(w, j), worker[w].cur \in {j, NoJob}, worker'[w].cur = j,
         UNCHANGED <<job, brokenOff>>,
         \A v \in Workers \ {w} : worker'[v] = worker[v],
         \A i \in Jobs \ {j} : sent'[i] = sent[i] /\ failed'[i] = failed[i],
         j \notin brokenOff => Works(w)'
  PROVE  Audited'
<1>1. \A i \in Jobs \ {j} : InHand(i) => InHand(i)'
  BY OutboxAssumption DEF InHand
<1>2. InHand(j)'
  BY DEF InHand
<1>3. Unsent'
  BY <1>1, <1>2 DEF Audited, Unsent, Whole, Complete
<1>4. InWork'
  <2>1. ASSUME NEW v \in Workers, v # w, worker'[v].cur \in Jobs \ brokenOff'
        PROVE  Works(v)'
    <3>1. worker'[v] = worker[v] /\ worker[v].cur # j
      BY <2>1 DEF OwnInv, OneOwner, Holds
    <3>2. worker[v].cur \in Jobs \ {j} /\ Works(v)
      BY <2>1, <3>1 DEF Audited, InWork
    <3>3. QED
      BY <3>1, <3>2 DEF Works, Whole, Complete
  <2>2. QED
    BY <2>1 DEF InWork
<1>5. job[j].status = "processing"
  BY DEF OwnInv, HeldInv
<1>6. AuditedUnlessBrokenOff'
  BY <1>5 DEF Audited, AuditedUnlessBrokenOff
<1>7. QED
  BY <1>3, <1>4, <1>6 DEF Audited

(* A step that writes no delivery row and takes no worker's job away.      *)
LEMMA AuditIdles ==
  ASSUME OwnInv, Audited, UNCHANGED <<sent, failed, brokenOff>>,
         \A w \in Workers :
           \/ worker'[w] = worker[w]
           \/ worker[w].pc = "idle" /\ worker'[w].cur = NoJob,
         \A j \in Jobs :
           /\ job'[j].status \notin Terminal => job[j].status \notin Terminal
           /\ job'[j].status = "succeeded" => job[j].status = "succeeded"
  PROVE  Audited'
<1>1. \A w \in Workers : worker[w].pc = "idle" => worker[w].cur \notin Jobs
  BY OutboxAssumption DEF OwnInv, TypeOK
<1>2. \A j \in Jobs : InHand(j) => InHand(j)'
  BY <1>1 DEF InHand
<1>3. Unsent'
  BY <1>2 DEF Audited, Unsent, Whole, Complete
<1>4. InWork'
  <2>1. ASSUME NEW v \in Workers, worker'[v].cur \in Jobs \ brokenOff'
        PROVE  Works(v)'
    <3>1. worker'[v] = worker[v] /\ Works(v)
      BY <2>1, OutboxAssumption DEF Audited, InWork
    <3>2. QED
      BY <3>1 DEF Works, Whole, Complete
  <2>2. QED
    BY <2>1 DEF InWork
<1>5. AuditedUnlessBrokenOff'
  BY DEF Audited, AuditedUnlessBrokenOff
<1> QED BY <1>3, <1>4, <1>5 DEF Audited

LEMMA AuditStep ==
  ASSUME ~LiveStalls, AuditInv, [Next]_vars
  PROVE  AuditInv'
<1> SUFFICES Audited'
  BY OwnStep DEF AuditInv
<1> USE DEF auditVars, history
<1>0. /\ TypeOK /\ OwnInv
      /\ \A w \in Workers :
           /\ worker[w].pc = "working" => worker[w].cur = NoJob
           /\ worker[w].batch \in SUBSET Jobs /\ worker[w].attempts \in Nat
           /\ \A j \in worker[w].batch : Holds(w, j)
  BY DEF AuditInv, OwnInv, TypeOK, WorkerType, Holds
<1>held. ASSUME NEW w \in Workers, worker[w].pc \in {"sending", "recording", "inspect"}
      PROVE  worker[w].cur \in Jobs /\ Holds(w, worker[w].cur)
  BY <1>0, <1>held DEF TypeOK, WorkerType, Holds
<1>1. Audited
  BY DEF AuditInv
<1>2. ASSUME NEW j \in Jobs, Enqueue(j) \/ TimePasses(j) \/ GrowsStale(j) PROVE Audited'
  <2>1. UNCHANGED <<sent, failed, brokenOff, worker>> /\ \A i \in Jobs \ {j} : job'[i] = job[i]
    BY <1>0, <1>2 DEF Enqueue, TimePasses, GrowsStale, TypeOK
  <2>2. job[j].status \notin Terminal /\ job'[j].status # "succeeded"
    <3>1. CASE Enqueue(j)
      BY <1>0, <3>1 DEF Enqueue, Fresh, TypeOK
    <3>2. CASE TimePasses(j)
      BY <1>0, <3>2 DEF TimePasses, TypeOK, JobType
    <3>3. CASE GrowsStale(j)
      BY <1>0, <3>3 DEF GrowsStale, TypeOK, JobType
    <3> QED BY <1>2, <3>1, <3>2, <3>3
  <2> QED BY <1>0, <1>1, <2>1, <2>2, AuditIdles
<1>3. ASSUME NEW w \in Workers, Reclaim(w) \/ Claim(w) PROVE Audited'
  <2>1. \A j \in Jobs :
          \/ job'[j].status = job[j].status
          \/ {job[j].status, job'[j].status} \subseteq {"pending", "processing"}
    <3>1. CASE Reclaim(w)
      BY <1>0, <3>1 DEF Reclaim, OwnInv, StaleInv, TypeOK, JobType
    <3>2. CASE Claim(w)
      BY <1>0, <3>2 DEF Claim, Claimable, TypeOK, JobType
    <3> QED BY <1>3, <3>1, <3>2
  <2>2. \A v \in Workers :
          \/ worker'[v] = worker[v]
          \/ worker[v].pc = "idle" /\ worker'[v].cur = NoJob
    <3>1. CASE Reclaim(w)
      BY <3>1 DEF Reclaim
    <3>2. CASE Claim(w)
      BY <1>0, <3>2 DEF Claim, TypeOK, WorkerType
    <3> QED BY <1>3, <3>1, <3>2
  <2> QED BY <1>0, <1>1, <1>3, <2>1, <2>2, AuditIdles DEF Reclaim, Claim
<1>4. ASSUME NEW w \in Workers, NEW j \in Jobs, worker[w].pc = "working", j \in worker[w].batch,
             j \notin brokenOff
      PROVE  Whole(j) /\ job[j].status = "processing"
  <2>1. job[j].status = "processing"
    BY <1>0, <1>4 DEF OwnInv, HeldInv
  <2>2. ~InHand(j)
    <3>1. ASSUME NEW v \in Workers, worker[v].cur = j PROVE FALSE
      <4>1. v = w
        BY <1>0, <1>4, <3>1 DEF OwnInv, OneOwner, Holds
      <4> QED BY <1>0, <1>4, <3>1, <4>1, OutboxAssumption
    <3> QED BY <3>1 DEF InHand
  <2> QED BY <1>1, <1>4, <2>1, <2>2 DEF Audited, Unsent
<1>5. ASSUME NEW w \in Workers, NEW j \in Jobs, Skip(w, j) PROVE Audited'
  <2>1. /\ Holds(w, j) /\ worker[w].cur = NoJob /\ job[j].attempts \in Nat
        /\ job' = [job EXCEPT ![j] = Concluded("succeeded", job[j].attempts)]
        /\ NextJob(w, worker[w].batch \ {j}) /\ UNCHANGED <<sent, failed, brokenOff>>
    BY <1>0, <1>5 DEF Skip, TypeOK, JobType
  <2>2. /\ \A v \in Workers \ {w} : worker'[v] = worker[v]
        /\ worker'[w].cur = NoJob
    BY <1>0, <2>1, NextJobEffect
  <2>3. j \notin brokenOff => Complete(j)
    BY <1>4, <1>5 DEF Skip, AlreadyFullySent, Whole
  <2>4. /\ Concluded("succeeded", job[j].attempts) \in JobType
        /\ Concluded("succeeded", job[j].attempts).status = "succeeded"
    BY <2>1, ConcludedType DEF Concluded
  <2>5. brokenOff' \subseteq Jobs /\ brokenOff \subseteq brokenOff'
    BY <1>0, <2>1 DEF TypeOK
  <2> QED BY <1>0, <1>1, <2>1, <2>2, <2>3, <2>4, <2>5, AuditEnds
<1>6. ASSUME NEW w \in Workers, NEW j \in Jobs, Begin(w, j) PROVE Audited'
  <2>1. Holds(w, j) /\ worker[w].cur = NoJob /\ (j \notin brokenOff => Whole(j))
    BY <1>0, <1>4, <1>6 DEF Begin
  <2>2. /\ \A v \in Workers \ {w} : worker'[v] = worker[v]
        /\ worker'[w].cur = j /\ worker'[w].todo = ToSend(j)
        /\ worker'[w].pc = IF ToSend(j) = {} THEN "inspect" ELSE "sending"
        /\ UNCHANGED <<job, sent, failed, brokenOff>>
    BY <1>0, <1>6 DEF Begin, TypeOK
  <2>3. /\ Recipients \subseteq sent[j] \cup ToSend(j)
        /\ ToSend(j) = {} => Complete(j)
    BY <1>0 DEF ToSend, Complete, TypeOK
  <2>4. j \notin brokenOff => Works(w)'
    BY <2>1, <2>2, <2>3 DEF Works, Whole, Complete
  <2> QED BY <1>0, <1>1, <2>1, <2>2, <2>4, AuditWorks
<1>7. ASSUME NEW w \in Workers, NEW j \in Jobs, Refuse(w, j) PROVE Audited'
  <2>1. Holds(w, j) /\ worker[w].cur = NoJob /\ (j \notin brokenOff => Whole(j))
    BY <1>0, <1>4, <1>7 DEF Refuse
  <2>2. /\ \A v \in Workers \ {w} : worker'[v] = worker[v]
        /\ worker'[w].cur = j /\ worker'[w].pc = "inspect"
        /\ UNCHANGED <<job, sent, brokenOff>>
    BY <1>0, <1>7 DEF Refuse, TypeOK
  <2>3. failed'[j] = failed[j] \cup {Primary} /\ \A i \in Jobs \ {j} : failed'[i] = failed[i]
    BY <1>0, <1>7 DEF Refuse, TypeOK
  <2>4. j \notin brokenOff => Works(w)'
    BY <2>1, <2>2, <2>3, OutboxAssumption DEF Works, Whole, Complete
  <2> QED BY <1>0, <1>1, <2>1, <2>2, <2>3, <2>4, AuditWorks
<1>8. ASSUME NEW w \in Workers, Send(w) PROVE Audited'
  <2> DEFINE j == worker[w].cur
  <2>1. /\ j \in Jobs /\ Holds(w, j)
        /\ j \notin brokenOff => Recipients \subseteq sent[j] \cup worker[w].todo
    BY <1>held, <1>1, <1>8 DEF Send, Audited, InWork, Works
  <2>2. /\ \A v \in Workers \ {w} : worker'[v] = worker[v]
        /\ worker'[w].cur = j /\ worker'[w].pc = "recording"
        /\ worker'[w].todo = worker[w].todo
        /\ UNCHANGED <<job, sent, failed, brokenOff>>
    BY <1>0, <1>8 DEF Send, TypeOK, WorkerType
  <2>3. worker[w].cur \in {j, NoJob}
    OBVIOUS
  <2> HIDE DEF j
  <2>4. j \notin brokenOff => Works(w)'
    BY <2>1, <2>2 DEF Works
  <2> QED BY <1>0, <1>1, <2>1, <2>2, <2>3, <2>4, AuditWorks
<1>9. ASSUME NEW w \in Workers, NEW r \in Recipients, Record(w, r) PROVE Audited'
  <2> DEFINE j == worker[w].cur
  <2>1. /\ j \in Jobs /\ Holds(w, j)
        /\ j \notin brokenOff => Recipients \subseteq sent[j] \cup failed[j] \cup worker[w].todo
    BY <1>held, <1>1, <1>9 DEF Record, Audited, InWork, Works
  <2>2. /\ \A v \in Workers \ {w} : worker'[v] = worker[v]
        /\ worker'[w].cur = j /\ worker'[w].pc \in {"recording", "inspect"}
        /\ job' = job
    BY <1>0, <1>9, RecordEffect
  <2>3. /\ worker'[w].todo = worker[w].todo \ {r} /\ brokenOff' = brokenOff
        /\ worker'[w].pc = "inspect" => worker[w].todo = {r}
    BY <1>0, <1>9 DEF Record, TypeOK, WorkerType
  <2>4. /\ \A i \in Jobs \ {j} : sent'[i] = sent[i] /\ failed'[i] = failed[i]
        /\ sent[j] \cup failed[j] \cup {r} = sent'[j] \cup failed'[j]
        /\ sent'[j] \cup failed'[j] \subseteq Recipients
    BY <1>0, <1>9, <2>1 DEF Record, TypeOK
  <2>5. worker[w].cur \in {j, NoJob}
    OBVIOUS
  <2> HIDE DEF j
  <2>6. j \notin brokenOff => Recipients \subseteq sent'[j] \cup failed'[j] \cup worker'[w].todo
    BY <2>1, <2>3, <2>4
  <2>7. j \notin brokenOff /\ worker'[w].pc = "inspect" => sent'[j] \cup failed'[j] = Recipients
    BY <2>1, <2>3, <2>4
  <2>8. j \notin brokenOff => Works(w)'
    BY <2>2, <2>6, <2>7 DEF Works, Complete
  <2> QED BY <1>0, <1>1, <2>1, <2>2, <2>3, <2>4, <2>5, <2>8, AuditWorks
<1>10. ASSUME NEW w \in Workers, Inspect(w) PROVE Audited'
  <2> DEFINE j == worker[w].cur
             n == Verdict(worker[w].cur, worker[w].attempts)
  <2>1. /\ j \in Jobs /\ Holds(w, j) /\ worker[w].cur \in {j, NoJob}
        /\ n \in JobType /\ worker[w].batch \in SUBSET Jobs
    BY <1>0, <1>held, <1>10, VerdictType DEF Inspect
  <2>2. j \notin brokenOff => Complete(j) \/ (sent[j] = {} /\ failed[j] # {})
    BY <1>1, <1>10, <2>1 DEF Inspect, Audited, InWork, Works
  <2>3. n.status \notin Terminal => sent[j] = {}
    BY DEF Verdict, AfterTemporaryFailure, Concluded
  <2>4. j \notin brokenOff /\ n.status = "succeeded" => Complete(j)
    BY <2>2 DEF Verdict, AfterTemporaryFailure, Concluded
  <2>5. /\ job' = [job EXCEPT ![j] = n] /\ NextJob(w, worker[w].batch)
        /\ UNCHANGED <<sent, failed, brokenOff>>
    BY <1>10 DEF Inspect
  <2>6. brokenOff' \subseteq Jobs /\ brokenOff \subseteq brokenOff'
    BY <1>0, <2>5 DEF TypeOK
  <2> HIDE DEF j, n
  <2>7. /\ \A v \in Workers \ {w} : worker'[v] = worker[v]
        /\ worker'[w].cur = NoJob
    BY <1>0, <2>1, <2>5, NextJobEffect
  <2> QED BY <1>0, <1>1, <2>1, <2>3, <2>4, <2>5, <2>6, <2>7, AuditEnds DEF Whole
<1>broken. ASSUME NEW w \in Workers, BreaksOff(w), worker[w].cur \in Jobs,
                  worker[w].cur \notin brokenOff'
           PROVE  Whole(worker[w].cur)
  <2>1. /\ \/ worker[w].pc \in {"sending", "inspect"}
           \/ worker[w].pc = "recording" /\ sent[worker[w].cur] = {}
        /\ worker[w].cur \notin brokenOff
    BY <1>0, <1>broken, BreakOffType, OutboxAssumption DEF TypeOK, WorkerType
  <2>2. Works(w)
    BY <1>1, <1>broken, <2>1 DEF Audited, InWork
  <2> QED BY <2>1, <2>2 DEF Works, Whole
<1>11. ASSUME NEW w \in Workers, SendRaises(w) PROVE Audited'
  <2>1. worker[w].cur \in Jobs /\ Holds(w, worker[w].cur)
    BY <1>held, <1>11 DEF SendRaises
  <2>2. PICK n \in {AfterTemporaryFailure(worker[w].attempts),
                    Concluded("failed", worker[w].attempts + 1)} :
          job' = [job EXCEPT ![worker[w].cur] = n]
    BY <1>11 DEF SendRaises
  <2>3. n \in JobType
    <3>1. worker[w].attempts \in Nat /\ worker[w].attempts + 1 \in Nat
      BY <1>0
    <3> QED BY <2>2, <3>1, TemporaryType, ConcludedType
  <2>4. n.status \in {"pending", "failed"}
    BY <2>2 DEF AfterTemporaryFailure, Concluded
  <2>5. BreaksOff(w) /\ NextJob(w, worker[w].batch) /\ UNCHANGED <<sent, failed>>
    BY <1>11 DEF SendRaises
  <2>6. worker[w].cur \notin brokenOff' => Whole(worker[w].cur)
    BY <1>broken, <2>1, <2>5
  <2>7. /\ \A v \in Workers \ {w} : worker'[v] = worker[v]
        /\ worker'[w].cur = NoJob
    BY <1>0, <2>5, NextJobEffect
  <2>8. brokenOff' \subseteq Jobs /\ brokenOff \subseteq brokenOff'
    BY <1>0, <2>5, BreakOffType
  <2> QED BY <1>0, <1>1, <2>1, <2>2, <2>3, <2>4, <2>5, <2>6, <2>7, <2>8, AuditEnds
<1>12. ASSUME NEW w \in Workers, Crash(w) PROVE Audited'
  <2>1. /\ BreaksOff(w) /\ UNCHANGED <<job, sent, failed>> /\ worker'[w].cur = NoJob
        /\ \A v \in Workers \ {w} : worker'[v] = worker[v]
    BY <1>0, <1>12, IdleType DEF Crash, TypeOK
  <2>2. brokenOff' \subseteq Jobs /\ brokenOff \subseteq brokenOff'
    BY <1>0, <2>1, BreakOffType
  <2>3. CASE worker[w].cur \in Jobs
    <3> DEFINE j == worker[w].cur
    <3>1. /\ job' = [job EXCEPT ![j] = job[j]] /\ job[j] \in JobType
          /\ j \in Jobs /\ Holds(w, j) /\ worker[w].cur \in {j, NoJob}
      BY <1>0, <2>1, <2>3 DEF TypeOK, Holds
    <3>2. j \notin brokenOff' => Whole(j)
      BY <1>broken, <2>1, <2>3
    <3>3. job[j].status = "processing"
      BY <1>0, <3>1 DEF OwnInv, HeldInv
    <3> HIDE DEF j
    <3> QED BY <1>0, <1>1, <2>1, <2>2, <3>1, <3>2, <3>3, AuditEnds
  <2>4. CASE worker[w].cur \notin Jobs
    <3>1. worker[w].cur = NoJob /\ worker[w].pc # "recording" /\ brokenOff' = brokenOff
      BY <1>0, <2>1, <2>4, OutboxAssumption DEF TypeOK, WorkerType, BreaksOff
    <3>2. \A j \in Jobs : InHand(j) => InHand(j)'
      BY <2>1, <2>4 DEF InHand
    <3>3. Unsent'
      BY <1>1, <2>1, <3>1, <3>2 DEF Audited, Unsent, Whole, Complete
    <3>4. InWork'
      <4>1. ASSUME NEW v \in Workers, worker'[v].cur \in Jobs \ brokenOff'
            PROVE  Works(v)'
        <5>1. v # w /\ worker'[v] = worker[v]
          BY <2>1, <4>1, OutboxAssumption
        <5>2. Works(v)
          BY <1>1, <3>1, <4>1, <5>1 DEF Audited, InWork
        <5> QED BY <2>1, <5>1, <5>2 DEF Works, Whole, Complete
      <4> QED BY <4>1 DEF InWork
    <3> QED BY <1>1, <2>1, <3>1, <3>3, <3>4 DEF Audited, AuditedUnlessBrokenOff
  <2> QED BY <2>3, <2>4
<1>13. CASE UNCHANGED vars
  BY <1>0, <1>1, <1>13, AuditIdles DEF vars
<1> QED
  BY <1>2, <1>3, <1>5, <1>6, <1>7, <1>8, <1>9, <1>10, <1>11, <1>12, <1>13 DEF Next, Process

(* A job that succeeded has a row for every recipient, unless one of its   *)
(* attempts was broken off, between a SENT row and its last row, by a      *)
(* death of the worker or an error of the database ("Remaining failures    *)
(* are audited", email_outbox.py:352).                                     *)
THEOREM AuditedWhole ==
  ASSUME ~LiveStalls PROVE Spec => []AuditedUnlessBrokenOff
<1>1. Init => AuditInv
  BY OwnInit, OutboxAssumption
     DEF Init, AuditInv, Audited, Unsent, InWork, AuditedUnlessBrokenOff, Whole, Absent, IdleWorker
<1>2. AuditInv /\ [Next]_vars => AuditInv'
  BY AuditStep
<1>3. AuditInv => AuditedUnlessBrokenOff
  BY DEF AuditInv, Audited
<1> QED BY <1>1, <1>2, <1>3, PTL DEF Spec
=============================================================================
