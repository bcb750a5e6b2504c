---------------------------- MODULE QueueProofs ----------------------------
(***************************************************************************)
(* What the queues and the workers guarantee: mails are counted, reports   *)
(* never regress, and a completed job was carried out.                     *)
(***************************************************************************)
EXTENDS DeliveryProofs

-----------------------------------------------------------------------------
(* Mails are counted *)

\* The runs that may still send the mail of a job, and what the queue has counted of it.
Sending(j) == {r \in Runners : run[r].job = j /\ run[r].pc \in EmailPCs}
Credit(j) == job[j].attempts + job[j].stalls
               + IF job[j].state \in {"active", "completed"} THEN 1 ELSE 0

\* The queue has counted the mails that were sent and those that still may be.
MailsInv == \A j \in EmailJobs : mails[j] + Cardinality(Sending(j)) <= Credit(j)

\* The sendings of a job can be counted, for the runners can.
LEMMA SendingSize ==
  ASSUME NEW j
  PROVE  IsFiniteSet(Sending(j)) /\ Cardinality(Sending(j)) \in Nat
  <1>1. IsFiniteSet(Sending(j))
    BY FS_Subset, DeliveryConstants DEF Sending
  <1>. QED
    BY <1>1, FS_CardinalityType

\* The same of the next state.
LEMMA SendingSizeNext ==
  ASSUME NEW j
  PROVE  IsFiniteSet(Sending(j)') /\ Cardinality(Sending(j)') \in Nat
  <1>1. IsFiniteSet(Sending(j)')
    BY FS_Subset, DeliveryConstants DEF Sending
  <1>. QED
    BY <1>1, FS_CardinalityType

\* Fewer runs that may send are no more sendings.
LEMMA SendingShrinks ==
  ASSUME NEW j, Sending(j)' \subseteq Sending(j)
  PROVE  Cardinality(Sending(j)') <= Cardinality(Sending(j))
  BY SendingSize, FS_Subset

\* A run that can send no more is one sending less.
LEMMA SendingEnds ==
  ASSUME NEW j, NEW r \in Sending(j), Sending(j)' \subseteq Sending(j) \ {r}
  PROVE  Cardinality(Sending(j)') + 1 <= Cardinality(Sending(j))
  <1>1. /\ IsFiniteSet(Sending(j) \ {r})
        /\ Cardinality(Sending(j) \ {r}) = Cardinality(Sending(j)) - 1
    BY SendingSize, FS_RemoveElement
  <1>2. Cardinality(Sending(j)') <= Cardinality(Sending(j) \ {r})
    BY <1>1, FS_Subset
  <1>. QED
    BY <1>1, <1>2, SendingSize, SendingSizeNext

\* One more run that may send is one sending more at most.
LEMMA SendingStarts ==
  ASSUME NEW j, NEW r, Sending(j)' \subseteq Sending(j) \cup {r}
  PROVE  Cardinality(Sending(j)') <= Cardinality(Sending(j)) + 1
  <1>1. /\ IsFiniteSet(Sending(j) \cup {r})
        /\ Cardinality(Sending(j) \cup {r}) \in {Cardinality(Sending(j)), Cardinality(Sending(j)) + 1}
    BY SendingSize, FS_AddElement
  <1>2. Cardinality(Sending(j)') <= Cardinality(Sending(j) \cup {r})
    BY <1>1, FS_Subset
  <1>. QED
    BY <1>1, <1>2, SendingSize, SendingSizeNext

\* What the queue counts are numbers.
LEMMA CreditType ==
  ASSUME NEW j \in Jobs, TypeOK, TypeOK'
  PROVE  /\ Credit(j) \in Nat /\ Credit(j)' \in Nat
         /\ j \in EmailJobs => mails[j] \in Nat
         /\ job[j].attempts \in Nat /\ job[j].stalls \in Nat
  BY DEF TypeOK, Credit, JobDocs

\* A step that keeps the credit of a job and starts no sending of it keeps the count; one
\* that sends takes a sending away, and one that starts a sending adds credit.
LEMMA MailCounted ==
  ASSUME NEW j \in EmailJobs, TypeOK, TypeOK', MailsInv,
         \/ Credit(j)' >= Credit(j) /\ mails'[j] = mails[j] /\ Sending(j)' \subseteq Sending(j)
         \/ /\ Credit(j)' >= Credit(j) /\ mails'[j] = mails[j] + 1
            /\ \E r \in Sending(j) : Sending(j)' \subseteq Sending(j) \ {r}
         \/ /\ Credit(j)' >= Credit(j) + 1 /\ mails'[j] = mails[j]
            /\ \E r \in Runners : Sending(j)' \subseteq Sending(j) \cup {r}
  PROVE  mails'[j] + Cardinality(Sending(j)') <= Credit(j)'
  <1>1. /\ mails[j] \in Nat /\ Credit(j) \in Nat /\ Credit(j)' \in Nat
        /\ mails[j] + Cardinality(Sending(j)) <= Credit(j)
    BY EmailJobQueue, CreditType DEF MailsInv
  <1>. QED
    BY <1>1, SendingSize, SendingSizeNext, SendingShrinks, SendingEnds, SendingStarts

\* A step that only moves or ends one run: what it may still send.
LEMMA SendingOfRun ==
  ASSUME NEW r \in Runners, NEW j \in EmailJobs,
         \A q \in Runners \ {r} : run'[q] = run[q]
  PROVE  /\ run'[r].job = run[r].job /\ (run'[r].pc \in EmailPCs => run[r].pc \in EmailPCs)
              => Sending(j)' \subseteq Sending(j)
         /\ run'[r].pc \notin EmailPCs => Sending(j)' \subseteq Sending(j) \ {r}
         /\ Sending(j)' \subseteq Sending(j) \cup {r}
         /\ run'[r].job # j => Sending(j)' \subseteq Sending(j)
  BY DEF Sending

\* A step of a worker sends what was counted as a sending, or counts it.
LEMMA MailsOfProcess ==
  ASSUME NEW r \in Runners, NEW j \in EmailJobs, DeliveryInv, TypeOK', MailsInv,
         Process(r) \/ WriteSome(r) \/ RunFails(r) \/ Unanswered(r) \/ LoseLock(r)
  PROVE  mails'[j] + Cardinality(Sending(j)') <= Credit(j)'
  <1>1. TypeOK /\ j \in Jobs
    BY EmailJobQueue DEF DeliveryInv
  <1>2. CASE SendMail(r)
    <2>1. /\ run[r].pc = "sendMail" /\ run[r].job \in EmailJobs
          /\ mails'[run[r].job] = mails[run[r].job] + 1
          /\ \A i \in EmailJobs \ {run[r].job} : mails'[i] = mails[i]
      BY <1>2, SentCounts DEF SendMail, At, JobOf
    <2>2. /\ run'[r].pc = "finish" /\ run'[r].job = run[r].job
          /\ \A q \in Runners \ {r} : run'[q] = run[q]
          /\ UNCHANGED job
      BY <1>2, <2>1, ProcessorSteps DEF ProcessorMoves
    <2>3. Credit(j)' = Credit(j) /\ Credit(j) \in Nat
      BY <1>1, <2>2, CreditType DEF Credit
    <2>4. CASE run[r].job = j
      <3>1. r \in Sending(j) /\ Sending(j)' \subseteq Sending(j) \ {r}
        BY <2>1, <2>2, <2>4, SendingOfRun DEF Sending, EmailPCs
      <3>. QED
        BY <1>1, <2>1, <2>3, <2>4, <3>1, MailCounted
    <2>5. CASE run[r].job # j
      <3>1. Sending(j)' \subseteq Sending(j)
        BY <2>2, <2>5, SendingOfRun
      <3>. QED
        BY <1>1, <2>1, <2>3, <2>5, <3>1, MailCounted
    <2>. QED
      BY <2>4, <2>5
  <1>3. CASE \/ FindUser(r) \/ FindBooking(r) \/ Load(r) \/ OpenFile(r) \/ WriteFile(r)
             \/ SaveUrl(r) \/ Aggregate(r) \/ CacheReport(r)
    <2>1. /\ run'[r].job = run[r].job /\ (run'[r].pc \in EmailPCs => run[r].pc \in EmailPCs)
          /\ \A q \in Runners \ {r} : run'[q] = run[q]
          /\ UNCHANGED job
      BY <1>3, ProcessorSteps DEF ProcessorMoves, EmailPCs
    <2>2. UNCHANGED mails
      BY <1>3 DEF FindUser, FindBooking, Load, OpenFile, WriteFile, SaveUrl, Aggregate,
                  CacheReport, outputVars
    <2>3. Credit(j)' = Credit(j) /\ Credit(j) \in Nat
      BY <1>1, <2>1, CreditType DEF Credit
    <2>4. Sending(j)' \subseteq Sending(j)
      BY <2>1, SendingOfRun
    <2>. QED
      BY <1>1, <2>2, <2>3, <2>4, MailCounted
  <1>4. CASE Complete(r)
    <2>1. /\ run'[r].pc \notin EmailPCs /\ \A q \in Runners \ {r} : run'[q] = run[q]
      BY <1>4, CompleteEnds DEF Resting, EmailPCs
    <2>2. Credit(j)' = Credit(j) /\ Credit(j) \in Nat
      <3>1. CASE run[r].owns /\ run[r].job = j
        BY <1>1, <1>4, <3>1, CompleteEnds, CreditType DEF Credit
      <3>2. CASE ~ (run[r].owns /\ run[r].job = j)
        <4>1. job'[j] = job[j]
          BY <1>1, <1>4, <3>2, CompleteEnds
        <4>. QED
          BY <1>1, <4>1, CreditType DEF Credit
      <3>. QED
        BY <3>1, <3>2
    <2>3. UNCHANGED mails
      BY <1>4 DEF Complete, outputVars
    <2>4. Sending(j)' \subseteq Sending(j)
      BY <2>1, SendingOfRun
    <2>. QED
      BY <1>1, <2>2, <2>3, <2>4, MailCounted
  <1>5. CASE RunFails(r) \/ Unanswered(r)
    <2>1. run[r].pc # "idle" /\ Throw(r)
      BY <1>5, FailingThrows
    <2>2. /\ run'[r].pc \notin EmailPCs /\ \A q \in Runners \ {r} : run'[q] = run[q]
      BY <2>1, ThrowEnds DEF Resting, EmailPCs
    <2>3. Credit(j)' = Credit(j) /\ Credit(j) \in Nat
      <3>1. CASE run[r].owns /\ run[r].job = j
        BY <1>1, <2>1, <3>1, ThrowEnds, CreditType DEF Credit
      <3>2. CASE ~ (run[r].owns /\ run[r].job = j)
        <4>1. job'[j] = job[j]
          BY <1>1, <2>1, <3>2, ThrowEnds
        <4>. QED
          BY <1>1, <4>1, CreditType DEF Credit
      <3>. QED
        BY <3>1, <3>2
    <2>4. Sending(j)' \subseteq Sending(j) \ {r}
      BY <2>2, SendingOfRun
    <2>5. CASE RunFails(r) \/ SaveUrlUnanswered(r) \/ CacheReportUnanswered(r)
      <3>1. UNCHANGED mails
        BY <2>5 DEF RunFails, SaveUrlUnanswered, CacheReportUnanswered, outputVars
      <3>. QED
        BY <1>1, <2>3, <2>4, <3>1, MailCounted
    <2>6. CASE SendUnanswered(r)
      <3>1. /\ run[r].pc = "sendMail" /\ run[r].job \in EmailJobs
            /\ mails'[run[r].job] = mails[run[r].job] + 1
            /\ \A i \in EmailJobs \ {run[r].job} : mails'[i] = mails[i]
        BY <2>6, SentCounts DEF SendUnanswered, At, JobOf
      <3>2. CASE run[r].job = j
        <4>1. r \in Sending(j)
          BY <3>1, <3>2 DEF Sending, EmailPCs
        <4>. QED
          BY <1>1, <2>3, <2>4, <3>1, <3>2, <4>1, MailCounted
      <3>3. CASE run[r].job # j
        BY <1>1, <2>3, <2>4, <3>1, <3>3, MailCounted
      <3>. QED
        BY <3>2, <3>3
    <2>. QED
      BY <1>5, <2>5, <2>6 DEF Unanswered
  <1>6. CASE LoseLock(r)
    <2>1. /\ run'[r].job = run[r].job /\ run'[r].pc = run[r].pc
          /\ \A q \in Runners \ {r} : run'[q] = run[q]
          /\ UNCHANGED <<job, mails>>
      BY <1>1, <1>6, LoseLockLeaves DEF LoseLock, outputVars
    <2>2. Credit(j)' = Credit(j) /\ Credit(j) \in Nat
      BY <1>1, <2>1, CreditType DEF Credit
    <2>3. Sending(j)' \subseteq Sending(j)
      BY <2>1, SendingOfRun
    <2>. QED
      BY <1>1, <2>1, <2>2, <2>3, MailCounted
  <1>7. CASE WriteSome(r)
    <2>1. UNCHANGED <<job, run, mails>>
      BY <1>7 DEF WriteSome, jobVars
    <2>2. Credit(j)' = Credit(j) /\ Credit(j) \in Nat /\ Sending(j)' \subseteq Sending(j)
      BY <1>1, <2>1, CreditType DEF Credit, Sending
    <2>. QED
      BY <1>1, <2>1, <2>2, MailCounted
  <1>. QED
    BY <1>2, <1>3, <1>4, <1>5, <1>6, <1>7 DEF Process

\* The steps of the queues.
LEMMA MailsOfQueue ==
  ASSUME NEW j \in EmailJobs, NEW i \in Jobs, DeliveryInv, TypeOK', MailsInv,
         Adds(i) \/ Retry(i) \/ Stalled(i) \/ \E r \in Runners : Take(r, i)
  PROVE  mails'[j] + Cardinality(Sending(j)') <= Credit(j)'
  <1>1. TypeOK /\ j \in Jobs /\ JobSound(i) /\ job[i] \in JobDocs
    BY EmailJobQueue DEF DeliveryInv, TypeOK
  <1>2. ASSUME UNCHANGED <<run, mails>>, \A k \in Jobs \ {i} : job'[k] = job[k],
               Credit(i)' >= Credit(i)
        PROVE  mails'[j] + Cardinality(Sending(j)') <= Credit(j)'
    <2>1. Sending(j)' \subseteq Sending(j)
      BY <1>2 DEF Sending
    <2>2. Credit(j)' >= Credit(j)
      <3>1. j # i => Credit(j)' = Credit(j) /\ Credit(j) \in Nat
        BY <1>1, <1>2, CreditType DEF Credit
      <3>. QED
        BY <1>2, <3>1
    <2>. QED
      BY <1>1, <1>2, <2>1, <2>2, MailCounted
  <1>3. CASE Adds(i)
    BY <1>1, <1>2, <1>3 DEF Adds, Credit, Unqueued
  <1>4. CASE Retry(i)
    <2>1. /\ job[i].state = "delayed" /\ UNCHANGED <<run, mails>>
          /\ job'[i].state = "waiting" /\ job'[i].attempts = job[i].attempts
          /\ job'[i].stalls = job[i].stalls
          /\ \A k \in Jobs \ {i} : job'[k] = job[k]
      BY <1>1, <1>4, StateWritten DEF Retry, JobStates, outputVars
    <2>. QED
      BY <1>1, <1>2, <2>1 DEF Credit, JobDocs
  <1>5. CASE Stalled(i)
    <2>1. /\ job[i].state = "active" /\ UNCHANGED <<run, mails>> /\ job[i].stalls <= MaxStalled
      BY <1>1, <1>5 DEF Stalled, outputVars, JobSound, Pending
    <2>2. /\ job'[i].attempts = job[i].attempts /\ job'[i].stalls = job[i].stalls + 1
          /\ job'[i].state \in {"waiting", "failed"}
          /\ \A k \in Jobs \ {i} : job'[k] = job[k]
      BY <1>1, <1>5, <2>1, StallCounts
    <2>. QED
      BY <1>1, <1>2, <2>1, <2>2 DEF Credit, JobDocs
  <1>6. ASSUME NEW r \in Runners, Take(r, i)
        PROVE  mails'[j] + Cardinality(Sending(j)') <= Credit(j)'
    <2>1. /\ job[i].state = "waiting" /\ job'[i].state = "active"
          /\ job'[i].attempts = job[i].attempts /\ job'[i].stalls = job[i].stalls
          /\ \A k \in Jobs \ {i} : job'[k] = job[k]
          /\ run'[r].job = i /\ \A q \in Runners \ {r} : run'[q] = run[q]
      BY <1>1, <1>6, TakeStarts
    <2>. UNCHANGED mails
      BY <1>6 DEF Take, outputVars
    <2>2. CASE i = j
      <3>1. Credit(j)' = Credit(j) + 1 /\ Credit(j) \in Nat
        BY <1>1, <2>1, <2>2 DEF Credit, JobDocs
      <3>2. Sending(j)' \subseteq Sending(j) \cup {r}
        BY <2>1, SendingOfRun
      <3>. QED
        BY <1>1, <2>1, <3>1, <3>2, MailCounted
    <2>3. CASE i # j
      <3>1. Credit(j)' = Credit(j) /\ Credit(j) \in Nat
        BY <1>1, <2>1, <2>3, CreditType DEF Credit
      <3>2. Sending(j)' \subseteq Sending(j)
        BY <2>1, <2>3, SendingOfRun
      <3>. QED
        BY <1>1, <2>1, <3>1, <3>2, MailCounted
    <2>. QED
      BY <2>2, <2>3
  <1>. QED
    BY <1>3, <1>4, <1>5, <1>6

\* Every step preserves MailsInv.
LEMMA MailsNext ==
  ASSUME DeliveryInv, DeliveryInv', MailsInv, [Next]_vars
  PROVE  MailsInv'
  <1> SUFFICES ASSUME NEW j \in EmailJobs
               PROVE  mails'[j] + Cardinality(Sending(j)') <= Credit(j)'
    BY DEF MailsInv
  <1>1. TypeOK /\ TypeOK' /\ j \in Jobs
    BY EmailJobQueue DEF DeliveryInv
  <1>2. CASE Quiet
    <2>1. Credit(j)' = Credit(j) /\ Credit(j) \in Nat /\ Sending(j)' \subseteq Sending(j)
          /\ UNCHANGED mails
      BY <1>1, <1>2, CreditType DEF Quiet, Credit, Sending
    <2>. QED
      BY <1>1, <2>1, MailCounted
  <1>3. ASSUME NEW u \in Users, DropAddress(u)
        PROVE  mails'[j] + Cardinality(Sending(j)') <= Credit(j)'
    <2>1. Credit(j)' = Credit(j) /\ Credit(j) \in Nat
      BY <1>1, <1>3, AddressDropped, CreditType DEF Credit
    <2>2. Sending(j)' \subseteq Sending(j) /\ UNCHANGED mails
      BY <1>3 DEF DropAddress, Sending, outputVars
    <2>. QED
      BY <1>1, <2>1, <2>2, MailCounted
  <1>4. CASE Crash
    <2>1. Credit(j)' = Credit(j) /\ Credit(j) \in Nat
      BY <1>1, <1>4, CreditType DEF Crash, Credit
    <2>2. Sending(j)' \subseteq Sending(j) /\ UNCHANGED mails
      BY <1>4 DEF Crash, Sending, outputVars, Resting, EmailPCs
    <2>. QED
      BY <1>1, <2>1, <2>2, MailCounted
  <1>. QED
    BY <1>1, <1>2, <1>3, <1>4, QueueSteps, MailsOfProcess, MailsOfQueue

\* At the start nothing is sent.
LEMMA MailsInit ==
  ASSUME Init
  PROVE  MailsInv
  <1> SUFFICES ASSUME NEW j \in EmailJobs
               PROVE  mails[j] + Cardinality(Sending(j)) <= Credit(j)
    BY DEF MailsInv
  <1>1. mails[j] = 0 /\ job[j] = Unqueued /\ Sending(j) = {}
    BY EmailJobQueue DEF Init, Sending, Resting, EmailPCs
  <1>. QED
    BY <1>1, FS_EmptySet DEF Credit, Unqueued

\* The credit of a job is bounded by its attempts and stalls.
LEMMA MailsBounded ==
  ASSUME DeliveryInv, MailsInv
  PROVE  MailsAreCounted
  <1> SUFFICES ASSUME NEW j \in EmailJobs
               PROVE  /\ mails[j] <= Credit(j)
                      /\ mails[j] <= Attempts["email"] + MaxStalled
    BY DEF MailsAreCounted, Credit
  <1>1. /\ j \in Jobs /\ QueueOf(j) = "email" /\ JobSound(j) /\ job[j] \in JobDocs
        /\ mails[j] \in Nat
    BY EmailJobQueue DEF DeliveryInv, TypeOK
  <1>2. mails[j] <= Credit(j)
    BY <1>1, SendingSize DEF MailsInv, Credit, JobDocs
  <1>3. Credit(j) <= Attempts["email"] + MaxStalled
    BY <1>1 DEF JobSound, Pending, Credit, JobDocs, JobStates, Attempts, MaxStalled, Unqueued
  <1>. QED
    BY <1>1, <1>2, <1>3 DEF Credit, JobDocs, Attempts, MaxStalled

\* A mail is handed to the server at most once for each attempt that the queue has counted,
\* failed or stalled, and once for the attempt that is under way or was completed; so it is
\* sent again only after a failure or a stall, and at most four times (email.worker.ts;
\* email.queue.ts, attempts: 3).
THEOREM MailsCounted == Spec => []MailsAreCounted
  <1>1. Init => MailsInv
    BY MailsInit
  <1>2. DeliveryInv /\ DeliveryInv' /\ MailsInv /\ [Next]_vars => MailsInv'
    BY MailsNext
  <1>3. DeliveryInv /\ MailsInv => MailsAreCounted
    BY MailsBounded
  <1>. QED
    BY <1>1, <1>2, <1>3, DeliveryInvHolds, PTL DEF Spec

-----------------------------------------------------------------------------
(* Reports never regress *)

Counting(r) == run[r].job \in DailyJobs

\* One run at most works on the analytics, and the count that it is about to write is
\* between the one that is cached and the bookings there are.
ReportInv ==
  /\ \A r1, r2 \in Runners : Counting(r1) /\ Counting(r2) => r1 = r2
  /\ \A d \in Days : report[d] <= made[d]
  /\ \A r \in Runners : At(r, "cacheSet") =>
       report[BookingOf(r)] <= run[r].count /\ run[r].count <= made[BookingOf(r)]

\* The worker takes an analytics job only when it runs none (concurrency: 1).
LEMMA TakesAlone ==
  ASSUME NEW r \in Runners, NEW j \in DailyJobs, DeliveryInv, Take(r, j)
  PROVE  \A q \in Runners : ~ Counting(q)
  <1>1. Cardinality(Running("analytics")) < 1
    BY DailyJobQueue DEF Take, Concurrency
  <1>2. IsFiniteSet(Running("analytics"))
    BY FS_Subset, DeliveryConstants DEF Running
  <1>3. Running("analytics") = {}
    BY <1>1, <1>2, FS_CardinalityType, FS_EmptySet
  <1>4. NoJob \notin DailyJobs
    BY DEF NoJob, DailyJobs
  <1>5. ASSUME NEW q \in Runners, Counting(q)
        PROVE  FALSE
    <2>1. run[q].pc # "idle"
      BY <1>4, <1>5 DEF Counting, DeliveryInv, RunSound, Resting
    <2>2. QueueOf(run[q].job) = "analytics"
      BY <1>5, DailyJobQueue DEF Counting
    <2>. QED
      BY <1>3, <2>1, <2>2 DEF Running
  <1>. QED
    BY <1>5

\* The counts that are there.
LEMMA ReportTypes ==
  ASSUME TypeOK
  PROVE  \A d \in Days : made[d] \in Nat /\ report[d] \in Nat
  BY DeliveryConstants DEF TypeOK

\* A step of the runs that leaves the reports and the bookings of the days.
LEMMA ReportsStay ==
  ASSUME ReportInv, UNCHANGED <<made, report>>,
         \A r1, r2 \in Runners : Counting(r1)' /\ Counting(r2)' => r1 = r2,
         \A r \in Runners : At(r, "cacheSet")' =>
           /\ At(r, "cacheSet") /\ run'[r].job = run[r].job
           /\ run'[r].count = run[r].count
  PROVE  ReportInv'
  <1>1. ASSUME NEW r \in Runners, At(r, "cacheSet")'
        PROVE  report'[BookingOf(r)'] <= run'[r].count /\ run'[r].count <= made'[BookingOf(r)']
    BY <1>1 DEF ReportInv, BookingOf
  <1>. QED
    BY <1>1 DEF ReportInv

\* Runs that end, or lose their locks, or stay.
LEMMA ReportsRest ==
  ASSUME ReportInv, UNCHANGED <<made, report>>,
         \A r \in Runners :
           \/ run'[r] = Resting
           \/ /\ run'[r].job = run[r].job /\ run'[r].pc = run[r].pc
              /\ run'[r].count = run[r].count
  PROVE  ReportInv'
  <1>1. Resting.job \notin DailyJobs /\ Resting.pc # "cacheSet"
    BY DEF Resting, NoJob, DailyJobs
  <1>2. \A r \in Runners : Counting(r)' => Counting(r)
    BY <1>1 DEF Counting
  <1>. QED
    BY <1>1, <1>2, ReportsStay DEF ReportInv, At

\* A processor caches no count older than the one there is.
LEMMA ReportProcess ==
  ASSUME NEW r \in Runners, DeliveryInv, ReportInv,
         \/ FindUser(r) \/ FindBooking(r) \/ SendMail(r)
         \/ Load(r) \/ OpenFile(r) \/ WriteFile(r) \/ SaveUrl(r)
         \/ Aggregate(r) \/ CacheReport(r)
  PROVE  ReportInv' /\ \A d \in Days : report'[d] >= report[d]
  <1>1. /\ <<run[r].pc, run'[r].pc>> \in ProcessorMoves
        /\ run'[r].job = run[r].job
        /\ \A q \in Runners \ {r} : run'[q] = run[q]
    BY ProcessorSteps
  <1>2. /\ \A q \in Runners : Counting(q)' <=> Counting(q)
        /\ \A r1, r2 \in Runners : Counting(r1)' /\ Counting(r2)' => r1 = r2
    BY <1>1 DEF Counting, ReportInv
  <1>3. TypeOK /\ \A d \in Days : made[d] \in Nat /\ report[d] \in Nat
    BY ReportTypes DEF DeliveryInv
  <1>4. CASE ~ Aggregate(r) /\ ~ CacheReport(r)
    <2>1. UNCHANGED <<made, report>>
      BY <1>4 DEF FindUser, FindBooking, SendMail, Load, OpenFile, WriteFile, SaveUrl, dayVars
    <2>2. run[r].pc \notin DailyPCs
      BY <1>4 DEF FindUser, FindBooking, SendMail, Load, OpenFile, WriteFile, SaveUrl, At, DailyPCs
    <2>3. ~ At(r, "cacheSet")'
      BY <1>1, <2>2 DEF At, ProcessorMoves, DailyPCs
    <2>4. ReportInv'
      BY <1>1, <1>2, <2>1, <2>3, ReportsStay DEF At
    <2>. QED
      BY <1>3, <2>1, <2>4
  <1>5. CASE Aggregate(r)
    <2>1. /\ BookingOf(r) \in Days /\ UNCHANGED <<made, report>>
          /\ BookingOf(r)' = BookingOf(r) /\ run'[r].count = made[BookingOf(r)]
      BY <1>1, <1>5, DailyRun, AggregateCounts DEF Aggregate, At, DailyPCs, dayVars, BookingOf
    <2>2. ASSUME NEW q \in Runners, At(q, "cacheSet")'
          PROVE  report'[BookingOf(q)'] <= run'[q].count /\ run'[q].count <= made'[BookingOf(q)']
      <3>1. CASE q = r
        BY <1>3, <2>1, <3>1 DEF ReportInv
      <3>2. CASE q # r
        BY <1>1, <2>1, <2>2, <3>2 DEF ReportInv, At, BookingOf
      <3>. QED
        BY <3>1, <3>2
    <2>3. ReportInv'
      BY <1>2, <2>1, <2>2 DEF ReportInv
    <2>. QED
      BY <1>3, <2>1, <2>3
  <1>6. CASE CacheReport(r)
    <2>1. /\ run[r].pc = "cacheSet" /\ Counting(r) /\ BookingOf(r) \in Days
          /\ run[r].count \in Nat /\ report \in [Days -> 0 .. MaxPerDay]
      BY <1>6, DailyRun DEF CacheReport, At, DailyPCs, Counting
    <2>2. /\ UNCHANGED made /\ report' = [report EXCEPT ![BookingOf(r)] = run[r].count]
          /\ report[BookingOf(r)] <= run[r].count /\ run[r].count <= made[BookingOf(r)]
      BY <1>6, <2>1 DEF CacheReport, ReportInv, At
    <2>3. \A d \in Days : report'[d] >= report[d] /\ report'[d] <= made'[d]
      BY <1>3, <2>1, <2>2 DEF ReportInv
    <2>4. ASSUME NEW q \in Runners, At(q, "cacheSet")'
          PROVE  FALSE
      <3>1. q # r
        BY <1>1, <2>1, <2>4 DEF At, ProcessorMoves
      <3>2. At(q, "cacheSet")
        BY <1>1, <2>4, <3>1 DEF At
      <3>3. Counting(q)
        BY <3>2, RunFacts DEF At, RunSound, DailyPCs, Counting
      <3>. QED
        BY <2>1, <3>1, <3>3 DEF ReportInv
    <2>5. ReportInv'
      BY <1>2, <2>3, <2>4 DEF ReportInv
    <2>. QED
      BY <2>3, <2>5
  <1>. QED
    BY <1>4, <1>5, <1>6

\* A run that ends caches nothing more.
LEMMA CountingEnds ==
  ASSUME NEW r \in Runners, run'[r] = Resting, \A q \in Runners \ {r} : run'[q] = run[q]
  PROVE  \A q \in Runners : Counting(q)' \/ At(q, "cacheSet")' => q # r /\ run'[q] = run[q]
  BY DEF Counting, At, Resting, NoJob, DailyJobs

\* A report that is cached without an answer is no older than the one there is either.
LEMMA ReportUnanswered ==
  ASSUME NEW r \in Runners, DeliveryInv, ReportInv, CacheReportUnanswered(r)
  PROVE  ReportInv' /\ \A d \in Days : report'[d] >= report[d]
  <1>1. TypeOK /\ \A d \in Days : made[d] \in Nat /\ report[d] \in Nat
    BY ReportTypes DEF DeliveryInv
  <1>2. /\ run[r].pc = "cacheSet" /\ Counting(r) /\ BookingOf(r) \in Days
        /\ run[r].count \in Nat /\ report \in [Days -> 0 .. MaxPerDay]
    BY DailyRun DEF CacheReportUnanswered, At, DailyPCs, Counting
  <1>3. run'[r] = Resting /\ \A q \in Runners \ {r} : run'[q] = run[q]
    BY <1>1, EndRests DEF CacheReportUnanswered, Throw
  <1>4. /\ UNCHANGED made /\ report' = [report EXCEPT ![BookingOf(r)] = run[r].count]
        /\ report[BookingOf(r)] <= run[r].count /\ run[r].count <= made[BookingOf(r)]
    BY <1>2 DEF CacheReportUnanswered, ReportInv, At
  <1>5. \A d \in Days : report'[d] >= report[d] /\ report'[d] <= made'[d]
    BY <1>1, <1>2, <1>4 DEF ReportInv
  <1>6. \A q \in Runners : Counting(q)' => Counting(q)
    BY <1>3, CountingEnds DEF Counting
  <1>7. ASSUME NEW q \in Runners, At(q, "cacheSet")'
        PROVE  FALSE
    <2>1. q # r /\ run'[q] = run[q]
      BY <1>3, <1>7, CountingEnds
    <2>2. Counting(q)
      BY <1>7, <2>1, RunFacts DEF At, RunSound, DailyPCs, Counting
    <2>. QED
      BY <1>2, <2>1, <2>2 DEF ReportInv
  <1>. QED
    BY <1>5, <1>6, <1>7 DEF ReportInv

\* Jobs are retried, stall and are taken without a change to the reports.
LEMMA ReportQueue ==
  ASSUME NEW j \in Jobs, DeliveryInv, ReportInv,
         Retry(j) \/ Stalled(j) \/ \E r \in Runners : Take(r, j)
  PROVE  ReportInv' /\ UNCHANGED report
  <1>1. TypeOK
    BY DEF DeliveryInv
  <1>2. CASE Retry(j) \/ Stalled(j)
    BY <1>2, ReportsRest DEF Retry, Stalled, dayVars
  <1>3. ASSUME NEW r \in Runners, Take(r, j)
        PROVE  ReportInv' /\ UNCHANGED report
    <2>1. /\ run[r].pc = "idle" /\ run'[r].job = j /\ run'[r].pc = FirstCall(j)
          /\ \A q \in Runners \ {r} : run'[q] = run[q]
      BY <1>1, <1>3, TakeStarts
    <2>2. UNCHANGED <<made, report>>
      BY <1>3 DEF Take, dayVars
    <2>3. j \in DailyJobs => \A q \in Runners : ~ Counting(q)
      BY <1>3, TakesAlone
    <2>4. \A r1, r2 \in Runners : Counting(r1)' /\ Counting(r2)' => r1 = r2
      BY <2>1, <2>3 DEF ReportInv, Counting
    <2>5. FirstCall(j) # "cacheSet"
      BY DEF FirstCall
    <2>. QED
      BY <2>1, <2>2, <2>4, <2>5, ReportsStay DEF At
  <1>. QED
    BY <1>2, <1>3

\* Every step preserves ReportInv and lets no report shrink.
LEMMA ReportNext ==
  ASSUME DeliveryInv, ReportInv, [Next]_vars
  PROVE  ReportInv' /\ \A d \in Days : report'[d] >= report[d]
  <1>1. TypeOK /\ \A d \in Days : made[d] \in Nat /\ report[d] \in Nat
    BY ReportTypes DEF DeliveryInv
  <1>2. ASSUME UNCHANGED <<run, report>>, \A d \in Days : made'[d] >= made[d] /\ made'[d] \in Nat
        PROVE  ReportInv' /\ \A d \in Days : report'[d] >= report[d]
    <2>1. ASSUME NEW r \in Runners, At(r, "cacheSet")'
          PROVE  report'[BookingOf(r)'] <= run'[r].count /\ run'[r].count <= made'[BookingOf(r)']
      <3>1. /\ At(r, "cacheSet") /\ BookingOf(r)' = BookingOf(r) /\ run[r].count \in Nat
            /\ BookingOf(r) \in Days
        BY <1>2, <2>1, DailyRun DEF At, BookingOf, DailyPCs
      <3>. QED
        BY <1>1, <1>2, <3>1 DEF ReportInv
    <2>2. \A d \in Days : report'[d] <= made'[d]
      BY <1>1, <1>2 DEF ReportInv
    <2>. QED
      BY <1>1, <1>2, <2>1, <2>2 DEF ReportInv, Counting
  <1>3. CASE Step /\ UNCHANGED ops
    <2>1. CASE \/ \E b \in Bookings :
                    \/ CreateBooking(b) \/ Announce(b)
                    \/ \E v \in Verifications : ConfirmBooking(b, v)
                    \/ \E u \in Users : CancelBooking(b, u)
                    \/ \E kind \in Tails : TailFails(b, kind)
               \/ Midnight \/ MidnightFails
               \/ \E u \in Users : GiveAddress(u) \/ DropAddress(u)
      <3>1. UNCHANGED <<run, made, report>>
        BY <2>1 DEF Announce, CreateBooking, AddCreated, SetConfirmed, AnnounceConfirmed, AddTicket,
           AddInvoice, AddReceipt, SetCancelled, AnnounceCancelled, ConfirmBooking, CancelBooking,
           TailFails, Midnight, MidnightFails, GiveAddress, DropAddress, jobVars, dayVars
      <3>. QED
        BY <1>1, <1>2, <3>1
    <2>2. CASE Gateway
      <3>1. UNCHANGED <<run, made, report>>
        BY <2>2 DEF Gateway, Connect, Disconnect, JoinBus, LeaveBus, CreateNotice, RemoveNotice,
                    MarkAsRead, jobVars, dayVars
      <3>. QED
        BY <1>1, <1>2, <3>1
    <2>3. CASE BookToday
      <3>1. /\ UNCHANGED <<run, report>> /\ made \in [Days -> 0 .. MaxPerDay] /\ today \in Days
            /\ made' = [made EXCEPT ![today] = @ + 1]
        BY <1>1, <2>3 DEF BookToday, jobVars, TypeOK
      <3>2. \A d \in Days : made'[d] >= made[d] /\ made'[d] \in Nat
        BY <1>1, <3>1
      <3>. QED
        BY <1>2, <3>1, <3>2
    <2>4. ASSUME NEW j \in Jobs, Retry(j) \/ Stalled(j) \/ \E r \in Runners : Take(r, j)
          PROVE  ReportInv' /\ UNCHANGED report
      BY <2>4, ReportQueue
    <2>5. ASSUME NEW r \in Runners, Process(r), ~ Complete(r)
          PROVE  ReportInv' /\ \A d \in Days : report'[d] >= report[d]
      BY <2>5, ReportProcess DEF Process
    <2>6. ASSUME NEW r \in Runners,
                 Complete(r) \/ RunFails(r) \/ SendUnanswered(r) \/ SaveUrlUnanswered(r)
          PROVE  ReportInv' /\ UNCHANGED report
      <3>1. run'[r] = Resting /\ \A q \in Runners \ {r} : run'[q] = run[q]
        BY <1>1, <2>6, EndRests DEF Complete, RunFails, SendUnanswered, SaveUrlUnanswered, Throw
      <3>2. UNCHANGED <<made, report>>
        BY <2>6 DEF Complete, RunFails, SendUnanswered, SaveUrlUnanswered, dayVars
      <3>3. \A q \in Runners : run'[q] = Resting \/ run'[q] = run[q]
        BY <3>1
      <3>. QED
        BY <3>2, <3>3, ReportsRest
    <2>7. ASSUME NEW r \in Runners, LoseLock(r)
          PROVE  ReportInv' /\ UNCHANGED report
      <3>1. \A q \in Runners : /\ run'[q].job = run[q].job /\ run'[q].pc = run[q].pc
                               /\ run'[q].count = run[q].count
        BY <1>1, <2>7, LoseLockLeaves
      <3>. QED
        BY <2>7, <3>1, ReportsRest DEF LoseLock, dayVars
    <2>8. CASE Crash
      <3>1. UNCHANGED <<made, report>> /\ \A q \in Runners : run'[q] = Resting
        BY <2>8 DEF Crash, dayVars
      <3>. QED
        BY <1>1, <3>1, ReportsRest
    <2>9. ASSUME NEW r \in Runners, WriteSome(r)
          PROVE  ReportInv' /\ \A d \in Days : report'[d] >= report[d]
      <3>1. UNCHANGED <<run, made, report>>
        BY <2>9 DEF WriteSome, jobVars, dayVars
      <3>. QED
        BY <1>1, <1>2, <3>1
    <2>. QED
      BY <1>1, <1>3, <2>1, <2>2, <2>3, <2>4, <2>5, <2>6, <2>7, <2>8, <2>9, ReportUnanswered
         DEF Step, Unanswered
  <1>4. CASE UNCHANGED vars
    BY <1>1, <1>2, <1>4 DEF vars
  <1>. QED
    BY <1>3, <1>4 DEF Next

\* At the start no report is cached and no analytics run.
LEMMA ReportInit ==
  ASSUME Init
  PROVE  ReportInv
  BY DEF Init, ReportInv, Counting, At, Resting, NoJob, DailyJobs

\* A later run of a day's analytics never writes an older count over a newer one, although
\* a run may be held up, lose its lock and go on: the worker runs one job at a time
\* (analytics.worker.ts, concurrency: 1).
THEOREM ReportsGrow == Spec => ReportsNeverRegress
  <1>1. Init => ReportInv
    BY ReportInit
  <1>2. DeliveryInv /\ ReportInv /\ [Next]_vars =>
          ReportInv' /\ [\A d \in Days : report'[d] >= report[d]]_report
    BY ReportNext
  <1>. QED
    BY <1>1, <1>2, DeliveryInvHolds, PTL DEF Spec, ReportsNeverRegress

-----------------------------------------------------------------------------
(* Refinement of AtLeastOnce *)

\* A mail that is due and may still be sent has somewhere to go; and a run that is about to
\* complete its job has carried it out, or there is nothing to do.
PromiseInv ==
  /\ \A j \in EmailJobs : Pending(j) /\ job[j].due => Owner[j[2]] \in address /\ Smtp
  /\ \A r \in Runners :
       run[r].owns /\ run[r].pc = "finish" /\ run[r].job \in BookingJobs
         => run[r].job \in Done \/ ~ job[run[r].job].due

\* What was carried out stays so.
LEMMA DoneGrows ==
  ASSUME TypeOK, TypeOK',
         \A j \in EmailJobs : mails'[j] >= mails[j],
         \A b \in Bookings : ticket[b].url \subseteq ticket'[b].url
  PROVE  Done \subseteq Done'
  <1>1. \A j \in EmailJobs : mails[j] \in Nat /\ mails'[j] \in Nat
    BY DEF TypeOK
  <1>2. \A j \in BookingJobs \ EmailJobs : j[2] \in Bookings
    BY InvoiceJobQueue
  <1>. QED
    BY <1>1, <1>2 DEF Done

\* The processor hands its mail to the server, or saves its url, with or without an answer.
Delivers(r) == SendMail(r) \/ SendUnanswered(r) \/ SaveUrl(r) \/ SaveUrlUnanswered(r)

\* What a processor carries out.
LEMMA ProcessorDoes ==
  ASSUME NEW r \in Runners, DeliveryInv, TypeOK',
         \/ FindUser(r) \/ FindBooking(r) \/ SendMail(r)
         \/ Load(r) \/ OpenFile(r) \/ WriteFile(r) \/ SaveUrl(r)
         \/ Aggregate(r) \/ CacheReport(r)
         \/ WriteSome(r) \/ Unanswered(r)
  PROVE  /\ Delivers(r) => run[r].job \in BookingJobs /\ Done' = Done \cup {run[r].job}
         /\ ~ Delivers(r) => Done' = Done
  <1>1. TypeOK /\ \A j \in BookingJobs \ EmailJobs : j[2] \in Bookings
    BY InvoiceJobQueue DEF DeliveryInv
  <1>2. CASE SendMail(r) \/ SendUnanswered(r)
    <2>1. /\ run[r].job \in EmailJobs
          /\ mails'[run[r].job] = mails[run[r].job] + 1
          /\ \A j \in EmailJobs \ {run[r].job} : mails'[j] = mails[j]
          /\ mails[run[r].job] \in Nat /\ UNCHANGED ticket
      BY <1>1, <1>2, SentCounts DEF SendMail, SendUnanswered, JobOf, TypeOK
    <2>2. Done' = Done \cup {run[r].job}
      BY <2>1 DEF Done
    <2>. QED
      BY <1>2, <2>1, <2>2 DEF BookingJobs, Delivers
  <1>3. CASE SaveUrl(r) \/ SaveUrlUnanswered(r)
    <2>1. PICK b \in Bookings, v \in Verifications :
            /\ b = BookingOf(r) /\ v = JobOf(r)[3] /\ run[r].job = Invoice(b, v)
      BY <1>3, InvoiceRun DEF SaveUrl, SaveUrlUnanswered, At, InvoicePCs, JobOf
    <2>2. /\ ticket'[b].url = ticket[b].url \cup {v}
          /\ \A c \in Bookings \ {b} : ticket'[c] = ticket[c]
          /\ UNCHANGED mails
      BY <1>3, <2>1, SaveUrlSaves DEF SaveUrl, SaveUrlUnanswered
    <2>3. /\ Invoice(b, v) \in BookingJobs \ EmailJobs
          /\ Invoice(b, v)[2] = b /\ Invoice(b, v)[3] = v
          /\ \A j \in BookingJobs \ EmailJobs : j = Invoice(j[2], j[3])
      BY VerifiedJobs, InvoiceJobQueue DEF Invoice
    <2>4. \A j \in BookingJobs \ EmailJobs :
            j[3] \in ticket'[j[2]].url <=> j[3] \in ticket[j[2]].url \/ j = Invoice(b, v)
      BY <1>1, <2>2, <2>3
    <2>5. Done' = Done \cup {Invoice(b, v)}
      BY <2>2, <2>3, <2>4 DEF Done
    <2>. QED
      BY <1>3, <2>1, <2>3, <2>5 DEF Delivers
  <1>4. CASE OpenFile(r) \/ WriteFile(r) \/ WriteSome(r)
    <2>1. UNCHANGED mails /\ \A b \in Bookings : ticket'[b].url = ticket[b].url
      BY <1>4, OpenFileTears, WriteFileMends, WriteSomeTears DEF OpenFile, WriteFile, WriteSome
    <2>2. Done' = Done
      BY <1>1, <2>1 DEF Done
    <2>3. ~ Delivers(r)
      BY <1>4 DEF OpenFile, WriteFile, WriteSome, Delivers, SendMail, SendUnanswered, SaveUrl,
                  SaveUrlUnanswered, At
    <2>. QED
      BY <2>2, <2>3
  <1>5. CASE \/ FindUser(r) \/ FindBooking(r) \/ Load(r)
             \/ Aggregate(r) \/ CacheReport(r) \/ CacheReportUnanswered(r)
    <2>1. UNCHANGED <<mails, ticket>>
      BY <1>5 DEF FindUser, FindBooking, Load, Aggregate, CacheReport, CacheReportUnanswered, outputVars
    <2>2. Done' = Done
      BY <2>1 DEF Done
    <2>3. ~ Delivers(r)
      BY <1>5 DEF FindUser, FindBooking, Load, Aggregate, CacheReport, CacheReportUnanswered,
                  Delivers, SendMail, SendUnanswered, SaveUrl, SaveUrlUnanswered, At
    <2>. QED
      BY <2>2, <2>3
  <1>. QED
    BY <1>2, <1>3, <1>4, <1>5 DEF Delivers, Unanswered

\* A mail processor that returns without sending has nobody to send to, or no server.
LEMMA ReturnsUnsent ==
  ASSUME NEW r \in Runners, DeliveryInv, FindUser(r) \/ FindBooking(r), run'[r].pc = "finish"
  PROVE  run[r].job \in EmailJobs /\ ~ (Owner[run[r].job[2]] \in address /\ Smtp)
  <1>1. TypeOK /\ RunSound(r)
    BY DEF DeliveryInv
  <1>2. CASE FindUser(r)
    <2>1. run[r].job \in EmailJobs
      BY <1>1, <1>2 DEF FindUser, At, RunSound, EmailPCs
    <2>2. ASSUME Owner[run[r].job[2]] \in address, Smtp
          PROVE  FALSE
      <3>1. Goto(r, "findBooking") \/ Goto(r, "sendMail")
        BY <1>2, <2>2 DEF FindUser, BookingOf
      <3>. QED
        BY <1>1, <3>1, GotoMoves DEF RunPCs
    <2>. QED
      BY <2>1, <2>2
  <1>3. CASE FindBooking(r)
    <2>1. run[r].job \in EmailJobs
      BY <1>1, <1>3 DEF FindBooking, At, RunSound, EmailPCs
    <2>2. ASSUME Smtp
          PROVE  FALSE
      <3>1. Goto(r, "sendMail")
        BY <1>3, <2>2 DEF FindBooking
      <3>. QED
        BY <1>1, <3>1, GotoMoves DEF RunPCs
    <2>. QED
      BY <2>1, <2>2
  <1>. QED
    BY <1>2, <1>3

\* A processor that reaches its end has carried its job out, or had nothing to do.
LEMMA PromiseProcess ==
  ASSUME NEW r \in Runners, DeliveryInv, TypeOK', PromiseInv, UNCHANGED ops,
         \/ FindUser(r) \/ FindBooking(r) \/ SendMail(r)
         \/ Load(r) \/ OpenFile(r) \/ WriteFile(r) \/ SaveUrl(r)
         \/ Aggregate(r) \/ CacheReport(r)
  PROVE  PromiseInv'
  <1>1. /\ <<run[r].pc, run'[r].pc>> \in ProcessorMoves
        /\ run'[r].job = run[r].job /\ run'[r].owns = run[r].owns
        /\ \A q \in Runners \ {r} : run'[q] = run[q]
        /\ UNCHANGED job
    BY ProcessorSteps
  <1>2. UNCHANGED address
    BY DEF FindUser, FindBooking, SendMail, Load, OpenFile, WriteFile, SaveUrl, Aggregate, CacheReport
  <1>3. \A j \in EmailJobs : (Pending(j) /\ job[j].due => Owner[j[2]] \in address /\ Smtp)'
    BY <1>1, <1>2 DEF PromiseInv, Pending, Smtp
  <1>4. Done \subseteq Done'
    BY ProcessorDoes
  <1>5. ASSUME run[r].owns, run'[r].pc = "finish", run[r].job \in BookingJobs
        PROVE  run[r].job \in Done' \/ ~ job[run[r].job].due
    <2>1. CASE SendMail(r) \/ SaveUrl(r)
      BY <2>1, ProcessorDoes DEF Delivers
    <2>2. CASE FindUser(r) \/ FindBooking(r)
      <3>1. run[r].job \in EmailJobs /\ ~ (Owner[run[r].job[2]] \in address /\ Smtp)
        BY <1>5, <2>2, ReturnsUnsent
      <3>2. Pending(run[r].job)
        BY <1>5, RunFacts DEF RunSound, Pending
      <3>. QED
        BY <3>1, <3>2 DEF PromiseInv
    <2>3. CASE CacheReport(r)
      <3>1. run[r].job \in DailyJobs
        BY <2>3, DailyRun DEF CacheReport, At, DailyPCs
      <3>. QED
        BY <1>5, <3>1, DailyJobQueue
    <2>4. CASE Load(r) \/ OpenFile(r) \/ WriteFile(r) \/ Aggregate(r)
      BY <1>1, <1>5, <2>4 DEF Load, OpenFile, WriteFile, Aggregate, At, ProcessorMoves
    <2>. QED
      BY <2>1, <2>2, <2>3, <2>4
  <1>6. ASSUME NEW q \in Runners, run'[q].owns, run'[q].pc = "finish", run'[q].job \in BookingJobs
        PROVE  run'[q].job \in Done' \/ ~ job'[run'[q].job].due
    <2>1. CASE q = r
      BY <1>1, <1>5, <1>6, <2>1
    <2>2. CASE q # r
      BY <1>1, <1>4, <1>6, <2>2 DEF PromiseInv
    <2>. QED
      BY <2>1, <2>2
  <1>. QED
    BY <1>3, <1>6 DEF PromiseInv

\* A step that carries out no more and takes no new run to its end.
LEMMA PromiseStep ==
  ASSUME DeliveryInv, PromiseInv,
         \A j \in EmailJobs :
           Pending(j)' /\ job'[j].due => Owner[j[2]] \in address' /\ Smtp',
         Done \subseteq Done',
         \A r \in Runners : run'[r].owns /\ run'[r].pc = "finish" =>
           run[r].owns /\ run[r].pc = "finish" /\ run'[r].job = run[r].job,
         \A j \in Jobs : job'[j].due /\ job[j].state # "none" => job[j].due
  PROVE  PromiseInv'
  <1>1. ASSUME NEW r \in Runners, run'[r].owns, run'[r].pc = "finish", run'[r].job \in BookingJobs
        PROVE  run'[r].job \in Done' \/ ~ job'[run'[r].job].due
    <2>1. /\ run[r].owns /\ run[r].pc = "finish" /\ run'[r].job = run[r].job
          /\ run[r].job \in BookingJobs
      BY <1>1
    <2>2. run[r].job \in Jobs /\ job[run[r].job].state # "none"
      BY <2>1, RunFacts DEF RunSound
    <2>. QED
      BY <2>1, <2>2 DEF PromiseInv
  <1>. QED
    BY <1>1 DEF PromiseInv

\* Every step preserves PromiseInv.
LEMMA PromiseNextInv ==
  ASSUME DeliveryInv, DeliveryInv', PromiseInv, [Next]_vars
  PROVE  PromiseInv'
  <1>1. TypeOK /\ TypeOK' /\ \A j \in EmailJobs : j \in Jobs
    BY EmailJobQueue DEF DeliveryInv
  <1>2. UNCHANGED ops
    BY QueueSteps
  <1>3. CASE Quiet
    <2>1. Done' = Done /\ UNCHANGED <<job, run>> /\ address \subseteq address'
      BY <1>3 DEF Quiet, Done
    <2>. QED
      BY <1>2, <2>1, PromiseStep DEF PromiseInv, Pending, Smtp
  <1>4. ASSUME NEW j \in Jobs, Adds(j)
        PROVE  PromiseInv'
    <2>1. /\ Done' = Done /\ UNCHANGED <<run, address>> /\ job[j].state = "none"
          /\ \A i \in Jobs \ {j} : job'[i] = job[i]
          /\ j \in EmailJobs /\ job'[j].due => Owner[j[2]] \in address /\ Smtp
      BY <1>4 DEF Adds, Done, Unqueued
    <2>2. ASSUME NEW i \in EmailJobs, Pending(i)', job'[i].due
          PROVE  Owner[i[2]] \in address' /\ Smtp'
      <3>1. CASE i = j
        <4>1. job'[i].due => Owner[i[2]] \in address /\ Smtp
          BY <2>1, <3>1
        <4>2. job'[i].due
          BY <2>2
        <4>. QED
          BY <1>2, <2>1, <4>1, <4>2 DEF Smtp
      <3>2. CASE i # j
        <4>1. job'[i] = job[i]
          BY <1>1, <2>1, <3>2
        <4>. QED
          BY <1>2, <2>1, <2>2, <4>1 DEF PromiseInv, Pending, Smtp
      <3>. QED
        BY <3>1, <3>2
    <2>. QED
      BY <2>1, <2>2, PromiseStep
  <1>5. ASSUME NEW u \in Users, DropAddress(u)
        PROVE  PromiseInv'
    <2>1. Done' = Done /\ UNCHANGED run /\ address' = address \ {u}
      BY <1>5 DEF DropAddress, Done, outputVars
    <2>2. \A i \in EmailJobs : Pending(i)' /\ job'[i].due => Owner[i[2]] \in address' /\ Smtp'
      BY <1>1, <1>2, <1>5, <2>1, AddressDropped DEF PromiseInv, Pending, Smtp
    <2>3. \A i \in Jobs : job'[i].due => job[i].due
      BY <1>1, <1>5, AddressDropped
    <2>. QED
      BY <2>1, <2>2, <2>3, PromiseStep
  <1>6. ASSUME NEW j \in Jobs, Retry(j) \/ Stalled(j) \/ \E r \in Runners : Take(r, j)
        PROVE  PromiseInv'
    <2>1. /\ job[j].state \in {"waiting", "active", "delayed"}
          /\ job'[j].due = job[j].due
          /\ \A i \in Jobs \ {j} : job'[i] = job[i]
      <3>1. CASE Retry(j)
        BY <1>1, <3>1, StateWritten DEF Retry, JobStates
      <3>2. CASE Stalled(j)
        BY <1>1, <3>2, StallCounts DEF Stalled, DeliveryInv, JobSound, Pending
      <3>3. CASE \E r \in Runners : Take(r, j)
        BY <1>1, <3>3, TakeStarts
      <3>. QED
        BY <1>6, <3>1, <3>2, <3>3
    <2>2. Done' = Done /\ UNCHANGED address
      BY <1>6 DEF Retry, Stalled, Take, Done, outputVars
    <2>3. \A r \in Runners : run'[r].owns /\ run'[r].pc = "finish" =>
            run[r].owns /\ run[r].pc = "finish" /\ run'[r].job = run[r].job
      <3>1. FirstCall(j) # "finish"
        BY DEF FirstCall
      <3>. QED
        BY <1>1, <1>6, <3>1, TakeStarts DEF Retry, Stalled
    <2>4. \A i \in EmailJobs : Pending(i)' /\ job'[i].due => Owner[i[2]] \in address' /\ Smtp'
      BY <1>1, <1>2, <2>1, <2>2 DEF PromiseInv, Pending, Smtp
    <2>. QED
      BY <2>1, <2>2, <2>3, <2>4, PromiseStep
  <1>7. ASSUME NEW r \in Runners, Complete(r) \/ RunFails(r) \/ Unanswered(r)
        PROVE  PromiseInv'
    <2>1. /\ run'[r] = Resting
          /\ \A q \in Runners \ {r} : run'[q] = run[q]
          /\ ~ run[r].owns => UNCHANGED job
          /\ run[r].owns =>
               /\ run[r].job \in Jobs /\ job[run[r].job].state = "active"
               /\ job'[run[r].job].due = job[run[r].job].due
               /\ \A i \in Jobs \ {run[r].job} : job'[i] = job[i]
      <3>1. CASE Complete(r)
        BY <3>1, CompleteEnds
      <3>2. CASE RunFails(r) \/ Unanswered(r)
        BY <3>2, ThrowEnds, FailingThrows
      <3>. QED
        BY <1>7, <3>1, <3>2
    <2>2. \A i \in Jobs : job'[i].due = job[i].due
      BY <2>1
    <2>3. \A i \in Jobs : Pending(i)' => Pending(i)
      BY <2>1 DEF Pending
    <2>4. UNCHANGED address /\ Done \subseteq Done'
      <3>1. CASE Complete(r) \/ RunFails(r)
        BY <3>1 DEF Complete, RunFails, Done, outputVars
      <3>2. CASE Unanswered(r)
        BY <1>1, <3>2, ProcessorDoes
        DEF Unanswered, SendUnanswered, SaveUrlUnanswered, CacheReportUnanswered
      <3>. QED
        BY <1>7, <3>1, <3>2
    <2>5. \A q \in Runners : run'[q].owns /\ run'[q].pc = "finish" =>
            run[q].owns /\ run[q].pc = "finish" /\ run'[q].job = run[q].job
      BY <2>1 DEF Resting
    <2>6. \A i \in EmailJobs : Pending(i)' /\ job'[i].due => Owner[i[2]] \in address' /\ Smtp'
      BY <1>1, <1>2, <2>2, <2>3, <2>4 DEF PromiseInv, Smtp
    <2>. QED
      BY <2>2, <2>4, <2>5, <2>6, PromiseStep
  <1>8. ASSUME NEW r \in Runners, LoseLock(r)
        PROVE  PromiseInv'
    <2>1. Done' = Done /\ UNCHANGED <<job, address>>
      BY <1>8 DEF LoseLock, Done, outputVars
    <2>2. \A q \in Runners : run'[q].owns => run'[q] = run[q]
      BY <1>1, <1>8, LoseLockLeaves
    <2>. QED
      BY <1>2, <2>1, <2>2, PromiseStep DEF PromiseInv, Pending, Smtp
  <1>9. CASE Crash
    <2>1. Done' = Done /\ UNCHANGED <<job, address>> /\ \A q \in Runners : ~ run'[q].owns
      BY <1>9 DEF Crash, Done, outputVars, Resting
    <2>. QED
      BY <1>2, <2>1, PromiseStep DEF PromiseInv, Pending, Smtp
  <1>10. ASSUME NEW r \in Runners, WriteSome(r)
         PROVE  PromiseInv'
    <2>1. Done' = Done /\ UNCHANGED <<job, run, address>>
      <3>1. ~ Delivers(r)
        BY <1>10 DEF WriteSome, Delivers, SendMail, SendUnanswered, SaveUrl, SaveUrlUnanswered, At
      <3>. QED
        BY <1>1, <1>10, <3>1, ProcessorDoes DEF WriteSome, jobVars
    <2>. QED
      BY <1>2, <2>1, PromiseStep DEF PromiseInv, Pending, Smtp
  <1>. QED
    BY <1>1, <1>2, <1>3, <1>4, <1>5, <1>6, <1>7, <1>8, <1>9, <1>10, QueueSteps, PromiseProcess
       DEF Process

\* At the start nothing is promised.
LEMMA PromiseInit ==
  ASSUME Init
  PROVE  PromiseInv
  <1>1. /\ \A j \in EmailJobs : job[j] = Unqueued
        /\ \A r \in Runners : run[r] = Resting
    BY EmailJobQueue DEF Init
  <1>. QED
    BY <1>1 DEF PromiseInv, Unqueued, Pending, Resting

\* A step that leaves the mails, the urls and the jobs that requests add is a stutter.
LEMMA JobsStay ==
  ASSUME \A j \in BookingJobs : AbstractState(j)' = AbstractState(j),
         \A j \in BookingJobs : job'[j].due <=> job[j].due,
         \A j \in BookingJobs : job'[j].state = "none" <=> job[j].state = "none",
         Done' = Done
  PROVE  UNCHANGED <<PromisedState, Idle, Done>>
  <1>1. PromisedState' = PromisedState
    BY DEF PromisedState
  <1>2. Idle' = Idle
    BY DEF Idle
  <1>. QED
    BY <1>1, <1>2

\* A job that changes its state among those that AtLeastOnce knows.
LEMMA JobMoves ==
  ASSUME NEW j \in Jobs, TypeOK, job[j].state # "none", job'[j].state # "none",
         job'[j].due = job[j].due, \A i \in Jobs \ {j} : job'[i] = job[i]
  PROVE  /\ j \in BookingJobs => PromisedState' = [PromisedState EXCEPT ![j] = AbstractState(j)']
         /\ j \notin BookingJobs => PromisedState' = PromisedState
         /\ Idle' = Idle
  <1>1. \A i \in BookingJobs : i \in Jobs
    BY DEF Jobs
  <1>2. \A i \in BookingJobs \ {j} : AbstractState(i)' = AbstractState(i)
    BY <1>1 DEF AbstractState
  <1>3. /\ j \in BookingJobs => PromisedState' = [PromisedState EXCEPT ![j] = AbstractState(j)']
        /\ j \notin BookingJobs => PromisedState' = PromisedState
    BY <1>2 DEF PromisedState
  <1>4. \A i \in BookingJobs : job'[i].due = job[i].due /\ (job'[i].state = "none" <=> job[i].state = "none")
    BY <1>1
  <1>5. Idle' = Idle
    BY <1>4 DEF Idle
  <1>. QED
    BY <1>3, <1>5

PromiseStepOrStutter == Promise!Next \/ UNCHANGED <<PromisedState, Idle, Done>>

\* A job that is added is accepted.
LEMMA AddsAccepts ==
  ASSUME NEW j \in Jobs, TypeOK, Adds(j)
  PROVE  PromiseStepOrStutter
  <1>1. /\ \A i \in BookingJobs : i \in Jobs
        /\ \A i \in Jobs \ {j} : job'[i] = job[i]
        /\ job[j].state = "none" /\ job'[j].state = "waiting"
        /\ Done' = Done
    BY DEF Adds, Jobs, Unqueued, Done
  <1>2. \A i \in BookingJobs \ {j} : AbstractState(i)' = AbstractState(i)
    BY <1>1 DEF AbstractState
  <1>3. CASE j \in BookingJobs
    <2>1. PromisedState[j] = "absent" /\ AbstractState(j)' = "accepted"
      BY <1>1, <1>3 DEF PromisedState, AbstractState
    <2>2. PromisedState' = [PromisedState EXCEPT ![j] = "accepted"]
      BY <1>2, <2>1 DEF PromisedState
    <2>3. Idle' = IF job'[j].due THEN Idle ELSE Idle \cup {j}
      BY <1>1, <1>3 DEF Idle
    <2>4. Promise!Accept(j)
      BY <1>1, <2>1, <2>2, <2>3 DEF Promise!Accept
    <2>. QED
      BY <1>3, <2>4 DEF PromiseStepOrStutter, Promise!Next
  <1>4. CASE j \notin BookingJobs
    <2>1. \A i \in BookingJobs : job'[i] = job[i]
      BY <1>1, <1>4
    <2>2. PromisedState' = PromisedState /\ Idle' = Idle
      BY <2>1 DEF PromisedState, AbstractState, Idle
    <2>. QED
      BY <1>1, <2>2 DEF PromiseStepOrStutter
  <1>. QED
    BY <1>3, <1>4

\* A user without an address excuses the mails that wait for it.
LEMMA DropExcuses ==
  ASSUME NEW u \in Users, TypeOK, DropAddress(u)
  PROVE  PromiseStepOrStutter
  <1> DEFINE S == {j \in EmailJobs : Owner[j[2]] = u /\ Pending(j)}
  <1>1. \A j \in BookingJobs :
          /\ j \in Jobs /\ job'[j].state = job[j].state
          /\ job'[j].due <=> job[j].due /\ j \notin S
    BY AddressDropped DEF Jobs
  <1>2. Done' = Done
    BY DEF DropAddress, Done, outputVars
  <1>3. PromisedState' = PromisedState
    BY <1>1 DEF PromisedState, AbstractState
  <1>4. S \subseteq {j \in BookingJobs : PromisedState[j] = "accepted"}
    BY DEF PromisedState, AbstractState, Pending, BookingJobs
  <1>5. \A j \in S : job[j].state # "none" /\ j \in BookingJobs
    BY DEF Pending, BookingJobs
  <1>. HIDE DEF S
  <1>6. Idle' = Idle \cup S
    BY <1>1, <1>5 DEF Idle
  <1>7. Promise!Excuse
    BY <1>2, <1>3, <1>4, <1>6 DEF Promise!Excuse
  <1>. QED
    BY <1>7 DEF PromiseStepOrStutter, Promise!Next

\* To retry a job, to take it, and a stall keep it accepted or fail it.
LEMMA QueueStutters ==
  ASSUME NEW j \in Jobs, DeliveryInv, Retry(j) \/ Stalled(j) \/ \E r \in Runners : Take(r, j)
  PROVE  PromiseStepOrStutter
  <1>1. TypeOK /\ \A i \in BookingJobs : i \in Jobs
    BY DEF DeliveryInv, Jobs
  <1>2. /\ job[j].state \in {"waiting", "active", "delayed"}
        /\ job'[j].state \in {"waiting", "active", "failed"}
        /\ job'[j].due = job[j].due
        /\ \A i \in Jobs \ {j} : job'[i] = job[i]
    <2>1. CASE Retry(j)
      BY <1>1, <2>1, StateWritten DEF Retry, JobStates
    <2>2. CASE Stalled(j)
      BY <1>1, <2>2, StallCounts DEF Stalled, DeliveryInv, JobSound, Pending
    <2>3. CASE \E r \in Runners : Take(r, j)
      BY <1>1, <2>3, TakeStarts
    <2>. QED
      BY <2>1, <2>2, <2>3
  <1>3. Done' = Done
    BY DEF Retry, Stalled, Take, Done, outputVars
  <1>4. /\ j \in BookingJobs => PromisedState' = [PromisedState EXCEPT ![j] = AbstractState(j)']
        /\ j \notin BookingJobs => PromisedState' = PromisedState
        /\ Idle' = Idle
    BY <1>1, <1>2, JobMoves
  <1>5. CASE j \notin BookingJobs
    BY <1>3, <1>4, <1>5 DEF PromiseStepOrStutter
  <1>6. CASE j \in BookingJobs
    <2>1. PromisedState[j] = "accepted"
      BY <1>2, <1>6 DEF PromisedState, AbstractState
    <2>2. CASE job'[j].state = "failed"
      <3>1. AbstractState(j)' = "failed"
        BY <2>2 DEF AbstractState
      <3>2. Promise!Settle(j)
        BY <1>3, <1>4, <1>6, <2>1, <3>1 DEF Promise!Settle
      <3>. QED
        BY <1>6, <3>2 DEF PromiseStepOrStutter, Promise!Next
    <2>3. CASE job'[j].state # "failed"
      <3>1. AbstractState(j)' = "accepted"
        BY <1>2, <2>3 DEF AbstractState
      <3>2. PromisedState' = PromisedState
        BY <1>4, <1>6, <2>1, <3>1 DEF PromisedState
      <3>. QED
        BY <1>3, <1>4, <3>2 DEF PromiseStepOrStutter
    <2>. QED
      BY <2>2, <2>3
  <1>. QED
    BY <1>5, <1>6

\* What a run does to its job is carried out.
LEMMA ProcessCarriesOut ==
  ASSUME NEW r \in Runners, DeliveryInv, TypeOK',
         \/ FindUser(r) \/ FindBooking(r) \/ SendMail(r)
         \/ Load(r) \/ OpenFile(r) \/ WriteFile(r) \/ SaveUrl(r)
         \/ Aggregate(r) \/ CacheReport(r)
  PROVE  PromiseStepOrStutter
  <1>1. UNCHANGED job
    BY ProcessorSteps
  <1>2. PromisedState' = PromisedState /\ Idle' = Idle
    BY <1>1 DEF PromisedState, AbstractState, Idle
  <1>3. CASE SendMail(r) \/ SaveUrl(r)
    <2>1. run[r].job \in BookingJobs /\ Done' = Done \cup {run[r].job}
      BY <1>3, ProcessorDoes DEF Delivers
    <2>2. job[run[r].job].state # "none"
      BY <1>3, RunFacts DEF SendMail, SaveUrl, At, RunSound
    <2>3. PromisedState[run[r].job] # "absent"
      BY <2>1, <2>2 DEF PromisedState, AbstractState
    <2>4. Promise!CarryOut(run[r].job)
      BY <1>2, <2>1, <2>3 DEF Promise!CarryOut
    <2>. QED
      BY <2>1, <2>4 DEF PromiseStepOrStutter, Promise!Next
  <1>4. CASE ~ (SendMail(r) \/ SaveUrl(r))
    <2>1. ~ Delivers(r)
      <3>1. SendUnanswered(r) \/ SaveUrlUnanswered(r) => End(r)
        BY DEF SendUnanswered, SaveUrlUnanswered, Throw
      <3>2. run'[r].pc # "idle"
        BY ProcessorSteps DEF ProcessorMoves
      <3>. QED
        BY <1>4, <3>1, <3>2, EndRests DEF DeliveryInv, Resting, Delivers
    <2>2. Done' = Done
      BY <1>4, <2>1, ProcessorDoes
    <2>. QED
      BY <1>2, <2>2 DEF PromiseStepOrStutter
  <1>. QED
    BY <1>3, <1>4

\* A job that is completed was carried out, or there was nothing to do.
LEMMA CompleteSettles ==
  ASSUME NEW r \in Runners, DeliveryInv, PromiseInv, Complete(r)
  PROVE  PromiseStepOrStutter
  <1>1. Done' = Done
    BY DEF Complete, Done, outputVars
  <1>2. CASE ~ run[r].owns
    <2>1. UNCHANGED job
      BY <1>2, CompleteEnds
    <2>. QED
      BY <1>1, <2>1 DEF PromiseStepOrStutter, PromisedState, AbstractState, Idle
  <1>3. CASE run[r].owns
    <2>1. PICK j \in Jobs :
            /\ j = run[r].job /\ job[j].state = "active" /\ job'[j].state = "completed"
            /\ job'[j].due = job[j].due
            /\ \A i \in Jobs \ {j} : job'[i] = job[i]
      BY <1>3, CompleteEnds
    <2>2. /\ j \in BookingJobs => PromisedState' = [PromisedState EXCEPT ![j] = AbstractState(j)']
          /\ j \notin BookingJobs => PromisedState' = PromisedState
          /\ Idle' = Idle
      BY <2>1, JobMoves DEF DeliveryInv
    <2>3. CASE j \notin BookingJobs
      BY <1>1, <2>2, <2>3 DEF PromiseStepOrStutter
    <2>4. CASE j \in BookingJobs
      <3>1. PromisedState[j] = "accepted" /\ AbstractState(j)' = "done"
        BY <2>1, <2>4 DEF PromisedState, AbstractState
      <3>2. j \in Done \cup Idle
        BY <1>3, <2>1, <2>4 DEF PromiseInv, Idle, Complete
      <3>3. Promise!Settle(j)
        BY <1>1, <2>2, <2>4, <3>1, <3>2 DEF Promise!Settle
      <3>. QED
        BY <2>4, <3>3 DEF PromiseStepOrStutter, Promise!Next
    <2>. QED
      BY <2>3, <2>4
  <1>. QED
    BY <1>2, <1>3

\* A failed attempt leaves the job accepted or fails it; the mail may be out, or the ticket
\* saved, all the same.
LEMMA ThrowSettles ==
  ASSUME NEW r \in Runners, DeliveryInv, TypeOK', RunFails(r) \/ Unanswered(r)
  PROVE  PromiseStepOrStutter
  <1>1. Throw(r) /\ run[r].pc # "idle" /\ TypeOK
    BY FailingThrows DEF DeliveryInv
  <1>2. \/ Done' = Done
        \/ run[r].job \in BookingJobs /\ Done' = Done \cup {run[r].job}
    <2>1. CASE RunFails(r)
      BY <2>1 DEF RunFails, Done, outputVars
    <2>2. CASE Unanswered(r)
      BY <2>2, ProcessorDoes
    <2>. QED
      BY <2>1, <2>2
  <1>3. PICK j \in Jobs : j = run[r].job /\ job[j].state # "none"
    BY <1>1, RunFacts DEF RunSound
  <1>4. CASE ~ run[r].owns
    <2>1. PromisedState' = PromisedState /\ Idle' = Idle
      BY <1>1, <1>4, ThrowEnds DEF PromisedState, AbstractState, Idle
    <2>2. CASE Done' = Done
      BY <2>1, <2>2 DEF PromiseStepOrStutter
    <2>3. CASE Done' # Done
      <3>1. j \in BookingJobs /\ Done' = Done \cup {j} /\ PromisedState[j] # "absent"
        BY <1>2, <1>3, <2>3 DEF PromisedState, AbstractState
      <3>2. Promise!CarryOut(j)
        BY <2>1, <3>1 DEF Promise!CarryOut
      <3>. QED
        BY <3>1, <3>2 DEF PromiseStepOrStutter, Promise!Next
    <2>. QED
      BY <2>2, <2>3
  <1>5. CASE run[r].owns
    <2>1. /\ job[j].state = "active" /\ job'[j].state \in {"delayed", "failed"}
          /\ job'[j].due = job[j].due
          /\ \A i \in Jobs \ {j} : job'[i] = job[i]
      BY <1>1, <1>3, <1>5, ThrowEnds
    <2>2. /\ j \in BookingJobs => PromisedState' = [PromisedState EXCEPT ![j] = AbstractState(j)']
          /\ j \notin BookingJobs => PromisedState' = PromisedState
          /\ Idle' = Idle
      BY <1>1, <2>1, JobMoves
    <2>3. CASE j \notin BookingJobs
      BY <1>2, <1>3, <2>2, <2>3 DEF PromiseStepOrStutter
    <2>4. CASE j \in BookingJobs /\ job'[j].state = "failed"
      <3>1. PromisedState[j] = "accepted" /\ AbstractState(j)' = "failed"
        BY <2>1, <2>4 DEF PromisedState, AbstractState
      <3>2. CASE Done' = Done
        <4>1. Promise!Settle(j)
          BY <2>2, <2>4, <3>1, <3>2 DEF Promise!Settle
        <4>. QED
          BY <2>4, <4>1 DEF PromiseStepOrStutter, Promise!Next
      <3>3. CASE Done' # Done
        <4>1. Promise!CarryOutAndFail(j)
          BY <1>2, <1>3, <2>2, <2>4, <3>1, <3>3 DEF Promise!CarryOutAndFail
        <4>. QED
          BY <2>4, <4>1 DEF PromiseStepOrStutter, Promise!Next
      <3>. QED
        BY <3>2, <3>3
    <2>5. CASE j \in BookingJobs /\ job'[j].state = "delayed"
      <3>1. PromisedState[j] = "accepted" /\ AbstractState(j)' = "accepted"
        BY <2>1, <2>5 DEF PromisedState, AbstractState
      <3>2. PromisedState' = PromisedState
        BY <2>2, <2>5, <3>1 DEF PromisedState
      <3>3. CASE Done' = Done
        BY <2>2, <3>2, <3>3 DEF PromiseStepOrStutter
      <3>4. CASE Done' # Done
        <4>1. Promise!CarryOut(j)
          BY <1>2, <1>3, <2>2, <2>5, <3>1, <3>2, <3>4 DEF Promise!CarryOut
        <4>. QED
          BY <2>5, <4>1 DEF PromiseStepOrStutter, Promise!Next
      <3>. QED
        BY <3>3, <3>4
    <2>. QED
      BY <2>1, <2>3, <2>4, <2>5
  <1>. QED
    BY <1>4, <1>5

\* Every step is a step of AtLeastOnce or leaves what it is about alone.
LEMMA PromiseRefined ==
  ASSUME DeliveryInv, DeliveryInv', PromiseInv, [Next]_vars
  PROVE  PromiseStepOrStutter
  <1>1. TypeOK /\ TypeOK'
    BY DEF DeliveryInv
  <1>2. CASE Quiet \/ Crash \/ \E r \in Runners : LoseLock(r)
    <2>1. UNCHANGED <<job, mails, ticket>>
      BY <1>2 DEF Quiet, Crash, LoseLock, outputVars
    <2>. QED
      BY <2>1 DEF PromiseStepOrStutter, PromisedState, AbstractState, Idle, Done
  <1>3. CASE \E r \in Runners : WriteSome(r)
    <2>1. PICK r \in Runners : WriteSome(r)
      BY <1>3
    <2>2. ~ Delivers(r) /\ UNCHANGED job
      BY <2>1 DEF WriteSome, jobVars, Delivers, SendMail, SendUnanswered, SaveUrl,
                  SaveUrlUnanswered, At
    <2>3. Done' = Done
      BY <1>1, <2>1, <2>2, ProcessorDoes
    <2>. QED
      BY <2>2, <2>3 DEF PromiseStepOrStutter, PromisedState, AbstractState, Idle
  <1>. QED
    BY <1>1, <1>2, <1>3, QueueSteps, AddsAccepts, DropExcuses, QueueStutters, ProcessCarriesOut,
       CompleteSettles, ThrowSettles DEF Process

\* The queues and workers implement AtLeastOnce: a job that was completed was carried out,
\* the mail handed to the mail server or the ticket saved, unless there was nothing to do,
\* through failed attempts, lost answers, stalls and restarts.
THEOREM CarriedOutAtLeastOnce == Spec => AtLeastOnceSpec
  <1>1. Init => Promise!Init
    <2>. SUFFICES ASSUME Init PROVE Promise!Init
      OBVIOUS
    <2>1. \A j \in BookingJobs : job[j] = Unqueued
      BY DEF Init, Jobs
    <2>2. \A j \in BookingJobs \ EmailJobs : ticket[j[2]].url = {}
      BY InvoiceJobQueue DEF Init, NoTicket
    <2>3. PromisedState = [j \in BookingJobs |-> "absent"] /\ Idle = {}
      BY <2>1 DEF PromisedState, AbstractState, Idle, Unqueued
    <2>4. Done = {}
      <3>1. \A j \in EmailJobs : ~ (mails[j] > 0)
        BY DEF Init
      <3>. QED
        BY <2>2, <3>1 DEF Done
    <2>. QED
      BY <2>3, <2>4 DEF Promise!Init
  <1>2. Init => PromiseInv
    BY PromiseInit
  <1>3. DeliveryInv /\ DeliveryInv' /\ PromiseInv /\ [Next]_vars => PromiseInv'
    BY PromiseNextInv
  <1>4. DeliveryInv /\ DeliveryInv' /\ PromiseInv /\ [Next]_vars =>
          [Promise!Next]_<<PromisedState, Idle, Done>>
    BY PromiseRefined DEF PromiseStepOrStutter
  <1>. QED
    BY <1>1, <1>2, <1>3, <1>4, DeliveryInvHolds, PTL DEF Spec, AtLeastOnceSpec, Promise!Spec
=============================================================================
