--------------------------- MODULE DeliveryProofs ---------------------------
(***************************************************************************)
(* Proofs about Delivery, for every set of bookings, users, administrators,*)
(* runs, sockets, buses and notifications, every mixture of activities and *)
(* failures, and every number of failures and days.                        *)
(***************************************************************************)
EXTENDS Delivery, FiniteSetTheorems, TLAPS

-----------------------------------------------------------------------------
(* The jobs *)

\* Every job has a queue; its kind tells which.
LEMMA EmailJobQueue ==
  ASSUME NEW j \in EmailJobs
  PROVE  j \in Jobs /\ j[2] \in Bookings /\ QueueOf(j) = "email"
  BY DEF EmailJobs, EmailTypes, QueueOf, Jobs, BookingJobs

\* A job that saves a ticket is the invoice of a verification, and in the invoice queue.
LEMMA InvoiceJobQueue ==
  ASSUME NEW j \in BookingJobs \ EmailJobs
  PROVE  /\ j \in Jobs /\ j[2] \in Bookings /\ j[3] \in Verifications
         /\ j = Invoice(j[2], j[3]) /\ QueueOf(j) = "invoice"
  BY DEF EmailJobs, BookingJobs, EmailTypes, QueueOf, Invoice, Jobs

\* A job of a day is in the analytics queue, and about no booking.
LEMMA DailyJobQueue ==
  ASSUME NEW j \in DailyJobs
  PROVE  /\ j \in Jobs /\ j[2] \in Days /\ j = Daily(j[2]) /\ QueueOf(j) = "analytics"
         /\ j \notin BookingJobs
  BY DEF EmailJobs, BookingJobs, DailyJobs, EmailTypes, QueueOf, Daily, Jobs

\* The jobs that a request adds, and those of the scheduler.
LEMMA CreatedJob ==
  ASSUME NEW b \in Bookings
  PROVE  <<"booking_created", b>> \in EmailJobs /\ <<"booking_created", b>> \in Jobs
  BY DEF EmailJobs, BookingJobs, Jobs

\* The jobs that a verification queues.
LEMMA VerifiedJobs ==
  ASSUME NEW b \in Bookings, NEW v \in Verifications
  PROVE  /\ <<"booking_confirmed", b, v>> \in EmailJobs /\ <<"booking_confirmed", b, v>> \in Jobs
         /\ <<"payment_success", b, v>> \in EmailJobs /\ <<"payment_success", b, v>> \in Jobs
         /\ Invoice(b, v) \in BookingJobs \ EmailJobs /\ Invoice(b, v) \in Jobs
  BY DEF EmailJobs, BookingJobs, Jobs, Invoice

\* The same, whatever the type of the job.
LEMMA VerifiedJob ==
  ASSUME NEW b \in Bookings, NEW v \in Verifications,
         NEW type \in {"booking_confirmed", "generate-invoice", "payment_success"}
  PROVE  <<type, b, v>> \in BookingJobs /\ <<type, b, v>> \in Jobs
  <1>1. CASE type = "generate-invoice"
    BY <1>1 DEF BookingJobs, Jobs
  <1>2. CASE type \in {"booking_confirmed", "payment_success"}
    BY <1>2 DEF EmailJobs, BookingJobs, Jobs
  <1>. QED
    BY <1>1, <1>2

\* The job of each day is one.
LEMMA DailyJob ==
  ASSUME NEW d \in Days
  PROVE  Daily(d) \in DailyJobs /\ Daily(d) \in Jobs
  BY DEF DailyJobs, Jobs, Daily

\* A queue, its attempts, and the first call of its processor.
LEMMA Limits ==
  ASSUME NEW j \in Jobs
  PROVE  /\ QueueOf(j) \in {"email", "invoice", "analytics"}
         /\ Attempts[QueueOf(j)] \in {2, 3}
         /\ FirstCall(j) \in RunPCs \ {"idle"}
  BY DEF QueueOf, Attempts, FirstCall, RunPCs

-----------------------------------------------------------------------------
(* What the operations on jobs and runs do *)

\* A job that is written, and a run that is, leave the others alone.
LEMMA JobWritten ==
  ASSUME NEW j \in Jobs, NEW d \in JobDocs, TypeOK, job' = [job EXCEPT ![j] = d]
  PROVE  /\ job' \in [Jobs -> JobDocs]
         /\ job'[j] = d
         /\ \A i \in Jobs \ {j} : job'[i] = job[i]
  BY DEF TypeOK

\* A write of one run leaves the others alone.
LEMMA RunWritten ==
  ASSUME NEW r \in Runners, NEW d \in Runs, TypeOK, run' = [run EXCEPT ![r] = d]
  PROVE  /\ run' \in [Runners -> Runs]
         /\ run'[r] = d
         /\ \A q \in Runners \ {r} : run'[q] = run[q]
  BY DEF TypeOK

\* A runner at rest and a job that was never added have their types.
LEMMA DefaultsType == Resting \in Runs /\ Unqueued \in JobDocs
  BY DeliveryConstants DEF Resting, Runs, RunPCs, Unqueued, JobDocs, JobStates

\* A processor that goes on to its next call keeps its job and its lock.
LEMMA GotoMoves ==
  ASSUME NEW r \in Runners, NEW pc \in RunPCs, TypeOK, Goto(r, pc)
  PROVE  /\ run' \in [Runners -> Runs]
         /\ run'[r].pc = pc /\ run'[r].job = run[r].job
         /\ run'[r].owns = run[r].owns /\ run'[r].count = run[r].count
         /\ \A q \in Runners \ {r} : run'[q] = run[q]
  BY DEF TypeOK, Goto, Runs

\* A run that ends leaves its runner at rest.
LEMMA EndRests ==
  ASSUME NEW r \in Runners, TypeOK, End(r)
  PROVE  /\ run' \in [Runners -> Runs]
         /\ run'[r] = Resting
         /\ \A q \in Runners \ {r} : run'[q] = run[q]
  BY DefaultsType, RunWritten DEF End

\* A job that is added waits, with no attempt and no stall counted.
LEMMA AddQueues ==
  ASSUME NEW j \in Jobs, NEW due \in BOOLEAN, TypeOK, Add(j, due)
  PROVE  /\ job' \in [Jobs -> JobDocs]
         /\ job'[j].state = "waiting" /\ job'[j].attempts = 0 /\ job'[j].stalls = 0
         /\ job'[j].due = due
         /\ \A i \in Jobs \ {j} : job'[i] = job[i]
  <1> DEFINE d == [Unqueued EXCEPT !.state = "waiting", !.due = due]
  <1>1. /\ d \in JobDocs /\ d.state = "waiting" /\ d.attempts = 0 /\ d.stalls = 0
        /\ d.due = due
    BY DefaultsType DEF Unqueued, JobDocs, JobStates
  <1>2. job' = [job EXCEPT ![j] = d]
    BY DEF Add
  <1>. HIDE DEF d
  <1>. QED
    BY <1>1, <1>2, JobWritten

\* A state that is written leaves the counters.
LEMMA StateWritten ==
  ASSUME NEW j \in Jobs, NEW st \in JobStates, TypeOK, job' = [job EXCEPT ![j].state = st]
  PROVE  /\ job' \in [Jobs -> JobDocs]
         /\ job'[j].state = st /\ job'[j].attempts = job[j].attempts
         /\ job'[j].stalls = job[j].stalls /\ job'[j].due = job[j].due
         /\ \A i \in Jobs \ {j} : job'[i] = job[i]
  BY DEF TypeOK, JobDocs

\* A failed attempt is counted; the job waits or has failed for good.
LEMMA FailedCounts ==
  ASSUME NEW j \in Jobs, TypeOK, job[j].attempts < Attempts[QueueOf(j)],
         job' = [job EXCEPT ![j] = Failed(j)]
  PROVE  /\ job' \in [Jobs -> JobDocs]
         /\ job'[j].attempts = job[j].attempts + 1
         /\ job'[j].stalls = job[j].stalls /\ job'[j].due = job[j].due
         /\ job'[j].state = IF job[j].attempts + 1 < Attempts[QueueOf(j)]
                            THEN "delayed" ELSE "failed"
         /\ \A i \in Jobs \ {j} : job'[i] = job[i]
  <1> DEFINE n == job[j].attempts + 1
             st == IF n < Attempts[QueueOf(j)] THEN "delayed" ELSE "failed"
             d == [job[j] EXCEPT !.attempts = n, !.state = st]
  <1>1. job[j] \in JobDocs /\ n \in 0 .. 3 /\ st \in JobStates
    BY Limits DEF TypeOK, JobDocs, JobStates
  <1>2. /\ d \in JobDocs /\ d.attempts = n /\ d.state = st
        /\ d.stalls = job[j].stalls /\ d.due = job[j].due
    <2>. HIDE DEF n, st
    <2>. QED
      BY <1>1 DEF JobDocs
  <1>3. job' = [job EXCEPT ![j] = d]
    BY DEF Failed
  <1>. HIDE DEF d
  <1>. QED
    BY <1>2, <1>3, JobWritten

\* A stall is counted; the job waits or has failed for good.
LEMMA StallCounts ==
  ASSUME NEW j \in Jobs, TypeOK, job[j].stalls <= MaxStalled, Stalled(j)
  PROVE  /\ job' \in [Jobs -> JobDocs]
         /\ job'[j].attempts = job[j].attempts
         /\ job'[j].stalls = job[j].stalls + 1 /\ job'[j].due = job[j].due
         /\ job'[j].state = IF job[j].stalls < MaxStalled THEN "waiting" ELSE "failed"
         /\ \A i \in Jobs \ {j} : job'[i] = job[i]
  <1> DEFINE n == job[j].stalls + 1
             st == IF job[j].stalls < MaxStalled THEN "waiting" ELSE "failed"
             d == [job[j] EXCEPT !.stalls = n, !.state = st]
  <1>1. job[j] \in JobDocs /\ n \in 0 .. 2 /\ st \in JobStates
    BY DEF TypeOK, JobDocs, JobStates, MaxStalled
  <1>2. job' = [job EXCEPT ![j] = d]
    BY <1>1 DEF Stalled, TypeOK
  <1>3. /\ d \in JobDocs /\ d.stalls = n /\ d.state = st
        /\ d.attempts = job[j].attempts /\ d.due = job[j].due
    <2>. HIDE DEF n, st
    <2>. QED
      BY <1>1 DEF JobDocs
  <1>. HIDE DEF d
  <1>. QED
    BY <1>2, <1>3, JobWritten

-----------------------------------------------------------------------------
(* Steps of the queues *)

\* A step of jobs and runs: it adds no job and is sound for every job and every run.
LEMMA QueueStepInv ==
  ASSUME DeliveryInv, TypeOK', UNCHANGED <<bookingVars, today>>,
         \A j \in Jobs : job[j].state = "none" => job'[j].state = "none",
         \A j \in Jobs : JobSound(j)',
         \A r \in Runners : RunSound(r)',
         LocksSound'
  PROVE  DeliveryInv'
  <1>1. ASSUME NEW b \in Bookings
        PROVE  TailSound(b)'
    <2>1. TailSound(b) /\ booking'[b] = booking[b] /\ request'[b] = request[b]
      BY DEF DeliveryInv, bookingVars
    <2>3. <<"booking_created", b>> \in Jobs
      BY CreatedJob
    <2>4. ASSUME NEW v \in Verifications
          PROVE  LET before == {"idle", "setConfirmed", "unlockConfirmed", "addTicket"} IN
                 /\ request'[b][v] \in before => job'[<<"booking_confirmed", b, v>>].state = "none"
                 /\ request'[b][v] \in before \cup {"addInvoice"} => InvoiceState(b, v)' = "none"
                 /\ request'[b][v] # "over" => job'[<<"payment_success", b, v>>].state = "none"
      <3>1. /\ <<"booking_confirmed", b, v>> \in Jobs
            /\ <<"payment_success", b, v>> \in Jobs /\ Invoice(b, v) \in Jobs
        BY VerifiedJobs
      <3>. QED
        BY <2>1, <3>1 DEF TailSound, InvoiceState
    <2>. QED
      BY <2>1, <2>3, <2>4 DEF TailSound
  <1>2. \A d \in Days : d > today' => job'[Daily(d)].state = "none"
    <2>1. ASSUME NEW d \in Days, d > today'
          PROVE  job'[Daily(d)].state = "none"
      <3>1. Daily(d) \in Jobs
        BY <2>1, DailyJob
      <3>2. d > today
        BY <2>1
      <3>. QED
        BY <2>1, <3>1, <3>2 DEF DeliveryInv
    <2>. QED
      BY <2>1
  <1>. QED
    BY <1>1, <1>2 DEF DeliveryInv

\* A run that moves on, and neither gains a lock nor changes its job.
LEMMA RunStepInv ==
  ASSUME NEW r \in Runners, DeliveryInv, TypeOK', UNCHANGED <<bookingVars, job, today>>,
         RunSound(r)', run'[r].owns => run[r].owns /\ run'[r].job = run[r].job,
         \A q \in Runners \ {r} : run'[q] = run[q]
  PROVE  DeliveryInv'
  <1>1. \A j \in Jobs : JobSound(j)'
    BY DEF DeliveryInv, JobSound, Pending
  <1>2. \A q \in Runners : RunSound(q)'
    BY DEF DeliveryInv, RunSound
  <1>3. LocksSound'
    BY DEF DeliveryInv, LocksSound
  <1>. QED
    BY <1>1, <1>2, <1>3, QueueStepInv

\* A job that changes its state while the runs stay, or one of them ends.
LEMMA JobStepInv ==
  ASSUME NEW j \in Jobs, DeliveryInv, TypeOK', UNCHANGED <<bookingVars, today>>,
         job[j].state # "none", job'[j].state # "none", JobSound(j)',
         \A i \in Jobs \ {j} : job'[i] = job[i],
         \A r \in Runners : run'[r] \in {run[r], Resting},
         \A r \in Runners : run'[r].owns /\ run'[r].job = j => job'[j].state = "active"
  PROVE  DeliveryInv'
  <1>1. \A i \in Jobs : JobSound(i)'
    BY DEF DeliveryInv, JobSound, Pending
  <1>2. ASSUME NEW r \in Runners
        PROVE  RunSound(r)'
    <2>1. CASE run'[r] = Resting
      BY <2>1 DEF RunSound, Resting, EmailPCs, InvoicePCs, DailyPCs
    <2>2. CASE run'[r] = run[r]
      <3>1. RunSound(r)
        BY DEF DeliveryInv
      <3>2. run[r].owns => run[r].job \in Jobs
        BY <3>1 DEF RunSound, Resting
      <3>. QED
        BY <2>2, <3>1, <3>2 DEF RunSound
    <2>. QED
      BY <2>1, <2>2
  <1>3. LocksSound'
    <2>1. ~ Resting.owns
      BY DEF Resting
    <2>. QED
      BY <2>1 DEF DeliveryInv, LocksSound
  <1>. QED
    BY <1>1, <1>2, <1>3, QueueStepInv

\* What the invariant says of one run, and of the job it holds.
LEMMA RunFacts ==
  ASSUME NEW r \in Runners, DeliveryInv
  PROVE  /\ TypeOK /\ RunSound(r) /\ run[r] \in Runs
         /\ run[r].pc # "idle" =>
              /\ run[r].job \in Jobs /\ job[run[r].job] \in JobDocs
              /\ JobSound(run[r].job)
         /\ run[r].owns => run[r].pc # "idle"
  BY DEF DeliveryInv, TypeOK, RunSound, Resting

\* A worker that takes a job gets its lock; nobody else has it, for the job was not active.
LEMMA TakeInv ==
  ASSUME NEW r \in Runners, NEW j \in Jobs, DeliveryInv, Take(r, j), UNCHANGED ops
  PROVE  DeliveryInv'
  <1> DEFINE d == [Resting EXCEPT !.job = j, !.pc = FirstCall(j), !.owns = TRUE]
  <1>1. /\ d \in Runs /\ d.job = j /\ d.pc = FirstCall(j) /\ d.owns = TRUE
        /\ FirstCall(j) \in RunPCs \ {"idle"}
    BY DefaultsType, Limits DEF Resting, Runs
  <1>2. TypeOK /\ JobSound(j) /\ job[j].state = "waiting"
    BY DEF DeliveryInv, Take
  <1>3. /\ job' \in [Jobs -> JobDocs]
        /\ job'[j].state = "active" /\ job'[j].attempts = job[j].attempts
        /\ job'[j].stalls = job[j].stalls
        /\ \A i \in Jobs \ {j} : job'[i] = job[i]
    BY <1>2, StateWritten DEF Take, JobStates
  <1>4. run' = [run EXCEPT ![r] = d]
    BY DEF Take
  <1>. HIDE DEF d
  <1>5. /\ run' \in [Runners -> Runs]
        /\ run'[r] = d
        /\ \A q \in Runners \ {r} : run'[q] = run[q]
    BY <1>1, <1>2, <1>4, RunWritten
  <1>6. TypeOK'
    BY <1>2, <1>3, <1>5
    DEF Take, TypeOK, bookingVars, outputVars, dayVars, socketVars
  <1>7. \A i \in Jobs : JobSound(i)'
    BY <1>2, <1>3 DEF DeliveryInv, JobSound, Pending
  <1>8. ASSUME NEW q \in Runners
        PROVE  RunSound(q)' /\ (q # r => ~ (run'[q].owns /\ run'[q].job = j))
    <2>1. CASE q = r
      <3>1. /\ d.pc \in EmailPCs => j \in EmailJobs
            /\ d.pc \in InvoicePCs => j \in BookingJobs \ EmailJobs
            /\ d.pc \in DailyPCs => j \in DailyJobs
        BY <1>1, EmailJobQueue, InvoiceJobQueue, DailyJobQueue
        DEF FirstCall, EmailPCs, InvoicePCs, DailyPCs, Jobs
      <3>. QED
        BY <1>1, <1>3, <1>5, <2>1, <3>1 DEF RunSound
    <2>2. CASE q # r
      <3>1. RunSound(q) /\ run'[q] = run[q] /\ (run[q].owns => run[q].job \in Jobs)
        BY <1>5, <2>2, RunFacts DEF RunSound
      <3>2. ~ (run[q].owns /\ run[q].job = j)
        BY <1>2, <3>1 DEF RunSound
      <3>. QED
        BY <1>2, <1>3, <3>1, <3>2 DEF RunSound
    <2>. QED
      BY <2>1, <2>2
  <1>9. LocksSound'
    BY <1>1, <1>5, <1>8 DEF DeliveryInv, LocksSound
  <1>. QED
    BY <1>2, <1>3, <1>6, <1>7, <1>8, <1>9, QueueStepInv DEF Take, dayVars

\* A delayed job is tried again with the attempts it has left.
LEMMA RetryInv ==
  ASSUME NEW j \in Jobs, DeliveryInv, Retry(j), UNCHANGED ops
  PROVE  DeliveryInv'
  <1>1. TypeOK /\ JobSound(j) /\ job[j].state = "delayed"
    BY DEF DeliveryInv, Retry
  <1>2. /\ job' \in [Jobs -> JobDocs]
        /\ job'[j].state = "waiting" /\ job'[j].attempts = job[j].attempts
        /\ job'[j].stalls = job[j].stalls
        /\ \A i \in Jobs \ {j} : job'[i] = job[i]
    BY <1>1, StateWritten DEF Retry, JobStates
  <1>3. TypeOK'
    BY <1>1, <1>2 DEF Retry, TypeOK, bookingVars, outputVars, dayVars, socketVars
  <1>4. JobSound(j)'
    BY <1>1, <1>2 DEF JobSound, Pending
  <1>5. \A r \in Runners : ~ (run[r].owns /\ run[r].job = j)
    BY <1>1 DEF DeliveryInv, RunSound
  <1>. QED
    BY <1>1, <1>2, <1>3, <1>4, <1>5, JobStepInv DEF Retry, dayVars

\* A job that stalls has no lock, and stalls once at most before it fails.
LEMMA StalledInv ==
  ASSUME NEW j \in Jobs, DeliveryInv, Stalled(j), UNCHANGED ops
  PROVE  DeliveryInv'
  <1>1. /\ TypeOK /\ JobSound(j) /\ job[j].state = "active" /\ job[j] \in JobDocs
        /\ job[j].stalls <= MaxStalled /\ job[j].attempts < Attempts[QueueOf(j)]
    BY DEF DeliveryInv, TypeOK, Stalled, JobSound, Pending
  <1>2. /\ job' \in [Jobs -> JobDocs]
        /\ job'[j].attempts = job[j].attempts
        /\ job'[j].stalls = job[j].stalls + 1
        /\ job'[j].state = IF job[j].stalls < MaxStalled THEN "waiting" ELSE "failed"
        /\ \A i \in Jobs \ {j} : job'[i] = job[i]
    BY <1>1, StallCounts
  <1>3. TypeOK'
    BY <1>1, <1>2 DEF Stalled, TypeOK, bookingVars, outputVars, dayVars, socketVars
  <1>4. JobSound(j)'
    BY <1>1, <1>2, Limits DEF JobSound, Pending, JobDocs, MaxStalled
  <1>5. \A r \in Runners : ~ (run[r].owns /\ run[r].job = j)
    BY DEF Stalled, Held
  <1>. QED
    BY <1>1, <1>2, <1>3, <1>4, <1>5, JobStepInv DEF Stalled, dayVars

\* A run ends with an error: if it holds the job, the attempt has failed.
LEMMA ThrowInv ==
  ASSUME NEW r \in Runners, DeliveryInv, TypeOK', Throw(r), run[r].pc # "idle",
         UNCHANGED <<bookingVars, today>>
  PROVE  DeliveryInv'
  <1>1. PICK j \in Jobs : /\ j = run[r].job /\ job[j] \in JobDocs /\ JobSound(j)
                         /\ TypeOK /\ RunSound(r)
    BY RunFacts
  <1>2. /\ run'[r] = Resting
        /\ \A q \in Runners \ {r} : run'[q] = run[q]
    BY <1>1, EndRests DEF Throw
  <1>3. CASE ~ run[r].owns
    <2>1. UNCHANGED job
      BY <1>3 DEF Throw
    <2>2. RunSound(r)' /\ ~ run'[r].owns
      BY <1>2 DEF RunSound, Resting, EmailPCs, InvoicePCs, DailyPCs
    <2>. QED
      BY <1>2, <2>1, <2>2, RunStepInv
  <1>4. CASE run[r].owns
    <2>1. job[j].state = "active" /\ job[j].attempts < Attempts[QueueOf(j)]
          /\ job[j].stalls <= MaxStalled
      BY <1>1, <1>4 DEF RunSound, JobSound, Pending
    <2>2. job' = [job EXCEPT ![j] = Failed(j)]
      BY <1>1, <1>4 DEF Throw
    <2>3. /\ job'[j].attempts = job[j].attempts + 1
          /\ job'[j].stalls = job[j].stalls
          /\ job'[j].state = IF job[j].attempts + 1 < Attempts[QueueOf(j)]
                             THEN "delayed" ELSE "failed"
          /\ \A i \in Jobs \ {j} : job'[i] = job[i]
      BY <1>1, <2>1, <2>2, FailedCounts
    <2>4. JobSound(j)'
      BY <1>1, <2>1, <2>3, Limits DEF JobSound, Pending, JobDocs, MaxStalled
    <2>5. \A q \in Runners : ~ (run'[q].owns /\ run'[q].job = j)
      BY <1>1, <1>2, <1>4 DEF DeliveryInv, LocksSound, Resting
    <2>. QED
      BY <1>1, <1>2, <2>1, <2>3, <2>4, <2>5, JobStepInv
  <1>. QED
    BY <1>3, <1>4

\* A run that throws leaves its job and its runner with their types.
LEMMA ThrowType ==
  ASSUME NEW r \in Runners, DeliveryInv, Throw(r), run[r].pc # "idle"
  PROVE  job' \in [Jobs -> JobDocs] /\ run' \in [Runners -> Runs]
  <1> DEFINE j == run[r].job
  <1>1. TypeOK /\ RunSound(r) /\ j \in Jobs /\ JobSound(j)
    BY RunFacts
  <1>2. run' \in [Runners -> Runs]
    BY <1>1, EndRests DEF Throw
  <1>3. CASE ~ run[r].owns
    BY <1>1, <1>2, <1>3 DEF Throw, TypeOK
  <1>4. CASE run[r].owns
    <2>1. job[j].attempts < Attempts[QueueOf(j)]
      BY <1>1, <1>4 DEF RunSound, JobSound, Pending
    <2>2. job' = [job EXCEPT ![j] = Failed(j)]
      BY <1>4 DEF Throw
    <2>. QED
      BY <1>1, <1>2, <2>1, <2>2, FailedCounts
  <1>. QED
    BY <1>3, <1>4

\* A run that completes its job held its lock, and leaves it.
LEMMA CompleteInv ==
  ASSUME NEW r \in Runners, DeliveryInv, Complete(r), UNCHANGED ops
  PROVE  DeliveryInv'
  <1>1. PICK j \in Jobs : /\ j = run[r].job /\ job[j] \in JobDocs /\ JobSound(j)
                         /\ TypeOK /\ RunSound(r)
    BY RunFacts DEF Complete
  <1>2. /\ run' \in [Runners -> Runs]
        /\ run'[r] = Resting
        /\ \A q \in Runners \ {r} : run'[q] = run[q]
    BY <1>1, EndRests DEF Complete
  <1>3. CASE ~ run[r].owns
    <2>1. UNCHANGED job
      BY <1>3 DEF Complete
    <2>2. RunSound(r)' /\ ~ run'[r].owns
      BY <1>2 DEF RunSound, Resting, EmailPCs, InvoicePCs, DailyPCs
    <2>3. TypeOK'
      BY <1>1, <1>2, <2>1 DEF Complete, TypeOK, bookingVars, outputVars, dayVars, socketVars
    <2>. QED
      BY <1>2, <2>1, <2>2, <2>3, RunStepInv DEF Complete, dayVars
  <1>4. CASE run[r].owns
    <2>1. job[j].state = "active"
      BY <1>1, <1>4 DEF RunSound
    <2>2. job' = [job EXCEPT ![j].state = "completed"]
      BY <1>1, <1>4 DEF Complete
    <2>3. /\ job' \in [Jobs -> JobDocs]
          /\ job'[j].attempts = job[j].attempts
          /\ job'[j].stalls = job[j].stalls
          /\ job'[j].state = "completed"
          /\ \A i \in Jobs \ {j} : job'[i] = job[i]
      BY <1>1, <2>2, StateWritten DEF JobStates
    <2>4. JobSound(j)'
      BY <1>1, <2>1, <2>3 DEF JobSound, Pending
    <2>5. \A q \in Runners : ~ (run'[q].owns /\ run'[q].job = j)
      BY <1>1, <1>2, <1>4 DEF DeliveryInv, LocksSound, Resting
    <2>6. TypeOK'
      BY <1>1, <1>2, <2>3 DEF Complete, TypeOK, bookingVars, outputVars, dayVars, socketVars
    <2>. QED
      BY <1>1, <1>2, <2>1, <2>3, <2>4, <2>5, <2>6, JobStepInv DEF Complete, dayVars
  <1>. QED
    BY <1>3, <1>4

-----------------------------------------------------------------------------
(* Steps of the processors *)

\* A processor goes on with its job, or returns.
LEMMA MoveInv ==
  ASSUME NEW r \in Runners, NEW pc \in RunPCs \ {"idle"}, DeliveryInv, TypeOK',
         UNCHANGED <<bookingVars, job, today>>, run[r].pc # "idle",
         run'[r].pc = pc, run'[r].job = run[r].job, run'[r].owns => run[r].owns,
         \A q \in Runners \ {r} : run'[q] = run[q],
         \/ pc = "finish"
         \/ pc \in EmailPCs /\ run[r].pc \in EmailPCs
         \/ pc \in InvoicePCs /\ run[r].pc \in InvoicePCs
         \/ pc \in DailyPCs /\ run[r].pc \in DailyPCs
         \/ pc = run[r].pc
  PROVE  DeliveryInv'
  <1>1. RunSound(r)
    BY DEF DeliveryInv
  <1>2. RunSound(r)'
    BY <1>1 DEF RunSound, EmailPCs, InvoicePCs, DailyPCs
  <1>. QED
    BY <1>2, RunStepInv

\* email.worker.ts: the processor has read the user.
LEMMA FindUserInv ==
  ASSUME NEW r \in Runners, DeliveryInv, FindUser(r), UNCHANGED ops
  PROVE  DeliveryInv'
  <1>1. PICK pc \in {"finish", "findBooking", "sendMail"} : Goto(r, pc)
    BY DEF FindUser
  <1>2. TypeOK /\ run[r].pc = "findUser" /\ pc \in RunPCs \ {"idle"}
    BY DEF DeliveryInv, FindUser, At, RunPCs
  <1>3. /\ run' \in [Runners -> Runs]
        /\ run'[r].pc = pc /\ run'[r].job = run[r].job /\ run'[r].owns = run[r].owns
        /\ \A q \in Runners \ {r} : run'[q] = run[q]
    BY <1>1, <1>2, GotoMoves
  <1>4. TypeOK'
    BY <1>2, <1>3 DEF FindUser, TypeOK, bookingVars, outputVars, dayVars, socketVars
  <1>. QED
    BY <1>2, <1>3, <1>4, MoveInv DEF FindUser, dayVars, EmailPCs

\* email.worker.ts: the processor has read the booking.
LEMMA FindBookingInv ==
  ASSUME NEW r \in Runners, DeliveryInv, FindBooking(r), UNCHANGED ops
  PROVE  DeliveryInv'
  <1>1. PICK pc \in {"finish", "sendMail"} : Goto(r, pc)
    BY DEF FindBooking
  <1>2. TypeOK /\ run[r].pc = "findBooking" /\ pc \in RunPCs \ {"idle"}
    BY DEF DeliveryInv, FindBooking, At, RunPCs
  <1>3. /\ run' \in [Runners -> Runs]
        /\ run'[r].pc = pc /\ run'[r].job = run[r].job /\ run'[r].owns = run[r].owns
        /\ \A q \in Runners \ {r} : run'[q] = run[q]
    BY <1>1, <1>2, GotoMoves
  <1>4. TypeOK'
    BY <1>2, <1>3 DEF FindBooking, TypeOK, bookingVars, outputVars, dayVars, socketVars
  <1>. QED
    BY <1>2, <1>3, <1>4, MoveInv DEF FindBooking, dayVars, EmailPCs

\* invoice.worker.ts: the processor has read the booking, its payment and its user.
LEMMA LoadInv ==
  ASSUME NEW r \in Runners, DeliveryInv, Load(r), UNCHANGED ops
  PROVE  DeliveryInv'
  <1>1. Goto(r, "open") /\ TypeOK /\ run[r].pc = "load" /\ "open" \in RunPCs \ {"idle"}
    BY DEF DeliveryInv, Load, At, RunPCs
  <1>2. /\ run' \in [Runners -> Runs]
        /\ run'[r].pc = "open" /\ run'[r].job = run[r].job /\ run'[r].owns = run[r].owns
        /\ \A q \in Runners \ {r} : run'[q] = run[q]
    BY <1>1, GotoMoves
  <1>3. TypeOK'
    BY <1>1, <1>2 DEF Load, TypeOK, bookingVars, outputVars, dayVars, socketVars
  <1>. QED
    BY <1>1, <1>2, <1>3, MoveInv DEF Load, dayVars, InvoicePCs

\* The mail of the job that a run works on is counted once more.
LEMMA SentCounts ==
  ASSUME NEW r \in Runners, DeliveryInv, At(r, "sendMail"), Sent(r)
  PROVE  /\ JobOf(r) \in EmailJobs /\ mails' \in [EmailJobs -> Nat]
         /\ mails'[JobOf(r)] = mails[JobOf(r)] + 1
         /\ \A j \in EmailJobs \ {JobOf(r)} : mails'[j] = mails[j]
  <1>1. JobOf(r) \in EmailJobs /\ mails \in [EmailJobs -> Nat]
    BY RunFacts DEF RunSound, At, JobOf, EmailPCs, TypeOK
  <1>. QED
    BY <1>1 DEF Sent

\* email.worker.ts: the mail server has taken the mail.
LEMMA SendMailInv ==
  ASSUME NEW r \in Runners, DeliveryInv, SendMail(r), UNCHANGED ops
  PROVE  DeliveryInv'
  <1>1. Goto(r, "finish") /\ TypeOK /\ run[r].pc = "sendMail" /\ "finish" \in RunPCs \ {"idle"}
    BY DEF DeliveryInv, SendMail, At, RunPCs
  <1>2. /\ run' \in [Runners -> Runs]
        /\ run'[r].pc = "finish" /\ run'[r].job = run[r].job /\ run'[r].owns = run[r].owns
        /\ \A q \in Runners \ {r} : run'[q] = run[q]
    BY <1>1, GotoMoves
  <1>3. mails' \in [EmailJobs -> Nat]
    BY SentCounts DEF SendMail
  <1>4. TypeOK'
    BY <1>1, <1>2, <1>3 DEF SendMail, TypeOK, bookingVars, dayVars, socketVars
  <1>. QED
    BY <1>1, <1>2, <1>4, MoveInv DEF SendMail, dayVars

\* The booking and the verification of an invoice job.
LEMMA InvoiceRun ==
  ASSUME NEW r \in Runners, DeliveryInv, run[r].pc \in InvoicePCs
  PROVE  /\ BookingOf(r) \in Bookings /\ JobOf(r)[3] \in Verifications
         /\ JobOf(r) = Invoice(BookingOf(r), JobOf(r)[3])
         /\ ticket \in [Bookings -> Tickets] /\ ticket[BookingOf(r)] \in Tickets
  <1>1. run[r].job \in BookingJobs \ EmailJobs
    BY RunFacts DEF RunSound
  <1>2. /\ run[r].job[2] \in Bookings /\ run[r].job[3] \in Verifications
        /\ run[r].job = Invoice(run[r].job[2], run[r].job[3])
    BY <1>1, InvoiceJobQueue
  <1>. QED
    BY <1>2 DEF DeliveryInv, TypeOK, BookingOf, JobOf

\* Opening the file of a booking truncates it.
LEMMA OpenFileTears ==
  ASSUME NEW r \in Runners, DeliveryInv, OpenFile(r)
  PROVE  /\ ticket' \in [Bookings -> Tickets]
         /\ ticket'[BookingOf(r)].url = ticket[BookingOf(r)].url
         /\ ticket'[BookingOf(r)].file = "torn"
         /\ ticket'[BookingOf(r)].shared <=> Writers(BookingOf(r)) # {}
         /\ ticket'[BookingOf(r)].unanswered = ticket[BookingOf(r)].unanswered
         /\ \A b \in Bookings \ {BookingOf(r)} : ticket'[b] = ticket[b]
  <1> DEFINE d == Truncated(BookingOf(r))
  <1>1. /\ BookingOf(r) \in Bookings /\ ticket[BookingOf(r)] \in Tickets
        /\ ticket \in [Bookings -> Tickets]
    BY InvoiceRun DEF OpenFile, At, InvoicePCs
  <1>2. /\ d \in Tickets /\ d.url = ticket[BookingOf(r)].url /\ d.file = "torn"
        /\ d.shared <=> Writers(BookingOf(r)) # {}
        /\ d.unanswered = ticket[BookingOf(r)].unanswered
    BY <1>1 DEF Tickets, Truncated
  <1>3. ticket' = [ticket EXCEPT ![BookingOf(r)] = d]
    BY <1>1 DEF OpenFile
  <1>. HIDE DEF d
  <1>. QED
    BY <1>1, <1>2, <1>3

\* invoice.worker.ts: the file is open.
LEMMA OpenFileInv ==
  ASSUME NEW r \in Runners, DeliveryInv, OpenFile(r), UNCHANGED ops
  PROVE  DeliveryInv'
  <1>1. Goto(r, "write") /\ TypeOK /\ run[r].pc = "open" /\ "write" \in RunPCs \ {"idle"}
    BY DEF DeliveryInv, OpenFile, At, RunPCs
  <1>2. /\ run' \in [Runners -> Runs]
        /\ run'[r].pc = "write" /\ run'[r].job = run[r].job /\ run'[r].owns = run[r].owns
        /\ \A q \in Runners \ {r} : run'[q] = run[q]
    BY <1>1, GotoMoves
  <1>3. TypeOK'
    BY <1>1, <1>2, OpenFileTears DEF OpenFile, TypeOK, bookingVars, dayVars, socketVars
  <1>. QED
    BY <1>1, <1>2, <1>3, MoveInv DEF OpenFile, dayVars, InvoicePCs

\* Writing the file of a booking.
LEMMA FileWritten ==
  ASSUME NEW b \in Bookings, ticket \in [Bookings -> Tickets], NEW file \in {"torn", "whole"},
         ticket' = [ticket EXCEPT ![b].file = file]
  PROVE  /\ ticket' \in [Bookings -> Tickets]
         /\ ticket'[b].file = file
         /\ ticket'[b].url = ticket[b].url /\ ticket'[b].shared = ticket[b].shared
         /\ ticket'[b].unanswered = ticket[b].unanswered
         /\ \A c \in Bookings \ {b} : ticket'[c] = ticket[c]
  BY DEF Tickets

\* A stream that has finished leaves the file whole, unless it was not the only one.
LEMMA WriteFileMends ==
  ASSUME NEW r \in Runners, DeliveryInv, WriteFile(r)
  PROVE  /\ ticket' \in [Bookings -> Tickets]
         /\ ticket'[BookingOf(r)].file \in {"torn", "whole"}
         /\ ~ ticket[BookingOf(r)].shared => ticket'[BookingOf(r)].file = "whole"
         /\ ticket'[BookingOf(r)].url = ticket[BookingOf(r)].url
         /\ ticket'[BookingOf(r)].shared = ticket[BookingOf(r)].shared
         /\ ticket'[BookingOf(r)].unanswered = ticket[BookingOf(r)].unanswered
         /\ \A b \in Bookings \ {BookingOf(r)} : ticket'[b] = ticket[b]
  <1>1. BookingOf(r) \in Bookings /\ ticket \in [Bookings -> Tickets]
    BY InvoiceRun DEF WriteFile, At, InvoicePCs
  <1>2. PICK file \in {"torn", "whole"} :
          /\ ~ ticket[BookingOf(r)].shared => file = "whole"
          /\ ticket' = [ticket EXCEPT ![BookingOf(r)].file = file]
    BY DEF WriteFile
  <1>. QED
    BY <1>1, <1>2, FileWritten

\* The bytes of another stream tear the file and leave every run where it is.
LEMMA WriteSomeTears ==
  ASSUME NEW r \in Runners, DeliveryInv, WriteSome(r)
  PROVE  /\ ticket' \in [Bookings -> Tickets]
         /\ ticket'[BookingOf(r)].file = "torn"
         /\ ticket'[BookingOf(r)].url = ticket[BookingOf(r)].url
         /\ ticket'[BookingOf(r)].shared = ticket[BookingOf(r)].shared
         /\ ticket'[BookingOf(r)].unanswered = ticket[BookingOf(r)].unanswered
         /\ \A b \in Bookings \ {BookingOf(r)} : ticket'[b] = ticket[b]
         /\ UNCHANGED <<job, run>>
  <1>1. BookingOf(r) \in Bookings /\ ticket \in [Bookings -> Tickets]
    BY InvoiceRun DEF WriteSome, At, InvoicePCs
  <1>. QED
    BY <1>1, FileWritten DEF WriteSome, jobVars

\* invoice.worker.ts: bytes of a stream land in a file that another one has written.
LEMMA WriteSomeInv ==
  ASSUME NEW r \in Runners, DeliveryInv, WriteSome(r), UNCHANGED ops
  PROVE  DeliveryInv'
  <1>1. TypeOK /\ UNCHANGED <<bookingVars, job, run, today>>
    BY DEF DeliveryInv, WriteSome, jobVars, dayVars
  <1>2. TypeOK'
    BY <1>1, WriteSomeTears
    DEF WriteSome, TypeOK, bookingVars, jobVars, dayVars, socketVars
  <1>. QED
    BY <1>1, <1>2
    DEF DeliveryInv, JobSound, Pending, RunSound, LocksSound, TailSound, InvoiceState, bookingVars

\* invoice.worker.ts: the stream has finished.
LEMMA WriteFileInv ==
  ASSUME NEW r \in Runners, DeliveryInv, WriteFile(r), UNCHANGED ops
  PROVE  DeliveryInv'
  <1>1. Goto(r, "saveUrl") /\ TypeOK /\ run[r].pc = "write" /\ "saveUrl" \in RunPCs \ {"idle"}
    BY DEF DeliveryInv, WriteFile, At, RunPCs
  <1>2. /\ run' \in [Runners -> Runs]
        /\ run'[r].pc = "saveUrl" /\ run'[r].job = run[r].job /\ run'[r].owns = run[r].owns
        /\ \A q \in Runners \ {r} : run'[q] = run[q]
    BY <1>1, GotoMoves
  <1>3. TypeOK'
    BY <1>1, <1>2, WriteFileMends DEF WriteFile, TypeOK, bookingVars, dayVars, socketVars
  <1>. QED
    BY <1>1, <1>2, <1>3, MoveInv DEF WriteFile, dayVars, InvoicePCs

\* Saving the url, with or without an answer, leaves the file alone.
LEMMA SaveUrlSaves ==
  ASSUME NEW r \in Runners, DeliveryInv, SaveUrl(r) \/ SaveUrlUnanswered(r)
  PROVE  /\ ticket' \in [Bookings -> Tickets]
         /\ ticket'[BookingOf(r)].url = ticket[BookingOf(r)].url \cup {JobOf(r)[3]}
         /\ ticket'[BookingOf(r)].file = ticket[BookingOf(r)].file
         /\ ticket'[BookingOf(r)].shared = ticket[BookingOf(r)].shared
         /\ SaveUrl(r) => ticket'[BookingOf(r)].unanswered = ticket[BookingOf(r)].unanswered
         /\ SaveUrlUnanswered(r) => ticket'[BookingOf(r)].unanswered
         /\ \A b \in Bookings \ {BookingOf(r)} : ticket'[b] = ticket[b]
  <1>1. /\ BookingOf(r) \in Bookings /\ ticket[BookingOf(r)] \in Tickets
        /\ ticket \in [Bookings -> Tickets] /\ JobOf(r)[3] \in Verifications
    BY InvoiceRun DEF SaveUrl, SaveUrlUnanswered, At, InvoicePCs
  <1>2. ~ (SaveUrl(r) /\ SaveUrlUnanswered(r))
    <2>1. SaveUrl(r) => run'[r].pc = "finish"
      BY GotoMoves DEF SaveUrl, DeliveryInv, RunPCs
    <2>2. SaveUrlUnanswered(r) => run'[r].pc = "idle"
      BY EndRests DEF SaveUrlUnanswered, Throw, DeliveryInv, Resting
    <2>. QED
      BY <2>1, <2>2
  <1>3. CASE SaveUrl(r)
    BY <1>1, <1>2, <1>3 DEF SaveUrl, Tickets
  <1>4. CASE SaveUrlUnanswered(r)
    BY <1>1, <1>2, <1>4 DEF SaveUrlUnanswered, Tickets
  <1>. QED
    BY <1>3, <1>4

\* invoice.worker.ts: ticketUrl is saved.
LEMMA SaveUrlInv ==
  ASSUME NEW r \in Runners, DeliveryInv, SaveUrl(r), UNCHANGED ops
  PROVE  DeliveryInv'
  <1>1. Goto(r, "finish") /\ TypeOK /\ run[r].pc = "saveUrl" /\ "finish" \in RunPCs \ {"idle"}
    BY DEF DeliveryInv, SaveUrl, At, RunPCs
  <1>2. /\ run' \in [Runners -> Runs]
        /\ run'[r].pc = "finish" /\ run'[r].job = run[r].job /\ run'[r].owns = run[r].owns
        /\ \A q \in Runners \ {r} : run'[q] = run[q]
    BY <1>1, GotoMoves
  <1>3. TypeOK'
    BY <1>1, <1>2, SaveUrlSaves DEF SaveUrl, TypeOK, bookingVars, dayVars, socketVars
  <1>. QED
    BY <1>1, <1>2, <1>3, MoveInv DEF SaveUrl, dayVars

\* The day of an analytics job.
LEMMA DailyRun ==
  ASSUME NEW r \in Runners, DeliveryInv, run[r].pc \in DailyPCs
  PROVE  /\ run[r].job \in DailyJobs /\ BookingOf(r) \in Days
         /\ made[BookingOf(r)] \in 0 .. MaxPerDay /\ run[r].count \in 0 .. MaxPerDay
         /\ report \in [Days -> 0 .. MaxPerDay]
  <1>1. run[r].job \in DailyJobs /\ TypeOK
    BY RunFacts DEF RunSound
  <1>2. run[r].job[2] \in Days
    BY <1>1, DailyJobQueue
  <1>. QED
    BY <1>1, <1>2 DEF TypeOK, BookingOf, Runs

\* The analytics processor remembers the bookings of its day.
LEMMA AggregateCounts ==
  ASSUME NEW r \in Runners, DeliveryInv, Aggregate(r)
  PROVE  /\ run' \in [Runners -> Runs]
         /\ run'[r].pc = "cacheSet" /\ run'[r].count = made[BookingOf(r)]
         /\ run'[r].job = run[r].job /\ run'[r].owns = run[r].owns
         /\ \A q \in Runners \ {r} : run'[q] = run[q]
  <1> DEFINE d == [run[r] EXCEPT !.pc = "cacheSet", !.count = made[BookingOf(r)]]
  <1>1. TypeOK /\ run[r] \in Runs /\ made[BookingOf(r)] \in 0 .. MaxPerDay
    BY RunFacts, DailyRun DEF Aggregate, At, DailyPCs
  <1>2. /\ d \in Runs /\ d.pc = "cacheSet" /\ d.count = made[BookingOf(r)]
        /\ d.job = run[r].job /\ d.owns = run[r].owns
    BY <1>1 DEF Runs, RunPCs
  <1>3. run' = [run EXCEPT ![r] = d]
    BY <1>1 DEF Aggregate, TypeOK
  <1>. HIDE DEF d
  <1>. QED
    BY <1>1, <1>2, <1>3, RunWritten

\* analytics.worker.ts: the aggregation has answered.
LEMMA AggregateInv ==
  ASSUME NEW r \in Runners, DeliveryInv, Aggregate(r), UNCHANGED ops
  PROVE  DeliveryInv'
  <1>1. TypeOK /\ run[r].pc = "aggregate" /\ "cacheSet" \in RunPCs \ {"idle"}
    BY DEF DeliveryInv, Aggregate, At, RunPCs
  <1>2. TypeOK'
    BY <1>1, AggregateCounts
    DEF Aggregate, TypeOK, bookingVars, outputVars, dayVars, socketVars
  <1>. QED
    BY <1>1, <1>2, AggregateCounts, MoveInv DEF Aggregate, dayVars, DailyPCs

\* analytics.worker.ts: the report is cached.
LEMMA CacheReportInv ==
  ASSUME NEW r \in Runners, DeliveryInv, CacheReport(r), UNCHANGED ops
  PROVE  DeliveryInv'
  <1>1. Goto(r, "finish") /\ TypeOK /\ run[r].pc = "cacheSet" /\ "finish" \in RunPCs \ {"idle"}
    BY DEF DeliveryInv, CacheReport, At, RunPCs
  <1>2. /\ run' \in [Runners -> Runs]
        /\ run'[r].pc = "finish" /\ run'[r].job = run[r].job /\ run'[r].owns = run[r].owns
        /\ \A q \in Runners \ {r} : run'[q] = run[q]
    BY <1>1, GotoMoves
  <1>3. report' \in [Days -> 0 .. MaxPerDay]
    BY <1>1, DailyRun DEF CacheReport, DailyPCs
  <1>4. TypeOK'
    BY <1>1, <1>2, <1>3 DEF CacheReport, TypeOK, bookingVars, outputVars, socketVars
  <1>. QED
    BY <1>1, <1>2, <1>4, MoveInv DEF CacheReport

\* A failure uses up one of the failures of a behaviour.
LEMMA FaultType ==
  ASSUME NEW kind, TypeOK, Fault(kind)
  PROVE  budget' \in 0 .. MaxFaults
  BY DeliveryConstants DEF TypeOK, Fault

\* A run that loses its lock keeps its job, and holds no other.
LEMMA LoseLockInv ==
  ASSUME NEW r \in Runners, DeliveryInv, LoseLock(r), UNCHANGED ops
  PROVE  DeliveryInv'
  <1>1. TypeOK /\ RunSound(r) /\ run[r] \in Runs /\ run[r].pc # "idle"
    BY RunFacts DEF LoseLock
  <1>2. /\ run' \in [Runners -> Runs]
        /\ run'[r].pc = run[r].pc /\ run'[r].job = run[r].job /\ run'[r].owns = FALSE
        /\ \A q \in Runners \ {r} : run'[q] = run[q]
    BY <1>1 DEF LoseLock, TypeOK, Runs
  <1>3. TypeOK'
    BY <1>1, <1>2, FaultType
    DEF LoseLock, TypeOK, bookingVars, outputVars, dayVars, socketVars
  <1>. QED
    BY <1>1, <1>2, <1>3, MoveInv DEF LoseLock, dayVars, Runs

\* A call of a processor rejects.
LEMMA RunFailsInv ==
  ASSUME NEW r \in Runners, DeliveryInv, RunFails(r), UNCHANGED ops
  PROVE  DeliveryInv'
  <1>1. TypeOK /\ run[r].pc # "idle" /\ Throw(r)
    BY DEF DeliveryInv, RunFails
  <1>2. job' \in [Jobs -> JobDocs] /\ run' \in [Runners -> Runs]
    BY <1>1, ThrowType
  <1>3. TypeOK'
    BY <1>1, <1>2, FaultType
    DEF RunFails, TypeOK, bookingVars, outputVars, dayVars, socketVars
  <1>. QED
    BY <1>1, <1>3, ThrowInv DEF RunFails, dayVars

\* The mail server takes a mail and its answer is lost.
LEMMA SendUnansweredInv ==
  ASSUME NEW r \in Runners, DeliveryInv, SendUnanswered(r), UNCHANGED ops
  PROVE  DeliveryInv'
  <1>1. TypeOK /\ run[r].pc # "idle" /\ Throw(r)
    BY DEF DeliveryInv, SendUnanswered, At
  <1>2. job' \in [Jobs -> JobDocs] /\ run' \in [Runners -> Runs]
    BY <1>1, ThrowType
  <1>3. mails' \in [EmailJobs -> Nat]
    BY SentCounts DEF SendUnanswered
  <1>4. TypeOK'
    BY <1>1, <1>2, <1>3, FaultType
    DEF SendUnanswered, TypeOK, bookingVars, dayVars, socketVars
  <1>. QED
    BY <1>1, <1>4, ThrowInv DEF SendUnanswered, dayVars

\* The url of a ticket is saved and the answer is lost.
LEMMA SaveUrlUnansweredInv ==
  ASSUME NEW r \in Runners, DeliveryInv, SaveUrlUnanswered(r), UNCHANGED ops
  PROVE  DeliveryInv'
  <1>1. TypeOK /\ run[r].pc # "idle" /\ Throw(r)
    BY DEF DeliveryInv, SaveUrlUnanswered, At
  <1>2. job' \in [Jobs -> JobDocs] /\ run' \in [Runners -> Runs]
    BY <1>1, ThrowType
  <1>3. TypeOK'
    BY <1>1, <1>2, FaultType, SaveUrlSaves
    DEF SaveUrlUnanswered, TypeOK, bookingVars, dayVars, socketVars
  <1>. QED
    BY <1>1, <1>3, ThrowInv DEF SaveUrlUnanswered, dayVars

\* A report is cached and the answer is lost.
LEMMA CacheReportUnansweredInv ==
  ASSUME NEW r \in Runners, DeliveryInv, CacheReportUnanswered(r), UNCHANGED ops
  PROVE  DeliveryInv'
  <1>1. TypeOK /\ run[r].pc = "cacheSet" /\ Throw(r)
    BY DEF DeliveryInv, CacheReportUnanswered, At
  <1>2. job' \in [Jobs -> JobDocs] /\ run' \in [Runners -> Runs]
    BY <1>1, ThrowType
  <1>3. report' \in [Days -> 0 .. MaxPerDay]
    BY <1>1, DailyRun DEF CacheReportUnanswered, DailyPCs
  <1>4. TypeOK'
    BY <1>1, <1>2, <1>3, FaultType
    DEF CacheReportUnanswered, TypeOK, bookingVars, outputVars, socketVars
  <1>. QED
    BY <1>1, <1>4, ThrowInv DEF CacheReportUnanswered

\* A processor that fails, with or without effect, throws before its end.
LEMMA FailingThrows ==
  ASSUME NEW r \in Runners, RunFails(r) \/ Unanswered(r)
  PROVE  Throw(r) /\ run[r].pc \notin {"idle", "finish"}
  BY DEF RunFails, Unanswered, SendUnanswered, SaveUrlUnanswered, CacheReportUnanswered, At

-----------------------------------------------------------------------------
(* Steps of the requests *)

\* The points that the tail of a kind goes through.
TailPCs == [create |-> {"idle", "addCreated", "over"}, first |-> ConfirmPCs,
            second |-> ConfirmPCs, cancel |-> {"idle", "setCancelled", "unlockCancelled"}]

\* A verification is a tail that goes through the points of ConfirmPCs.
LEMMA VerificationTail ==
  ASSUME NEW v \in Verifications
  PROVE  v \in Tails /\ v \notin {"create", "cancel"} /\ TailPCs[v] = ConfirmPCs
  BY DEF Tails, Verifications, TailPCs

\* A tail that goes on leaves every other tail alone.
LEMMA TailMoves ==
  ASSUME NEW b \in Bookings, NEW kind \in Tails, NEW pc \in TailPCs[kind], TypeOK,
         Tail(b, kind, pc)
  PROVE  /\ request' \in [Bookings -> RequestDocs]
         /\ request'[b][kind] = pc /\ request'[b].canceller = request[b].canceller
         /\ \A k \in Tails \ {kind} : request'[b][k] = request[b][k]
         /\ \A c \in Bookings \ {b} : request'[c] = request[c]
  BY DEF TypeOK, Tail, Tails, Verifications, TailPCs, RequestDocs

\* The cancellation of a booking is over, one way or another.
LEMMA CancelEnds ==
  ASSUME NEW b \in Bookings, TypeOK,
         request' = [request EXCEPT ![b].cancel = "idle", ![b].canceller = NoUser]
  PROVE  /\ request' \in [Bookings -> RequestDocs]
         /\ request'[b].cancel = "idle" /\ request'[b].canceller = NoUser
         /\ \A k \in Tails \ {"cancel"} : request'[b][k] = request[b][k]
         /\ \A c \in Bookings \ {b} : request'[c] = request[c]
  BY DEF TypeOK, Tails, Verifications, RequestDocs

\* A booking's status is written.
LEMMA StatusSet ==
  ASSUME NEW b \in Bookings, NEW kind \in Tails, NEW st \in Statuses, TypeOK,
         SetStatus(b, st, kind)
  PROVE  /\ booking' \in [Bookings -> BookingDocs] /\ booking'[b].status = st
         /\ booking'[b].undisturbed <=> NewsUnderWay(b, kind) = {}
         /\ \A c \in Bookings \ {b} : booking'[c] = booking[c]
  BY DEF TypeOK, SetStatus, BookingDocs

\* A booking's history is written.
LEMMA HistoryKept ==
  ASSUME NEW b \in Bookings, NEW p, TypeOK,
         booking' = [booking EXCEPT ![b].undisturbed = @ /\ p]
  PROVE  /\ booking' \in [Bookings -> BookingDocs]
         /\ booking'[b].status = booking[b].status
         /\ booking'[b].undisturbed <=> booking[b].undisturbed /\ p
         /\ \A c \in Bookings \ {b} : booking'[c] = booking[c]
  <1> DEFINE d == [booking[b] EXCEPT !.undisturbed = @ /\ p]
  <1>1. booking \in [Bookings -> BookingDocs] /\ booking[b] \in BookingDocs
    BY DEF TypeOK
  <1>2. /\ d \in BookingDocs /\ d.status = booking[b].status
        /\ d.undisturbed <=> booking[b].undisturbed /\ p
    BY <1>1 DEF BookingDocs
  <1>3. booking' = [booking EXCEPT ![b] = d]
    OBVIOUS
  <1>. HIDE DEF d
  <1>. QED
    BY <1>1, <1>2, <1>3

\* An update reaches the connected sockets of a room, and changes nothing else.
LEMMA EmitReaches ==
  ASSUME NEW room, NEW b \in Bookings, NEW update \in Updates, TypeOK, Emit(room, b, update)
  PROVE  /\ socket' \in [Sockets -> SocketDocs]
         /\ \A s \in Sockets :
              /\ socket'[s].connected = socket[s].connected /\ socket'[s].user = socket[s].user
              /\ socket'[s].rooms = socket[s].rooms
              /\ \A c \in Bookings :
                   socket'[s].heard[c] =
                     IF c = b /\ s \in Connected /\ room \in socket[s].rooms
                     THEN update ELSE socket[s].heard[c]
              /\ ~ socket[s].connected => socket'[s] = socket[s]
  BY DEF TypeOK, Emit, Connected, SocketDocs

\* A booking whose requests and jobs stay.
LEMMA TailFrame ==
  ASSUME NEW b \in Bookings, TailSound(b),
         booking'[b] = booking[b], request'[b] = request[b],
         \A j \in BookingJobs : j[2] = b /\ job[j].state = "none" => job'[j].state = "none"
  PROVE  TailSound(b)'
  <1>1. <<"booking_created", b>> \in BookingJobs /\ <<"booking_created", b>>[2] = b
    BY DEF BookingJobs, EmailJobs
  <1>2. ASSUME NEW v \in Verifications
        PROVE  LET before == {"idle", "setConfirmed", "unlockConfirmed", "addTicket"} IN
               /\ request'[b][v] \in before => job'[<<"booking_confirmed", b, v>>].state = "none"
               /\ request'[b][v] \in before \cup {"addInvoice"} => InvoiceState(b, v)' = "none"
               /\ request'[b][v] # "over" => job'[<<"payment_success", b, v>>].state = "none"
    <2>1. /\ <<"booking_confirmed", b, v>> \in BookingJobs /\ <<"booking_confirmed", b, v>>[2] = b
          /\ <<"payment_success", b, v>> \in BookingJobs /\ <<"payment_success", b, v>>[2] = b
          /\ Invoice(b, v) \in BookingJobs /\ Invoice(b, v)[2] = b
      BY DEF BookingJobs, EmailJobs, Invoice
    <2>. QED
      BY <2>1 DEF TailSound, InvoiceState
  <1>. QED
    BY <1>1, <1>2 DEF TailSound

\* The requests of a booking change while the jobs stay.
LEMMA RequestStepInv ==
  ASSUME NEW b \in Bookings, DeliveryInv, TypeOK', UNCHANGED <<jobVars, today>>, TailSound(b)',
         \A c \in Bookings \ {b} : booking'[c] = booking[c] /\ request'[c] = request[c]
  PROVE  DeliveryInv'
  <1>1. UNCHANGED <<job, run, today>>
    BY DEF jobVars
  <1>2. /\ \A j \in Jobs : JobSound(j)'
        /\ \A r \in Runners : RunSound(r)'
        /\ LocksSound'
        /\ \A d \in Days : d > today' => job'[Daily(d)].state = "none"
    BY <1>1 DEF DeliveryInv, JobSound, Pending, RunSound, LocksSound
  <1>3. ASSUME NEW c \in Bookings
        PROVE  TailSound(c)'
    BY <1>1, TailFrame DEF DeliveryInv
  <1>. QED
    BY <1>2, <1>3 DEF DeliveryInv

\* The tail of a kind moves on, while the jobs stay.
LEMMA TailStepInv ==
  ASSUME NEW b \in Bookings, NEW kind \in Tails, DeliveryInv, TypeOK', UNCHANGED <<jobVars, today>>,
         booking'[b].status # "none",
         \A k \in Tails \ {kind} : request'[b][k] = request[b][k],
         \/ kind = "cancel"
         \/ request'[b][kind] = "over"
         \/ kind = "create" /\ request[b].create # "over"
         \/ request[b][kind] \in {"idle", "setConfirmed", "unlockConfirmed", "addTicket"},
         \A c \in Bookings \ {b} : booking'[c] = booking[c] /\ request'[c] = request[c]
  PROVE  DeliveryInv'
  <1>1. TailSound(b) /\ UNCHANGED job
    BY DEF DeliveryInv, jobVars
  <1>2. request'[b].create # "over" => job[<<"booking_created", b>>].state = "none"
    BY <1>1 DEF TailSound, Tails, Verifications
  <1>3. ASSUME NEW v \in Verifications
        PROVE  LET before == {"idle", "setConfirmed", "unlockConfirmed", "addTicket"} IN
               /\ request'[b][v] \in before => job[<<"booking_confirmed", b, v>>].state = "none"
               /\ request'[b][v] \in before \cup {"addInvoice"} => InvoiceState(b, v) = "none"
               /\ request'[b][v] # "over" => job[<<"payment_success", b, v>>].state = "none"
    <2>1. v \in Tails /\ v \notin {"create", "cancel"}
      BY DEF Tails, Verifications
    <2>2. CASE v # kind
      BY <1>1, <2>1, <2>2 DEF TailSound
    <2>3. CASE v = kind
      BY <1>1, <2>1, <2>3 DEF TailSound
    <2>. QED
      BY <2>2, <2>3
  <1>4. TailSound(b)'
    BY <1>1, <1>2, <1>3 DEF TailSound, InvoiceState
  <1>. QED
    BY <1>4, RequestStepInv

\* A booking with a tail under way has been inserted.
LEMMA TailOfBooking ==
  ASSUME NEW b \in Bookings, NEW kind \in Tails, DeliveryInv, request[b][kind] # "idle"
  PROVE  booking[b].status # "none"
  <1>1. TailSound(b) /\ NoRequests[kind] = "idle"
    BY DEF DeliveryInv, NoRequests, Tails, Verifications
  <1>. QED
    BY <1>1 DEF TailSound

\* createBooking has inserted the booking.
LEMMA CreateBookingInv ==
  ASSUME NEW b \in Bookings, DeliveryInv, CreateBooking(b), UNCHANGED ops
  PROVE  DeliveryInv'
  <1>1. /\ TypeOK /\ TailSound(b) /\ "create" \in Tails /\ "addCreated" \in TailPCs["create"]
        /\ request[b] = NoRequests
    BY DEF DeliveryInv, CreateBooking, Tails, TailPCs, TailSound
  <1>2. /\ request' \in [Bookings -> RequestDocs]
        /\ request'[b]["create"] = "addCreated"
        /\ \A k \in Tails \ {"create"} : request'[b][k] = request[b][k]
        /\ \A c \in Bookings \ {b} : request'[c] = request[c]
    BY <1>1, TailMoves DEF CreateBooking
  <1>3. /\ booking' \in [Bookings -> BookingDocs] /\ booking'[b].status = "pending"
        /\ \A c \in Bookings \ {b} : booking'[c] = booking[c]
    BY <1>1 DEF CreateBooking, TypeOK, BookingDocs, Statuses
  <1>4. TypeOK'
    BY <1>1, <1>2, <1>3 DEF CreateBooking, TypeOK, jobVars, outputVars, dayVars, socketVars
  <1>. QED
    BY <1>1, <1>2, <1>3, <1>4, TailStepInv DEF CreateBooking, dayVars, NoRequests

\* confirmBooking finds the booking pending.
LEMMA ConfirmBookingInv ==
  ASSUME NEW b \in Bookings, NEW v \in Verifications, DeliveryInv, ConfirmBooking(b, v), UNCHANGED ops
  PROVE  DeliveryInv'
  <1>1. TypeOK /\ v \in Tails /\ "setConfirmed" \in TailPCs[v]
    BY DEF DeliveryInv, Tails, TailPCs, Verifications, ConfirmPCs
  <1>2. /\ request' \in [Bookings -> RequestDocs]
        /\ \A k \in Tails \ {v} : request'[b][k] = request[b][k]
        /\ \A c \in Bookings \ {b} : request'[c] = request[c]
    BY <1>1, TailMoves DEF ConfirmBooking
  <1>3. TypeOK'
    BY <1>1, <1>2 DEF ConfirmBooking, TypeOK, jobVars, outputVars, dayVars, socketVars
  <1>. QED
    BY <1>1, <1>2, <1>3, TailStepInv DEF ConfirmBooking, HasTail, dayVars

\* confirmBooking has written the status.
LEMMA SetConfirmedInv ==
  ASSUME NEW b \in Bookings, NEW v \in Verifications, DeliveryInv, SetConfirmed(b, v), UNCHANGED ops
  PROVE  DeliveryInv'
  <1>1. TypeOK /\ v \in Tails /\ "unlockConfirmed" \in TailPCs[v] /\ "confirmed" \in Statuses
    BY DEF DeliveryInv, Tails, TailPCs, Verifications, ConfirmPCs, Statuses
  <1>2. /\ request' \in [Bookings -> RequestDocs]
        /\ \A k \in Tails \ {v} : request'[b][k] = request[b][k]
        /\ \A c \in Bookings \ {b} : request'[c] = request[c]
    BY <1>1, TailMoves DEF SetConfirmed
  <1>3. /\ booking' \in [Bookings -> BookingDocs] /\ booking'[b].status = "confirmed"
        /\ \A c \in Bookings \ {b} : booking'[c] = booking[c]
    BY <1>1, StatusSet DEF SetConfirmed
  <1>4. TypeOK'
    BY <1>1, <1>2, <1>3 DEF SetConfirmed, TypeOK, jobVars, outputVars, dayVars, socketVars
  <1>. QED
    BY <1>1, <1>2, <1>3, <1>4, TailStepInv DEF SetConfirmed, HasTail, dayVars

\* confirmBooking emits booking.confirmed.
LEMMA AnnounceConfirmedInv ==
  ASSUME NEW b \in Bookings, NEW v \in Verifications, DeliveryInv, AnnounceConfirmed(b, v), UNCHANGED ops
  PROVE  DeliveryInv'
  <1>1. TypeOK /\ v \in Tails /\ "addTicket" \in TailPCs[v] /\ "confirmed" \in Updates
    BY DEF DeliveryInv, Tails, TailPCs, Verifications, ConfirmPCs, Updates
  <1>2. /\ request' \in [Bookings -> RequestDocs]
        /\ \A k \in Tails \ {v} : request'[b][k] = request[b][k]
        /\ \A c \in Bookings \ {b} : request'[c] = request[c]
    BY <1>1, TailMoves DEF AnnounceConfirmed
  <1>3. socket' \in [Sockets -> SocketDocs]
    BY <1>1, EmitReaches DEF AnnounceConfirmed
  <1>4. TypeOK'
    BY <1>1, <1>2, <1>3 DEF AnnounceConfirmed, TypeOK, jobVars, outputVars, dayVars
  <1>5. booking[b].status # "none"
    BY <1>1, TailOfBooking DEF AnnounceConfirmed, HasTail
  <1>. QED
    BY <1>1, <1>2, <1>4, <1>5, TailStepInv DEF AnnounceConfirmed, HasTail, dayVars

\* cancelBooking finds a booking that may be cancelled.
LEMMA CancelBookingInv ==
  ASSUME NEW b \in Bookings, NEW u \in Users, DeliveryInv, CancelBooking(b, u), UNCHANGED ops
  PROVE  DeliveryInv'
  <1>1. TypeOK /\ "cancel" \in Tails
    BY DEF DeliveryInv, Tails
  <1>2. /\ request' \in [Bookings -> RequestDocs]
        /\ \A k \in Tails \ {"cancel"} : request'[b][k] = request[b][k]
        /\ \A c \in Bookings \ {b} : request'[c] = request[c]
    BY <1>1 DEF CancelBooking, TypeOK, Tails, Verifications, RequestDocs
  <1>3. TypeOK'
    BY <1>1, <1>2 DEF CancelBooking, TypeOK, jobVars, outputVars, dayVars, socketVars
  <1>4. booking[b].status # "none"
    BY DEF CancelBooking
  <1>. QED
    BY <1>1, <1>2, <1>3, <1>4, TailStepInv DEF CancelBooking, dayVars

\* cancelBooking has written the status.
LEMMA SetCancelledInv ==
  ASSUME NEW b \in Bookings, DeliveryInv, SetCancelled(b), UNCHANGED ops
  PROVE  DeliveryInv'
  <1>1. /\ TypeOK /\ "cancel" \in Tails /\ "unlockCancelled" \in TailPCs["cancel"]
        /\ "cancelled" \in Statuses
    BY DEF DeliveryInv, Tails, TailPCs, Statuses
  <1>2. /\ request' \in [Bookings -> RequestDocs]
        /\ \A k \in Tails \ {"cancel"} : request'[b][k] = request[b][k]
        /\ \A c \in Bookings \ {b} : request'[c] = request[c]
    BY <1>1, TailMoves DEF SetCancelled
  <1>3. /\ booking' \in [Bookings -> BookingDocs] /\ booking'[b].status = "cancelled"
        /\ \A c \in Bookings \ {b} : booking'[c] = booking[c]
    BY <1>1, StatusSet DEF SetCancelled
  <1>4. TypeOK'
    BY <1>1, <1>2, <1>3 DEF SetCancelled, TypeOK, jobVars, outputVars, dayVars, socketVars
  <1>. QED
    BY <1>1, <1>2, <1>3, <1>4, TailStepInv DEF SetCancelled, dayVars

\* What the announcement of a cancellation changes.
LEMMA CancelledAnnounced ==
  ASSUME NEW b \in Bookings, DeliveryInv, AnnounceCancelled(b)
  PROVE  /\ request' \in [Bookings -> RequestDocs]
         /\ request'[b].cancel = "idle"
         /\ \A k \in Tails \ {"cancel"} : request'[b][k] = request[b][k]
         /\ booking' \in [Bookings -> BookingDocs] /\ booking'[b].status = booking[b].status
         /\ booking'[b].undisturbed <=>
              booking[b].undisturbed /\ request[b].canceller = Owner[b]
         /\ \A c \in Bookings \ {b} : booking'[c] = booking[c] /\ request'[c] = request[c]
  <1>1. TypeOK
    BY DEF DeliveryInv
  <1>2. /\ request' \in [Bookings -> RequestDocs]
        /\ request'[b].cancel = "idle"
        /\ \A k \in Tails \ {"cancel"} : request'[b][k] = request[b][k]
        /\ \A c \in Bookings \ {b} : request'[c] = request[c]
    BY <1>1, CancelEnds DEF AnnounceCancelled
  <1>3. booking' = [booking EXCEPT ![b].undisturbed = @ /\ request[b].canceller = Owner[b]]
    BY DEF AnnounceCancelled
  <1>4. /\ booking' \in [Bookings -> BookingDocs] /\ booking'[b].status = booking[b].status
        /\ booking'[b].undisturbed <=>
              booking[b].undisturbed /\ request[b].canceller = Owner[b]
        /\ \A c \in Bookings \ {b} : booking'[c] = booking[c]
    BY <1>1, <1>3, HistoryKept
  <1>. QED
    BY <1>2, <1>4

\* cancelBooking emits booking.cancelled.
LEMMA AnnounceCancelledInv ==
  ASSUME NEW b \in Bookings, DeliveryInv, AnnounceCancelled(b), UNCHANGED ops
  PROVE  DeliveryInv'
  <1>1. TypeOK /\ "cancel" \in Tails /\ "cancelled" \in Updates
    BY DEF DeliveryInv, Tails, Updates
  <1>2. booking[b].status # "none"
    BY <1>1, TailOfBooking DEF AnnounceCancelled, HasTail
  <1>3. socket' \in [Sockets -> SocketDocs]
    BY <1>1, EmitReaches DEF AnnounceCancelled
  <1>4. TypeOK'
    BY <1>1, <1>3, CancelledAnnounced
    DEF AnnounceCancelled, TypeOK, jobVars, outputVars, dayVars
  <1>. QED
    BY <1>1, <1>2, <1>4, CancelledAnnounced, TailStepInv DEF AnnounceCancelled, dayVars

\* What a failed call of a tail changes.
LEMMA TailFailed ==
  ASSUME NEW b \in Bookings, NEW kind \in Tails, DeliveryInv, TailFails(b, kind)
  PROVE  /\ request' \in [Bookings -> RequestDocs]
         /\ request'[b][kind] = IF kind = "cancel" THEN "idle" ELSE "over"
         /\ kind # "cancel" => request'[b].canceller = request[b].canceller
         /\ \A k \in Tails \ {kind} : request'[b][k] = request[b][k]
         /\ booking' \in [Bookings -> BookingDocs] /\ booking'[b].status = booking[b].status
         /\ booking'[b].undisturbed <=>
              booking[b].undisturbed /\ request[b][kind] \notin Unannounced
         /\ \A c \in Bookings \ {b} : booking'[c] = booking[c] /\ request'[c] = request[c]
  <1>1. TypeOK
    BY DEF DeliveryInv
  <1>2. /\ request' \in [Bookings -> RequestDocs]
        /\ request'[b][kind] = IF kind = "cancel" THEN "idle" ELSE "over"
        /\ kind # "cancel" => request'[b].canceller = request[b].canceller
        /\ \A k \in Tails \ {kind} : request'[b][k] = request[b][k]
        /\ \A c \in Bookings \ {b} : request'[c] = request[c]
    <2>1. CASE kind = "cancel"
      BY <1>1, <2>1, CancelEnds DEF TailFails
    <2>2. CASE kind # "cancel"
      <3>1. Tail(b, kind, "over") /\ "over" \in TailPCs[kind]
        BY <2>2 DEF TailFails, Tail, Tails, Verifications, TailPCs, ConfirmPCs
      <3>. QED
        BY <1>1, <2>2, <3>1, TailMoves
    <2>. QED
      BY <2>1, <2>2
  <1>3. booking' = [booking EXCEPT ![b].undisturbed = @ /\ request[b][kind] \notin Unannounced]
    BY DEF TailFails
  <1>4. /\ booking' \in [Bookings -> BookingDocs] /\ booking'[b].status = booking[b].status
        /\ booking'[b].undisturbed <=>
              booking[b].undisturbed /\ request[b][kind] \notin Unannounced
        /\ \A c \in Bookings \ {b} : booking'[c] = booking[c]
    BY <1>1, <1>3, HistoryKept
  <1>. QED
    BY <1>2, <1>4

\* A call of a request rejects after its first write.
LEMMA TailFailsInv ==
  ASSUME NEW b \in Bookings, NEW kind \in Tails, DeliveryInv, TailFails(b, kind), UNCHANGED ops
  PROVE  DeliveryInv'
  <1>1. TypeOK /\ booking[b].status # "none"
    BY TailOfBooking DEF DeliveryInv, TailFails
  <1>2. TypeOK'
    BY <1>1, TailFailed, FaultType
    DEF TailFails, TypeOK, jobVars, outputVars, dayVars, socketVars
  <1>3. /\ kind = "cancel" \/ request'[b][kind] = "over"
        /\ booking'[b].status # "none"
        /\ \A k \in Tails \ {kind} : request'[b][k] = request[b][k]
        /\ \A c \in Bookings \ {b} : booking'[c] = booking[c] /\ request'[c] = request[c]
    BY <1>1, TailFailed
  <1>4. UNCHANGED <<jobVars, today>>
    BY DEF TailFails, dayVars
  <1>. QED
    BY <1>2, <1>3, <1>4, TailStepInv
-----------------------------------------------------------------------------
(* Steps that add jobs *)

\* What queue.add does, of a job that is followed or is not.
LEMMA AddFollowedQueues ==
  ASSUME NEW j \in Jobs, NEW due \in BOOLEAN, TypeOK, AddFollowed(j, due)
  PROVE  /\ job' \in [Jobs -> JobDocs]
         /\ \A i \in Jobs \ {j} : job'[i] = job[i]
         /\ \/ job'[j] = job[j]
            \/ /\ job'[j].state = "waiting" /\ job'[j].attempts = 0 /\ job'[j].stalls = 0
               /\ job'[j].due = due
  <1>1. CASE j[1] \in ops
    BY <1>1, AddQueues DEF AddFollowed
  <1>2. CASE j[1] \notin ops
    BY <1>2 DEF AddFollowed, TypeOK
  <1>. QED
    BY <1>1, <1>2

\* A job that has never been added is added.
LEMMA AddedJobInv ==
  ASSUME NEW j \in Jobs, DeliveryInv, UNCHANGED run, job[j].state = "none",
         \A i \in Jobs \ {j} : job'[i] = job[i],
         \/ job'[j] = job[j]
         \/ job'[j].state = "waiting" /\ job'[j].attempts = 0 /\ job'[j].stalls = 0
  PROVE  /\ \A i \in Jobs : JobSound(i)'
         /\ \A r \in Runners : RunSound(r)'
         /\ LocksSound'
  <1>1. \A i \in Jobs \ {j} : JobSound(i)'
    BY DEF DeliveryInv, JobSound, Pending
  <1>2. JobSound(j)'
    BY Limits DEF DeliveryInv, JobSound, Pending, MaxStalled
  <1>3. ASSUME NEW r \in Runners
        PROVE  RunSound(r)'
    <2>1. /\ RunSound(r) /\ run'[r] = run[r]
          /\ run[r].owns => run[r].job \in Jobs
      BY RunFacts
    <2>. QED
      BY <2>1 DEF RunSound
  <1>4. LocksSound'
    BY DEF DeliveryInv, LocksSound
  <1>. QED
    BY <1>1, <1>2, <1>3, <1>4

\* The tail of a verification, or of a creation, adds a job about its booking.
LEMMA AddStepInv ==
  ASSUME NEW b \in Bookings, NEW j \in BookingJobs, NEW due \in BOOLEAN, DeliveryInv,
         j[2] = b, job[j].state = "none", AddFollowed(j, due), TypeOK',
         UNCHANGED <<booking, run, today>>, TailSound(b)',
         \A c \in Bookings \ {b} : request'[c] = request[c]
  PROVE  DeliveryInv'
  <1>1. TypeOK /\ j \in Jobs
    BY DEF DeliveryInv, Jobs
  <1>2. /\ \A i \in Jobs \ {j} : job'[i] = job[i]
        /\ \/ job'[j] = job[j]
           \/ job'[j].state = "waiting" /\ job'[j].attempts = 0 /\ job'[j].stalls = 0
    BY <1>1, AddFollowedQueues
  <1>3. /\ \A i \in Jobs : JobSound(i)'
        /\ \A r \in Runners : RunSound(r)'
        /\ LocksSound'
    BY <1>1, <1>2, AddedJobInv
  <1>4. ASSUME NEW c \in Bookings, c # b
        PROVE  TailSound(c)'
    <2>1. \A i \in BookingJobs : i[2] = c /\ job[i].state = "none" => job'[i].state = "none"
      BY <1>2, <1>4 DEF Jobs
    <2>2. TailSound(c) /\ booking'[c] = booking[c] /\ request'[c] = request[c]
      BY <1>4 DEF DeliveryInv
    <2>. QED
      BY <2>1, <2>2, TailFrame
  <1>5. ASSUME NEW d \in Days, d > today'
        PROVE  job'[Daily(d)].state = "none"
    <2>1. Daily(d) \in Jobs \ {j}
      BY DailyJob, DailyJobQueue
    <2>. QED
      BY <1>2, <1>5, <2>1 DEF DeliveryInv
  <1>. QED
    BY <1>3, <1>4, <1>5 DEF DeliveryInv

\* The mail of a creation.
LEMMA AddCreatedInv ==
  ASSUME NEW b \in Bookings, DeliveryInv, AddCreated(b), UNCHANGED ops
  PROVE  DeliveryInv'
  <1> DEFINE j == <<"booking_created", b>>
             due == Owner[b] \in address /\ Smtp
  <1>1. /\ TypeOK /\ TailSound(b) /\ "create" \in Tails /\ "over" \in TailPCs["create"]
        /\ j \in Jobs /\ j \in BookingJobs /\ j[2] = b /\ due \in BOOLEAN
    BY CreatedJob DEF DeliveryInv, Tails, TailPCs, BookingJobs, Smtp
  <1>2. AddFollowed(j, due) /\ request[b].create = "addCreated" /\ Tail(b, "create", "over")
    BY DEF AddCreated, QueueMail, HasTail
  <1>3. job[j].state = "none"
    BY <1>1, <1>2 DEF TailSound
  <1>4. /\ request' \in [Bookings -> RequestDocs]
        /\ request'[b]["create"] = "over"
        /\ \A k \in Tails \ {"create"} : request'[b][k] = request[b][k]
        /\ \A c \in Bookings \ {b} : request'[c] = request[c]
    BY <1>1, <1>2, TailMoves
  <1>. HIDE DEF due
  <1>5. job' \in [Jobs -> JobDocs] /\ \A i \in Jobs \ {j} : job'[i] = job[i]
    BY <1>1, <1>2, AddFollowedQueues
  <1>6. TypeOK'
    BY <1>1, <1>4, <1>5 DEF AddCreated, TypeOK, outputVars, dayVars, socketVars
  <1>7. booking[b].status # "none"
    BY <1>1, <1>2, TailOfBooking
  <1>8. ASSUME NEW v \in Verifications
        PROVE  LET before == {"idle", "setConfirmed", "unlockConfirmed", "addTicket"} IN
               /\ request'[b][v] \in before => job'[<<"booking_confirmed", b, v>>].state = "none"
               /\ request'[b][v] \in before \cup {"addInvoice"} => InvoiceState(b, v)' = "none"
               /\ request'[b][v] # "over" => job'[<<"payment_success", b, v>>].state = "none"
    <2>1. request'[b][v] = request[b][v]
      BY <1>4 DEF Tails, Verifications
    <2>2. /\ <<"booking_confirmed", b, v>> \in Jobs \ {j}
          /\ <<"payment_success", b, v>> \in Jobs \ {j} /\ Invoice(b, v) \in Jobs \ {j}
      BY VerifiedJobs DEF Invoice
    <2>. QED
      BY <1>1, <1>5, <2>1, <2>2 DEF TailSound, InvoiceState
  <1>9. TailSound(b)'
    BY <1>4, <1>7, <1>8 DEF TailSound, AddCreated
  <1>. QED
    BY <1>1, <1>2, <1>3, <1>4, <1>6, <1>9, AddStepInv DEF AddCreated, dayVars

\* A job of a verification is added, and its tail moves past it.
LEMMA VerifiedAddInv ==
  ASSUME NEW b \in Bookings, NEW v \in Verifications, NEW due \in BOOLEAN,
         NEW type \in {"booking_confirmed", "generate-invoice", "payment_success"},
         NEW pc \in ConfirmPCs, DeliveryInv, UNCHANGED <<booking, run, today>>,
         AddFollowed(<<type, b, v>>, due), Tail(b, v, pc), TypeOK',
         \/ /\ type = "booking_confirmed"
            /\ request[b][v] = "addTicket" /\ pc = "addInvoice"
         \/ /\ type = "generate-invoice"
            /\ request[b][v] = "addInvoice" /\ pc = "addReceipt"
         \/ /\ type = "payment_success"
            /\ request[b][v] = "addReceipt" /\ pc = "over"
  PROVE  DeliveryInv'
  <1> DEFINE j == <<type, b, v>>
  <1>1. /\ TypeOK /\ TailSound(b) /\ v \in Tails /\ v \notin {"create", "cancel"}
        /\ pc \in TailPCs[v] /\ j \in Jobs /\ j \in BookingJobs /\ j[2] = b
    BY VerifiedJob, VerificationTail DEF DeliveryInv
  <1>2. job[j].state = "none"
    BY <1>1 DEF TailSound, InvoiceState, Invoice
  <1>3. /\ request'[b][v] = pc
        /\ \A k \in Tails \ {v} : request'[b][k] = request[b][k]
        /\ \A c \in Bookings \ {b} : request'[c] = request[c]
    BY <1>1, TailMoves
  <1>4. \A i \in Jobs \ {j} : job'[i] = job[i]
    BY <1>1, AddFollowedQueues
  <1>5. booking[b].status # "none"
    BY <1>1, TailOfBooking
  <1>6. request'[b].create # "over" => job'[<<"booking_created", b>>].state = "none"
    <2>1. <<"booking_created", b>> \in Jobs \ {j} /\ request'[b]["create"] = request[b]["create"]
      BY <1>1, <1>3, CreatedJob DEF Tails
    <2>. QED
      BY <1>1, <1>4, <2>1 DEF TailSound
  <1>7. ASSUME NEW w \in Verifications
        PROVE  LET before == {"idle", "setConfirmed", "unlockConfirmed", "addTicket"} IN
               /\ request'[b][w] \in before => job'[<<"booking_confirmed", b, w>>].state = "none"
               /\ request'[b][w] \in before \cup {"addInvoice"} => InvoiceState(b, w)' = "none"
               /\ request'[b][w] # "over" => job'[<<"payment_success", b, w>>].state = "none"
    <2>1. /\ <<"booking_confirmed", b, w>> \in Jobs
          /\ <<"payment_success", b, w>> \in Jobs /\ <<"generate-invoice", b, w>> \in Jobs
      BY VerifiedJobs DEF Invoice
    <2>2. CASE w # v
      <3>1. request'[b][w] = request[b][w] /\ \A t : <<t, b, w>> # j
        BY <1>3, <2>2 DEF Tails, Verifications
      <3>. QED
        BY <1>1, <1>4, <2>1, <3>1 DEF TailSound, InvoiceState, Invoice
    <2>3. CASE w = v
      BY <1>1, <1>3, <1>4, <2>1, <2>3 DEF TailSound, InvoiceState, Invoice
    <2>. QED
      BY <2>2, <2>3
  <1>8. TailSound(b)'
    BY <1>5, <1>6, <1>7 DEF TailSound
  <1>. QED
    BY <1>1, <1>2, <1>3, <1>8, AddStepInv

\* The types of the job and the requests after a job of a verification is added.
LEMMA VerifiedAddType ==
  ASSUME NEW b \in Bookings, NEW v \in Verifications, NEW due \in BOOLEAN,
         NEW type \in {"booking_confirmed", "generate-invoice", "payment_success"},
         NEW pc \in ConfirmPCs, TypeOK, AddFollowed(<<type, b, v>>, due), Tail(b, v, pc)
  PROVE  job' \in [Jobs -> JobDocs] /\ request' \in [Bookings -> RequestDocs]
  <1>1. v \in Tails /\ pc \in TailPCs[v] /\ <<type, b, v>> \in Jobs
    BY VerifiedJob, VerificationTail
  <1>. QED
    BY <1>1, TailMoves, AddFollowedQueues

\* The mail of a confirmation is queued, once for each verification.
LEMMA AddTicketInv ==
  ASSUME NEW b \in Bookings, NEW v \in Verifications, DeliveryInv, AddTicket(b, v), UNCHANGED ops
  PROVE  DeliveryInv'
  <1> DEFINE due == Owner[b] \in address /\ Smtp
  <1>1. /\ TypeOK /\ due \in BOOLEAN /\ "addInvoice" \in ConfirmPCs
        /\ AddFollowed(<<"booking_confirmed", b, v>>, due)
        /\ request[b][v] = "addTicket" /\ Tail(b, v, "addInvoice")
    BY DEF DeliveryInv, AddTicket, QueueMail, HasTail, ConfirmPCs, Smtp
  <1>. HIDE DEF due
  <1>2. job' \in [Jobs -> JobDocs] /\ request' \in [Bookings -> RequestDocs]
    BY <1>1, VerifiedAddType
  <1>3. TypeOK'
    BY <1>1, <1>2 DEF AddTicket, TypeOK, outputVars, dayVars, socketVars
  <1>. QED
    BY <1>1, <1>3, VerifiedAddInv DEF AddTicket, dayVars

\* The invoice of a confirmation is queued, once for each verification.
LEMMA AddInvoiceInv ==
  ASSUME NEW b \in Bookings, NEW v \in Verifications, DeliveryInv, AddInvoice(b, v), UNCHANGED ops
  PROVE  DeliveryInv'
  <1>1. /\ TypeOK /\ "addReceipt" \in ConfirmPCs
        /\ AddFollowed(<<"generate-invoice", b, v>>, TRUE)
        /\ request[b][v] = "addInvoice" /\ Tail(b, v, "addReceipt")
    BY DEF DeliveryInv, AddInvoice, Invoice, HasTail, ConfirmPCs
  <1>2. job' \in [Jobs -> JobDocs] /\ request' \in [Bookings -> RequestDocs]
    BY <1>1, VerifiedAddType
  <1>3. TypeOK'
    BY <1>1, <1>2 DEF AddInvoice, TypeOK, outputVars, dayVars, socketVars
  <1>. QED
    BY <1>1, <1>3, VerifiedAddInv DEF AddInvoice, dayVars

\* The mail of a payment is queued, once for each verification.
LEMMA AddReceiptInv ==
  ASSUME NEW b \in Bookings, NEW v \in Verifications, DeliveryInv, AddReceipt(b, v), UNCHANGED ops
  PROVE  DeliveryInv'
  <1> DEFINE due == Owner[b] \in address /\ Smtp
  <1>1. /\ TypeOK /\ due \in BOOLEAN /\ "over" \in ConfirmPCs
        /\ AddFollowed(<<"payment_success", b, v>>, due)
        /\ request[b][v] = "addReceipt" /\ Tail(b, v, "over")
    BY DEF DeliveryInv, AddReceipt, QueueMail, HasTail, ConfirmPCs, Smtp
  <1>. HIDE DEF due
  <1>2. job' \in [Jobs -> JobDocs] /\ request' \in [Bookings -> RequestDocs]
    BY <1>1, VerifiedAddType
  <1>3. TypeOK'
    BY <1>1, <1>2 DEF AddReceipt, TypeOK, outputVars, dayVars, socketVars
  <1>. QED
    BY <1>1, <1>3, VerifiedAddInv DEF AddReceipt, dayVars

\* The analytics job of the day that begins is queued, and was not before.
LEMMA MidnightInv ==
  ASSUME DeliveryInv, Midnight, UNCHANGED ops
  PROVE  DeliveryInv'
  <1>1. PICK d \in Days : d = today + 1 /\ today' = d /\ today \in Days /\ today < d
    BY DeliveryConstants DEF DeliveryInv, TypeOK, Midnight, Days
  <1>2. /\ TypeOK /\ Daily(d) \in Jobs /\ Daily(d) \in DailyJobs /\ Add(Daily(d), FALSE)
        /\ job[Daily(d)].state = "none"
    BY <1>1, DailyJob DEF DeliveryInv, Midnight, Days
  <1>3. /\ job' \in [Jobs -> JobDocs]
        /\ job'[Daily(d)].state = "waiting" /\ job'[Daily(d)].attempts = 0
        /\ job'[Daily(d)].stalls = 0
        /\ \A i \in Jobs \ {Daily(d)} : job'[i] = job[i]
    BY <1>2, AddQueues
  <1>4. TypeOK'
    BY <1>1, <1>2, <1>3 DEF Midnight, TypeOK, bookingVars, outputVars, socketVars
  <1>5. /\ \A i \in Jobs : JobSound(i)'
        /\ \A r \in Runners : RunSound(r)'
        /\ LocksSound'
    BY <1>2, <1>3, AddedJobInv DEF Midnight
  <1>6. ASSUME NEW b \in Bookings
        PROVE  TailSound(b)'
    <2>1. \A i \in BookingJobs : i \in Jobs \ {Daily(d)}
      BY <1>2, DailyJobQueue DEF Jobs
    <2>2. TailSound(b) /\ booking'[b] = booking[b] /\ request'[b] = request[b]
      BY DEF DeliveryInv, Midnight, bookingVars
    <2>. QED
      BY <1>3, <2>1, <2>2, TailFrame
  <1>7. ASSUME NEW e \in Days, e > today'
        PROVE  job'[Daily(e)].state = "none"
    <2>1. e > d /\ e > today
      BY <1>1, <1>7 DEF Days
    <2>2. Daily(e) \in Jobs \ {Daily(d)}
      BY <2>1, DailyJob DEF Daily, Days
    <2>. QED
      BY <1>3, <2>1, <2>2 DEF DeliveryInv
  <1>. QED
    BY <1>4, <1>5, <1>6, <1>7 DEF DeliveryInv

-----------------------------------------------------------------------------
(* What the steps of queues and workers do to jobs and runs *)

\* A run starts on a waiting job.
LEMMA TakeStarts ==
  ASSUME NEW r \in Runners, NEW j \in Jobs, TypeOK, Take(r, j)
  PROVE  /\ job[j].state = "waiting" /\ run[r].pc = "idle"
         /\ run'[r].job = j /\ run'[r].pc = FirstCall(j) /\ run'[r].owns
         /\ \A q \in Runners \ {r} : run'[q] = run[q]
         /\ job'[j].state = "active" /\ job'[j].attempts = job[j].attempts
         /\ job'[j].stalls = job[j].stalls /\ job'[j].due = job[j].due
         /\ \A i \in Jobs \ {j} : job'[i] = job[i]
  <1> DEFINE d == [Resting EXCEPT !.job = j, !.pc = FirstCall(j), !.owns = TRUE]
  <1>1. d \in Runs /\ d.job = j /\ d.pc = FirstCall(j) /\ d.owns = TRUE
    BY DefaultsType, Limits DEF Resting, Runs
  <1>2. run' = [run EXCEPT ![r] = d]
    BY DEF Take
  <1>. HIDE DEF d
  <1>3. run'[r] = d /\ \A q \in Runners \ {r} : run'[q] = run[q]
    BY <1>1, <1>2, RunWritten
  <1>4. /\ job'[j].state = "active" /\ job'[j].attempts = job[j].attempts
        /\ job'[j].stalls = job[j].stalls /\ job'[j].due = job[j].due
        /\ \A i \in Jobs \ {j} : job'[i] = job[i]
    BY StateWritten DEF Take, JobStates
  <1>. QED
    BY <1>1, <1>3, <1>4 DEF Take

\* A run ends; if it holds its job, the job is completed.
LEMMA CompleteEnds ==
  ASSUME NEW r \in Runners, DeliveryInv, Complete(r)
  PROVE  /\ run[r].pc = "finish" /\ run'[r] = Resting
         /\ \A q \in Runners \ {r} : run'[q] = run[q]
         /\ ~ run[r].owns => UNCHANGED job
         /\ run[r].owns =>
              /\ run[r].job \in Jobs
              /\ job[run[r].job].state = "active" /\ job'[run[r].job].state = "completed"
              /\ job'[run[r].job].attempts = job[run[r].job].attempts
              /\ job'[run[r].job].stalls = job[run[r].job].stalls
              /\ job'[run[r].job].due = job[run[r].job].due
              /\ \A i \in Jobs \ {run[r].job} : job'[i] = job[i]
  <1>1. TypeOK /\ RunSound(r) /\ run[r].pc = "finish"
    BY DEF DeliveryInv, Complete
  <1>2. run'[r] = Resting /\ \A q \in Runners \ {r} : run'[q] = run[q]
    BY <1>1, EndRests DEF Complete
  <1>3. CASE run[r].owns
    <2>1. run[r].job \in Jobs /\ job[run[r].job].state = "active"
      BY <1>1, <1>3 DEF RunSound
    <2>2. job' = [job EXCEPT ![run[r].job].state = "completed"]
      BY <1>3 DEF Complete
    <2>. QED
      BY <1>1, <1>2, <1>3, <2>1, <2>2, StateWritten DEF JobStates
  <1>. QED
    BY <1>1, <1>2, <1>3 DEF Complete

\* A run ends with an error; if it holds its job, the failed attempt is counted.
LEMMA ThrowEnds ==
  ASSUME NEW r \in Runners, DeliveryInv, Throw(r), run[r].pc # "idle"
  PROVE  /\ run'[r] = Resting
         /\ \A q \in Runners \ {r} : run'[q] = run[q]
         /\ ~ run[r].owns => UNCHANGED job
         /\ run[r].owns =>
              /\ run[r].job \in Jobs
              /\ job[run[r].job].state = "active"
              /\ job'[run[r].job].state \in {"delayed", "failed"}
              /\ job'[run[r].job].attempts = job[run[r].job].attempts + 1
              /\ job'[run[r].job].stalls = job[run[r].job].stalls
              /\ job'[run[r].job].due = job[run[r].job].due
              /\ \A i \in Jobs \ {run[r].job} : job'[i] = job[i]
  <1>1. TypeOK /\ RunSound(r)
    BY DEF DeliveryInv
  <1>2. run'[r] = Resting /\ \A q \in Runners \ {r} : run'[q] = run[q]
    BY <1>1, EndRests DEF Throw
  <1>3. CASE run[r].owns
    <2>1. PICK j \in Jobs : /\ j = run[r].job /\ job[j].state = "active"
                           /\ job[j].attempts < Attempts[QueueOf(j)]
      BY <1>3, RunFacts DEF RunSound, JobSound, Pending
    <2>2. job' = [job EXCEPT ![j] = Failed(j)]
      BY <1>3, <2>1 DEF Throw
    <2>3. /\ job'[j].state \in {"delayed", "failed"}
          /\ job'[j].attempts = job[j].attempts + 1
          /\ job'[j].stalls = job[j].stalls /\ job'[j].due = job[j].due
          /\ \A i \in Jobs \ {j} : job'[i] = job[i]
      BY <1>1, <2>1, <2>2, FailedCounts
    <2>. QED
      BY <1>2, <1>3, <2>1, <2>3
  <1>. QED
    BY <1>2, <1>3 DEF Throw

\* The lock of a run runs out; the run goes on.
LEMMA LoseLockLeaves ==
  ASSUME NEW r \in Runners, TypeOK, LoseLock(r)
  PROVE  /\ run'[r].pc = run[r].pc /\ run'[r].job = run[r].job /\ ~ run'[r].owns
         /\ run'[r].count = run[r].count
         /\ \A q \in Runners \ {r} : run'[q] = run[q]
  BY DEF LoseLock, TypeOK, Runs

\* The steps of the processors, from one awaited call to the next.
ProcessorMoves ==
  {<<"findUser", "findBooking">>, <<"findUser", "sendMail">>, <<"findUser", "finish">>,
   <<"findBooking", "sendMail">>, <<"findBooking", "finish">>, <<"sendMail", "finish">>,
   <<"load", "open">>, <<"open", "write">>, <<"write", "saveUrl">>, <<"saveUrl", "finish">>,
   <<"aggregate", "cacheSet">>, <<"cacheSet", "finish">>}

\* A processor that goes on makes one of ProcessorMoves and leaves its job alone.
LEMMA ProcessorSteps ==
  ASSUME NEW r \in Runners, DeliveryInv,
         \/ FindUser(r) \/ FindBooking(r) \/ SendMail(r)
         \/ Load(r) \/ OpenFile(r) \/ WriteFile(r) \/ SaveUrl(r)
         \/ Aggregate(r) \/ CacheReport(r)
  PROVE  /\ <<run[r].pc, run'[r].pc>> \in ProcessorMoves
         /\ run'[r].job = run[r].job /\ run'[r].owns = run[r].owns
         /\ \A q \in Runners \ {r} : run'[q] = run[q]
         /\ UNCHANGED <<booking, request, job>>
  <1>1. TypeOK /\ UNCHANGED <<booking, request, job>>
    BY DEF DeliveryInv, FindUser, FindBooking, SendMail, Load, OpenFile, WriteFile, SaveUrl,
           Aggregate, CacheReport, bookingVars
  <1>2. ASSUME NEW pc \in RunPCs, Goto(r, pc), <<run[r].pc, pc>> \in ProcessorMoves
        PROVE  /\ <<run[r].pc, run'[r].pc>> \in ProcessorMoves
               /\ run'[r].job = run[r].job /\ run'[r].owns = run[r].owns
               /\ \A q \in Runners \ {r} : run'[q] = run[q]
    BY <1>1, <1>2, GotoMoves
  <1>3. CASE FindUser(r)
    <2>1. \E pc \in {"findBooking", "sendMail", "finish"} : Goto(r, pc) /\ run[r].pc = "findUser"
      BY <1>3 DEF FindUser, At
    <2>. QED
      BY <1>1, <1>2, <2>1 DEF ProcessorMoves, RunPCs
  <1>4. CASE FindBooking(r)
    <2>1. \E pc \in {"sendMail", "finish"} : Goto(r, pc) /\ run[r].pc = "findBooking"
      BY <1>4 DEF FindBooking, At
    <2>. QED
      BY <1>1, <1>2, <2>1 DEF ProcessorMoves, RunPCs
  <1>5. CASE Load(r) \/ OpenFile(r) \/ WriteFile(r)
    <2>1. \/ run[r].pc = "load" /\ Goto(r, "open")
          \/ run[r].pc = "open" /\ Goto(r, "write")
          \/ run[r].pc = "write" /\ Goto(r, "saveUrl")
      BY <1>5 DEF Load, OpenFile, WriteFile, At
    <2>. QED
      BY <1>1, <1>2, <2>1 DEF ProcessorMoves, RunPCs
  <1>6. CASE SendMail(r) \/ SaveUrl(r) \/ CacheReport(r)
    <2>1. run[r].pc \in {"sendMail", "saveUrl", "cacheSet"} /\ Goto(r, "finish")
      BY <1>6 DEF SendMail, SaveUrl, CacheReport, At
    <2>. QED
      BY <1>1, <1>2, <2>1 DEF ProcessorMoves, RunPCs
  <1>7. CASE Aggregate(r)
    BY <1>1, <1>7, AggregateCounts DEF Aggregate, At, ProcessorMoves
  <1>. QED
    BY <1>3, <1>4, <1>5, <1>6, <1>7

-----------------------------------------------------------------------------
(* The other steps *)

\* Bookings, requests, jobs, runs and the day stay.
LEMMA OtherStepInv ==
  ASSUME DeliveryInv, TypeOK', UNCHANGED <<bookingVars, jobVars, today>>
  PROVE  DeliveryInv'
  <1>1. UNCHANGED <<booking, request, job, run, today>>
    BY DEF bookingVars, jobVars
  <1>. QED
    BY <1>1 DEF DeliveryInv, JobSound, Pending, RunSound, LocksSound, TailSound, InvoiceState

\* One more booking is made today.
LEMMA BookTodayInv ==
  ASSUME DeliveryInv, BookToday, UNCHANGED ops
  PROVE  DeliveryInv'
  <1>1. TypeOK /\ made' \in [Days -> 0 .. MaxPerDay]
    BY DeliveryConstants DEF DeliveryInv, TypeOK, BookToday
  <1>2. TypeOK'
    BY <1>1 DEF BookToday, TypeOK, bookingVars, jobVars, outputVars, socketVars
  <1>. QED
    BY <1>2, OtherStepInv DEF BookToday

\* The midnight job is not accepted.
LEMMA MidnightFailsInv ==
  ASSUME DeliveryInv, MidnightFails, UNCHANGED ops
  PROVE  DeliveryInv'
  <1>1. TypeOK /\ today' \in Days /\ today' = today + 1 /\ today \in Days
    BY DeliveryConstants DEF DeliveryInv, TypeOK, MidnightFails, Days
  <1>2. TypeOK'
    BY <1>1, FaultType
    DEF MidnightFails, TypeOK, bookingVars, jobVars, outputVars, socketVars
  <1>3. UNCHANGED <<booking, request, job, run>>
    BY DEF MidnightFails, bookingVars, jobVars
  <1>4. /\ \A j \in Jobs : JobSound(j)'
        /\ \A r \in Runners : RunSound(r)'
        /\ LocksSound'
        /\ \A b \in Bookings : TailSound(b)'
    BY <1>3 DEF DeliveryInv, JobSound, Pending, RunSound, LocksSound, TailSound, InvoiceState
  <1>5. \A d \in Days : d > today' => d > today
    BY <1>1 DEF Days
  <1>6. \A d \in Days : d > today' => job'[Daily(d)].state = "none"
    BY <1>3, <1>5 DEF DeliveryInv
  <1>. QED
    BY <1>2, <1>4, <1>6 DEF DeliveryInv

\* A connection is made: it joins the room of its user, if the token is valid.
LEMMA ConnectJoins ==
  ASSUME NEW s \in Sockets, NEW u \in Users \cup {NoUser}, TypeOK, Connect(s, u)
  PROVE  /\ socket' \in [Sockets -> SocketDocs]
         /\ socket'[s].connected /\ socket'[s].user = u
         /\ socket'[s].rooms = IF u = NoUser THEN {} ELSE {<<"user", u>>}
         /\ \A b \in Bookings : socket'[s].heard[b] = "none"
         /\ \A t \in Sockets \ {s} : socket'[t] = socket[t]
  <1> DEFINE rooms == IF u = NoUser THEN {} ELSE {<<"user", u>>}
             d == [Disconnected EXCEPT !.connected = TRUE, !.user = u, !.rooms = rooms]
  <1>1. rooms \in SUBSET Rooms
    BY DEF Rooms
  <1>2. socket' = [socket EXCEPT ![s] = d]
    BY DEF Connect
  <1>3. /\ d \in SocketDocs /\ d.connected /\ d.user = u /\ d.rooms = rooms
        /\ \A b \in Bookings : d.heard[b] = "none"
    <2>. HIDE DEF rooms
    <2>. QED
      BY <1>1 DEF SocketDocs, Disconnected, Updates
  <1>. HIDE DEF d
  <1>. QED
    BY <1>2, <1>3 DEF TypeOK

\* A socket that is not connected has its type.
LEMMA DisconnectedType == Disconnected \in SocketDocs
  BY DEF Disconnected, SocketDocs, Updates

\* The rooms of a connection are written.
LEMMA RoomsWritten ==
  ASSUME NEW s \in Sockets, NEW rooms \in SUBSET Rooms, TypeOK,
         socket' = [socket EXCEPT ![s].rooms = rooms]
  PROVE  /\ socket' \in [Sockets -> SocketDocs]
         /\ socket'[s].connected = socket[s].connected /\ socket'[s].user = socket[s].user
         /\ socket'[s].rooms = rooms /\ socket'[s].heard = socket[s].heard
         /\ \A t \in Sockets \ {s} : socket'[t] = socket[t]
  <1> DEFINE d == [socket[s] EXCEPT !.rooms = rooms]
  <1>1. /\ d \in SocketDocs /\ d.connected = socket[s].connected /\ d.user = socket[s].user
        /\ d.rooms = rooms /\ d.heard = socket[s].heard
    BY DEF TypeOK, SocketDocs
  <1>2. socket' = [socket EXCEPT ![s] = d]
    OBVIOUS
  <1>. HIDE DEF d
  <1>. QED
    BY <1>1, <1>2 DEF TypeOK

\* A connection joins or leaves the room of a bus.
LEMMA BusRooms ==
  ASSUME NEW s \in Sockets, NEW x \in Buses, TypeOK, JoinBus(s, x) \/ LeaveBus(s, x)
  PROVE  /\ socket' \in [Sockets -> SocketDocs]
         /\ socket'[s].connected = socket[s].connected /\ socket'[s].user = socket[s].user
         /\ \A u \in Users : <<"user", u>> \in socket'[s].rooms <=> <<"user", u>> \in socket[s].rooms
         /\ socket'[s].heard = socket[s].heard
         /\ \A t \in Sockets \ {s} : socket'[t] = socket[t]
  <1>1. socket[s].rooms \in SUBSET Rooms
    BY DEF TypeOK, SocketDocs
  <1>2. CASE JoinBus(s, x)
    <2> DEFINE rooms == socket[s].rooms \cup {<<"bus", x>>}
    <2>1. socket' = [socket EXCEPT ![s].rooms = rooms]
      BY <1>2 DEF JoinBus
    <2>2. /\ rooms \in SUBSET Rooms
          /\ \A u \in Users : <<"user", u>> \in rooms <=> <<"user", u>> \in socket[s].rooms
      BY <1>1 DEF Rooms
    <2>. HIDE DEF rooms
    <2>. QED
      BY <2>1, <2>2, RoomsWritten
  <1>3. CASE LeaveBus(s, x)
    <2> DEFINE rooms == socket[s].rooms \ {<<"bus", x>>}
    <2>1. socket' = [socket EXCEPT ![s].rooms = rooms]
      BY <1>3 DEF LeaveBus
    <2>2. /\ rooms \in SUBSET Rooms
          /\ \A u \in Users : <<"user", u>> \in rooms <=> <<"user", u>> \in socket[s].rooms
      BY <1>1 DEF Rooms
    <2>. HIDE DEF rooms
    <2>. QED
      BY <2>1, <2>2, RoomsWritten
  <1>. QED
    BY <1>2, <1>3

\* Sockets connect and disconnect, and join and leave the rooms of buses.
LEMMA SocketsInv ==
  ASSUME NEW s \in Sockets, DeliveryInv, UNCHANGED ops,
         \/ \E u \in Users \cup {NoUser} : Connect(s, u)
         \/ Disconnect(s)
         \/ \E x \in Buses : JoinBus(s, x) \/ LeaveBus(s, x)
  PROVE  DeliveryInv'
  <1>1. TypeOK
    BY DEF DeliveryInv
  <1>2. ASSUME NEW u \in Users \cup {NoUser}, Connect(s, u)
        PROVE  DeliveryInv'
    <2>1. socket' \in [Sockets -> SocketDocs]
      BY <1>1, <1>2, ConnectJoins
    <2>2. TypeOK'
      BY <1>1, <1>2, <2>1 DEF Connect, TypeOK, bookingVars, jobVars, outputVars, dayVars
    <2>. QED
      BY <1>2, <2>2, OtherStepInv DEF Connect, dayVars
  <1>3. CASE Disconnect(s)
    <2>1. socket' \in [Sockets -> SocketDocs]
      BY <1>1, <1>3, DisconnectedType DEF Disconnect, TypeOK
    <2>2. TypeOK'
      BY <1>1, <1>3, <2>1 DEF Disconnect, TypeOK, bookingVars, jobVars, outputVars, dayVars
    <2>. QED
      BY <1>3, <2>2, OtherStepInv DEF Disconnect, dayVars
  <1>4. ASSUME NEW x \in Buses, JoinBus(s, x) \/ LeaveBus(s, x)
        PROVE  DeliveryInv'
    <2>1. socket' \in [Sockets -> SocketDocs]
      BY <1>1, <1>4, BusRooms
    <2>2. /\ UNCHANGED <<bookingVars, jobVars, outputVars, address, dayVars, notice, budget>>
          /\ UNCHANGED today
      BY <1>4 DEF JoinBus, LeaveBus, dayVars
    <2>3. TypeOK'
      BY <1>1, <2>1, <2>2 DEF TypeOK, bookingVars, jobVars, outputVars, dayVars
    <2>. QED
      BY <2>2, <2>3, OtherStepInv
  <1>. QED
    BY <1>2, <1>3, <1>4

\* A notification reaches the connected sockets, and changes nothing else of them.
LEMMA NoticeReaches ==
  ASSUME NEW n \in Notices, TypeOK, CreateNotice(n)
  PROVE  /\ socket' \in [Sockets -> SocketDocs]
         /\ \A s \in Sockets :
              /\ socket'[s].connected = socket[s].connected /\ socket'[s].user = socket[s].user
              /\ socket'[s].rooms = socket[s].rooms /\ socket'[s].heard = socket[s].heard
              /\ ~ socket[s].connected => socket'[s] = socket[s]
  BY DEF TypeOK, CreateNotice, Connected, SocketDocs

\* Notifications are created, read and removed.
LEMMA NoticesInv ==
  ASSUME NEW n \in Notices, DeliveryInv, UNCHANGED ops,
         CreateNotice(n) \/ RemoveNotice(n) \/ \E u \in Users : MarkAsRead(n, u)
  PROVE  DeliveryInv'
  <1>1. TypeOK
    BY DEF DeliveryInv
  <1>2. CASE CreateNotice(n)
    <2>1. notice' \in [Notices -> NoticeDocs]
      BY <1>1, <1>2 DEF CreateNotice, TypeOK, NoticeDocs
    <2>2. TypeOK'
      BY <1>1, <1>2, <2>1, NoticeReaches
      DEF CreateNotice, TypeOK, bookingVars, jobVars, outputVars, dayVars
    <2>. QED
      BY <1>2, <2>2, OtherStepInv DEF CreateNotice, dayVars
  <1>3. CASE RemoveNotice(n)
    <2>1. notice' \in [Notices -> NoticeDocs]
      BY <1>1, <1>3 DEF RemoveNotice, TypeOK, NoticeDocs
    <2>2. TypeOK'
      BY <1>1, <1>3, <2>1 DEF RemoveNotice, TypeOK, bookingVars, jobVars, outputVars, dayVars
    <2>. QED
      BY <1>3, <2>2, OtherStepInv DEF RemoveNotice, dayVars
  <1>4. ASSUME NEW u \in Users, MarkAsRead(n, u)
        PROVE  DeliveryInv'
    <2>1. notice' \in [Notices -> NoticeDocs]
      BY <1>1, <1>4 DEF MarkAsRead, TypeOK, NoticeDocs
    <2>2. TypeOK'
      BY <1>1, <1>4, <2>1 DEF MarkAsRead, TypeOK, bookingVars, jobVars, outputVars, dayVars
    <2>. QED
      BY <1>4, <2>2, OtherStepInv DEF MarkAsRead, dayVars
  <1>. QED
    BY <1>2, <1>3, <1>4

\* A user gets an email address.
LEMMA GiveAddressInv ==
  ASSUME NEW u \in Users, DeliveryInv, GiveAddress(u), UNCHANGED ops
  PROVE  DeliveryInv'
  <1>1. TypeOK'
    BY DEF DeliveryInv, GiveAddress, TypeOK, bookingVars, jobVars, outputVars, dayVars, socketVars
  <1>. QED
    BY <1>1, OtherStepInv DEF GiveAddress, dayVars

\* The mails that wait for a user are not due any more; nothing else of a job changes.
LEMMA AddressDropped ==
  ASSUME NEW u \in Users, TypeOK, DropAddress(u)
  PROVE  /\ job' \in [Jobs -> JobDocs]
         /\ \A j \in Jobs :
              /\ job'[j].state = job[j].state /\ job'[j].attempts = job[j].attempts
              /\ job'[j].stalls = job[j].stalls
              /\ job'[j].due <=>
                   job[j].due /\ ~ (j \in EmailJobs /\ Owner[j[2]] = u /\ Pending(j))
              /\ job[j].state = "none" => job'[j] = job[j]
  <1>1. ASSUME NEW j \in Jobs
        PROVE  /\ job'[j] \in JobDocs
               /\ job'[j].state = job[j].state /\ job'[j].attempts = job[j].attempts
               /\ job'[j].stalls = job[j].stalls
               /\ job'[j].due <=>
                    job[j].due /\ ~ (j \in EmailJobs /\ Owner[j[2]] = u /\ Pending(j))
               /\ job[j].state = "none" => job'[j] = job[j]
    <2> DEFINE p == j \in EmailJobs /\ Owner[j[2]] = u /\ Pending(j)
    <2>1. job'[j] = IF p THEN [job[j] EXCEPT !.due = FALSE] ELSE job[j]
      BY DEF DropAddress
    <2>2. job[j] \in JobDocs /\ (p => job[j].state # "none")
      BY DEF TypeOK, Pending
    <2>3. /\ job'[j] \in JobDocs
          /\ job'[j].state = job[j].state /\ job'[j].attempts = job[j].attempts
          /\ job'[j].stalls = job[j].stalls
          /\ job'[j].due <=> job[j].due /\ ~ p
          /\ job[j].state = "none" => job'[j] = job[j]
      <3>. HIDE DEF p
      <3>1. CASE p
        BY <2>1, <2>2, <3>1 DEF JobDocs
      <3>2. CASE ~ p
        BY <2>1, <2>2, <3>2 DEF JobDocs
      <3>. QED
        BY <3>1, <3>2
    <2>. QED
      BY <2>3
  <1>2. job' = [j \in Jobs |-> job'[j]]
    BY DEF DropAddress
  <1>. QED
    BY <1>1, <1>2

\* A user loses the email address.
LEMMA DropAddressInv ==
  ASSUME NEW u \in Users, DeliveryInv, DropAddress(u), UNCHANGED ops
  PROVE  DeliveryInv'
  <1>1. TypeOK
    BY DEF DeliveryInv
  <1>2. TypeOK'
    BY <1>1, AddressDropped
    DEF DropAddress, TypeOK, bookingVars, outputVars, dayVars, socketVars
  <1>3. \A j \in Jobs : JobSound(j)'
    BY <1>1, AddressDropped DEF DeliveryInv, JobSound, Pending
  <1>4. ASSUME NEW r \in Runners
        PROVE  RunSound(r)'
    <2>1. /\ RunSound(r) /\ run'[r] = run[r]
          /\ run[r].owns => run[r].job \in Jobs
      BY RunFacts DEF DropAddress
    <2>. QED
      BY <1>1, <2>1, AddressDropped DEF RunSound
  <1>5. LocksSound'
    BY DEF DeliveryInv, LocksSound, DropAddress
  <1>. QED
    BY <1>1, <1>2, <1>3, <1>4, <1>5, AddressDropped, QueueStepInv DEF DropAddress, dayVars

\* What a restart leaves of the requests.
LEMMA CrashDrops ==
  ASSUME NEW b \in Bookings, TypeOK, Crash
  PROVE  /\ request'[b] \in RequestDocs
         /\ request'[b].create = Dropped(request[b].create)
         /\ \A v \in Verifications : request'[b][v] = Dropped(request[b][v])
         /\ request'[b].cancel = "idle" /\ request'[b].canceller = NoUser
  <1> DEFINE c == Dropped(request[b].create)
             f == Dropped(request[b].first)
             s == Dropped(request[b].second)
  <1>1. /\ c \in {"idle", "addCreated", "over"} /\ f \in ConfirmPCs /\ s \in ConfirmPCs
    BY DEF Dropped, ConfirmPCs
  <1>2. request'[b] = [NoRequests EXCEPT !.create = c, !.first = f, !.second = s]
    BY DEF Crash
  <1>3. /\ request'[b] \in RequestDocs
        /\ request'[b].create = c /\ request'[b].first = f /\ request'[b].second = s
        /\ request'[b].cancel = "idle" /\ request'[b].canceller = NoUser
    <2>. HIDE DEF c, f, s
    <2>. QED
      BY <1>1, <1>2 DEF NoRequests, RequestDocs
  <1>. QED
    BY <1>3 DEF Verifications

\* After a restart no request and no processor is in progress.
LEMMA CrashInv ==
  ASSUME DeliveryInv, Crash, UNCHANGED ops
  PROVE  DeliveryInv'
  <1>1. TypeOK
    BY DEF DeliveryInv
  <1>2. request' = [b \in Bookings |-> request'[b]]
    BY DEF Crash
  <1>3. request' \in [Bookings -> RequestDocs]
    BY <1>1, <1>2, CrashDrops
  <1>4. run' \in [Runners -> Runs] /\ \A r \in Runners : run'[r] = Resting
    BY DefaultsType DEF Crash
  <1>5. socket' \in [Sockets -> SocketDocs]
    BY DisconnectedType DEF Crash
  <1>6. TypeOK'
    BY <1>1, <1>3, <1>4, <1>5, FaultType DEF Crash, TypeOK, outputVars, dayVars
  <1>7. \A j \in Jobs : JobSound(j)'
    BY DEF DeliveryInv, JobSound, Pending, Crash
  <1>8. /\ \A r \in Runners : RunSound(r)'
        /\ LocksSound'
    BY <1>4 DEF RunSound, LocksSound, Resting, EmailPCs, InvoicePCs, DailyPCs
  <1>9. ASSUME NEW b \in Bookings
        PROVE  TailSound(b)'
    <2>1. TailSound(b) /\ UNCHANGED <<booking, job>>
      BY DEF DeliveryInv, Crash
    <2>2. ASSUME booking[b].status = "none"
          PROVE  request'[b] = NoRequests
      <3>1. /\ Dropped(request[b].create) = "idle" /\ Dropped(request[b].first) = "idle"
            /\ Dropped(request[b].second) = "idle"
        BY <2>1, <2>2 DEF TailSound, NoRequests, Dropped
      <3>2. request'[b] = [NoRequests EXCEPT !.create = "idle", !.first = "idle", !.second = "idle"]
        BY <3>1 DEF Crash
      <3>. QED
        BY <3>2 DEF NoRequests
    <2>3. \A v \in Verifications :
            request'[b][v] = "over" \/ request'[b][v] = request[b][v]
      BY <1>1, CrashDrops DEF Dropped
    <2>4. request'[b].create = "over" \/ request'[b].create = request[b].create
      BY <1>1, CrashDrops DEF Dropped
    <2>. QED
      BY <2>1, <2>2, <2>3, <2>4 DEF TailSound, InvoiceState
  <1>10. \A d \in Days : d > today' => job'[Daily(d)].state = "none"
    BY DEF DeliveryInv, Crash, dayVars
  <1>. QED
    BY <1>6, <1>7, <1>8, <1>9, <1>10 DEF DeliveryInv

-----------------------------------------------------------------------------
(* The invariant *)

\* The server starts with no bookings and no jobs.
LEMMA InitInv == Init => DeliveryInv
  <1> SUFFICES ASSUME Init PROVE DeliveryInv
    OBVIOUS
  <1>1. TypeOK
    <2>1. \A b \in Bookings : request[b] \in RequestDocs
      BY DEF Init, NoRequests, RequestDocs, ConfirmPCs
    <2>2. request \in [Bookings -> RequestDocs]
      BY <2>1 DEF Init
    <2>3. booking \in [Bookings -> BookingDocs] /\ ticket \in [Bookings -> Tickets]
      BY DEF Init, BookingDocs, Statuses, Tickets, NoTicket
    <2>4. job \in [Jobs -> JobDocs] /\ run \in [Runners -> Runs]
      BY DefaultsType DEF Init
    <2>5. socket \in [Sockets -> SocketDocs] /\ notice \in [Notices -> NoticeDocs]
      BY DisconnectedType DEF Init, NoticeDocs
    <2>6. /\ today \in Days /\ made \in [Days -> 0 .. MaxPerDay]
          /\ report \in [Days -> 0 .. MaxPerDay] /\ budget \in 0 .. MaxFaults
      BY DeliveryConstants DEF Init, Days
    <2>. QED
      BY <2>2, <2>3, <2>4, <2>5, <2>6 DEF Init, TypeOK
  <1>2. \A j \in Jobs : job[j] = Unqueued
    BY DEF Init
  <1>3. \A j \in Jobs : JobSound(j)
    BY <1>2 DEF JobSound, Unqueued, Pending
  <1>4. /\ \A r \in Runners : RunSound(r)
        /\ LocksSound
    BY DEF Init, RunSound, LocksSound, Resting, EmailPCs, InvoicePCs, DailyPCs
  <1>5. ASSUME NEW b \in Bookings
        PROVE  TailSound(b)
    <2>1. request[b] = NoRequests /\ job[<<"booking_created", b>>].state = "none"
      BY <1>2, CreatedJob DEF Init, Unqueued
    <2>2. ASSUME NEW v \in Verifications
          PROVE  /\ job[<<"booking_confirmed", b, v>>].state = "none"
                 /\ job[<<"payment_success", b, v>>].state = "none"
                 /\ InvoiceState(b, v) = "none"
      BY <1>2, VerifiedJobs DEF Unqueued, InvoiceState
    <2>. QED
      BY <2>1, <2>2 DEF TailSound
  <1>6. \A d \in Days : d > today => job[Daily(d)].state = "none"
    BY <1>2, DailyJob DEF Unqueued
  <1>. QED
    BY <1>1, <1>3, <1>4, <1>5, <1>6 DEF DeliveryInv

\* Every step preserves DeliveryInv.
LEMMA NextInv == DeliveryInv /\ [Next]_vars => DeliveryInv'
  <1> SUFFICES ASSUME DeliveryInv, [Next]_vars
               PROVE  DeliveryInv'
    OBVIOUS
  <1>1. CASE Step /\ UNCHANGED ops
    <2>1. ASSUME NEW b \in Bookings,
                 \/ CreateBooking(b) \/ Announce(b)
                 \/ \E v \in Verifications : ConfirmBooking(b, v)
                 \/ \E u \in Users : CancelBooking(b, u)
                 \/ \E kind \in Tails : TailFails(b, kind)
          PROVE  DeliveryInv'
      BY <1>1, <2>1, CreateBookingInv, AddCreatedInv, SetConfirmedInv, AnnounceConfirmedInv,
         AddTicketInv, AddInvoiceInv, AddReceiptInv, SetCancelledInv, AnnounceCancelledInv,
         ConfirmBookingInv, CancelBookingInv, TailFailsInv DEF Announce
    <2>2. ASSUME NEW j \in Jobs, Retry(j) \/ Stalled(j) \/ \E r \in Runners : Take(r, j)
          PROVE  DeliveryInv'
      BY <1>1, <2>2, RetryInv, StalledInv, TakeInv
    <2>3. ASSUME NEW r \in Runners,
                 Process(r) \/ WriteSome(r) \/ RunFails(r) \/ Unanswered(r) \/ LoseLock(r)
          PROVE  DeliveryInv'
      BY <1>1, <2>3, FindUserInv, FindBookingInv, SendMailInv, LoadInv, OpenFileInv,
         WriteFileInv, SaveUrlInv, AggregateInv, CacheReportInv, CompleteInv,
         WriteSomeInv, SendUnansweredInv, SaveUrlUnansweredInv, CacheReportUnansweredInv,
         RunFailsInv, LoseLockInv DEF Process, Unanswered
    <2>4. CASE Midnight \/ BookToday \/ MidnightFails
      BY <1>1, <2>4, MidnightInv, BookTodayInv, MidnightFailsInv
    <2>5. CASE Gateway
      BY <1>1, <2>5, SocketsInv, NoticesInv DEF Gateway
    <2>6. ASSUME NEW u \in Users, GiveAddress(u) \/ DropAddress(u)
          PROVE  DeliveryInv'
      BY <1>1, <2>6, GiveAddressInv, DropAddressInv
    <2>7. CASE Crash
      BY <1>1, <2>7, CrashInv
    <2>. QED
      BY <1>1, <2>1, <2>2, <2>3, <2>4, <2>5, <2>6, <2>7 DEF Step
  <1>2. CASE UNCHANGED vars
    BY <1>2 DEF DeliveryInv, TypeOK, JobSound, Pending, RunSound, LocksSound, TailSound,
                InvoiceState, vars
  <1>. QED
    BY <1>1, <1>2 DEF Next

\* In every reachable state every document has its type; a job that may still run has
\* attempts left and has not stalled too often; a run works on a job that was added, of its
\* own queue, and holds a lock that is its alone while the job is active; and no request
\* adds a job twice (jobs/queues/*.ts, jobs/workers/*.ts, the tails of the booking and
\* payment services).
THEOREM DeliveryInvHolds == Spec => []DeliveryInv
  BY InitInv, NextInv, PTL DEF Spec

-----------------------------------------------------------------------------
(* The steps, as the queues and the workers see them *)

\* Nothing happens to them; a user may get an address.
Quiet == UNCHANGED <<job, run, mails, ticket>> /\ address \subseteq address'

\* A job that was never added waits.
Adds(j) ==
  /\ job[j] = Unqueued
  /\ job'[j].state = "waiting" /\ job'[j].attempts = 0 /\ job'[j].stalls = 0
  /\ j \in EmailJobs /\ job'[j].due => Owner[j[2]] \in address /\ Smtp
  /\ \A i \in Jobs \ {j} : job'[i] = job[i]
  /\ UNCHANGED <<run, mails, ticket, address>>

\* Every job that a request adds is one that was never added.
LEMMA RequestAdds ==
  ASSUME NEW b \in Bookings, DeliveryInv, Announce(b)
  PROVE  Quiet \/ \E j \in Jobs : Adds(j)
  <1>1. TypeOK /\ TailSound(b) /\ \A j \in Jobs : job[j].state = "none" => job[j] = Unqueued
    BY DEF DeliveryInv, JobSound
  <1>2. ASSUME NEW j \in Jobs, NEW due \in BOOLEAN, AddFollowed(j, due), job[j].state = "none",
               j \in EmailJobs /\ due => Owner[j[2]] \in address /\ Smtp,
               UNCHANGED <<run, outputVars, address>>
        PROVE  Quiet \/ Adds(j)
    <2>1. CASE j[1] \in ops
      <3>1. Add(j, due) /\ job[j] = Unqueued
        BY <1>1, <1>2, <2>1 DEF AddFollowed
      <3>. QED
        BY <1>1, <1>2, <3>1, AddQueues DEF Adds, outputVars
    <2>2. CASE j[1] \notin ops
      BY <1>2, <2>2 DEF AddFollowed, Quiet, outputVars
    <2>. QED
      BY <2>1, <2>2
  <1>3. CASE AddCreated(b)
    <2> DEFINE j == <<"booking_created", b>>
               due == Owner[b] \in address /\ Smtp
    <2>1. /\ AddFollowed(j, due) /\ due \in BOOLEAN /\ (due => Owner[j[2]] \in address /\ Smtp)
          /\ request[b].create = "addCreated" /\ UNCHANGED <<run, outputVars, address>>
      BY <1>3 DEF AddCreated, QueueMail, HasTail, Smtp
    <2>2. j \in Jobs /\ job[j].state = "none"
      BY <1>1, <2>1, CreatedJob DEF TailSound
    <2>. HIDE DEF due, j
    <2>. QED
      BY <1>2, <2>1, <2>2
  <1>4. ASSUME NEW v \in Verifications, AddTicket(b, v) \/ AddReceipt(b, v)
        PROVE  Quiet \/ \E j \in Jobs : Adds(j)
    <2> DEFINE due == Owner[b] \in address /\ Smtp
    <2>1. PICK j \in {<<"booking_confirmed", b, v>>, <<"payment_success", b, v>>} :
            AddFollowed(j, due) /\ j \in Jobs /\ job[j].state = "none"
      BY <1>1, <1>4, VerifiedJobs DEF AddTicket, AddReceipt, QueueMail, HasTail, TailSound
    <2>2. /\ due \in BOOLEAN /\ (due => Owner[j[2]] \in address /\ Smtp)
          /\ UNCHANGED <<run, outputVars, address>>
      BY <1>4, <2>1 DEF AddTicket, AddReceipt, Smtp
    <2>. HIDE DEF due
    <2>. QED
      BY <1>2, <2>1, <2>2
  <1>5. ASSUME NEW v \in Verifications, AddInvoice(b, v)
        PROVE  Quiet \/ \E j \in Jobs : Adds(j)
    <2>1. /\ AddFollowed(Invoice(b, v), TRUE) /\ UNCHANGED <<run, outputVars, address>>
          /\ request[b][v] = "addInvoice"
      BY <1>5 DEF AddInvoice, HasTail
    <2>2. /\ Invoice(b, v) \in Jobs /\ Invoice(b, v) \notin EmailJobs
          /\ job[Invoice(b, v)].state = "none"
      BY <1>1, <2>1, VerifiedJobs DEF TailSound, InvoiceState
    <2>. QED
      BY <1>2, <2>1, <2>2
  <1>6. CASE \/ \E v \in Verifications : SetConfirmed(b, v) \/ AnnounceConfirmed(b, v)
             \/ SetCancelled(b) \/ AnnounceCancelled(b)
    BY <1>6 DEF SetConfirmed, AnnounceConfirmed, SetCancelled, AnnounceCancelled, Quiet,
                jobVars, outputVars
  <1>. QED
    BY <1>3, <1>4, <1>5, <1>6 DEF Announce

\* The midnight job is one that was never added.
LEMMA MidnightAdds ==
  ASSUME DeliveryInv, Midnight
  PROVE  \E j \in DailyJobs : Adds(j)
  <1>1. PICK d \in Days : d = today + 1 /\ today \in Days /\ today < d
    BY DeliveryConstants DEF DeliveryInv, TypeOK, Midnight, Days
  <1>2. /\ TypeOK /\ Daily(d) \in Jobs /\ Daily(d) \in DailyJobs /\ Daily(d) \notin EmailJobs
        /\ Add(Daily(d), FALSE) /\ job[Daily(d)] = Unqueued
    BY <1>1, DailyJob, DailyJobQueue DEF DeliveryInv, Midnight, Days, JobSound, BookingJobs
  <1>3. /\ job'[Daily(d)].state = "waiting" /\ job'[Daily(d)].attempts = 0
        /\ job'[Daily(d)].stalls = 0
        /\ \A i \in Jobs \ {Daily(d)} : job'[i] = job[i]
    BY <1>2, AddQueues
  <1>4. Adds(Daily(d))
    BY <1>2, <1>3 DEF Adds, Midnight, outputVars
  <1>. QED
    BY <1>2, <1>4

\* Every step is one of these.
LEMMA QueueSteps ==
  ASSUME DeliveryInv, [Next]_vars
  PROVE  /\ UNCHANGED ops
         /\ \/ Quiet
            \/ \E j \in Jobs : Adds(j)
            \/ \E u \in Users : DropAddress(u)
            \/ \E j \in Jobs : Retry(j) \/ Stalled(j) \/ \E r \in Runners : Take(r, j)
            \/ \E r \in Runners :
                 Process(r) \/ WriteSome(r) \/ RunFails(r) \/ Unanswered(r) \/ LoseLock(r)
            \/ Crash
  <1>1. CASE Step /\ UNCHANGED ops
    <2>1. ASSUME NEW b \in Bookings,
                 \/ CreateBooking(b)
                 \/ \E v \in Verifications : ConfirmBooking(b, v)
                 \/ \E u \in Users : CancelBooking(b, u)
                 \/ \E kind \in Tails : TailFails(b, kind)
          PROVE  Quiet
      BY <2>1 DEF CreateBooking, ConfirmBooking, CancelBooking, TailFails, Quiet, jobVars, outputVars
    <2>2. CASE BookToday \/ MidnightFails \/ \E u \in Users : GiveAddress(u)
      BY <1>1, <2>2 DEF BookToday, MidnightFails, GiveAddress, Quiet, jobVars, outputVars
    <2>3. CASE Gateway
      <3>1. Quiet
        BY <2>3 DEF Gateway, Connect, Disconnect, JoinBus, LeaveBus, CreateNotice, RemoveNotice,
                    MarkAsRead, Quiet, jobVars, outputVars
      <3>. QED
        BY <1>1, <3>1
    <2>4. CASE Midnight
      BY <1>1, <2>4, MidnightAdds, DailyJobQueue
    <2>5. CASE \E b \in Bookings : Announce(b)
      BY <1>1, <2>5, RequestAdds
    <2>. QED
      BY <1>1, <2>1, <2>2, <2>3, <2>4, <2>5 DEF Step
  <1>2. CASE UNCHANGED vars
    BY <1>2 DEF vars, Quiet
  <1>. QED
    BY <1>1, <1>2 DEF Next
=============================================================================
