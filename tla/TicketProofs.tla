---------------------------- MODULE TicketProofs ----------------------------
(***************************************************************************)
(* What the invoice worker guarantees of the ticket of a booking: when its *)
(* file may be torn, and that the completed jobs leave it whole.           *)
(***************************************************************************)
EXTENDS DeliveryProofs

On(r, j) == run[r].pc # "idle" /\ run[r].job = j

-----------------------------------------------------------------------------
(* One run of a job that has not stalled *)

\* A job that has not stalled is run only while it is active, and by one run at most.
SingleRun(j) ==
  job[j].stalls = 0 =>
    \A r1 \in Runners : On(r1, j) =>
      job[j].state = "active" /\ \A r2 \in Runners : On(r2, j) => r1 = r2

\* A job that was never added is not run.
LEMMA NoRunBeforeAdd ==
  ASSUME NEW r \in Runners, NEW j \in Jobs, DeliveryInv, job[j].state = "none"
  PROVE  ~ On(r, j)
  BY RunFacts DEF RunSound, On

\* A step that starts no run of the job and leaves its state alone.
LEMMA SingleRunFrame ==
  ASSUME NEW j \in Jobs, SingleRun(j), job'[j].stalls = 0 => job[j].stalls = 0,
         \A r \in Runners : On(r, j)' => On(r, j),
         (\E r \in Runners : On(r, j)') /\ job[j].state = "active" => job'[j].state = "active"
  PROVE  SingleRun(j)'
  BY DEF SingleRun

\* Every step preserves SingleRun.
LEMMA SingleRunNext ==
  ASSUME NEW j \in Jobs, DeliveryInv, [Next]_vars, SingleRun(j)
  PROVE  SingleRun(j)'
  <1>1. TypeOK
    BY DEF DeliveryInv
  <1>2. CASE Quiet
    BY <1>2, SingleRunFrame DEF Quiet, On
  <1>3. ASSUME NEW i \in Jobs, Adds(i)
        PROVE  SingleRun(j)'
    <2>1. CASE i = j
      BY <1>3, <2>1, NoRunBeforeAdd DEF Adds, Unqueued, On, SingleRun
    <2>2. CASE i # j
      BY <1>3, <2>2, SingleRunFrame DEF Adds, On
    <2>. QED
      BY <2>1, <2>2
  <1>4. ASSUME NEW u \in Users, DropAddress(u)
        PROVE  SingleRun(j)'
    <2>1. job'[j].state = job[j].state /\ job'[j].stalls = job[j].stalls
      BY <1>1, <1>4, AddressDropped
    <2>2. UNCHANGED run
      BY <1>4 DEF DropAddress
    <2>. QED
      BY <2>1, <2>2, SingleRunFrame DEF On
  <1>5. ASSUME NEW i \in Jobs, Retry(i)
        PROVE  SingleRun(j)'
    <2>1. /\ job'[j].stalls = job[j].stalls
          /\ job[j].state = "active" => job'[j].state = "active"
      BY <1>1, <1>5, StateWritten DEF Retry, JobStates
    <2>2. UNCHANGED run
      BY <1>5 DEF Retry
    <2>. QED
      BY <2>1, <2>2, SingleRunFrame DEF On
  <1>6. ASSUME NEW i \in Jobs, Stalled(i)
        PROVE  SingleRun(j)'
    <2>1. /\ job'[i].stalls = job[i].stalls + 1
          /\ \A k \in Jobs \ {i} : job'[k] = job[k]
      BY <1>1, <1>6, StallCounts DEF Stalled, DeliveryInv, JobSound, Pending
    <2>5. job[i].stalls \in Nat
      BY <1>1 DEF TypeOK, JobDocs
    <2>2. UNCHANGED run
      BY <1>6 DEF Stalled
    <2>3. CASE i = j
      BY <2>1, <2>3, <2>5 DEF SingleRun
    <2>4. CASE i # j
      BY <2>1, <2>2, <2>4, SingleRunFrame DEF On
    <2>. QED
      BY <2>3, <2>4
  <1>7. ASSUME NEW i \in Jobs, NEW r \in Runners, Take(r, i)
        PROVE  SingleRun(j)'
    <2>1. /\ job[i].state = "waiting" /\ job'[i].state = "active" /\ job'[i].stalls = job[i].stalls
          /\ run'[r].job = i /\ \A q \in Runners \ {r} : run'[q] = run[q]
          /\ \A k \in Jobs \ {i} : job'[k] = job[k]
      BY <1>1, <1>7, TakeStarts
    <2>2. CASE i = j
      BY <2>1, <2>2 DEF SingleRun, On
    <2>3. CASE i # j
      BY <2>1, <2>3, SingleRunFrame DEF On
    <2>. QED
      BY <2>2, <2>3
  <1>8. ASSUME NEW r \in Runners,
               \/ FindUser(r) \/ FindBooking(r) \/ SendMail(r)
               \/ Load(r) \/ OpenFile(r) \/ WriteFile(r) \/ SaveUrl(r)
               \/ Aggregate(r) \/ CacheReport(r)
        PROVE  SingleRun(j)'
    <2>1. /\ <<run[r].pc, run'[r].pc>> \in ProcessorMoves /\ run'[r].job = run[r].job
          /\ \A q \in Runners \ {r} : run'[q] = run[q]
          /\ UNCHANGED job
      BY <1>8, ProcessorSteps
    <2>. QED
      BY <2>1, SingleRunFrame DEF On, ProcessorMoves
  <1>9. ASSUME NEW r \in Runners, Complete(r) \/ RunFails(r) \/ Unanswered(r)
        PROVE  SingleRun(j)'
    <2>1. /\ run[r].pc # "idle" /\ run'[r] = Resting
          /\ \A q \in Runners \ {r} : run'[q] = run[q]
          /\ job'[j].stalls = job[j].stalls
          /\ ~ (run[r].owns /\ run[r].job = j) => job'[j] = job[j]
      <3>1. CASE Complete(r)
        BY <3>1, CompleteEnds
      <3>2. CASE RunFails(r) \/ Unanswered(r)
        BY <3>2, ThrowEnds, FailingThrows
      <3>. QED
        BY <1>9, <3>1, <3>2
    <2>. QED
      BY <2>1 DEF SingleRun, On, Resting
  <1>10. ASSUME NEW r \in Runners, LoseLock(r)
         PROVE  SingleRun(j)'
    <2>1. /\ run'[r].pc = run[r].pc /\ run'[r].job = run[r].job
          /\ \A q \in Runners \ {r} : run'[q] = run[q]
      BY <1>1, <1>10, LoseLockLeaves
    <2>2. UNCHANGED job
      BY <1>10 DEF LoseLock
    <2>. QED
      BY <2>1, <2>2, SingleRunFrame DEF On
  <1>11. CASE Crash
    BY <1>11, SingleRunFrame DEF Crash, On, Resting
  <1>12. CASE \E r \in Runners : WriteSome(r)
    BY <1>12, SingleRunFrame DEF WriteSome, jobVars, On
  <1>. QED
    BY <1>2, <1>3, <1>4, <1>5, <1>6, <1>7, <1>8, <1>9, <1>10, <1>11, <1>12, QueueSteps
       DEF Process

-----------------------------------------------------------------------------
(* A ticket is torn only by a job that stalled or saved its url without an answer, or by *)
(* a second verification                                                                 *)

\* The invoice job is the only one of its booking, has not stalled, and had its answers.
Lone(b, v) ==
  /\ job[Invoice(b, v)].stalls = 0
  /\ ~ ticket[b].unanswered
  /\ \A w \in Verifications \ {v} : InvoiceState(b, w) = "none"

\* The file of such a job is written by one stream at a time, and whole once it has
\* finished; once the url is saved nothing is left but to complete the job.
LoneSound(b, v) ==
  LET j == Invoice(b, v) IN
  /\ v \in ticket[b].url => InvoiceState(b, v) # "none"
  /\ Lone(b, v) =>
       /\ \A r \in Runners : On(r, j) =>
            /\ At(r, "write") => ~ ticket[b].shared
            /\ run[r].pc \in {"saveUrl", "finish"} => ticket[b].file = "whole"
            /\ v \in ticket[b].url => At(r, "finish")
       /\ v \in ticket[b].url =>
            /\ ticket[b].file = "whole"
            /\ InvoiceState(b, v) \in {"active", "completed"}

TornInv ==
  \A b \in Bookings, v \in Verifications : SingleRun(Invoice(b, v)) /\ LoneSound(b, v)

\* A step that leaves the file alone, starts no run but at "load", and settles no job
\* whose url is saved but by completing it.
LEMMA LoneFrame ==
  ASSUME NEW b \in Bookings, NEW v \in Verifications, LoneSound(b, v),
         ticket'[b] = ticket[b],
         Lone(b, v)' => Lone(b, v),
         InvoiceState(b, v)' = "none" => InvoiceState(b, v) = "none",
         InvoiceState(b, v) \in {"active", "completed"} /\ v \in ticket[b].url /\ Lone(b, v)' =>
           InvoiceState(b, v)' \in {"active", "completed"},
         \A r \in Runners : On(r, Invoice(b, v))' =>
           \/ On(r, Invoice(b, v)) /\ run'[r].pc = run[r].pc
           \/ run'[r].pc = "load" /\ InvoiceState(b, v) = "waiting"
  PROVE  LoneSound(b, v)'
  BY DEF LoneSound, At

\* No job loses its stalls or is forgotten.
LEMMA JobsRemain ==
  ASSUME NEW j \in Jobs, DeliveryInv, [Next]_vars
  PROVE  /\ job'[j].stalls = 0 => job[j].stalls = 0
         /\ job'[j].state = "none" => job[j].state = "none"
  <1>1. TypeOK
    BY DEF DeliveryInv
  <1>2. ASSUME NEW i \in Jobs, Adds(i)
        PROVE  /\ job'[j].stalls = 0 => job[j].stalls = 0
               /\ job'[j].state = "none" => job[j].state = "none"
    BY <1>2 DEF Adds, Unqueued
  <1>3. ASSUME NEW i \in Jobs, Retry(i) \/ Stalled(i) \/ \E r \in Runners : Take(r, i)
        PROVE  /\ job'[j].stalls = 0 => job[j].stalls = 0
               /\ job'[j].state = "none" => job[j].state = "none"
    <2>1. CASE Retry(i)
      BY <1>1, <2>1, StateWritten DEF Retry, JobStates
    <2>2. CASE Stalled(i)
      <3>1. /\ job'[i].stalls = job[i].stalls + 1 /\ job'[i].state \in {"waiting", "failed"}
            /\ \A k \in Jobs \ {i} : job'[k] = job[k]
        BY <1>1, <2>2, StallCounts DEF Stalled, DeliveryInv, JobSound, Pending
      <3>2. job[i].stalls \in Nat
        BY <1>1 DEF TypeOK, JobDocs
      <3>. QED
        BY <3>1, <3>2
    <2>3. CASE \E r \in Runners : Take(r, i)
      BY <1>1, <2>3, TakeStarts
    <2>. QED
      BY <1>3, <2>1, <2>2, <2>3
  <1>4. ASSUME NEW r \in Runners,
               Process(r) \/ WriteSome(r) \/ RunFails(r) \/ Unanswered(r) \/ LoseLock(r)
        PROVE  /\ job'[j].stalls = 0 => job[j].stalls = 0
               /\ job'[j].state = "none" => job[j].state = "none"
    <2>1. CASE Complete(r)
      BY <2>1, CompleteEnds
    <2>2. CASE RunFails(r) \/ Unanswered(r)
      BY <2>2, ThrowEnds, FailingThrows
    <2>3. CASE LoseLock(r) \/ WriteSome(r)
      BY <2>3 DEF LoseLock, WriteSome, jobVars
    <2>4. CASE \/ FindUser(r) \/ FindBooking(r) \/ SendMail(r)
               \/ Load(r) \/ OpenFile(r) \/ WriteFile(r) \/ SaveUrl(r)
               \/ Aggregate(r) \/ CacheReport(r)
      BY <2>4, ProcessorSteps
    <2>. QED
      BY <1>4, <2>1, <2>2, <2>3, <2>4 DEF Process
  <1>5. CASE Quiet \/ Crash
    BY <1>5 DEF Quiet, Crash
  <1>6. CASE \E u \in Users : DropAddress(u)
    BY <1>1, <1>6, AddressDropped
  <1>. QED
    BY <1>2, <1>3, <1>4, <1>5, <1>6, QueueSteps

\* It is remembered that a saved url was not answered.
LEMMA UnansweredStays ==
  ASSUME NEW b \in Bookings, DeliveryInv, [Next]_vars, ticket[b].unanswered
  PROVE  ticket'[b].unanswered
  <1>1. CASE UNCHANGED ticket
    BY <1>1
  <1>2. ASSUME NEW r \in Runners,
               \/ OpenFile(r) \/ WriteFile(r) \/ WriteSome(r)
               \/ SaveUrl(r) \/ SaveUrlUnanswered(r)
        PROVE  ticket'[b].unanswered
    BY <1>2, OpenFileTears, WriteFileMends, WriteSomeTears, SaveUrlSaves
  <1>3. ASSUME NEW r \in Runners,
               Process(r) \/ WriteSome(r) \/ RunFails(r) \/ Unanswered(r) \/ LoseLock(r)
        PROVE  ticket'[b].unanswered
    BY <1>1, <1>2, <1>3
    DEF Process, FindUser, FindBooking, SendMail, Load, Aggregate, CacheReport, Complete,
        RunFails, Unanswered, SendUnanswered, CacheReportUnanswered, LoseLock, outputVars
  <1>4. CASE \/ Quiet \/ Crash \/ \E u \in Users : DropAddress(u)
             \/ \E j \in Jobs : \/ Adds(j) \/ Retry(j) \/ Stalled(j)
                               \/ \E r \in Runners : Take(r, j)
    BY <1>1, <1>4 DEF Quiet, Crash, DropAddress, Adds, Retry, Stalled, Take, outputVars
  <1>. QED
    BY <1>3, <1>4, QueueSteps

\* A job that is alone after a step was alone before it.
LEMMA LoneRemains ==
  ASSUME NEW b \in Bookings, NEW v \in Verifications, DeliveryInv, [Next]_vars
  PROVE  /\ Lone(b, v)' => Lone(b, v)
         /\ InvoiceState(b, v)' = "none" => InvoiceState(b, v) = "none"
  <1>1. \A w \in Verifications : Invoice(b, w) \in Jobs
    BY VerifiedJobs
  <1>. QED
    BY <1>1, JobsRemain, UnansweredStays DEF Lone, InvoiceState

\* A job that is alone opens its file while no other stream is open on it.
LEMMA LoneWriter ==
  ASSUME NEW b \in Bookings, NEW v \in Verifications, NEW r \in Runners, DeliveryInv,
         SingleRun(Invoice(b, v)), Lone(b, v), On(r, Invoice(b, v)), At(r, "open")
  PROVE  Writers(b) = {}
  <1> SUFFICES ASSUME NEW q \in Writers(b)
               PROVE  FALSE
    OBVIOUS
  <1>1. q \in Runners /\ run[q].pc = "write" /\ BookingOf(q) = b
    BY DEF Writers, At
  <1>2. PICK w \in Verifications : On(q, Invoice(b, w))
    BY <1>1, InvoiceRun DEF InvoicePCs, JobOf, On
  <1>3. w = v
    BY <1>1, <1>2, NoRunBeforeAdd, VerifiedJobs DEF Lone, InvoiceState
  <1>4. q = r
    BY <1>1, <1>2, <1>3 DEF SingleRun, Lone
  <1>. QED
    BY <1>1, <1>4 DEF At

\* Every step of a processor that does not end its run preserves LoneSound.
LEMMA LoneProcess ==
  ASSUME NEW b \in Bookings, NEW v \in Verifications, NEW r \in Runners,
         DeliveryInv, [Next]_vars, LoneSound(b, v), SingleRun(Invoice(b, v)),
         \/ FindUser(r) \/ FindBooking(r) \/ SendMail(r)
         \/ Load(r) \/ OpenFile(r) \/ WriteFile(r) \/ SaveUrl(r)
         \/ Aggregate(r) \/ CacheReport(r)
  PROVE  LoneSound(b, v)'
  <1>1. /\ <<run[r].pc, run'[r].pc>> \in ProcessorMoves /\ run'[r].job = run[r].job
        /\ \A q \in Runners \ {r} : run'[q] = run[q]
        /\ UNCHANGED job
    BY ProcessorSteps
  <1>2. Invoice(b, v) \in Jobs /\ Invoice(b, v) \in BookingJobs \ EmailJobs
    BY VerifiedJobs
  <1>3. Lone(b, v)' => Lone(b, v)
    BY LoneRemains
  <1>4. InvoiceState(b, v)' = InvoiceState(b, v)
    BY <1>1 DEF InvoiceState
  <1>5. CASE ~ On(r, Invoice(b, v))
    <2>1. \A q \in Runners : On(q, Invoice(b, v))' =>
            On(q, Invoice(b, v)) /\ run'[q].pc = run[q].pc
      BY <1>1, <1>5 DEF On, ProcessorMoves
    <2>2. CASE ticket'[b] = ticket[b]
      BY <1>3, <1>4, <2>1, <2>2, LoneFrame
    <2>3. CASE ticket'[b] # ticket[b]
      <3>1. OpenFile(r) \/ WriteFile(r) \/ SaveUrl(r)
        BY <2>3 DEF FindUser, FindBooking, SendMail, Load, Aggregate, CacheReport, outputVars
      <3>2. PICK w \in Verifications : run[r].job = Invoice(BookingOf(r), w) /\ w = JobOf(r)[3]
        BY <3>1, InvoiceRun DEF OpenFile, WriteFile, SaveUrl, At, InvoicePCs, JobOf
      <3>3. BookingOf(r) = b /\ ticket'[b].url \subseteq ticket[b].url \cup {w}
        BY <2>3, <3>1, <3>2, OpenFileTears, WriteFileMends, SaveUrlSaves
      <3>4. w # v
        BY <1>1, <1>5, <3>2, <3>3 DEF On, ProcessorMoves
      <3>5. InvoiceState(b, w) # "none"
        BY <1>1, <3>2, <3>3, RunFacts DEF RunSound, ProcessorMoves, InvoiceState
      <3>. QED
        BY <1>3, <1>4, <3>3, <3>4, <3>5 DEF LoneSound, Lone
    <2>. QED
      BY <2>2, <2>3
  <1>6. CASE On(r, Invoice(b, v))
    <2>1. /\ BookingOf(r) = b /\ JobOf(r)[3] = v /\ InvoiceState(b, v) # "none"
          /\ run[r].pc \notin EmailPCs \cup DailyPCs
      <3>1. Invoice(b, v)[2] = b /\ Invoice(b, v)[3] = v
        BY DEF Invoice
      <3>2. Invoice(b, v) \notin DailyJobs
        BY <1>2, DailyJobQueue
      <3>. QED
        BY <1>2, <1>6, <3>1, <3>2, RunFacts DEF On, RunSound, BookingOf, JobOf, InvoiceState
    <2>2. SUFFICES ASSUME Lone(b, v)
                   PROVE  LoneSound(b, v)'
      <3>1. CASE Lone(b, v)
        BY <2>2, <3>1
      <3>2. CASE ~ Lone(b, v)
        BY <1>3, <1>4, <2>1, <3>2 DEF LoneSound
      <3>. QED
        BY <3>1, <3>2
    <2>3. /\ InvoiceState(b, v) = "active"
          /\ \A q \in Runners : On(q, Invoice(b, v)) => q = r
      BY <1>6, <2>2 DEF SingleRun, Lone, InvoiceState
    <2>4. \A q \in Runners : On(q, Invoice(b, v))' => q = r
      BY <1>1, <2>3 DEF On
    <2>5. v \notin ticket[b].url
      BY <1>1, <1>6, <2>2 DEF LoneSound, At, ProcessorMoves
    <2>6. CASE Load(r)
      <3>1. run'[r].pc = "open" /\ ticket' = ticket
        BY <1>1, <2>6 DEF Load, At, ProcessorMoves, outputVars
      <3>. QED
        BY <1>4, <2>1, <2>4, <2>5, <3>1 DEF LoneSound, At
    <2>7. CASE OpenFile(r)
      <3>1. run'[r].pc = "write" /\ ticket'[b].url = ticket[b].url
        BY <1>1, <2>1, <2>7, OpenFileTears DEF OpenFile, At, ProcessorMoves
      <3>2. Writers(b) = {}
        BY <1>6, <2>2, <2>7, LoneWriter DEF OpenFile
      <3>3. ~ ticket'[b].shared
        BY <2>1, <2>7, <3>2, OpenFileTears
      <3>. QED
        BY <1>4, <2>1, <2>4, <2>5, <3>1, <3>3 DEF LoneSound, At
    <2>8. CASE WriteFile(r)
      <3>1. ~ ticket[b].shared
        BY <1>6, <2>2, <2>8 DEF LoneSound, WriteFile, At
      <3>2. run'[r].pc = "saveUrl" /\ ticket'[b].file = "whole" /\ ticket'[b].url = ticket[b].url
        BY <1>1, <2>1, <2>8, <3>1, WriteFileMends DEF WriteFile, At, ProcessorMoves
      <3>. QED
        BY <1>4, <2>1, <2>4, <2>5, <3>2 DEF LoneSound, At
    <2>9. CASE SaveUrl(r)
      <3>1. ticket[b].file = "whole"
        BY <1>6, <2>2, <2>9 DEF LoneSound, SaveUrl, At
      <3>2. run'[r].pc = "finish" /\ ticket'[b].file = "whole"
        BY <1>1, <2>1, <2>9, <3>1, SaveUrlSaves DEF SaveUrl, At, ProcessorMoves
      <3>. QED
        BY <1>4, <2>1, <2>3, <2>4, <3>2 DEF LoneSound, At
    <2>. QED
      BY <2>1, <2>6, <2>7, <2>8, <2>9
      DEF FindUser, FindBooking, SendMail, Aggregate, CacheReport, At, EmailPCs, DailyPCs
  <1>. QED
    BY <1>5, <1>6

\* Bytes that land in a file somebody else has written are not those of a job that is alone.
LEMMA LoneWriteSome ==
  ASSUME NEW b \in Bookings, NEW v \in Verifications, NEW r \in Runners,
         DeliveryInv, [Next]_vars, LoneSound(b, v), SingleRun(Invoice(b, v)), WriteSome(r)
  PROVE  LoneSound(b, v)'
  <1>1. /\ Lone(b, v)' => Lone(b, v)
        /\ UNCHANGED <<job, run>> /\ run[r].pc = "write"
        /\ InvoiceState(b, v)' = InvoiceState(b, v)
    BY LoneRemains, WriteSomeTears DEF WriteSome, At, InvoiceState
  <1>2. CASE BookingOf(r) # b
    <2>1. ticket'[b] = ticket[b]
      BY <1>2, WriteSomeTears
    <2>. QED
      BY <1>1, <2>1, LoneFrame DEF On
  <1>3. CASE BookingOf(r) = b
    <2>1. PICK w \in Verifications : On(r, Invoice(b, w))
      BY <1>1, <1>3, InvoiceRun DEF InvoicePCs, JobOf, On
    <2>2. ticket'[b].url = ticket[b].url /\ ticket'[b].shared = ticket[b].shared
      BY <1>3, WriteSomeTears
    <2>3. CASE ~ Lone(b, v)
      BY <1>1, <2>2, <2>3 DEF LoneSound
    <2>4. CASE Lone(b, v)
      <3>1. w = v
        BY <2>1, <2>4, NoRunBeforeAdd, VerifiedJobs DEF Lone, InvoiceState
      <3>2. \A q \in Runners : On(q, Invoice(b, v)) => q = r
        BY <2>1, <2>4, <3>1 DEF SingleRun, Lone
      <3>3. v \notin ticket[b].url
        BY <1>1, <2>1, <2>4, <3>1 DEF LoneSound, At
      <3>4. \A q \in Runners : On(q, Invoice(b, v))' => q = r /\ On(q, Invoice(b, v))
        BY <1>1, <3>2 DEF On
      <3>. QED
        BY <1>1, <2>2, <2>4, <3>3, <3>4 DEF LoneSound, At
    <2>. QED
      BY <2>3, <2>4
  <1>. QED
    BY <1>2, <1>3

\* Saving the url of a booking without an answer leaves no job of it alone.
LEMMA LoneUnanswered ==
  ASSUME NEW b \in Bookings, NEW v \in Verifications, NEW r \in Runners,
         DeliveryInv, [Next]_vars, LoneSound(b, v), SaveUrlUnanswered(r), BookingOf(r) = b
  PROVE  LoneSound(b, v)'
  <1>1. run[r].pc = "saveUrl"
    BY DEF SaveUrlUnanswered, At
  <1>2. /\ ticket'[b].url = ticket[b].url \cup {JobOf(r)[3]}
        /\ ticket'[b].unanswered
    BY SaveUrlSaves
  <1>3. PICK w \in Verifications : w = JobOf(r)[3] /\ On(r, Invoice(b, w))
    BY <1>1, InvoiceRun DEF InvoicePCs, JobOf, On
  <1>4. InvoiceState(b, w) # "none"
    BY <1>3, NoRunBeforeAdd, VerifiedJobs DEF InvoiceState
  <1>5. v \in ticket'[b].url => InvoiceState(b, v)' # "none"
    BY <1>2, <1>3, <1>4, LoneRemains DEF LoneSound
  <1>6. ~ Lone(b, v)'
    BY <1>2 DEF Lone
  <1>. QED
    BY <1>5, <1>6 DEF LoneSound

\* Every step preserves LoneSound.
LEMMA LoneNext ==
  ASSUME NEW b \in Bookings, NEW v \in Verifications, DeliveryInv, [Next]_vars,
         SingleRun(Invoice(b, v)), LoneSound(b, v)
  PROVE  LoneSound(b, v)'
  <1>1. TypeOK /\ Invoice(b, v) \in Jobs /\ Invoice(b, v) \in BookingJobs \ EmailJobs
    BY VerifiedJobs DEF DeliveryInv
  <1>2. /\ Lone(b, v)' => Lone(b, v)
        /\ InvoiceState(b, v)' = "none" => InvoiceState(b, v) = "none"
    BY LoneRemains
  <1>3. CASE Quiet
    BY <1>2, <1>3, LoneFrame DEF Quiet, InvoiceState, On
  <1>4. ASSUME NEW i \in Jobs, Adds(i)
        PROVE  LoneSound(b, v)'
    <2>1. InvoiceState(b, v) # "none" => InvoiceState(b, v)' = InvoiceState(b, v)
      BY <1>1, <1>4 DEF Adds, Unqueued, InvoiceState
    <2>2. UNCHANGED <<run, ticket>>
      BY <1>4 DEF Adds
    <2>. QED
      BY <1>2, <2>1, <2>2, LoneFrame DEF On
  <1>5. ASSUME NEW u \in Users, DropAddress(u)
        PROVE  LoneSound(b, v)'
    <2>1. InvoiceState(b, v)' = InvoiceState(b, v)
      BY <1>1, <1>5, AddressDropped DEF InvoiceState
    <2>2. UNCHANGED <<run, ticket>>
      BY <1>5 DEF DropAddress, outputVars
    <2>. QED
      BY <1>2, <2>1, <2>2, LoneFrame DEF On
  <1>6. ASSUME NEW i \in Jobs, Retry(i)
        PROVE  LoneSound(b, v)'
    <2>1. InvoiceState(b, v) \in {"active", "completed"} => InvoiceState(b, v)' = InvoiceState(b, v)
      BY <1>1, <1>6, StateWritten DEF Retry, JobStates, InvoiceState
    <2>2. UNCHANGED <<run, ticket>>
      BY <1>6 DEF Retry, outputVars
    <2>. QED
      BY <1>2, <2>1, <2>2, LoneFrame DEF On
  <1>7. ASSUME NEW i \in Jobs, Stalled(i)
        PROVE  LoneSound(b, v)'
    <2>1. /\ job[i].state = "active" /\ job'[i].stalls = job[i].stalls + 1
          /\ \A k \in Jobs \ {i} : job'[k] = job[k]
      BY <1>1, <1>7, StallCounts DEF Stalled, DeliveryInv, JobSound, Pending
    <2>2. job[i].stalls \in Nat
      BY <1>1 DEF TypeOK, JobDocs
    <2>3. UNCHANGED <<run, ticket>>
      BY <1>7 DEF Stalled, outputVars
    <2>4. CASE i = Invoice(b, v)
      <3>1. ~ Lone(b, v)'
        BY <2>1, <2>2, <2>4 DEF Lone
      <3>. QED
        BY <1>2, <2>3, <3>1 DEF LoneSound
    <2>5. CASE i # Invoice(b, v)
      BY <1>1, <1>2, <2>1, <2>3, <2>5, LoneFrame DEF On, InvoiceState
    <2>. QED
      BY <2>4, <2>5
  <1>8. ASSUME NEW i \in Jobs, NEW r \in Runners, Take(r, i)
        PROVE  LoneSound(b, v)'
    <2>1. /\ job[i].state = "waiting" /\ run'[r].job = i /\ run'[r].pc = FirstCall(i)
          /\ \A q \in Runners \ {r} : run'[q] = run[q]
          /\ \A k \in Jobs \ {i} : job'[k] = job[k]
      BY <1>1, <1>8, TakeStarts
    <2>2. UNCHANGED ticket
      BY <1>8 DEF Take, outputVars
    <2>3. i = Invoice(b, v) => FirstCall(i) = "load"
      BY <1>1, InvoiceJobQueue DEF FirstCall
    <2>4. InvoiceState(b, v) \in {"active", "completed"} => InvoiceState(b, v)' = InvoiceState(b, v)
      BY <1>1, <2>1 DEF InvoiceState
    <2>5. \A q \in Runners : On(q, Invoice(b, v))' =>
            \/ On(q, Invoice(b, v)) /\ run'[q].pc = run[q].pc
            \/ run'[q].pc = "load" /\ InvoiceState(b, v) = "waiting"
      BY <2>1, <2>3 DEF On, InvoiceState
    <2>. QED
      BY <1>2, <2>2, <2>4, <2>5, LoneFrame
  <1>9. ASSUME NEW r \in Runners, Complete(r) \/ RunFails(r) \/ Unanswered(r),
               ~ (SaveUrlUnanswered(r) /\ BookingOf(r) = b)
        PROVE  LoneSound(b, v)'
    <2>1. /\ run'[r] = Resting /\ \A q \in Runners \ {r} : run'[q] = run[q]
          /\ ~ (run[r].owns /\ run[r].job = Invoice(b, v)) => InvoiceState(b, v)' = InvoiceState(b, v)
          /\ run[r].owns => run[r].pc # "idle"
      <3>1. CASE Complete(r)
        BY <1>1, <3>1, CompleteEnds, RunFacts DEF InvoiceState
      <3>2. CASE RunFails(r) \/ Unanswered(r)
        BY <1>1, <3>2, ThrowEnds, FailingThrows, RunFacts DEF InvoiceState
      <3>. QED
        BY <1>9, <3>1, <3>2
    <2>2. ticket'[b] = ticket[b]
      BY <1>9, SaveUrlSaves
      DEF Complete, RunFails, Unanswered, SendUnanswered, CacheReportUnanswered, outputVars
    <2>3. ASSUME run[r].owns, run[r].job = Invoice(b, v), v \in ticket[b].url, Lone(b, v)'
          PROVE  InvoiceState(b, v)' \in {"active", "completed"}
      <3>1. At(r, "finish")
        BY <1>2, <2>1, <2>3 DEF LoneSound, On
      <3>2. Complete(r)
        BY <1>9, <3>1, FailingThrows DEF At
      <3>. QED
        BY <2>3, <3>2, CompleteEnds DEF InvoiceState
    <2>4. \A q \in Runners : On(q, Invoice(b, v))' =>
            On(q, Invoice(b, v)) /\ run'[q].pc = run[q].pc
      BY <2>1 DEF On, Resting
    <2>. QED
      BY <1>2, <2>1, <2>2, <2>3, <2>4, LoneFrame
  <1>10. ASSUME NEW r \in Runners, LoseLock(r)
         PROVE  LoneSound(b, v)'
    <2>1. \A q \in Runners : run'[q].pc = run[q].pc /\ run'[q].job = run[q].job
      BY <1>1, <1>10, LoseLockLeaves
    <2>2. UNCHANGED <<job, ticket>>
      BY <1>10 DEF LoseLock, outputVars
    <2>. QED
      BY <1>2, <2>1, <2>2, LoneFrame DEF On, InvoiceState
  <1>11. CASE Crash
    BY <1>2, <1>11, LoneFrame DEF Crash, On, Resting, InvoiceState, outputVars
  <1>12. ASSUME NEW r \in Runners,
                Process(r) \/ WriteSome(r) \/ RunFails(r) \/ Unanswered(r) \/ LoseLock(r)
         PROVE  LoneSound(b, v)'
    BY <1>9, <1>10, <1>12, LoneProcess, LoneWriteSome, LoneUnanswered DEF Process, Unanswered
  <1>. QED
    BY <1>3, <1>4, <1>5, <1>6, <1>7, <1>8, <1>11, <1>12, QueueSteps

\* A ticketUrl names a whole file, unless the job that saved it was run again, because it
\* stalled or the save was not answered, or a second verification has its invoice written
\* to the same file.
THEOREM TornIsExplained == Spec => []TornTicketIsExplained
  <1>1. Init => TornInv
    <2>. SUFFICES ASSUME Init, NEW b \in Bookings, NEW v \in Verifications
                  PROVE  SingleRun(Invoice(b, v)) /\ LoneSound(b, v)
      BY DEF TornInv
    <2>. QED
      BY DEF Init, SingleRun, LoneSound, On, Resting, NoTicket
  <1>2. DeliveryInv /\ TornInv /\ [Next]_vars => TornInv'
    BY SingleRunNext, LoneNext, VerifiedJobs DEF TornInv
  <1>3. DeliveryInv /\ TornInv => TornTicketIsExplained
    <2>. SUFFICES ASSUME DeliveryInv, TornInv, NEW b \in Bookings,
                         ticket[b].url # {}, ticket[b].file # "whole", ~ ticket[b].unanswered,
                         \A v \in Verifications : ~ (job[Invoice(b, v)].stalls > 0),
                         NEW w \in Verifications, InvoiceState(b, w) = "none"
                  PROVE  FALSE
      BY DEF TornTicketIsExplained
    <2>1. PICK v \in Verifications : v \in ticket[b].url
      BY DEF DeliveryInv, TypeOK, Tickets
    <2>2. LoneSound(b, v) /\ LoneSound(b, w)
      BY DEF TornInv
    <2>3. job[Invoice(b, v)].stalls = 0
      <3>1. job[Invoice(b, v)] \in JobDocs
        BY VerifiedJobs DEF DeliveryInv, TypeOK
      <3>. QED
        BY <3>1 DEF JobDocs
    <2>4. v # w
      BY <2>1, <2>2 DEF LoneSound
    <2>5. \A x \in Verifications \ {v} : x = w
      BY <2>4 DEF Verifications
    <2>6. Lone(b, v)
      BY <2>3, <2>5 DEF Lone
    <2>. QED
      BY <2>1, <2>2, <2>6 DEF LoneSound
  <1>. QED
    BY <1>1, <1>2, <1>3, DeliveryInvHolds, PTL DEF Spec

-----------------------------------------------------------------------------
(* The completed jobs of a booking leave a whole file *)

\* The job runs from its beginning again, or has failed.
Reopens(b, v) ==
  \/ InvoiceState(b, v) \in {"waiting", "delayed", "failed"}
  \/ /\ InvoiceState(b, v) = "active"
     /\ \A r \in Runners : On(r, Invoice(b, v)) => run[r].pc \in {"load", "open"}

\* A stream on the file is open.
Writing(b) ==
  \E r \in Runners, v \in Verifications : On(r, Invoice(b, v)) /\ At(r, "write")

\* A file that one stream writes at a time is torn only while somebody will write it; it
\* exists once a job has opened it, and is shared only by both verifications; a job that is
\* completed has saved the url.
FileSound(b) ==
  /\ ticket[b].file = "torn" =>
       ticket[b].shared \/ Writing(b) \/ \E v \in Verifications : Reopens(b, v)
  /\ \A v \in Verifications :
       /\ ticket[b].shared => InvoiceState(b, v) # "none"
       /\ ticket[b].file = "none" => InvoiceState(b, v) # "completed"
       /\ InvoiceState(b, v) = "completed" => v \in ticket[b].url
       /\ \A r \in Runners : On(r, Invoice(b, v)) =>
            /\ ticket[b].file = "none" => run[r].pc \in {"load", "open"}
            /\ At(r, "finish") => v \in ticket[b].url

\* Every run holds the lock of its job.
RunsOwn == \A r \in Runners : run[r].pc # "idle" => run[r].owns

WholeInv == "holdup" \notin ops => RunsOwn /\ \A b \in Bookings : FileSound(b)

\* Where every run holds its lock, a job that is run is active and run once.
LEMMA OwnedRun ==
  ASSUME NEW r \in Runners, NEW j, DeliveryInv, RunsOwn, On(r, j)
  PROVE  /\ run[r].owns /\ job[j].state = "active"
         /\ \A q \in Runners : On(q, j) => q = r
  BY RunFacts DEF RunsOwn, On, RunSound, DeliveryInv, LocksSound

\* Without hold-ups every run holds its lock.
LEMMA RunsOwnNext ==
  ASSUME DeliveryInv, [Next]_vars, "holdup" \notin ops, RunsOwn
  PROVE  RunsOwn'
  <1>1. TypeOK
    BY DEF DeliveryInv
  <1>2. CASE Quiet
    BY <1>2 DEF Quiet, RunsOwn
  <1>3. CASE \E j \in Jobs : Adds(j) \/ Retry(j) \/ Stalled(j)
    BY <1>3 DEF Adds, Retry, Stalled, RunsOwn
  <1>4. CASE \E u \in Users : DropAddress(u)
    BY <1>4 DEF DropAddress, RunsOwn
  <1>5. CASE \E r \in Runners, j \in Jobs : Take(r, j)
    BY <1>1, <1>5, TakeStarts DEF RunsOwn
  <1>6. CASE \E r \in Runners : \/ FindUser(r) \/ FindBooking(r) \/ SendMail(r)
                                \/ Load(r) \/ OpenFile(r) \/ WriteFile(r) \/ SaveUrl(r)
                                \/ Aggregate(r) \/ CacheReport(r)
    BY <1>6, ProcessorSteps DEF RunsOwn, ProcessorMoves
  <1>7. CASE \E r \in Runners : Complete(r)
    BY <1>7, CompleteEnds DEF RunsOwn, Resting
  <1>8. CASE \E r \in Runners : RunFails(r) \/ Unanswered(r)
    BY <1>8, ThrowEnds, FailingThrows DEF RunsOwn, Resting
  <1>9. CASE \E r \in Runners : LoseLock(r)
    BY <1>9 DEF LoseLock, Fault
  <1>10. CASE Crash
    BY <1>10 DEF Crash, RunsOwn, Resting
  <1>11. CASE \E r \in Runners : WriteSome(r)
    BY <1>11 DEF WriteSome, jobVars, RunsOwn
  <1>. QED
    BY <1>2, <1>3, <1>4, <1>5, <1>6, <1>7, <1>8, <1>9, <1>10, <1>11, QueueSteps DEF Process

\* A step that leaves the file alone and keeps the urls: a job completes only from the end
\* of its run, what would write the file again still will, and a run is new only at its
\* beginning.
LEMMA FileFrame ==
  ASSUME NEW b \in Bookings, FileSound(b),
         ticket'[b].file = ticket[b].file, ticket'[b].shared = ticket[b].shared,
         ticket[b].url \subseteq ticket'[b].url,
         Writing(b) => Writing(b)' \/ \E v \in Verifications : Reopens(b, v)',
         \A v \in Verifications :
           /\ Reopens(b, v) => \E w \in Verifications : Reopens(b, w)'
           /\ InvoiceState(b, v)' = "none" => InvoiceState(b, v) = "none"
           /\ InvoiceState(b, v)' = "completed" =>
                \/ InvoiceState(b, v) = "completed"
                \/ \E r \in Runners : On(r, Invoice(b, v)) /\ At(r, "finish")
           /\ \A r \in Runners : On(r, Invoice(b, v))' =>
                \/ On(r, Invoice(b, v)) /\ run'[r].pc = run[r].pc
                \/ run'[r].pc = "load"
  PROVE  FileSound(b)'
  <1>1. ticket'[b].file = "torn" =>
          ticket'[b].shared \/ (Writing(b) \/ \E v \in Verifications : Reopens(b, v))'
    BY DEF FileSound
  <1>2. ASSUME NEW v \in Verifications
        PROVE  /\ ticket'[b].shared => InvoiceState(b, v)' # "none"
               /\ ticket'[b].file = "none" => InvoiceState(b, v)' # "completed"
               /\ InvoiceState(b, v)' = "completed" => v \in ticket'[b].url
    BY <1>2 DEF FileSound, At
  <1>3. ASSUME NEW v \in Verifications, NEW r \in Runners, On(r, Invoice(b, v))'
        PROVE  /\ ticket'[b].file = "none" => run'[r].pc \in {"load", "open"}
               /\ At(r, "finish")' => v \in ticket'[b].url
    BY <1>3 DEF FileSound, At
  <1>. QED
    BY <1>1, <1>2, <1>3 DEF FileSound

\* A step that leaves the file and every run alone.
LEMMA FileQuiet ==
  ASSUME NEW b \in Bookings, FileSound(b), UNCHANGED <<ticket, run>>,
         \A v \in Verifications :
           \/ InvoiceState(b, v)' = InvoiceState(b, v)
           \/ InvoiceState(b, v)' \in {"waiting", "failed"}
  PROVE  FileSound(b)'
  <1>1. \A r \in Runners, v \in Verifications :
          /\ On(r, Invoice(b, v))' <=> On(r, Invoice(b, v))
          /\ At(r, "write")' <=> At(r, "write")
          /\ run'[r].pc = run[r].pc
    BY DEF On, At
  <1>2. Writing(b) => Writing(b)'
    BY <1>1 DEF Writing
  <1>3. \A v \in Verifications : Reopens(b, v) => Reopens(b, v)'
    BY <1>1 DEF Reopens
  <1>. QED
    BY <1>1, <1>2, <1>3, FileFrame

\* Every step of a processor that does not end its run preserves FileSound.
LEMMA FileProcess ==
  ASSUME NEW b \in Bookings, NEW r \in Runners, DeliveryInv, RunsOwn, FileSound(b),
         \/ FindUser(r) \/ FindBooking(r) \/ SendMail(r)
         \/ Load(r) \/ OpenFile(r) \/ WriteFile(r) \/ SaveUrl(r)
         \/ Aggregate(r) \/ CacheReport(r)
  PROVE  FileSound(b)'
  <1>1. /\ <<run[r].pc, run'[r].pc>> \in ProcessorMoves /\ run'[r].job = run[r].job
        /\ \A q \in Runners \ {r} : run'[q] = run[q]
        /\ UNCHANGED job
    BY ProcessorSteps
  <1>2. \A v \in Verifications :
          /\ Invoice(b, v) \in BookingJobs \ EmailJobs /\ Invoice(b, v) \notin DailyJobs
          /\ Invoice(b, v)[2] = b /\ Invoice(b, v)[3] = v
          /\ InvoiceState(b, v)' = InvoiceState(b, v)
    BY <1>1, VerifiedJobs, DailyJobQueue DEF Invoice, InvoiceState
  <1>3. \A q \in Runners, v \in Verifications :
          /\ On(q, Invoice(b, v))' <=> On(q, Invoice(b, v))
          /\ q # r => run'[q] = run[q]
    BY <1>1 DEF On, ProcessorMoves
  <1>4. CASE \A v \in Verifications : ~ On(r, Invoice(b, v))
    <2>1. ticket'[b] = ticket[b]
      <3>1. CASE OpenFile(r) \/ WriteFile(r) \/ SaveUrl(r)
        <4>1. /\ BookingOf(r) \in Bookings /\ JobOf(r)[3] \in Verifications
              /\ run[r].job = Invoice(BookingOf(r), JobOf(r)[3])
          BY <3>1, InvoiceRun DEF OpenFile, WriteFile, SaveUrl, At, InvoicePCs, JobOf
        <4>2. BookingOf(r) # b
          BY <1>1, <1>4, <4>1 DEF On, ProcessorMoves
        <4>. QED
          BY <3>1, <4>2, OpenFileTears, WriteFileMends, SaveUrlSaves
      <3>2. CASE ~ (OpenFile(r) \/ WriteFile(r) \/ SaveUrl(r))
        BY <3>2 DEF FindUser, FindBooking, SendMail, Load, Aggregate, CacheReport, outputVars
      <3>. QED
        BY <3>1, <3>2
    <2>2. Writing(b) => Writing(b)'
      BY <1>3, <1>4, <2>1 DEF Writing, At
    <2>3. \A v \in Verifications : Reopens(b, v) => Reopens(b, v)'
      BY <1>2, <1>3, <1>4 DEF Reopens
    <2>4. \A v \in Verifications, q \in Runners : On(q, Invoice(b, v))' =>
            On(q, Invoice(b, v)) /\ run'[q].pc = run[q].pc
      BY <1>3, <1>4
    <2>. QED
      BY <1>2, <2>1, <2>2, <2>3, <2>4, FileFrame
  <1>5. ASSUME NEW v \in Verifications, On(r, Invoice(b, v))
        PROVE  FileSound(b)'
    <2>1. /\ BookingOf(r) = b /\ JobOf(r)[3] = v /\ InvoiceState(b, v) = "active"
          /\ run[r].pc \notin EmailPCs \cup DailyPCs
          /\ \A w \in Verifications : On(r, Invoice(b, w)) <=> w = v
      BY <1>2, <1>5, RunFacts, OwnedRun DEF On, RunSound, BookingOf, JobOf, InvoiceState
    <2>2. \A q \in Runners, w \in Verifications : On(q, Invoice(b, w)) =>
            (w = v <=> q = r)
      BY <1>5, <2>1, OwnedRun
    <2>3. \A w \in Verifications \ {v} : Reopens(b, w) => Reopens(b, w)'
      BY <1>2, <1>3, <2>2 DEF Reopens
    <2>4. CASE Load(r)
      <3>1. run[r].pc = "load" /\ run'[r].pc = "open" /\ ticket' = ticket
        BY <1>1, <2>4 DEF Load, At, ProcessorMoves, outputVars
      <3>2. Reopens(b, v)'
        BY <1>2, <1>3, <2>1, <2>2, <3>1 DEF Reopens
      <3>. QED
        BY <1>2, <1>3, <2>1, <2>2, <3>1, <3>2 DEF FileSound, At
    <2>5. CASE OpenFile(r)
      <3>1. /\ run[r].pc = "open" /\ run'[r].pc = "write"
            /\ ticket'[b].file = "torn" /\ ticket'[b].url = ticket[b].url
            /\ ticket'[b].shared => Writers(b) # {}
        BY <1>1, <2>1, <2>5, OpenFileTears DEF OpenFile, At, ProcessorMoves
      <3>2. Writing(b)'
        BY <1>3, <1>5, <3>1 DEF Writing, At
      <3>3. ASSUME Writers(b) # {}, NEW w \in Verifications
            PROVE  InvoiceState(b, w)' # "none"
        <4>1. PICK q \in Writers(b), x \in Verifications : q # r /\ On(q, Invoice(b, x))
          BY <3>1, <3>3, InvoiceRun DEF Writers, At, InvoicePCs, JobOf, On
        <4>2. x # v /\ InvoiceState(b, x) = "active"
          BY <2>2, <4>1, OwnedRun DEF Writers, InvoiceState
        <4>3. w = v \/ w = x
          BY <4>2 DEF Verifications
        <4>. QED
          BY <1>2, <2>1, <4>2, <4>3
      <3>. QED
        BY <1>2, <1>3, <2>1, <2>2, <3>1, <3>2, <3>3 DEF FileSound, At
    <2>6. CASE WriteFile(r)
      <3>1. /\ run[r].pc = "write" /\ run'[r].pc = "saveUrl" /\ ticket'[b].url = ticket[b].url
            /\ ticket'[b].shared = ticket[b].shared
            /\ ~ ticket[b].shared => ticket'[b].file = "whole"
            /\ ticket'[b].file \in {"torn", "whole"}
        BY <1>1, <2>1, <2>6, WriteFileMends DEF WriteFile, At, ProcessorMoves
      <3>2. ticket[b].file # "none"
        BY <1>5, <3>1 DEF FileSound
      <3>3. ~ Reopens(b, v)
        BY <1>5, <2>1, <3>1 DEF Reopens
      <3>. QED
        BY <1>2, <1>3, <2>1, <2>2, <2>3, <3>1, <3>2, <3>3 DEF FileSound, At
    <2>7. CASE SaveUrl(r)
      <3>1. /\ run[r].pc = "saveUrl" /\ run'[r].pc = "finish"
            /\ ticket'[b].url = ticket[b].url \cup {v}
            /\ ticket'[b].file = ticket[b].file /\ ticket'[b].shared = ticket[b].shared
        BY <1>1, <2>1, <2>7, SaveUrlSaves DEF SaveUrl, At, ProcessorMoves
      <3>2. ticket[b].file # "none"
        BY <1>5, <3>1 DEF FileSound
      <3>3. ~ Reopens(b, v)
        BY <1>5, <2>1, <3>1 DEF Reopens
      <3>4. Writing(b) => Writing(b)'
        BY <1>3, <3>1 DEF Writing, At
      <3>. QED
        BY <1>2, <1>3, <2>1, <2>2, <2>3, <3>1, <3>2, <3>3, <3>4 DEF FileSound, At
    <2>. QED
      BY <2>1, <2>4, <2>5, <2>6, <2>7
      DEF FindUser, FindBooking, SendMail, Aggregate, CacheReport, At, EmailPCs, DailyPCs
  <1>. QED
    BY <1>4, <1>5

\* Bytes that land in a file somebody else has written are those of an open stream.
LEMMA FileWriteSome ==
  ASSUME NEW b \in Bookings, NEW r \in Runners, DeliveryInv, FileSound(b), WriteSome(r)
  PROVE  FileSound(b)'
  <1>1. /\ UNCHANGED <<job, run>> /\ run[r].pc = "write"
        /\ ticket'[b].url = ticket[b].url /\ ticket'[b].shared = ticket[b].shared
        /\ BookingOf(r) = b => ticket'[b].file = "torn"
        /\ BookingOf(r) # b => ticket'[b].file = ticket[b].file
    BY WriteSomeTears DEF WriteSome, At
  <1>2. \A v \in Verifications :
          /\ InvoiceState(b, v)' = InvoiceState(b, v)
          /\ Reopens(b, v) => Reopens(b, v)'
          /\ \A q \in Runners : /\ On(q, Invoice(b, v))' <=> On(q, Invoice(b, v))
                               /\ run'[q].pc = run[q].pc
    BY <1>1 DEF InvoiceState, Reopens, On
  <1>3. Writing(b) => Writing(b)'
    BY <1>1 DEF Writing, On, At
  <1>4. CASE BookingOf(r) # b
    BY <1>1, <1>2, <1>3, <1>4, FileFrame
  <1>5. CASE BookingOf(r) = b
    <2>1. PICK w \in Verifications : On(r, Invoice(b, w))
      BY <1>1, <1>5, InvoiceRun DEF InvoicePCs, JobOf, On
    <2>2. Writing(b)'
      BY <1>1, <1>2, <2>1 DEF Writing, At
    <2>. QED
      BY <1>1, <1>2, <1>5, <2>2 DEF FileSound, At
  <1>. QED
    BY <1>4, <1>5

\* Every end of a run preserves FileSound: a job that failed is run again or has failed.
LEMMA FileEnds ==
  ASSUME NEW b \in Bookings, NEW r \in Runners, DeliveryInv, RunsOwn, FileSound(b),
         Complete(r) \/ RunFails(r) \/ Unanswered(r)
  PROVE  FileSound(b)'
  <1>1. /\ run[r].pc # "idle" /\ run'[r] = Resting
        /\ \A q \in Runners \ {r} : run'[q] = run[q]
        /\ \A i \in Jobs \ {run[r].job} : job'[i] = job[i]
        /\ Complete(r) => run[r].pc = "finish"
        /\ ~ Complete(r) => job'[run[r].job].state \in {"delayed", "failed"}
    <2>1. run[r].pc # "idle"
      BY FailingThrows DEF Complete
    <2>2. run[r].owns
      BY <2>1 DEF RunsOwn
    <2>3. CASE Complete(r)
      BY <2>1, <2>2, <2>3, CompleteEnds
    <2>4. CASE ~ Complete(r)
      BY <2>1, <2>2, <2>4, ThrowEnds, FailingThrows
    <2>. QED
      BY <2>3, <2>4
  <1>2. /\ ticket'[b].file = ticket[b].file /\ ticket'[b].shared = ticket[b].shared
        /\ ticket[b].url \subseteq ticket'[b].url
    <2>1. CASE SaveUrlUnanswered(r)
      BY <2>1, SaveUrlSaves
    <2>2. CASE ~ SaveUrlUnanswered(r)
      BY <2>2 DEF Complete, RunFails, Unanswered, SendUnanswered, CacheReportUnanswered, outputVars
    <2>. QED
      BY <2>1, <2>2
  <1>3. \A q \in Runners, v \in Verifications : On(q, Invoice(b, v))' =>
          q # r /\ On(q, Invoice(b, v)) /\ run'[q] = run[q]
    BY <1>1 DEF On, Resting
  <1>4. \A v \in Verifications : Invoice(b, v) \in Jobs
    BY VerifiedJobs
  <1>5. \A v \in Verifications : ~ On(r, Invoice(b, v)) => InvoiceState(b, v)' = InvoiceState(b, v)
    BY <1>1, <1>4 DEF On, InvoiceState
  <1>6. \A v \in Verifications : On(r, Invoice(b, v)) /\ ~ Complete(r) => Reopens(b, v)'
    BY <1>1 DEF On, Reopens, InvoiceState
  <1>7. \A v \in Verifications : On(r, Invoice(b, v)) /\ Complete(r) => ~ Reopens(b, v)
    BY <1>1, OwnedRun DEF On, Reopens, InvoiceState
  <1>8. \A v \in Verifications : ~ On(r, Invoice(b, v)) /\ Reopens(b, v) => Reopens(b, v)'
    BY <1>3, <1>5 DEF Reopens
  <1>9. Writing(b) => Writing(b)' \/ \E v \in Verifications : Reopens(b, v)'
    <2>. SUFFICES ASSUME NEW q \in Runners, NEW v \in Verifications,
                         On(q, Invoice(b, v)), At(q, "write")
                  PROVE  Writing(b)' \/ \E w \in Verifications : Reopens(b, w)'
      BY DEF Writing
    <2>1. CASE q = r
      BY <1>1, <1>6, <2>1 DEF At
    <2>2. CASE q # r
      BY <1>1, <1>2, <2>2 DEF Writing, On, At
    <2>. QED
      BY <2>1, <2>2
  <1>10. \A v \in Verifications : InvoiceState(b, v)' = "completed" =>
           \/ InvoiceState(b, v) = "completed"
           \/ On(r, Invoice(b, v)) /\ At(r, "finish")
    BY <1>1, <1>5, <1>6 DEF Reopens, At, On, InvoiceState
  <1>11. \A v \in Verifications : Reopens(b, v) => \E w \in Verifications : Reopens(b, w)'
    BY <1>6, <1>7, <1>8
  <1>12. \A v \in Verifications : InvoiceState(b, v)' = "none" => InvoiceState(b, v) = "none"
    BY <1>1, <1>5, <1>6, CompleteEnds, OwnedRun DEF Reopens, On, InvoiceState
  <1>. QED
    BY <1>2, <1>3, <1>9, <1>10, <1>11, <1>12, FileFrame

\* Every step without hold-ups preserves FileSound.
LEMMA FileNext ==
  ASSUME NEW b \in Bookings, DeliveryInv, [Next]_vars, "holdup" \notin ops, RunsOwn, FileSound(b)
  PROVE  FileSound(b)'
  <1>1. TypeOK /\ \A v \in Verifications : Invoice(b, v) \in Jobs
    BY VerifiedJobs DEF DeliveryInv
  <1>2. CASE Quiet
    BY <1>2, FileQuiet DEF Quiet, InvoiceState
  <1>3. ASSUME NEW i \in Jobs, Adds(i)
        PROVE  FileSound(b)'
    <2>1. \A v \in Verifications :
            InvoiceState(b, v)' = InvoiceState(b, v) \/ InvoiceState(b, v)' = "waiting"
      BY <1>1, <1>3 DEF Adds, InvoiceState
    <2>. QED
      BY <1>3, <2>1, FileQuiet DEF Adds
  <1>4. ASSUME NEW u \in Users, DropAddress(u)
        PROVE  FileSound(b)'
    <2>1. \A v \in Verifications : InvoiceState(b, v)' = InvoiceState(b, v)
      BY <1>1, <1>4, AddressDropped DEF InvoiceState
    <2>. QED
      BY <1>4, <2>1, FileQuiet DEF DropAddress, outputVars
  <1>5. ASSUME NEW i \in Jobs, Retry(i) \/ Stalled(i)
        PROVE  FileSound(b)'
    <2>1. /\ job'[i].state \in {"waiting", "failed"}
          /\ \A k \in Jobs \ {i} : job'[k] = job[k]
      <3>1. CASE Retry(i)
        BY <1>1, <3>1, StateWritten DEF Retry, JobStates
      <3>2. CASE Stalled(i)
        BY <1>1, <3>2, StallCounts DEF Stalled, DeliveryInv, JobSound, Pending
      <3>. QED
        BY <1>5, <3>1, <3>2
    <2>2. \A v \in Verifications :
            InvoiceState(b, v)' = InvoiceState(b, v) \/ InvoiceState(b, v)' \in {"waiting", "failed"}
      BY <1>1, <2>1 DEF InvoiceState
    <2>. QED
      BY <1>5, <2>2, FileQuiet DEF Retry, Stalled, outputVars
  <1>6. ASSUME NEW i \in Jobs, NEW r \in Runners, Take(r, i)
        PROVE  FileSound(b)'
    <2>1. /\ job[i].state = "waiting" /\ job'[i].state = "active" /\ run[r].pc = "idle"
          /\ run'[r].job = i /\ run'[r].pc = FirstCall(i)
          /\ \A q \in Runners \ {r} : run'[q] = run[q]
          /\ \A k \in Jobs \ {i} : job'[k] = job[k]
      BY <1>1, <1>6, TakeStarts
    <2>2. UNCHANGED ticket
      BY <1>6 DEF Take, outputVars
    <2>3. \A v \in Verifications : i = Invoice(b, v) => FirstCall(i) = "load"
      BY VerifiedJobs, InvoiceJobQueue DEF FirstCall
    <2>4. \A q \in Runners, v \in Verifications : On(q, Invoice(b, v))' =>
            \/ q # r /\ On(q, Invoice(b, v)) /\ run'[q].pc = run[q].pc
            \/ q = r /\ run'[q].pc = "load"
      BY <2>1, <2>3 DEF On
    <2>5. Writing(b) => Writing(b)'
      BY <2>1, <2>2 DEF Writing, On, At
    <2>6. \A q \in Runners : ~ On(q, i)
      BY <2>1, OwnedRun
    <2>7. \A v \in Verifications : Reopens(b, v) => Reopens(b, v)'
      <3>. SUFFICES ASSUME NEW v \in Verifications, Reopens(b, v)
                    PROVE  Reopens(b, v)'
        OBVIOUS
      <3>1. CASE i = Invoice(b, v)
        BY <2>1, <2>4, <2>6, <3>1 DEF Reopens, InvoiceState
      <3>2. CASE i # Invoice(b, v)
        BY <1>1, <2>1, <2>4, <3>2 DEF Reopens, InvoiceState
      <3>. QED
        BY <3>1, <3>2
    <2>8. \A v \in Verifications :
            /\ InvoiceState(b, v)' = "completed" => InvoiceState(b, v) = "completed"
            /\ InvoiceState(b, v)' = "none" => InvoiceState(b, v) = "none"
      BY <1>1, <2>1 DEF InvoiceState
    <2>. QED
      BY <2>2, <2>4, <2>5, <2>7, <2>8, FileFrame
  <1>7. ASSUME NEW r \in Runners, LoseLock(r)
        PROVE  FileSound(b)'
    BY <1>7 DEF LoseLock, Fault
  <1>8. CASE Crash
    <2>1. /\ \A q \in Runners, v \in Verifications : ~ On(q, Invoice(b, v))'
          /\ UNCHANGED ticket
          /\ \A v \in Verifications : InvoiceState(b, v)' = InvoiceState(b, v)
      BY <1>8 DEF Crash, On, Resting, outputVars, InvoiceState
    <2>2. \A v \in Verifications : Reopens(b, v) => Reopens(b, v)'
      BY <2>1 DEF Reopens
    <2>3. Writing(b) => \E v \in Verifications : Reopens(b, v)'
      BY <2>1, OwnedRun DEF Writing, Reopens, InvoiceState
    <2>. QED
      BY <2>1, <2>2, <2>3, FileFrame
  <1>. QED
    BY <1>2, <1>3, <1>4, <1>5, <1>6, <1>7, <1>8, FileProcess, FileEnds, FileWriteSome, QueueSteps
       DEF Process

\* As long as no processor is held up for longer than its lock, the completed invoice jobs
\* of a booking leave a whole file behind its ticketUrl, unless the streams of two
\* verifications were open on it at once.
THEOREM CompletedLeavesWhole == Spec => []CompletedTicketIsWhole
  <1>1. Init => WholeInv
    <2>. SUFFICES ASSUME Init PROVE WholeInv
      OBVIOUS
    <2>1. \A r \in Runners : run[r].pc = "idle"
      BY DEF Init, Resting
    <2>2. \A b \in Bookings, v \in Verifications : InvoiceState(b, v) = "none"
      BY VerifiedJobs DEF Init, InvoiceState, Unqueued
    <2>3. \A b \in Bookings : ticket[b] = NoTicket
      BY DEF Init
    <2>. QED
      BY <2>1, <2>2, <2>3 DEF WholeInv, RunsOwn, FileSound, On, NoTicket
  <1>2. DeliveryInv /\ WholeInv /\ [Next]_vars => WholeInv'
    <2>. SUFFICES ASSUME DeliveryInv, WholeInv, [Next]_vars, "holdup" \notin ops'
                  PROVE  RunsOwn' /\ \A b \in Bookings : FileSound(b)'
      BY DEF WholeInv
    <2>1. "holdup" \notin ops
      BY QueueSteps
    <2>. QED
      BY <2>1, RunsOwnNext, FileNext DEF WholeInv
  <1>3. DeliveryInv /\ WholeInv => CompletedTicketIsWhole
    <2>. SUFFICES ASSUME DeliveryInv, RunsOwn, NEW b \in Bookings, FileSound(b),
                         \A w \in Verifications : InvoiceState(b, w) \in {"completed", "none"},
                         NEW v \in Verifications, InvoiceState(b, v) = "completed"
                  PROVE  /\ ticket[b].url # {}
                         /\ \/ ticket[b].file = "whole"
                            \/ /\ ticket[b].shared
                               /\ \A w \in Verifications : InvoiceState(b, w) = "completed"
      BY DEF CompletedTicketIsWhole, WholeInv
    <2>1. ~ Writing(b)
      BY OwnedRun DEF Writing, InvoiceState
    <2>2. \A w \in Verifications : ~ Reopens(b, w)
      BY DEF Reopens
    <2>3. ticket[b].file \in {"none", "torn", "whole"}
      BY DEF DeliveryInv, TypeOK, Tickets
    <2>. QED
      BY <2>1, <2>2, <2>3 DEF FileSound
  <1>. QED
    BY <1>1, <1>2, <1>3, DeliveryInvHolds, PTL DEF Spec
=============================================================================
