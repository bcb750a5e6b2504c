------------------------------ MODULE JobQueue ------------------------------
(***************************************************************************)
(* The queues of jobs/queues/*.ts, as BullMQ runs them.  A worker takes a  *)
(* waiting job and holds its lock while its processor runs.  A job whose   *)
(* lock is gone has stalled and waits again, once; the processor that lost *)
(* it may still be running.  A job whose processor throws is tried again   *)
(* after its backoff until its attempts are used up.                       *)
(***************************************************************************)
EXTENDS DeliveryState

\* Mutant: the analytics worker runs two jobs at a time.
ConcurrencyTwo == [email |-> 5, invoice |-> 2, analytics |-> 2]

\* The concurrency option of each worker.
Concurrency == [email |-> 5, invoice |-> 2, analytics |-> 1]

Running(q) == {r \in Runners : run[r].pc # "idle" /\ QueueOf(run[r].job) = q}
Held(j) == \E r \in Runners : run[r].job = j /\ run[r].owns

Pending(j) == job[j].state \in {"waiting", "active", "delayed"}

\* queue.add.
Add(j, due) ==
  job' = [job EXCEPT ![j] = [Unqueued EXCEPT !.state = "waiting", !.due = due]]

\* Jobs of other types only compete for the runners.
AddFollowed(j, due) == IF j[1] \in ops THEN Add(j, due) ELSE UNCHANGED job

FirstCall(j) == CASE QueueOf(j) = "email" -> "findUser"
                  [] QueueOf(j) = "invoice" -> "load"
                  [] OTHER -> "aggregate"

\* Mutant: startInvoiceWorker is not called.
TakeNoInvoice(r, j) ==
  /\ "workers" \in ops
  /\ job[j].state = "waiting" /\ QueueOf(j) # "invoice"
  /\ run[r].pc = "idle"
  /\ Cardinality(Running(QueueOf(j))) < Concurrency[QueueOf(j)]
  /\ job' = [job EXCEPT ![j].state = "active"]
  /\ run' = [run EXCEPT ![r] = [Resting EXCEPT !.job = j, !.pc = FirstCall(j),
                                               !.owns = TRUE]]
  /\ UNCHANGED <<bookingVars, outputVars, address, dayVars, socketVars, budget>>

\* A worker that server.ts started takes the job and its lock.
Take(r, j) ==
  /\ "workers" \in ops
  /\ job[j].state = "waiting"
  /\ run[r].pc = "idle"
  /\ Cardinality(Running(QueueOf(j))) < Concurrency[QueueOf(j)]
  /\ job' = [job EXCEPT ![j].state = "active"]
  /\ run' = [run EXCEPT ![r] = [Resting EXCEPT !.job = j, !.pc = FirstCall(j),
                                               !.owns = TRUE]]
  /\ UNCHANGED <<bookingVars, outputVars, address, dayVars, socketVars, budget>>

End(r) == run' = [run EXCEPT ![r] = Resting]

\* The processor has returned.  A run that lost its job cannot complete it.
Complete(r) ==
  /\ run[r].pc = "finish"
  /\ job' = IF run[r].owns THEN [job EXCEPT ![run[r].job].state = "completed"] ELSE job
  /\ End(r)
  /\ UNCHANGED <<bookingVars, outputVars, address, dayVars, socketVars, budget>>

\* The job of a run that throws, after one more failed attempt.
Failed(j) ==
  LET n == job[j].attempts + 1 IN
  [job[j] EXCEPT !.attempts = n,
                 !.state = IF n < Attempts[QueueOf(j)] THEN "delayed" ELSE "failed"]

Throw(r) ==
  /\ job' = IF run[r].owns THEN [job EXCEPT ![run[r].job] = Failed(run[r].job)] ELSE job
  /\ End(r)

\* Mutant: the processor catches the error.
RunFailsQuietly(r) ==
  /\ Fault("failing")
  /\ run[r].pc \notin {"idle", "finish"}
  /\ run' = [run EXCEPT ![r].pc = "finish"]
  /\ UNCHANGED <<bookingVars, job, outputVars, address, dayVars, socketVars>>

\* A call of a processor rejects without effect.
RunFails(r) ==
  /\ Fault("failing")
  /\ run[r].pc \notin {"idle", "finish"}
  /\ Throw(r)
  /\ UNCHANGED <<bookingVars, outputVars, address, dayVars, socketVars>>

\* The backoff of a job has passed.
Retry(j) ==
  /\ job[j].state = "delayed"
  /\ job' = [job EXCEPT ![j].state = "waiting"]
  /\ UNCHANGED <<bookingVars, run, outputVars, address, dayVars, socketVars, budget>>

\* The lock of a job runs out while its processor is held up and goes on.
LoseLock(r) ==
  /\ Fault("holdup")
  /\ run[r].owns
  /\ run' = [run EXCEPT ![r].owns = FALSE]
  /\ UNCHANGED <<bookingVars, job, outputVars, address, dayVars, socketVars>>

\* Mutant: an active job is taken for a stalled one although its lock is held.
StalledOrSlow(j) ==
  /\ job[j].state = "active"
  /\ job' = [job EXCEPT ![j].stalls = @ + 1,
                        ![j].state = IF job[j].stalls < MaxStalled THEN "waiting" ELSE "failed"]
  /\ UNCHANGED <<bookingVars, run, outputVars, address, dayVars, socketVars, budget>>

\* The check for stalled jobs finds an active one without a lock.
Stalled(j) ==
  /\ job[j].state = "active" /\ ~ Held(j)
  /\ job' = [job EXCEPT ![j].stalls = @ + 1,
                        ![j].state = IF job[j].stalls < MaxStalled THEN "waiting" ELSE "failed"]
  /\ UNCHANGED <<bookingVars, run, outputVars, address, dayVars, socketVars, budget>>
=============================================================================
