------------------------------ MODULE Delivery ------------------------------
(***************************************************************************)
(* What happens after the main writes of bookings and payments: the tails  *)
(* of createBooking, verifyPayment and cancelBooking, which announce and   *)
(* queue; the workers; the sockets; and the failures of all of them.       *)
(***************************************************************************)
EXTENDS Workers, SocketGateway

-----------------------------------------------------------------------------
(* The tails of the requests, in order *)

Tail(b, kind, pc) == request' = [request EXCEPT ![b][kind] = pc]
HasTail(b, kind, pc) == request[b][kind] = pc
OwnerRoom(b) == <<"user", Owner[b]>>

\* The other tails of the booking whose write of the status is not announced yet.
NewsUnderWay(b, kind) == {k \in Tails \ {kind} : request[b][k] \in Unannounced}

SetStatus(b, status, kind) ==
  booking' = [booking EXCEPT ![b] = [status |-> status,
                                     undisturbed |-> NewsUnderWay(b, kind) = {}]]

\* createBooking up to the insert; booking.created has no listener.
CreateBooking(b) ==
  /\ "bookings" \in ops
  /\ booking[b].status = "none"
  /\ booking' = [booking EXCEPT ![b].status = "pending"]
  /\ Tail(b, "create", "addCreated")
  /\ UNCHANGED <<jobVars, outputVars, address, dayVars, socketVars, budget>>

\* emailQueue.add of a job about booking b.
QueueMail(b, j) == AddFollowed(j, Owner[b] \in address /\ Smtp)

AddCreated(b) ==
  /\ HasTail(b, "create", "addCreated")
  /\ QueueMail(b, <<"booking_created", b>>)
  /\ Tail(b, "create", "over")
  /\ UNCHANGED <<booking, run, outputVars, address, dayVars, socketVars, budget>>

\* confirmBooking finds the booking pending.
ConfirmBooking(b, v) ==
  /\ booking[b].status = "pending"
  /\ v = "second" => "twice" \in ops
  /\ HasTail(b, v, "idle")
  /\ Tail(b, v, "setConfirmed")
  /\ UNCHANGED <<booking, jobVars, outputVars, address, dayVars, socketVars, budget>>

SetConfirmed(b, v) ==
  /\ HasTail(b, v, "setConfirmed")
  /\ SetStatus(b, "confirmed", v)
  /\ Tail(b, v, "unlockConfirmed")
  /\ UNCHANGED <<jobVars, outputVars, address, dayVars, socketVars, budget>>

\* unlockSeats answers, and booking.confirmed is emitted.
AnnounceConfirmed(b, v) ==
  /\ HasTail(b, v, "unlockConfirmed")
  /\ Emit(OwnerRoom(b), b, "confirmed")
  /\ Tail(b, v, "addTicket")
  /\ UNCHANGED <<booking, jobVars, outputVars, address, dayVars, notice, budget>>

AddTicket(b, v) ==
  /\ HasTail(b, v, "addTicket")
  /\ QueueMail(b, <<"booking_confirmed", b, v>>)
  /\ Tail(b, v, "addInvoice")
  /\ UNCHANGED <<booking, run, outputVars, address, dayVars, socketVars, budget>>

AddInvoice(b, v) ==
  /\ HasTail(b, v, "addInvoice")
  /\ AddFollowed(Invoice(b, v), TRUE)
  /\ Tail(b, v, "addReceipt")
  /\ UNCHANGED <<booking, run, outputVars, address, dayVars, socketVars, budget>>

AddReceipt(b, v) ==
  /\ HasTail(b, v, "addReceipt")
  /\ QueueMail(b, <<"payment_success", b, v>>)
  /\ Tail(b, v, "over")
  /\ UNCHANGED <<booking, run, outputVars, address, dayVars, socketVars, budget>>

\* cancelBooking, for the owner or an administrator.
CancelBooking(b, u) ==
  /\ "cancel" \in ops
  /\ u = Owner[b] \/ u \in Admins
  /\ booking[b].status \in {"pending", "confirmed"}
  /\ HasTail(b, "cancel", "idle")
  /\ request' = [request EXCEPT ![b].cancel = "setCancelled", ![b].canceller = u]
  /\ UNCHANGED <<booking, jobVars, outputVars, address, dayVars, socketVars, budget>>

SetCancelled(b) ==
  /\ HasTail(b, "cancel", "setCancelled")
  /\ SetStatus(b, "cancelled", "cancel")
  /\ Tail(b, "cancel", "unlockCancelled")
  /\ UNCHANGED <<jobVars, outputVars, address, dayVars, socketVars, budget>>

\* Mutant: the event is not emitted.
AnnounceCancelledToNobody(b) ==
  /\ HasTail(b, "cancel", "unlockCancelled")
  /\ request' = [request EXCEPT ![b].cancel = "idle", ![b].canceller = NoUser]
  /\ booking' = [booking EXCEPT ![b].undisturbed = @ /\ request[b].canceller = Owner[b]]
  /\ UNCHANGED <<jobVars, outputVars, address, dayVars, socketVars, budget>>

\* unlockSeats answers, and booking.cancelled is emitted for the user that cancelled.
AnnounceCancelled(b) ==
  LET u == request[b].canceller IN
  /\ HasTail(b, "cancel", "unlockCancelled")
  /\ Emit(<<"user", u>>, b, "cancelled")
  /\ booking' = [booking EXCEPT ![b].undisturbed = @ /\ u = Owner[b]]
  /\ request' = [request EXCEPT ![b].cancel = "idle", ![b].canceller = NoUser]
  /\ UNCHANGED <<jobVars, outputVars, address, dayVars, notice, budget>>
-----------------------------------------------------------------------------
(* Failures *)

\* An awaited call of a tail rejects without effect, and the rest is not done.
TailFails(b, kind) ==
  /\ Fault("failing")
  /\ request[b][kind] \notin {"idle", "over"}
  /\ request' = IF kind = "cancel"
                THEN [request EXCEPT ![b].cancel = "idle", ![b].canceller = NoUser]
                ELSE [request EXCEPT ![b][kind] = "over"]
  /\ booking' = [booking EXCEPT ![b].undisturbed = @ /\ request[b][kind] \notin Unannounced]
  /\ UNCHANGED <<jobVars, outputVars, address, dayVars, socketVars>>

\* The midnight job is not accepted; the scheduler does not try again.
MidnightFails ==
  /\ Fault("failing")
  /\ "days" \in ops /\ today < MaxDay
  /\ today' = today + 1
  /\ UNCHANGED <<bookingVars, jobVars, outputVars, address, made, report, socketVars>>

Dropped(pc) == IF pc = "idle" THEN "idle" ELSE "over"

\* The process stops and restarts: requests, processors and connections are gone.
Crash ==
  /\ Fault("crash")
  /\ request' = [b \in Bookings |->
                   [NoRequests EXCEPT !.create = Dropped(request[b].create),
                                      !.first = Dropped(request[b].first),
                                      !.second = Dropped(request[b].second)]]
  /\ run' = [r \in Runners |-> Resting]
  /\ socket' = [s \in Sockets |-> Disconnected]
  /\ UNCHANGED <<booking, job, outputVars, address, dayVars, notice>>

\* An owner enters an email address.
GiveAddress(u) ==
  /\ "smtp" \in ops
  /\ u \notin address /\ \E b \in Bookings : Owner[b] = u
  /\ address' = address \cup {u}
  /\ UNCHANGED <<bookingVars, jobVars, outputVars, dayVars, socketVars, budget>>

\* completeRegistration with an empty email: the mails that wait have nowhere to go.
DropAddress(u) ==
  /\ u \in address
  /\ address' = address \ {u}
  /\ job' = [j \in Jobs |->
               IF j \in EmailJobs /\ Owner[j[2]] = u /\ Pending(j)
               THEN [job[j] EXCEPT !.due = FALSE] ELSE job[j]]
  /\ UNCHANGED <<bookingVars, run, outputVars, dayVars, socketVars, budget>>

-----------------------------------------------------------------------------
Announce(b) ==
  \/ AddCreated(b)
  \/ \E v \in Verifications :
       \/ SetConfirmed(b, v) \/ AnnounceConfirmed(b, v)
       \/ AddTicket(b, v) \/ AddInvoice(b, v) \/ AddReceipt(b, v)
  \/ SetCancelled(b) \/ AnnounceCancelled(b)

Process(r) ==
  \/ FindUser(r) \/ FindBooking(r) \/ SendMail(r)
  \/ Load(r) \/ OpenFile(r) \/ WriteFile(r) \/ SaveUrl(r)
  \/ Aggregate(r) \/ CacheReport(r)
  \/ Complete(r)

\* The last call of a processor takes effect, and rejects.
Unanswered(r) == SendUnanswered(r) \/ SaveUrlUnanswered(r) \/ CacheReportUnanswered(r)

Gateway ==
  \/ \E s \in Sockets :
       \/ \E u \in Users \cup {NoUser} : Connect(s, u)
       \/ Disconnect(s)
       \/ \E x \in Buses : JoinBus(s, x) \/ LeaveBus(s, x)
  \/ \E n \in Notices :
       \/ CreateNotice(n) \/ RemoveNotice(n)
       \/ \E u \in Users : MarkAsRead(n, u)

Step ==
  \/ \E b \in Bookings :
       \/ CreateBooking(b) \/ Announce(b)
       \/ \E v \in Verifications : ConfirmBooking(b, v)
       \/ \E u \in Users : CancelBooking(b, u)
       \/ \E kind \in Tails : TailFails(b, kind)
  \/ \E j \in Jobs : Retry(j) \/ Stalled(j) \/ \E r \in Runners : Take(r, j)
  \/ \E r \in Runners :
       \/ Process(r) \/ WriteSome(r) \/ RunFails(r) \/ Unanswered(r) \/ LoseLock(r)
  \/ Midnight \/ BookToday \/ MidnightFails
  \/ Gateway
  \/ \E u \in Users : GiveAddress(u) \/ DropAddress(u)
  \/ Crash

Next == Step /\ UNCHANGED ops

Spec == Init /\ [][Next]_vars

\* The workers run what they took, take what waits, and look for stalled jobs.
FairSpec ==
  /\ Spec
  /\ \A r \in Runners : WF_vars(Process(r) /\ UNCHANGED ops)
  /\ \A j \in Jobs :
       /\ WF_vars((\E r \in Runners : Take(r, j)) /\ UNCHANGED ops)
       /\ WF_vars(Retry(j) /\ UNCHANGED ops)
       /\ WF_vars(Stalled(j) /\ UNCHANGED ops)

-----------------------------------------------------------------------------
(* Safety *)

\* Every document, job, run and connection has its type.
TypeOK ==
  /\ ops \in Workloads /\ budget \in 0 .. MaxFaults
  /\ booking \in [Bookings -> BookingDocs] /\ request \in [Bookings -> RequestDocs]
  /\ job \in [Jobs -> JobDocs] /\ run \in [Runners -> Runs]
  /\ mails \in [EmailJobs -> Nat] /\ address \subseteq Users
  /\ ticket \in [Bookings -> Tickets]
  /\ today \in Days /\ made \in [Days -> 0 .. MaxPerDay] /\ report \in [Days -> 0 .. MaxPerDay]
  /\ socket \in [Sockets -> SocketDocs] /\ notice \in [Notices -> NoticeDocs]

InvoiceState(b, v) == job[Invoice(b, v)].state

\* A job that was never added is blank, and one that may still run has attempts left and has
\* not stalled too often (attempts of jobs/queues/*.ts; maxStalledCount of BullMQ).
JobSound(j) ==
  LET limit == Attempts[QueueOf(j)] IN
  /\ job[j].state = "none" => job[j] = Unqueued
  /\ Pending(j) \/ job[j].state = "completed" =>
       job[j].attempts < limit /\ job[j].stalls <= MaxStalled
  /\ job[j].state = "failed" => job[j].attempts + job[j].stalls <= limit + MaxStalled

EmailPCs == {"findUser", "findBooking", "sendMail"}
InvoicePCs == {"load", "open", "write", "saveUrl"}
DailyPCs == {"aggregate", "cacheSet"}

\* A run works on a job of its own queue that was added, and holds a lock only while the
\* job is active.
RunSound(r) ==
  /\ run[r].pc = "idle" => run[r] = Resting
  /\ run[r].pc # "idle" => run[r].job \in Jobs /\ job[run[r].job].state # "none"
  /\ run[r].owns => job[run[r].job].state = "active"
  /\ run[r].pc \in EmailPCs => run[r].job \in EmailJobs
  /\ run[r].pc \in InvoicePCs => run[r].job \in BookingJobs \ EmailJobs
  /\ run[r].pc \in DailyPCs => run[r].job \in DailyJobs

\* A job's lock is held by one run at most.
LocksSound ==
  \A r1, r2 \in Runners :
    run[r1].owns /\ run[r2].owns /\ run[r1].job = run[r2].job => r1 = r2

\* The tail of a request has not added the jobs that come after the point it is at, so
\* nothing adds a job twice.
TailSound(b) ==
  /\ booking[b].status = "none" => request[b] = NoRequests
  /\ request[b].create # "over" => job[<<"booking_created", b>>].state = "none"
  /\ \A v \in Verifications :
       LET before == {"idle", "setConfirmed", "unlockConfirmed", "addTicket"} IN
       /\ request[b][v] \in before => job[<<"booking_confirmed", b, v>>].state = "none"
       /\ request[b][v] \in before \cup {"addInvoice"} => InvoiceState(b, v) = "none"
       /\ request[b][v] # "over" => job[<<"payment_success", b, v>>].state = "none"

\* What every step preserves.
DeliveryInv ==
  /\ TypeOK
  /\ \A j \in Jobs : JobSound(j)
  /\ \A r \in Runners : RunSound(r)
  /\ LocksSound
  /\ \A b \in Bookings : TailSound(b)
  /\ \A d \in Days : d > today => job[Daily(d)].state = "none"

\* Every sending of a mail belongs to an attempt that the queue counts, so a mail is sent
\* again only after a failed attempt or a stall, and at most as often as those are allowed
\* (email.worker.ts; email.queue.ts, attempts: 3).
MailsAreCounted ==
  \A j \in EmailJobs :
    /\ mails[j] <= job[j].attempts + job[j].stalls
                     + IF job[j].state \in {"active", "completed"} THEN 1 ELSE 0
    /\ mails[j] <= Attempts["email"] + MaxStalled

\* A booking's ticketUrl names a file that is whole; only a job that is run again after it
\* saved the url, because it stalled or the save was not answered, or the invoice job of a
\* second verification, tears it (invoice.worker.ts).
TornTicketIsExplained ==
  \A b \in Bookings :
    ticket[b].url # {} /\ ticket[b].file # "whole" =>
      \/ \E v \in Verifications : job[Invoice(b, v)].stalls > 0
      \/ ticket[b].unanswered
      \/ \A v \in Verifications : InvoiceState(b, v) # "none"

\* As long as no processor is held up for longer than its lock, the invoice jobs of a
\* booking leave a whole file behind its ticketUrl once all of them are completed, whatever
\* attempts failed and processes crashed; only the jobs of two verifications whose streams
\* were open at once may leave it mixed.
CompletedTicketIsWhole ==
  "holdup" \notin ops =>
    \A b \in Bookings :
      LET states == {InvoiceState(b, v) : v \in Verifications} IN
      "completed" \in states /\ states \subseteq {"completed", "none"}
        => /\ ticket[b].url # {}
           /\ \/ ticket[b].file = "whole"
              \/ ticket[b].shared /\ states = {"completed"}

\* A booking:update reaches the sockets of the booking's owner, or those of the
\* administrator that cancelled it, and nobody else's (socket.gateway.ts).
UpdatesReachTheirAudience ==
  \A s \in Sockets, b \in Bookings :
    socket[s].heard[b] # "none" =>
      \/ socket[s].user = Owner[b]
      \/ socket[s].user \in Admins /\ socket[s].heard[b] = "cancelled"

\* What the owner's socket heard last of a booking is its status, except while the news
\* is on its way, and unless two changes overlapped, an announcement failed, or somebody
\* else cancelled the booking.
LastUpdateIsTrue ==
  \A s \in Sockets, b \in Bookings :
    /\ socket[s].user = Owner[b] /\ socket[s].heard[b] # "none"
    /\ booking[b].undisturbed
    /\ \A kind \in Tails : request[b][kind] \notin Unannounced
    => socket[s].heard[b] = booking[b].status

-----------------------------------------------------------------------------
(* Action and liveness properties *)

\* A later run of a day's analytics never writes an older count over a newer one: the
\* one analytics worker there is (server.ts starts a single process) runs one job at a
\* time, and a processor that lost its lock still fills it (analytics.worker.ts:69).
ReportsNeverRegress == [][\A d \in Days : report'[d] >= report[d]]_report

\* Every job that was added is completed or has failed one day, through failures, stalls
\* and restarts.
EveryJobSettles ==
  "workers" \in ops =>
    \A j \in Jobs :
      job[j].state # "none" ~> job[j].state \in {"completed", "failed"}

-----------------------------------------------------------------------------
(* Refinement *)

AbstractState(j) == CASE job[j].state = "none" -> "absent"
                      [] job[j].state = "completed" -> "done"
                      [] job[j].state = "failed" -> "failed"
                      [] OTHER -> "accepted"

PromisedState == [j \in BookingJobs |-> AbstractState(j)]

\* The jobs with nothing to do, and those that were carried out.
Idle == {j \in BookingJobs : job[j].state # "none" /\ ~ job[j].due}
Done == {j \in EmailJobs : mails[j] > 0}
          \cup {j \in BookingJobs \ EmailJobs : j[3] \in ticket[j[2]].url}

Promise == INSTANCE AtLeastOnce WITH
  Jobs <- BookingJobs, state <- PromisedState, idle <- Idle, done <- Done

\* The queues and workers carry out every completed job at least once: the mail was handed
\* to the mail server, or the ticket saved, before the job was completed.
AtLeastOnceSpec == Promise!Spec
=============================================================================
