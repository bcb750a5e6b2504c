---------------------------- MODULE DeliveryState ----------------------------
(***************************************************************************)
(* The state of what happens after a request's main writes: the BullMQ     *)
(* jobs and the workers that run them, the files and mails they produce,   *)
(* the sockets that hear of events, and the notifications.                 *)
(*                                                                         *)
(* Bookings, payments and users are never deleted, so what a job refers to *)
(* is there when it runs.  Nothing adds a job to the sms queue.            *)
(***************************************************************************)
EXTENDS Naturals, FiniteSets

CONSTANTS
  Bookings,
  Users,
  Owner,           \* the user of each booking
  Admins,          \* the users whose role is admin or super_admin
  Runners,         \* runs of processors that can be in progress in the process at once
  Sockets,         \* connections
  Buses,           \* buses whose rooms are joined
  Notices,         \* ids of notifications
  MaxDay,          \* bound on the midnights that pass
  MaxPerDay,       \* bound on the bookings made on one day
  MaxFaults,       \* bound on the failures of one behaviour
  Workloads        \* which activities and failures happen together

CONSTANT NoUser

\* "smtp": an SMTP server is configured.  "twice": a payment may be verified a second time.
\* A job type: the jobs of that type are followed.
AllOps == {"smtp", "bookings", "twice", "cancel", "workers", "days", "sockets", "notices",
           "booking_created", "booking_confirmed", "payment_success", "generate-invoice",
           "failing", "crash", "holdup"}

ASSUME DeliveryConstants ==
  /\ Owner \in [Bookings -> Users]
  /\ Admins \subseteq Users
  /\ IsFiniteSet(Runners)
  /\ MaxDay \in Nat /\ MaxPerDay \in Nat /\ MaxFaults \in Nat
  /\ Workloads \subseteq SUBSET AllOps
  /\ NoUser \notin Users

VARIABLES
  ops,       \* the Workload of this behaviour, chosen once
  booking,   \* the status of each booking, and what of it was announced
  request,   \* the requests about a booking that are past their first write
  job,       \* the jobs of the queues
  run,       \* the processors in progress
  mails,     \* how often the mail of a job was handed to the SMTP server
  address,   \* the users that have an email address
  ticket,    \* ticketUrl of a booking, and the file it names
  today, made, report,   \* days: the bookings made on each, and the cached analytics
  socket,    \* the connections: their token, their rooms and what they heard last
  notice,    \* the notifications
  budget     \* failures that may still happen

vars == <<ops, booking, request, job, run, mails, address, ticket, today, made, report,
          socket, notice, budget>>

-----------------------------------------------------------------------------
(* Jobs *)

\* The verifications of a booking's payment that confirm the booking: they overlap, or the
\* payment was refunded in between.  Each queues jobs of its own.
Verifications == {"first", "second"}

EmailTypes == {"booking_created", "booking_confirmed", "payment_success"}
EmailJobs == ({"booking_created"} \X Bookings)
               \cup ({"booking_confirmed", "payment_success"} \X Bookings \X Verifications)
BookingJobs == EmailJobs \cup ({"generate-invoice"} \X Bookings \X Verifications)
Days == 0 .. MaxDay
DailyJobs == {"daily_analytics"} \X Days
Jobs == BookingJobs \cup DailyJobs
NoJob == <<"none", 0>>

Invoice(b, v) == <<"generate-invoice", b, v>>
Daily(d) == <<"daily_analytics", d>>

QueueOf(j) == CASE j[1] \in EmailTypes -> "email"
                [] j[1] = "generate-invoice" -> "invoice"
                [] OTHER -> "analytics"

\* defaultJobOptions.attempts of each queue, and what BullMQ adds: a job may stall once.
Attempts == [email |-> 3, invoice |-> 3, analytics |-> 2]
MaxStalled == 1

JobStates == {"none", "waiting", "active", "delayed", "completed", "failed"}

\* attempts counts the failed ones; due is history: there has been an address, and
\* a server to send with, since the job was added.
JobDocs == [state : JobStates, attempts : 0 .. 3, stalls : 0 .. 2, due : BOOLEAN]
Unqueued == [state |-> "none", attempts |-> 0, stalls |-> 0, due |-> FALSE]

RunPCs == {"idle", "findUser", "findBooking", "sendMail",
           "load", "open", "write", "saveUrl",
           "aggregate", "cacheSet", "finish"}
Runs == [job : Jobs \cup {NoJob}, pc : RunPCs, owns : BOOLEAN, count : 0 .. MaxPerDay]
Resting == [job |-> NoJob, pc |-> "idle", owns |-> FALSE, count |-> 0]

\* ticketUrl is set once url is not empty: url holds the verifications whose jobs have
\* saved it.  A file is torn from when it is opened, which truncates it, until a stream has
\* written all of it.  shared: when it was opened last, another stream on it was still open;
\* each stream writes at its own offset, so the file may end up mixed, which is torn too.
\* unanswered is history: the url was saved by a call that was not answered.
Tickets == [url : SUBSET Verifications, file : {"none", "torn", "whole"},
            shared : BOOLEAN, unanswered : BOOLEAN]
NoTicket == [url |-> {}, file |-> "none", shared |-> FALSE, unanswered |-> FALSE]

-----------------------------------------------------------------------------
(* Bookings and the requests about them *)

Statuses == {"none", "pending", "confirmed", "cancelled"}
\* undisturbed is history: when the status changed last no other change was still to be
\* announced, and its own announcement did not fail and went to the owner.
BookingDocs == [status : Statuses, undisturbed : BOOLEAN]
Unannounced == {"unlockConfirmed", "unlockCancelled"}

\* The tails of createBooking, of the verifications with confirmBooking, and of cancelBooking.
ConfirmPCs == {"idle", "setConfirmed", "unlockConfirmed", "addTicket", "addInvoice",
               "addReceipt", "over"}
RequestDocs ==
  [create : {"idle", "addCreated", "over"},
   first : ConfirmPCs, second : ConfirmPCs,
   cancel : {"idle", "setCancelled", "unlockCancelled"},
   canceller : Users \cup {NoUser}]
NoRequests == [create |-> "idle", first |-> "idle", second |-> "idle", cancel |-> "idle",
               canceller |-> NoUser]
Tails == {"create", "cancel"} \cup Verifications

-----------------------------------------------------------------------------
(* Sockets and notifications *)

Rooms == ({"user"} \X Users) \cup ({"bus"} \X Buses)
Updates == {"none", "confirmed", "cancelled"}
SocketDocs == [connected : BOOLEAN, user : Users \cup {NoUser}, rooms : SUBSET Rooms,
               heard : [Bookings -> Updates], news : SUBSET Notices]
Disconnected == [connected |-> FALSE, user |-> NoUser, rooms |-> {},
                 heard |-> [b \in Bookings |-> "none"], news |-> {}]

NoticeDocs == [state : {"unborn", "live", "gone"}, readBy : SUBSET Users]

-----------------------------------------------------------------------------
Init ==
  /\ ops \in Workloads
  /\ booking = [b \in Bookings |-> [status |-> "none", undisturbed |-> TRUE]]
  /\ request = [b \in Bookings |-> NoRequests]
  /\ job = [j \in Jobs |-> Unqueued]
  /\ run = [r \in Runners |-> Resting]
  /\ mails = [j \in EmailJobs |-> 0]
  /\ address = {}
  /\ ticket = [b \in Bookings |-> NoTicket]
  /\ today = 0
  /\ made = [d \in Days |-> 0]
  /\ report = [d \in Days |-> 0]
  /\ socket = [s \in Sockets |-> Disconnected]
  /\ notice = [n \in Notices |-> [state |-> "unborn", readBy |-> {}]]
  /\ budget = MaxFaults

\* The groups of variables that most actions leave alone.
bookingVars == <<booking, request>>
jobVars == <<job, run>>
outputVars == <<mails, ticket>>
dayVars == <<today, made, report>>
socketVars == <<socket, notice>>

\* One of the failures of this behaviour happens.
Fault(kind) == kind \in ops /\ budget > 0 /\ budget' = budget - 1
=============================================================================
