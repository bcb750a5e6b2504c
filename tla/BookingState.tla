---------------------------- MODULE BookingState ----------------------------
(***************************************************************************)
(* The state the booking and payment services share: one Bus document, the *)
(* Booking and Payment collections, the seat locks in Redis, the job       *)
(* queues, and the HTTP requests the Node process has in flight.           *)
(*                                                                         *)
(* A request is a slot of `handler': pc says which awaited call it makes   *)
(* next, the other fields are the locals it carries across the awaits.     *)
(* Every action of the services is one awaited call with the synchronous   *)
(* code that runs when it answers, so requests interleave exactly at the   *)
(* awaits of the code.                                                     *)
(***************************************************************************)
EXTENDS Naturals, FiniteSets

CONSTANTS
  Users,             \* passengers who book
  SeatCount,         \* seats of the bus; a seat is its index in bus.seats
  BookingIds,        \* ids of Booking documents (bounds the collection)
  PaymentIds,        \* ids of Payment documents (bounds the collection)
  Handlers,          \* slots for requests in flight (bounds the concurrency)
  Fare,              \* totalFare of a booking, the amount of its payment
  RefundAmounts,     \* amounts an administrator may ask to refund
  OperatorStatuses,  \* seat statuses an operator may send in PUT /buses/:id
  Ops,               \* the requests that are made
  Faults             \* the failures that may happen

CONSTANTS NoUser, NoBooking, NoPayment

AllOps == {"create", "initiate", "verify", "cancel", "refund", "updateBus", "removeBus"}
AllFaults == {"db", "redis", "queue", "crash"}

ASSUME SeatCountAssumption == SeatCount \in Nat \ {0}
ASSUME FareAssumption == Fare \in Nat \ {0}
\* refundSchema: amount is at least 1
ASSUME RefundAssumption == RefundAmounts \subseteq Nat \ {0}
ASSUME NullAssumption ==
  /\ NoUser \notin Users
  /\ NoBooking \notin BookingIds
  /\ NoPayment \notin PaymentIds
ASSUME InputAssumption ==
  /\ OperatorStatuses \subseteq {"available", "booked", "locked", "disabled"}
  /\ Ops \subseteq AllOps
  /\ Faults \subseteq AllFaults

VARIABLES
  bus,        \* the Bus document
  seatLock,   \* Redis: seat_lock:<busId>:<sorted seats> -> userId
  bookings,   \* the Booking collection
  payments,   \* the Payment collection
  jobs,       \* the jobs that have been added to the BullMQ queues
  handler     \* the requests in flight

vars == <<bus, seatLock, bookings, payments, jobs, handler>>

-----------------------------------------------------------------------------
Seats == 1 .. SeatCount
SeatLists == (SUBSET Seats) \ {{}}        \* passengers is an array of 1 to 10

SeatStatuses == {"available", "booked", "locked", "disabled"}
SeatDocs == [status : SeatStatuses, bookedByUserId : Users \cup {NoUser}]

\* "delayed" stands for every status that is not active, "removed" for no document.
BusDocs == [status : {"active", "delayed", "removed"}, seats : [Seats -> SeatDocs]]

BookingStatuses == {"absent", "pending", "confirmed", "cancelled"}
BookingDocs ==
  [userId : Users \cup {NoUser}, seats : SUBSET Seats, status : BookingStatuses,
   paymentId : PaymentIds \cup {NoPayment}]

\* refunds is the sum of the entries of the refunds array.
PaymentStatuses == {"absent", "initiated", "success", "partially_refunded", "refunded"}
PaymentDocs ==
  [bookingId : BookingIds \cup {NoBooking}, status : PaymentStatuses, paid : BOOLEAN,
   totalRefunded : Nat, refunds : Nat]

JobNames == {"booking_created", "booking_confirmed", "generate-invoice", "payment_success"}

CreatePCs == {"lockGet", "lockSet", "markLocked", "insertBooking", "unlockFailed", "emailCreated"}
InitiatePCs == {"findExisting", "insertPayment"}
VerifyPCs == {"savePaid", "confirmRead", "confirmBus", "markBooked", "setConfirmed",
              "unlockConfirmed", "emailTicket", "queueInvoice", "emailReceipt"}
CancelPCs == {"freeSeats", "setCancelled", "unlockCancelled"}
PCs == {"idle", "saveRefund"} \cup CreatePCs \cup InitiatePCs \cup VerifyPCs \cup CancelPCs

Requests ==
  [pc : PCs, user : Users \cup {NoUser}, seats : SUBSET Seats,
   booking : BookingIds \cup {NoBooking}, payment : PaymentIds \cup {NoPayment},
   seen : Nat, amount : Nat]

-----------------------------------------------------------------------------
AbsentBooking ==
  [userId |-> NoUser, seats |-> {}, status |-> "absent", paymentId |-> NoPayment]
AbsentPayment ==
  [bookingId |-> NoBooking, status |-> "absent", paid |-> FALSE,
   totalRefunded |-> 0, refunds |-> 0]
Idle ==
  [pc |-> "idle", user |-> NoUser, seats |-> {}, booking |-> NoBooking,
   payment |-> NoPayment, seen |-> 0, amount |-> 0]

\* A bus fresh from BusService.create: active, every seat available.
Init ==
  /\ bus = [status |-> "active",
            seats |-> [s \in Seats |-> [status |-> "available", bookedByUserId |-> NoUser]]]
  /\ seatLock = [S \in SeatLists |-> NoUser]
  /\ bookings = [b \in BookingIds |-> AbsentBooking]
  /\ payments = [p \in PaymentIds |-> AbsentPayment]
  /\ jobs = {}
  /\ handler = [h \in Handlers |-> Idle]

-----------------------------------------------------------------------------
At(h, l) == handler[h].pc = l

Accept(h, request) ==
  /\ At(h, "idle")
  /\ handler' = [handler EXCEPT ![h] = request]
Goto(h, l) == handler' = [handler EXCEPT ![h].pc = l]
\* The request is answered, with a result or with an error.
Answer(h) == handler' = [handler EXCEPT ![h] = Idle]

\* Mongoose draws the _id of a new document in the process, before the insert.
FreshBooking(b) ==
  bookings[b].status = "absent" /\ \A g \in Handlers : handler[g].booking # b
FreshPayment(p) ==
  payments[p].status = "absent" /\ \A g \in Handlers : handler[g].payment # p

\* Bus.updateOne({_id}, {$set: ...}), where new maps the indices that are set to
\* their new seats; a removed bus matches nothing.
SetSeats(new) ==
  bus' = IF bus.status = "removed" THEN bus
         ELSE [bus EXCEPT !.seats =
                 [s \in Seats |-> IF s \in DOMAIN new THEN new[s] ELSE bus.seats[s]]]
=============================================================================
