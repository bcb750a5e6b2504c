----------------------------- MODULE SeatBooking -----------------------------
(***************************************************************************)
(* The booking system: the booking, payment and bus services over the      *)
(* state they share, with the failures of MongoDB, Redis, the queues and   *)
(* the process, and the properties of the whole.                           *)
(***************************************************************************)
EXTENDS PaymentService, BusService

-----------------------------------------------------------------------------
(* Failures *)

DbCalls == {"markLocked", "insertBooking", "findExisting", "insertPayment", "savePaid",
            "confirmRead", "confirmBus", "markBooked", "setConfirmed", "freeSeats",
            "setCancelled", "saveRefund"}
RedisCalls == {"lockGet", "unlockFailed", "unlockConfirmed", "unlockCancelled"}
QueueCalls == {"emailCreated", "emailTicket", "queueInvoice", "emailReceipt"}

\* An awaited call rejects without effect.  One that takes effect and rejects leaves the
\* documents as that call and a failure of the next one do; Booking.create, which the catch
\* block follows, has an action of its own.  Only createBooking catches, around the
\* two writes that follow the lock; every other error goes to the client.
CallFails(h) ==
  /\ \/ "db" \in Faults /\ handler[h].pc \in DbCalls
     \/ "redis" \in Faults /\ handler[h].pc \in RedisCalls
     \/ "queue" \in Faults /\ handler[h].pc \in QueueCalls
  /\ IF handler[h].pc \in {"markLocked", "insertBooking"}
     THEN Goto(h, "unlockFailed")
     ELSE Answer(h)
  /\ UNCHANGED <<bus, seatLock, bookings, payments, jobs>>

\* The process stops and restarts: its requests are gone, nothing takes them up.
Crash ==
  /\ "crash" \in Faults
  /\ \E h \in Handlers : ~ At(h, "idle")
  /\ handler' = [h \in Handlers |-> Idle]
  /\ UNCHANGED <<bus, seatLock, bookings, payments, jobs>>

-----------------------------------------------------------------------------
Request(h) == CreateRead(h) \/ InitiateRead(h) \/ VerifyRead(h) \/ RefundRead(h) \/ CancelRead(h)

Proceed(h) == CreateStep(h) \/ ConfirmStep(h) \/ CancelStep(h) \/ PaymentStep(h)

Next ==
  \/ \E h \in Handlers :
       \/ Request(h) \/ Proceed(h)
       \/ SetLockUnnoticedError(h) \/ InsertBookingUnanswered(h) \/ CallFails(h)
  \/ \E S \in SeatLists : Expire(S)
  \/ UpdateBus
  \/ RemoveBus
  \/ Crash

Spec == Init /\ [][Next]_vars

\* The event loop runs every continuation, and Redis expires keys; nothing obliges
\* a client to make a request.
FairSpec ==
  /\ Spec
  /\ \A h \in Handlers : WF_vars(Proceed(h))
  /\ \A S \in SeatLists : WF_vars(Expire(S))

-----------------------------------------------------------------------------
(* Safety *)

\* Every document, lock, job and request has its type (the schemas of bus.model.ts,
\* booking.model.ts and payment.model.ts).
TypeOK ==
  /\ bus \in BusDocs
  /\ seatLock \in [SeatLists -> Users \cup {NoUser}]
  /\ bookings \in [BookingIds -> BookingDocs]
  /\ payments \in [PaymentIds -> PaymentDocs]
  /\ jobs \subseteq JobNames \X BookingIds
  /\ handler \in [Handlers -> Requests]

IsPaidFor(p, b) == p \in PaymentIds /\ payments[p].bookingId = b /\ payments[p].paid

\* A confirmed booking names a payment of its own that was recorded as paid, whatever
\* requests race and wherever the process stops: verifyPayment saves the payment before
\* confirmBooking touches the booking.
ConfirmedIsPaid ==
  \A b \in BookingIds :
    bookings[b].status = "confirmed" => IsPaidFor(bookings[b].paymentId, b)

\* A seat is marked booked only for a booking that lists it and has been paid, even
\* when the booking was cancelled while confirmBooking ran.
BookedSeatIsPaid ==
  \A s \in Seats : bus.seats[s].status = "booked" =>
    \E b \in BookingIds, p \in PaymentIds : s \in bookings[b].seats /\ IsPaidFor(p, b)

\* totalRefunded never claims more than the refund entries add up to: concurrent
\* initiateRefund calls lose an update of the total, never an entry.
TotalNotOverstated ==
  \A p \in PaymentIds : payments[p].totalRefunded <= payments[p].refunds

\* Without cancellations and operators' edits, the seats of a booking that is pending
\* or confirmed are not offered: createBooking marks them before it inserts the
\* booking, and no rollback makes a marked seat available.
HeldSeatsNotAvailable ==
  \A b \in BookingIds, s \in Seats :
    bookings[b].status \in {"pending", "confirmed"} /\ s \in bookings[b].seats
      => bus.seats[s].status # "available"

\* redis-design.md:38: the seat lock solves the double-booking race: no seat belongs
\* to two confirmed bookings.
NoDoubleSale ==
  \A b1, b2 \in BookingIds :
    b1 # b2 /\ bookings[b1].status = "confirmed" /\ bookings[b2].status = "confirmed"
      => bookings[b1].seats \cap bookings[b2].seats = {}

\* A confirmed booking has all its seats marked booked on the bus.
ConfirmedSeatsAreBooked ==
  \A b \in BookingIds : bookings[b].status = "confirmed" =>
    \A s \in bookings[b].seats : bus.seats[s].status = "booked"

\* The message of payment.service.ts:116, "Max refundable amount is ...": what has been
\* refunded never adds up to more than was paid.
RefundsWithinAmount == \A p \in PaymentIds : payments[p].refunds <= Fare

-----------------------------------------------------------------------------
(* The inductive invariant: what the requests in flight may rely on *)

\* createBooking: its booking does not exist until it is inserted, and until then no other
\* request has its id.
CreatingSound(h) ==
  LET r == handler[h] IN
  r.pc \in CreatePCs =>
    /\ r.user \in Users /\ r.booking \in BookingIds /\ r.seats \in SeatLists
    /\ r.pc = "emailCreated" => bookings[r.booking].status # "absent"
    /\ r.pc \notin {"emailCreated", "unlockFailed"} =>
         /\ bookings[r.booking].status = "absent"
         /\ \A g \in Handlers \ {h} : handler[g].booking # r.booking

\* initiatePayment: its booking exists, its payment does not, and no other request has
\* that payment's id.
InitiatingSound(h) ==
  LET r == handler[h] IN
  r.pc \in InitiatePCs =>
    /\ r.booking \in BookingIds /\ bookings[r.booking].status # "absent"
    /\ r.payment \in PaymentIds /\ payments[r.payment].status = "absent"
    /\ \A g \in Handlers \ {h} : handler[g].payment # r.payment

Settling == {"unlockConfirmed", "emailTicket", "queueInvoice", "emailReceipt"}

\* verifyPayment and confirmBooking: the payment is one of the booking; it is paid once
\* it is saved, and the booking has left pending once it is confirmed.
VerifyingSound(h) ==
  LET r == handler[h] IN
  r.pc \in VerifyPCs =>
    /\ r.payment \in PaymentIds /\ r.booking \in BookingIds
    /\ payments[r.payment].bookingId = r.booking
    /\ r.pc # "savePaid" => payments[r.payment].paid
    /\ r.pc \in Settling => bookings[r.booking].status \in {"confirmed", "cancelled"}

\* cancelBooking: its booking exists.
CancellingSound(h) ==
  LET r == handler[h] IN
  r.pc \in CancelPCs => r.booking \in BookingIds /\ bookings[r.booking].status # "absent"

\* initiateRefund: its payment exists and has been paid.
RefundingSound(h) ==
  LET r == handler[h] IN
  r.pc = "saveRefund" => r.payment \in PaymentIds /\ payments[r.payment].paid

\* Every request's locals agree with the documents it was started for.
RequestsSound ==
  \A h \in Handlers :
    CreatingSound(h) /\ InitiatingSound(h) /\ VerifyingSound(h) /\ CancellingSound(h)
      /\ RefundingSound(h)

\* A payment belongs to a booking that exists and has no other, however many requests
\* initiate one, and is success only when it was paid.
PaymentsSound ==
  \A p \in PaymentIds :
    IF payments[p].status = "absent" THEN payments[p] = AbsentPayment
    ELSE /\ payments[p].bookingId \in BookingIds
         /\ bookings[payments[p].bookingId].status # "absent"
         /\ \A q \in PaymentIds \ {p} : payments[q].bookingId # payments[p].bookingId
         /\ payments[p].status # "initiated" => payments[p].paid

\* What every step preserves, and what the theorems about the system follow from: the
\* requests in flight, the payments and the confirmed bookings agree with each other.
BookingInv ==
  /\ TypeOK
  /\ RequestsSound
  /\ PaymentsSound
  /\ ConfirmedIsPaid

\* What a refund in flight has read never exceeds the entries that are there.
RefundsSound ==
  /\ TotalNotOverstated
  /\ \A h \in Handlers :
       At(h, "saveRefund") => handler[h].seen <= payments[handler[h].payment].refunds

\* Without cancellations, operators' edits and removals, a booking about to be inserted
\* has marked its seats, and nothing makes a seat available again.
HoldingInv ==
  /\ HeldSeatsNotAvailable
  /\ \A b \in BookingIds : bookings[b].status # "cancelled"
  /\ bus.status # "removed"
  /\ \A h \in Handlers :
       /\ handler[h].pc \notin CancelPCs
       /\ At(h, "insertBooking") =>
            \A s \in handler[h].seats : bus.seats[s].status # "available"

-----------------------------------------------------------------------------
(* What a step may never do *)

\* booking.service.ts:141, "Cannot confirm booking with status: cancelled": a cancelled
\* booking stays cancelled.
CancelledIsFinal ==
  [][\A b \in BookingIds :
       bookings[b].status = "cancelled" => bookings'[b].status = "cancelled"]_bookings

\* confirmBooking between its check of the status and its write of it.
Confirming == {"confirmBus", "markBooked", "setConfirmed"}

\* The booking is cancelled, and no confirmation of it has passed the check before.
Withdrawn(b) ==
  /\ bookings[b].status = "cancelled"
  /\ \A h \in Handlers : handler[h].booking = b => handler[h].pc \notin Confirming

\* confirmBooking checks the status at booking.service.ts:140 and writes it, whatever it
\* is by then, at :163.  That is the only way back: a cancelled booking that no request
\* carries between these two lines stays cancelled, whoever verifies, cancels or pays.
WithdrawnIsFinal == [][\A b \in BookingIds : Withdrawn(b) => Withdrawn(b)']_vars

\* What verifyPayment still owes a booking: the confirmation once it has been paid, and
\* the ticket email once it has been confirmed.
Unsettled(b) == bookings[b].status = "pending" /\ \E p \in PaymentIds : IsPaidFor(p, b)
Unticketed(b) == bookings[b].status = "confirmed" /\ <<"booking_confirmed", b>> \notin jobs

\* A request is on its way to do what is owed.
Carried(b, l) == \E h \in Handlers : handler[h].booking = b /\ handler[h].pc \in l
Attended(b) ==
  /\ Unsettled(b) => Carried(b, {"confirmRead"} \cup Confirming)
  /\ Unticketed(b) => Carried(b, {"unlockConfirmed", "emailTicket"})

\* A request for the booking ends with an error: one of its calls fails, or confirmBooking
\* finds that the bus was removed.
Abandons(h, b) ==
  /\ handler[h].booking = b
  /\ CallFails(h) \/ (ConfirmBus(h) /\ bus.status = "removed")

\* Nothing resumes a verification: what it owes is dropped when one of its own calls
\* fails, when the bus is gone or when the process stops, and in no other way, whatever
\* the requests beside it do (payment.service.ts:67-70, booking.service.ts:145, :184).
OwedIsAttended ==
  [][\A b \in BookingIds : Attended(b) =>
       Attended(b)' \/ Crash \/ \E h \in Handlers : Abandons(h, b)]_vars

-----------------------------------------------------------------------------
(* Liveness *)

\* When no call fails and the bus stays, a payment that was recorded does not leave its
\* booking pending for ever: verifyPayment goes on to confirm it.
PaidLeadsToSettled ==
  \A p \in PaymentIds, b \in BookingIds :
    IsPaidFor(p, b) ~> bookings[b].status # "pending"

\* A confirmed booking gets its ticket email queued.
ConfirmedLeadsToTicket ==
  \A b \in BookingIds :
    bookings[b].status = "confirmed" ~> <<"booking_confirmed", b>> \in jobs

\* redis-design.md:46: on payment failure or timeout the seats unlock by themselves.
LockedSeatsAreReleased ==
  \A s \in Seats : bus.seats[s].status = "locked" ~> bus.seats[s].status # "locked"

-----------------------------------------------------------------------------
(* Refinement of BookingLifecycle *)

Issuing == {"booking_confirmed", "generate-invoice", "payment_success"}

Stage == [b \in BookingIds |-> bookings[b].status]
Paid == {b \in BookingIds : \E p \in PaymentIds : IsPaidFor(p, b)}
Issued == {b \in BookingIds : \E j \in Issuing : <<j, b>> \in jobs}

Lifecycle == INSTANCE BookingLifecycle WITH stage <- Stage, paid <- Paid, issued <- Issued

\* The services keep the promises of BookingLifecycle.
LifecycleSpec == Lifecycle!LSpec
=============================================================================
