--------------------------- MODULE BookingService ---------------------------
(***************************************************************************)
(* createBooking, confirmBooking and cancelBooking of BookingService       *)
(* (modules/booking/booking.service.ts), one action per awaited call.  A   *)
(* request whose first read fails its checks is answered with an error and *)
(* changes nothing: it has no action.                                      *)
(***************************************************************************)
EXTENDS SeatLock

-----------------------------------------------------------------------------
(* createBooking *)

\* Mutant: the seats' statuses are not checked.
CreateReadUnchecked(h) == \E u \in Users, S \in SeatLists, b \in BookingIds :
  /\ "create" \in Ops
  /\ bus.status = "active"
  /\ FreshBooking(b)
  /\ Accept(h, [Idle EXCEPT !.pc = "lockGet", !.user = u, !.seats = S, !.booking = b])
  /\ UNCHANGED <<bus, seatLock, bookings, payments, jobs>>

\* Bus.findById and the checks on that snapshot of the seats.
CreateRead(h) == \E u \in Users, S \in SeatLists, b \in BookingIds :
  /\ "create" \in Ops
  /\ bus.status = "active"
  /\ \A s \in S : bus.seats[s].status = "available"
  /\ FreshBooking(b)
  /\ Accept(h, [Idle EXCEPT !.pc = "lockGet", !.user = u, !.seats = S, !.booking = b])
  /\ UNCHANGED <<bus, seatLock, bookings, payments, jobs>>

\* Bus.updateOne: no condition on what the seats are by now.
MarkLocked(h) ==
  /\ At(h, "markLocked")
  /\ SetSeats([s \in handler[h].seats |->
                [status |-> "locked", bookedByUserId |-> handler[h].user]])
  /\ Goto(h, "insertBooking")
  /\ UNCHANGED <<seatLock, bookings, payments, jobs>>

Inserted(h) ==
  bookings' = [bookings EXCEPT ![handler[h].booking] =
                 [userId |-> handler[h].user, seats |-> handler[h].seats,
                  status |-> "pending", paymentId |-> NoPayment]]

\* Booking.create
InsertBooking(h) ==
  /\ At(h, "insertBooking")
  /\ Inserted(h)
  /\ Goto(h, "emailCreated")
  /\ UNCHANGED <<bus, seatLock, payments, jobs>>

\* Booking.create takes effect and its answer is lost: the catch block deletes the Redis
\* key of a booking that exists.
InsertBookingUnanswered(h) ==
  /\ "db" \in Faults
  /\ At(h, "insertBooking")
  /\ Inserted(h)
  /\ Goto(h, "unlockFailed")
  /\ UNCHANGED <<bus, seatLock, payments, jobs>>

\* The catch block: the Redis key goes, the seats of the bus stay as they are.
UnlockFailed(h) ==
  /\ At(h, "unlockFailed")
  /\ Unlock(handler[h].seats)
  /\ Answer(h)
  /\ UNCHANGED <<bus, bookings, payments, jobs>>

EmailCreated(h) ==
  /\ At(h, "emailCreated")
  /\ jobs' = jobs \cup {<<"booking_created", handler[h].booking>>}
  /\ Answer(h)
  /\ UNCHANGED <<bus, seatLock, bookings, payments>>

CreateStep(h) ==
  \/ GetLock(h) \/ SetLock(h) \/ MarkLocked(h) \/ InsertBooking(h)
  \/ UnlockFailed(h) \/ EmailCreated(h)

-----------------------------------------------------------------------------
(* confirmBooking, which only verifyPayment calls *)

\* Mutant: the booking's status is not checked.
ConfirmReadUnchecked(h) ==
  /\ At(h, "confirmRead")
  /\ Goto(h, "confirmBus")
  /\ UNCHANGED <<bus, seatLock, bookings, payments, jobs>>

ConfirmRead(h) ==
  /\ At(h, "confirmRead")
  /\ IF bookings[handler[h].booking].status = "pending"
     THEN Goto(h, "confirmBus")
     ELSE Answer(h)
  /\ UNCHANGED <<bus, seatLock, bookings, payments, jobs>>

ConfirmBus(h) ==
  /\ At(h, "confirmBus")
  /\ IF bus.status = "removed" THEN Answer(h) ELSE Goto(h, "markBooked")
  /\ UNCHANGED <<bus, seatLock, bookings, payments, jobs>>

\* Mutant: the seats are taken by the passengers' positions, as cancelBooking does.
MarkFirstSeatsBooked(h) ==
  /\ At(h, "markBooked")
  /\ SetSeats([s \in 1 .. Cardinality(bookings[handler[h].booking].seats) |->
                [bus.seats[s] EXCEPT !.status = "booked"]])
  /\ Goto(h, "setConfirmed")
  /\ UNCHANGED <<seatLock, bookings, payments, jobs>>

\* bookedByUserId is left as it is.
MarkBooked(h) ==
  /\ At(h, "markBooked")
  /\ SetSeats([s \in bookings[handler[h].booking].seats |->
                [bus.seats[s] EXCEPT !.status = "booked"]])
  /\ Goto(h, "setConfirmed")
  /\ UNCHANGED <<seatLock, bookings, payments, jobs>>

\* findByIdAndUpdate: no condition on the status, which may have changed.
SetConfirmed(h) ==
  /\ At(h, "setConfirmed")
  /\ bookings' = [bookings EXCEPT ![handler[h].booking] =
                    [@ EXCEPT !.status = "confirmed", !.paymentId = handler[h].payment]]
  /\ Goto(h, "unlockConfirmed")
  /\ UNCHANGED <<bus, seatLock, payments, jobs>>

\* Mutant: the ticket email is not queued.
UnlockConfirmedNoTicket(h) ==
  /\ At(h, "unlockConfirmed")
  /\ Unlock(bookings[handler[h].booking].seats)
  /\ Goto(h, "queueInvoice")
  /\ UNCHANGED <<bus, bookings, payments, jobs>>

UnlockConfirmed(h) ==
  /\ At(h, "unlockConfirmed")
  /\ Unlock(bookings[handler[h].booking].seats)
  /\ Goto(h, "emailTicket")
  /\ UNCHANGED <<bus, bookings, payments, jobs>>

EmailTicket(h) ==
  /\ At(h, "emailTicket")
  /\ jobs' = jobs \cup {<<"booking_confirmed", handler[h].booking>>}
  /\ Goto(h, "queueInvoice")
  /\ UNCHANGED <<bus, seatLock, bookings, payments>>

ConfirmStep(h) ==
  \/ ConfirmRead(h) \/ ConfirmBus(h) \/ MarkBooked(h) \/ SetConfirmed(h)
  \/ UnlockConfirmed(h) \/ EmailTicket(h)

-----------------------------------------------------------------------------
(* cancelBooking, by the owner or by an administrator *)

CancelRead(h) == \E b \in BookingIds :
  /\ "cancel" \in Ops
  /\ bookings[b].status \in {"pending", "confirmed"}
  /\ Accept(h, [Idle EXCEPT !.pc = "freeSeats", !.booking = b])
  /\ UNCHANGED <<bus, seatLock, bookings, payments, jobs>>

\* The i of `seats.${i}' counts the passengers of the booking: the update frees
\* the first seats of the bus, as many as the booking has passengers.
CancelledSeats(b) == 1 .. Cardinality(bookings[b].seats)

FreeSeats(h) ==
  /\ At(h, "freeSeats")
  /\ SetSeats([s \in CancelledSeats(handler[h].booking) |->
                [status |-> "available", bookedByUserId |-> NoUser]])
  /\ Goto(h, "setCancelled")
  /\ UNCHANGED <<seatLock, bookings, payments, jobs>>

\* Mutant: a status outside the schema's enum, which findByIdAndUpdate does not validate.
SetCanceled(h) ==
  /\ At(h, "setCancelled")
  /\ bookings' = [bookings EXCEPT ![handler[h].booking].status = "canceled"]
  /\ Goto(h, "unlockCancelled")
  /\ UNCHANGED <<bus, seatLock, payments, jobs>>

SetCancelled(h) ==
  /\ At(h, "setCancelled")
  /\ bookings' = [bookings EXCEPT ![handler[h].booking].status = "cancelled"]
  /\ Goto(h, "unlockCancelled")
  /\ UNCHANGED <<bus, seatLock, payments, jobs>>

UnlockCancelled(h) ==
  /\ At(h, "unlockCancelled")
  /\ Unlock(bookings[handler[h].booking].seats)
  /\ Answer(h)
  /\ UNCHANGED <<bus, bookings, payments, jobs>>

CancelStep(h) == FreeSeats(h) \/ SetCancelled(h) \/ UnlockCancelled(h)
=============================================================================
