--------------------------- MODULE SequentialProofs ---------------------------
(***************************************************************************)
(* Proofs about SeatBooking where the process serves one request after the *)
(* other, for every set of users, bookings and payments, every size of the *)
(* bus and every failure: what concurrency breaks holds without it.        *)
(***************************************************************************)
EXTENDS SeatBookingProofs

\* There is one slot at most: a request starts when the one before it has been
\* answered, or has been lost with the process.
OneAtATime == \A g, h \in Handlers : g = h

-----------------------------------------------------------------------------
(* Refunds *)

\* What a refund relies on: the total it reads is the sum of the entries, and it is
\* still the total when the refund is saved.
RefundsExact ==
  /\ \A p \in PaymentIds :
       payments[p].totalRefunded = payments[p].refunds /\ payments[p].refunds <= Fare
  /\ \A h \in Handlers : At(h, "saveRefund") =>
       /\ handler[h].seen = payments[handler[h].payment].refunds
       /\ handler[h].seen + handler[h].amount <= Fare

\* A step of the request in flight keeps the totals exact and within the fare.
LEMMA RefundsExactStep ==
  ASSUME NEW h \in Handlers, OneAtATime, BookingInv, RefundsExact,
         Request(h) \/ Proceed(h) \/ SetLockUnnoticedError(h) \/ InsertBookingUnanswered(h)
           \/ CallFails(h)
  PROVE  RefundsExact'
  <1>. USE DEF BookingInv, TypeOK
  <1>1. CASE SaveRefund(h)
    <2>. DEFINE p == handler[h].payment
                total == handler[h].seen + handler[h].amount
                sum == payments[p].refunds + handler[h].amount
    <2>1. /\ p \in PaymentIds /\ handler[h].seen = payments[p].refunds
          /\ total <= Fare
      BY <1>1 DEF SaveRefund, At, RequestsSound, RefundingSound, RefundsExact
    <2>2. PICK status : payments' = [payments EXCEPT ![p] =
            [payments[p] EXCEPT !.refunds = sum, !.totalRefunded = total, !.status = status]]
      BY <1>1 DEF SaveRefund
    <2>3. total = sum
      BY <2>1
    <2>. HIDE DEF total, sum
    <2>4. /\ payments'[p].refunds = sum /\ payments'[p].totalRefunded = total
          /\ \A q \in PaymentIds \ {p} : payments'[q] = payments[q]
      BY <2>1, <2>2 DEF PaymentDocs
    <2>5. \A g \in Handlers : handler'[g].pc # "saveRefund"
      BY <1>1, AnswerFrees DEF SaveRefund, Idle, OneAtATime
    <2>. QED
      BY <2>1, <2>3, <2>4, <2>5 DEF RefundsExact, At
  <1>2. CASE SavePaid(h)
    <2>1. \A q \in PaymentIds : /\ payments'[q].refunds = payments[q].refunds
                                /\ payments'[q].totalRefunded = payments[q].totalRefunded
      BY <1>2 DEF SavePaid, PaymentDocs
    <2>2. \A g \in Handlers : handler'[g].pc # "saveRefund"
      BY <1>2, GotoMoves DEF SavePaid, PCs, VerifyPCs, OneAtATime
    <2>. QED
      BY <2>1, <2>2 DEF RefundsExact, At
  <1>3. CASE InsertPayment(h)
    <2>1. handler[h].payment \in PaymentIds /\ payments[handler[h].payment].status = "absent"
      BY <1>3 DEF InsertPayment, At, RequestsSound, InitiatingSound, InitiatePCs
    <2>2. payments[handler[h].payment] = AbsentPayment
      BY <2>1 DEF PaymentsSound
    <2>3. \A q \in PaymentIds : /\ payments'[q].refunds = payments[q].refunds
                                /\ payments'[q].totalRefunded = payments[q].totalRefunded
      <3>1. CASE payments' = payments
        BY <3>1
      <3>2. CASE payments' = [payments EXCEPT ![handler[h].payment] =
              [AbsentPayment EXCEPT !.bookingId = handler[h].booking, !.status = "initiated"]]
        BY <2>1, <2>2, <3>2 DEF AbsentPayment
      <3>. QED
        BY <1>3, <3>1, <3>2 DEF InsertPayment
    <2>4. \A g \in Handlers : handler'[g].pc # "saveRefund"
      BY <1>3, AnswerFrees DEF InsertPayment, Idle, OneAtATime
    <2>. QED
      BY <2>3, <2>4 DEF RefundsExact, At
  <1>4. CASE RefundRead(h)
    <2>1. PICK p \in PaymentIds, amount \in RefundAmounts :
            /\ amount + payments[p].totalRefunded <= Fare
            /\ Accept(h, [Idle EXCEPT !.pc = "saveRefund", !.payment = p,
                                      !.seen = payments[p].totalRefunded, !.amount = amount])
            /\ UNCHANGED payments
      BY <1>4 DEF RefundRead
    <2>2. \A g \in Handlers : /\ handler'[g].payment = p
                              /\ handler'[g].seen = payments[p].totalRefunded
                              /\ handler'[g].amount = amount
      BY <2>1 DEF Accept, Idle, OneAtATime
    <2>3. amount \in Nat /\ payments[p].totalRefunded \in Nat
      BY RefundAssumption DEF PaymentDocs
    <2>4. payments[p].totalRefunded + amount <= Fare
      BY <2>1, <2>3, FareAssumption
    <2>. QED
      BY <2>1, <2>2, <2>4 DEF RefundsExact, At
  <1>5. ASSUME UNCHANGED payments,
               \A g \in Handlers : handler'[g] = handler[g] \/ handler'[g].pc # "saveRefund"
        PROVE  RefundsExact'
    BY <1>5 DEF RefundsExact, At
  <1>6. ASSUME NEW l \in PCs \ {"saveRefund"}, Goto(h, l), UNCHANGED payments
        PROVE  RefundsExact'
    BY <1>5, <1>6, GotoMoves
  <1>7. ASSUME Answer(h), UNCHANGED payments
        PROVE  RefundsExact'
    BY <1>5, <1>7, AnswerFrees DEF Idle
  <1>8. ASSUME NEW r, Accept(h, r), r.pc # "saveRefund", UNCHANGED payments
        PROVE  RefundsExact'
    BY <1>5, <1>8 DEF Accept
  <1>9. CASE CreateRead(h) \/ InitiateRead(h) \/ VerifyRead(h) \/ CancelRead(h)
    BY <1>8, <1>9 DEF CreateRead, InitiateRead, VerifyRead, CancelRead, Idle
  <1>10. CASE CreateStep(h) \/ SetLockUnnoticedError(h) \/ InsertBookingUnanswered(h) \/ CallFails(h)
    BY <1>6, <1>7, <1>10
    DEF CreateStep, GetLock, SetLock, MarkLocked, InsertBooking, UnlockFailed, EmailCreated,
        SetLockUnnoticedError, InsertBookingUnanswered, CallFails, PCs, CreatePCs
  <1>11. CASE ConfirmStep(h) \/ CancelStep(h)
    BY <1>6, <1>7, <1>11
    DEF ConfirmStep, ConfirmRead, ConfirmBus, MarkBooked, SetConfirmed, UnlockConfirmed, EmailTicket,
        CancelStep, FreeSeats, SetCancelled, UnlockCancelled, PCs, VerifyPCs, CancelPCs
  <1>12. CASE FindExisting(h) \/ QueueInvoice(h) \/ EmailReceipt(h)
    BY <1>6, <1>7, <1>12 DEF FindExisting, QueueInvoice, EmailReceipt, PCs, InitiatePCs, VerifyPCs
  <1>. QED
    BY <1>1, <1>2, <1>3, <1>4, <1>9, <1>10, <1>11, <1>12 DEF Request, Proceed, PaymentStep

\* One request after the other, initiateRefund's check of the copy it read is a check of
\* the document it writes: no payment is refunded beyond what was paid.
THEOREM RefundsStayWithinAmount ==
  ASSUME OneAtATime
  PROVE  Spec => []RefundsWithinAmount
  <1>1. Init => RefundsExact
    BY FareAssumption DEF Init, RefundsExact, AbsentPayment, At, Idle
  <1>2. BookingInv /\ RefundsExact /\ [Next]_vars => RefundsExact'
    <2>. SUFFICES ASSUME BookingInv, RefundsExact, [Next]_vars PROVE RefundsExact'
      OBVIOUS
    <2>1. CASE Crash
      BY <2>1 DEF Crash, RefundsExact, At, Idle
    <2>2. CASE UpdateBus \/ RemoveBus \/ (\E S \in SeatLists : Expire(S)) \/ UNCHANGED vars
      BY <2>2 DEF UpdateBus, RemoveBus, Expire, vars, RefundsExact, At
    <2>. QED
      BY <2>1, <2>2, RefundsExactStep DEF Next
  <1>3. RefundsExact => RefundsWithinAmount
    BY DEF RefundsExact, RefundsWithinAmount
  <1>. QED
    BY <1>1, <1>2, <1>3, Invariance, PTL DEF Spec

-----------------------------------------------------------------------------
(* Seats *)

Exists(b) == bookings[b].status # "absent"

\* No seat belongs to two bookings, be they paid for or not.
SeatsApart ==
  \A b, c \in BookingIds :
    b # c /\ Exists(b) /\ Exists(c) => bookings[b].seats \cap bookings[c].seats = {}

\* From the check of the seats to the insert, a request asks for seats that no booking has.
Reserving == {"lockGet", "lockSet", "markLocked", "insertBooking"}
ReservedApart ==
  \A h \in Handlers : handler[h].pc \in Reserving =>
    \A b \in BookingIds : Exists(b) => bookings[b].seats \cap handler[h].seats = {}

\* confirmBooking writes the status when the seats of the booking are marked.
MarkedSound ==
  \A h \in Handlers : At(h, "setConfirmed") =>
    \A s \in bookings[handler[h].booking].seats : bus.seats[s].status = "booked"

SeatsInv == SeatsApart /\ ReservedApart /\ ConfirmedSeatsAreBooked /\ MarkedSound

\* A booking that is verified exists: its payment belongs to it.
LEMMA VerifiedExists ==
  ASSUME NEW h \in Handlers, BookingInv, handler[h].pc \in VerifyPCs
  PROVE  handler[h].booking \in BookingIds /\ Exists(handler[h].booking)
  BY NullAssumption
  DEF BookingInv, RequestsSound, VerifyingSound, PaymentsSound, AbsentPayment, Exists

\* A step that writes neither bus nor bookings disturbs only the requests that go on to
\* rely on them.
LEMMA SeatsFrame ==
  ASSUME SeatsInv, UNCHANGED <<bus, bookings>>,
         \A g \in Handlers :
           \/ handler'[g] = handler[g]
           \/ handler'[g].pc \notin Reserving \cup {"setConfirmed"}
           \/ /\ handler'[g].pc \in Reserving /\ handler[g].pc \in Reserving
              /\ handler'[g].seats = handler[g].seats
  PROVE  SeatsInv'
  <1>1. SeatsApart' /\ ConfirmedSeatsAreBooked'
    BY DEF SeatsInv, SeatsApart, ConfirmedSeatsAreBooked, Exists
  <1>2. ReservedApart' /\ MarkedSound'
    BY DEF SeatsInv, ReservedApart, MarkedSound, Exists, Reserving, At
  <1>. QED
    BY <1>1, <1>2 DEF SeatsInv

\* The seats createBooking finds available belong to no booking.
LEMMA CreateReadSeats ==
  ASSUME NEW h \in Handlers, OneAtATime, BookingInv, HoldingInv, SeatsInv, CreateRead(h)
  PROVE  SeatsInv'
  <1>1. PICK S \in SeatLists :
          /\ \A s \in S : bus.seats[s].status = "available"
          /\ handler'[h].seats = S /\ handler'[h].pc = "lockGet"
    BY DEF CreateRead, Accept, BookingInv, TypeOK, Idle
  <1>2. UNCHANGED <<bus, bookings>>
    BY DEF CreateRead
  <1>3. ASSUME NEW b \in BookingIds, Exists(b)
        PROVE  bookings[b].seats \cap S = {}
    <2>1. bookings[b].status \in {"pending", "confirmed"} /\ S \subseteq Seats
      BY <1>3 DEF Exists, HoldingInv, BookingInv, TypeOK, BookingDocs, BookingStatuses, SeatLists
    <2>. QED
      BY <1>1, <2>1 DEF HoldingInv, HeldSeatsNotAvailable
  <1>4. SeatsApart' /\ ConfirmedSeatsAreBooked'
    BY <1>2 DEF SeatsInv, SeatsApart, ConfirmedSeatsAreBooked, Exists
  <1>5. ReservedApart' /\ MarkedSound'
    BY <1>1, <1>2, <1>3 DEF ReservedApart, MarkedSound, Exists, At, OneAtATime
  <1>. QED
    BY <1>4, <1>5 DEF SeatsInv

\* createBooking marks seats of no booking: those that are booked stay booked.
LEMMA MarkLockedSeats ==
  ASSUME NEW h \in Handlers, OneAtATime, BookingInv, HoldingInv, SeatsInv, MarkLocked(h)
  PROVE  SeatsInv'
  <1>1. \A s \in Seats : s \notin handler[h].seats => bus'.seats[s] = bus.seats[s]
    BY DEF MarkLocked, SetSeats, BookingInv, TypeOK, BusDocs
  <1>2. UNCHANGED bookings
    BY DEF MarkLocked
  <1>3. \A b \in BookingIds : Exists(b) => bookings[b].seats \cap handler[h].seats = {}
    BY DEF MarkLocked, At, SeatsInv, ReservedApart, Reserving
  <1>4. handler'[h].pc = "insertBooking" /\ handler'[h].seats = handler[h].seats
    BY DEF MarkLocked, Goto, BookingInv, TypeOK, Requests
  <1>5. SeatsApart'
    BY <1>2 DEF SeatsInv, SeatsApart, Exists
  <1>6. ConfirmedSeatsAreBooked'
    BY <1>1, <1>2, <1>3
    DEF SeatsInv, ConfirmedSeatsAreBooked, Exists, BookingInv, TypeOK, BookingDocs
  <1>7. ReservedApart' /\ MarkedSound'
    BY <1>2, <1>3, <1>4 DEF ReservedApart, MarkedSound, Exists, At, OneAtATime
  <1>. QED
    BY <1>5, <1>6, <1>7 DEF SeatsInv

\* The booking that is inserted has seats that no other booking has.
LEMMA InsertBookingSeats ==
  ASSUME NEW h \in Handlers, OneAtATime, BookingInv, SeatsInv,
         InsertBooking(h) \/ InsertBookingUnanswered(h)
  PROVE  SeatsInv'
  <1>. USE DEF InsertBooking, InsertBookingUnanswered, Inserted
  <1>. DEFINE n == handler[h].booking
  <1>1. /\ bookings'[n].seats = handler[h].seats /\ bookings'[n].status = "pending"
        /\ \A b \in BookingIds \ {n} : bookings'[b] = bookings[b]
    BY DEF InsertBooking, BookingInv, TypeOK, RequestsSound, CreatingSound, CreatePCs, At
  <1>2. \A b \in BookingIds : Exists(b) => bookings[b].seats \cap handler[h].seats = {}
    BY DEF InsertBooking, At, SeatsInv, ReservedApart, Reserving
  <1>3. UNCHANGED bus /\ handler'[h].pc \in {"emailCreated", "unlockFailed"}
    BY DEF InsertBooking, Goto, BookingInv, TypeOK, Requests
  <1>. HIDE DEF n
  <1>4. SeatsApart'
    BY <1>1, <1>2 DEF SeatsInv, SeatsApart, Exists
  <1>5. ConfirmedSeatsAreBooked'
    BY <1>1, <1>3 DEF SeatsInv, ConfirmedSeatsAreBooked
  <1>6. ReservedApart' /\ MarkedSound'
    BY <1>3 DEF ReservedApart, MarkedSound, At, OneAtATime, Reserving
  <1>. QED
    BY <1>4, <1>5, <1>6 DEF SeatsInv

\* confirmBooking marks all seats of its booking, and makes no booked seat anything else.
LEMMA MarkBookedSeats ==
  ASSUME NEW h \in Handlers, OneAtATime, BookingInv, HoldingInv, SeatsInv, MarkBooked(h)
  PROVE  SeatsInv'
  <1>1. /\ \A s \in Seats : bus.seats[s].status = "booked" => bus'.seats[s].status = "booked"
        /\ \A s \in bookings[handler[h].booking].seats \cap Seats : bus'.seats[s].status = "booked"
    BY DEF MarkBooked, SetSeats, HoldingInv, BookingInv, TypeOK, BusDocs, SeatDocs
  <1>2. UNCHANGED bookings
    BY DEF MarkBooked
  <1>3. /\ handler'[h].pc = "setConfirmed" /\ handler'[h].booking = handler[h].booking
        /\ handler[h].booking \in BookingIds
    BY VerifiedExists DEF MarkBooked, Goto, At, VerifyPCs, BookingInv, TypeOK, Requests
  <1>4. \A b \in BookingIds : bookings[b].seats \subseteq Seats
    BY DEF BookingInv, TypeOK, BookingDocs
  <1>5. SeatsApart' /\ ConfirmedSeatsAreBooked'
    BY <1>1, <1>2, <1>4 DEF SeatsInv, SeatsApart, ConfirmedSeatsAreBooked, Exists
  <1>6. ReservedApart' /\ MarkedSound'
    BY <1>1, <1>2, <1>3, <1>4 DEF ReservedApart, MarkedSound, At, OneAtATime, Reserving
  <1>. QED
    BY <1>5, <1>6 DEF SeatsInv

\* The booking that becomes confirmed has had its seats marked.
LEMMA SetConfirmedSeats ==
  ASSUME NEW h \in Handlers, OneAtATime, BookingInv, SeatsInv, SetConfirmed(h)
  PROVE  SeatsInv'
  <1>. DEFINE n == handler[h].booking
  <1>1. n \in BookingIds /\ Exists(n)
    BY VerifiedExists DEF SetConfirmed, At, VerifyPCs
  <1>2. /\ bookings'[n].seats = bookings[n].seats
        /\ \A b \in BookingIds \ {n} : bookings'[b] = bookings[b]
    BY <1>1 DEF SetConfirmed, BookingInv, TypeOK, BookingDocs
  <1>3. UNCHANGED bus /\ handler'[h].pc = "unlockConfirmed"
    BY DEF SetConfirmed, Goto, BookingInv, TypeOK, Requests
  <1>4. \A s \in bookings[n].seats : bus.seats[s].status = "booked"
    BY DEF SetConfirmed, SeatsInv, MarkedSound
  <1>. HIDE DEF n
  <1>5. SeatsApart'
    BY <1>1, <1>2 DEF SeatsInv, SeatsApart, Exists
  <1>6. ConfirmedSeatsAreBooked'
    BY <1>1, <1>2, <1>3, <1>4 DEF SeatsInv, ConfirmedSeatsAreBooked
  <1>7. ReservedApart' /\ MarkedSound'
    BY <1>3 DEF ReservedApart, MarkedSound, At, OneAtATime, Reserving
  <1>. QED
    BY <1>5, <1>6, <1>7 DEF SeatsInv

\* A step of the request in flight that is no cancellation keeps the seats in order.
LEMMA SeatsStep ==
  ASSUME NEW h \in Handlers, OneAtATime, BookingInv, HoldingInv, SeatsInv, "cancel" \notin Ops,
         Request(h) \/ Proceed(h) \/ SetLockUnnoticedError(h) \/ InsertBookingUnanswered(h)
           \/ CallFails(h)
  PROVE  SeatsInv'
  <1>. USE DEF BookingInv
  <1>1. ASSUME NEW l \in PCs \ (Reserving \cup {"setConfirmed"}), Goto(h, l),
               UNCHANGED <<bus, bookings>>
        PROVE  SeatsInv'
    BY <1>1, GotoMoves, SeatsFrame
  <1>2. ASSUME NEW l \in PCs \cap Reserving, handler[h].pc \in Reserving, Goto(h, l),
               UNCHANGED <<bus, bookings>>
        PROVE  SeatsInv'
    BY <1>2, GotoMoves, SeatsFrame
  <1>3. ASSUME Answer(h), UNCHANGED <<bus, bookings>>
        PROVE  SeatsInv'
    BY <1>3, AnswerFrees, SeatsFrame DEF Idle, Reserving
  <1>4. ASSUME NEW r, Accept(h, r), r.pc \notin Reserving \cup {"setConfirmed"},
               UNCHANGED <<bus, bookings>>
        PROVE  SeatsInv'
    BY <1>4, SeatsFrame DEF Accept, TypeOK
  <1>5. ~ CancelRead(h) /\ ~ CancelStep(h)
    BY DEF CancelRead, CancelStep, FreeSeats, SetCancelled, UnlockCancelled, HoldingInv, At, CancelPCs
  <1>6. CASE Request(h)
    BY <1>4, <1>5, <1>6, CreateReadSeats
    DEF Request, InitiateRead, VerifyRead, RefundRead, Idle, Reserving
  <1>7. CASE CreateStep(h) \/ SetLockUnnoticedError(h) \/ InsertBookingUnanswered(h)
    <2>1. CASE GetLock(h)
      BY <1>2, <1>3, <2>1 DEF GetLock, At, Reserving, PCs, CreatePCs
    <2>2. CASE SetLock(h) \/ SetLockUnnoticedError(h)
      BY <1>2, <2>2 DEF SetLock, SetLockUnnoticedError, At, Reserving, PCs, CreatePCs
    <2>3. CASE UnlockFailed(h) \/ EmailCreated(h)
      BY <1>3, <2>3 DEF UnlockFailed, EmailCreated
    <2>. QED
      BY <1>7, <2>1, <2>2, <2>3, MarkLockedSeats, InsertBookingSeats DEF CreateStep
  <1>8. CASE ConfirmStep(h)
    BY <1>1, <1>3, <1>8, MarkBookedSeats, SetConfirmedSeats
    DEF ConfirmStep, ConfirmRead, ConfirmBus, UnlockConfirmed, EmailTicket, PCs, VerifyPCs, Reserving
  <1>9. CASE PaymentStep(h) \/ CallFails(h)
    BY <1>1, <1>3, <1>9
    DEF PaymentStep, FindExisting, InsertPayment, SavePaid, QueueInvoice, EmailReceipt, SaveRefund,
        CallFails, PCs, CreatePCs, InitiatePCs, VerifyPCs, Reserving
  <1>. QED
    BY <1>5, <1>6, <1>7, <1>8, <1>9 DEF Proceed

\* Where nobody cancels, edits or removes, and one request follows the other, the seats
\* stay in order, whatever fails and wherever the process stops.
LEMMA SeatsInvariance ==
  ASSUME OneAtATime, Ops \cap {"cancel", "updateBus", "removeBus"} = {}
  PROVE  Spec => []SeatsInv
  <1>1. Init => SeatsInv
    BY DEF Init, SeatsInv, SeatsApart, ReservedApart, ConfirmedSeatsAreBooked, MarkedSound,
           Exists, Reserving, AbsentBooking, At, Idle
  <1>2. BookingInv /\ HoldingInv /\ SeatsInv /\ [Next]_vars => SeatsInv'
    <2>. SUFFICES ASSUME BookingInv, HoldingInv, SeatsInv, [Next]_vars PROVE SeatsInv'
      OBVIOUS
    <2>1. ~ UpdateBus /\ ~ RemoveBus
      BY DEF UpdateBus, RemoveBus
    <2>2. CASE Crash
      BY <2>2, SeatsFrame DEF Crash, Idle, Reserving
    <2>3. CASE (\E S \in SeatLists : Expire(S)) \/ UNCHANGED vars
      BY <2>3, SeatsFrame DEF Expire, vars
    <2>. QED
      BY <2>1, <2>2, <2>3, SeatsStep DEF Next
  <1>. QED
    BY <1>1, <1>2, Invariance, Holding, PTL DEF Spec

\* One request after the other, the check of the seats is enough: no seat is sold twice.
THEOREM SeatsSoldOnce ==
  ASSUME OneAtATime, Ops \cap {"cancel", "updateBus", "removeBus"} = {}
  PROVE  Spec => []NoDoubleSale
  <1>1. SeatsInv => NoDoubleSale
    BY DEF SeatsInv, SeatsApart, Exists, NoDoubleSale
  <1>. QED
    BY <1>1, SeatsInvariance, PTL

\* One request after the other, a booking is confirmed only with all its seats marked, and
\* no later request takes the mark away.
THEOREM ConfirmedSeatsStayBooked ==
  ASSUME OneAtATime, Ops \cap {"cancel", "updateBus", "removeBus"} = {}
  PROVE  Spec => []ConfirmedSeatsAreBooked
  <1>1. SeatsInv => ConfirmedSeatsAreBooked
    BY DEF SeatsInv
  <1>. QED
    BY <1>1, SeatsInvariance, PTL

===============================================================================
