-------------------------- MODULE SeatBookingProofs --------------------------
(***************************************************************************)
(* Proofs about SeatBooking, for every set of users, bookings, payments    *)
(* and concurrent requests, every size of the bus, every operation and     *)
(* every failure.                                                          *)
(***************************************************************************)
EXTENDS SeatBooking, TLAPS

-----------------------------------------------------------------------------
(* Lemmas about the helpers of BookingState *)

\* A request that moves on keeps its locals, and the other requests are untouched.
LEMMA GotoMoves ==
  ASSUME NEW h \in Handlers, NEW l \in PCs, Goto(h, l), TypeOK
  PROVE  /\ handler' \in [Handlers -> Requests]
         /\ handler'[h].pc = l
         /\ handler'[h].user = handler[h].user
         /\ handler'[h].seats = handler[h].seats
         /\ handler'[h].booking = handler[h].booking
         /\ handler'[h].payment = handler[h].payment
         /\ handler'[h].seen = handler[h].seen
         /\ handler'[h].amount = handler[h].amount
         /\ \A g \in Handlers \ {h} : handler'[g] = handler[g]
  BY DEF Goto, TypeOK, Requests

\* An answered request leaves an idle slot, and the other requests are untouched.
LEMMA AnswerFrees ==
  ASSUME NEW h \in Handlers, Answer(h), TypeOK
  PROVE  /\ handler' \in [Handlers -> Requests]
         /\ handler'[h] = Idle
         /\ \A g \in Handlers \ {h} : handler'[g] = handler[g]
  BY DEF Answer, TypeOK, Requests, Idle, PCs

\* A request that is accepted fills its slot, and the other requests are untouched.
LEMMA AcceptFills ==
  ASSUME NEW h \in Handlers, NEW r \in Requests, Accept(h, r), TypeOK
  PROVE  /\ handler' \in [Handlers -> Requests]
         /\ handler'[h] = r
         /\ \A g \in Handlers \ {h} : handler'[g] = handler[g]
  BY DEF Accept, TypeOK

\* Seats that are set to seat documents leave a bus document.
LEMMA SetSeatsType ==
  ASSUME NEW new, \A s \in Seats : s \in DOMAIN new => new[s] \in SeatDocs,
         SetSeats(new), TypeOK
  PROVE  bus' \in BusDocs
  BY DEF SetSeats, TypeOK, BusDocs

-----------------------------------------------------------------------------
(* Every step preserves the invariant *)

\* A step keeps BookingInv, and with it that only paid bookings have booked seats.
Preserved == BookingInv' /\ (BookedSeatIsPaid => BookedSeatIsPaid')

\* The parts of the invariant about the documents hold after a step that writes none.
LEMMA DocsFrame ==
  ASSUME PaymentsSound, ConfirmedIsPaid, UNCHANGED <<bus, bookings, payments>>
  PROVE  PaymentsSound' /\ ConfirmedIsPaid' /\ (BookedSeatIsPaid => BookedSeatIsPaid')
  BY DEF PaymentsSound, ConfirmedIsPaid, BookedSeatIsPaid, IsPaidFor

\* The GET of lockSeats reads only.
LEMMA GetLockInv ==
  ASSUME NEW h \in Handlers, BookingInv, GetLock(h)
  PROVE  Preserved
  <1>1. Goto(h, "lockSet") \/ Answer(h)
    BY DEF GetLock
  <1>2. handler' \in [Handlers -> Requests]
    BY <1>1, GotoMoves, AnswerFrees
    DEF BookingInv, PCs, CreatePCs, InitiatePCs, VerifyPCs, CancelPCs
  <1>3. TypeOK'
    BY <1>2 DEF GetLock, BookingInv, TypeOK
  <1>4. RequestsSound'
    <2>1. CASE Goto(h, "lockSet")
      BY <1>3, <2>1
      DEF GetLock, BookingInv, TypeOK, RequestsSound, CreatingSound, InitiatingSound,
          VerifyingSound, CancellingSound, RefundingSound, Settling, CreatePCs, InitiatePCs,
          VerifyPCs, CancelPCs, Goto, At, Requests, Idle, PCs
    <2>2. CASE Answer(h)
      BY <1>3, <2>2, NullAssumption
      DEF GetLock, BookingInv, TypeOK, RequestsSound, CreatingSound, InitiatingSound,
          VerifyingSound, CancellingSound, RefundingSound, Settling, CreatePCs, InitiatePCs,
          VerifyPCs, CancelPCs, Answer, At, Requests, Idle, PCs
    <2>. QED
      BY <1>1, <2>1, <2>2
  <1>5. PaymentsSound' /\ ConfirmedIsPaid' /\ (BookedSeatIsPaid => BookedSeatIsPaid')
    BY DocsFrame DEF GetLock, BookingInv
  <1>. QED
    BY <1>3, <1>4, <1>5 DEF BookingInv, Preserved

\* The SETEX of lockSeats writes only the key.
LEMMA SetLockInv ==
  ASSUME NEW h \in Handlers, BookingInv, SetLock(h)
  PROVE  Preserved
  <1>1. handler' \in [Handlers -> Requests]
    BY GotoMoves DEF SetLock, BookingInv, PCs, CreatePCs, InitiatePCs, VerifyPCs, CancelPCs
  <1>2. TypeOK'
    BY <1>1
    DEF SetLock, BookingInv, TypeOK, Requests, At, RequestsSound, CreatingSound, CreatePCs
  <1>3. RequestsSound'
    BY <1>2
    DEF SetLock, BookingInv, TypeOK, RequestsSound, CreatingSound, InitiatingSound,
        VerifyingSound, CancellingSound, RefundingSound, Settling, CreatePCs, InitiatePCs,
        VerifyPCs, CancelPCs, Goto, At, Requests, Idle, PCs
  <1>4. PaymentsSound' /\ ConfirmedIsPaid' /\ (BookedSeatIsPaid => BookedSeatIsPaid')
    BY DocsFrame DEF SetLock, BookingInv
  <1>. QED
    BY <1>2, <1>3, <1>4 DEF BookingInv, Preserved

\* An unnoticed error of the SETEX writes nothing.
LEMMA SetLockUnnoticedErrorInv ==
  ASSUME NEW h \in Handlers, BookingInv, SetLockUnnoticedError(h)
  PROVE  Preserved
  <1>1. handler' \in [Handlers -> Requests]
    BY GotoMoves
    DEF SetLockUnnoticedError, BookingInv, PCs, CreatePCs, InitiatePCs, VerifyPCs,
        CancelPCs
  <1>2. TypeOK'
    BY <1>1 DEF SetLockUnnoticedError, BookingInv, TypeOK
  <1>3. RequestsSound'
    BY <1>2
    DEF SetLockUnnoticedError, BookingInv, TypeOK, RequestsSound, CreatingSound,
        InitiatingSound, VerifyingSound, CancellingSound, RefundingSound, Settling, CreatePCs,
        InitiatePCs, VerifyPCs, CancelPCs, Goto, At, Requests, Idle, PCs
  <1>4. PaymentsSound' /\ ConfirmedIsPaid' /\ (BookedSeatIsPaid => BookedSeatIsPaid')
    BY DocsFrame DEF SetLockUnnoticedError, BookingInv
  <1>. QED
    BY <1>2, <1>3, <1>4 DEF BookingInv, Preserved

\* A key that expires touches no document.
LEMMA ExpireInv ==
  ASSUME NEW S \in SeatLists, BookingInv, Expire(S)
  PROVE  Preserved
  <1>1. TypeOK'
    BY DEF Expire, Unlock, BookingInv, TypeOK
  <1>2. RequestsSound'
    BY DEF Expire, BookingInv, RequestsSound, CreatingSound, InitiatingSound,
           VerifyingSound, CancellingSound, RefundingSound, Settling, CreatePCs, InitiatePCs,
           VerifyPCs, CancelPCs
  <1>3. PaymentsSound' /\ ConfirmedIsPaid' /\ (BookedSeatIsPaid => BookedSeatIsPaid')
    BY DocsFrame DEF Expire, BookingInv
  <1>. QED
    BY <1>1, <1>2, <1>3 DEF BookingInv, Preserved

\* createBooking starts with an id that no document and no other request has.
LEMMA CreateReadInv ==
  ASSUME NEW h \in Handlers, BookingInv, CreateRead(h)
  PROVE  Preserved
  <1>1. handler' \in [Handlers -> Requests]
    BY AcceptFills, RefundAssumption
    DEF CreateRead, BookingInv, TypeOK, PaymentDocs, SeatLists, PaymentsSound, Requests,
        Idle, PCs, CreatePCs, InitiatePCs, VerifyPCs, CancelPCs
  <1>2. TypeOK'
    BY <1>1 DEF CreateRead, BookingInv, TypeOK
  <1>3. RequestsSound'
    BY <1>2, NullAssumption
    DEF CreateRead, BookingInv, TypeOK, PaymentsSound, FreshBooking, FreshPayment,
        PaymentStatuses, RequestsSound, CreatingSound, InitiatingSound, VerifyingSound,
        CancellingSound, RefundingSound, Settling, CreatePCs, InitiatePCs, VerifyPCs,
        CancelPCs, Accept, At, Requests, Idle, PCs
  <1>4. PaymentsSound' /\ ConfirmedIsPaid' /\ (BookedSeatIsPaid => BookedSeatIsPaid')
    BY DocsFrame DEF CreateRead, BookingInv
  <1>. QED
    BY <1>2, <1>3, <1>4 DEF BookingInv, Preserved

\* createBooking marks seats locked, never booked.
LEMMA MarkLockedInv ==
  ASSUME NEW h \in Handlers, BookingInv, MarkLocked(h)
  PROVE  Preserved
  <1>1. handler' \in [Handlers -> Requests]
    BY GotoMoves
    DEF MarkLocked, BookingInv, PCs, CreatePCs, InitiatePCs, VerifyPCs, CancelPCs
  <1>2. TypeOK'
    <2>1. bus' \in BusDocs
      BY SetSeatsType
      DEF MarkLocked, BookingInv, TypeOK, At, SeatDocs, SeatStatuses, BusDocs, Requests,
          RequestsSound, CreatingSound, CreatePCs
    <2>. QED
      BY <1>1, <2>1 DEF MarkLocked, BookingInv, TypeOK
  <1>3. RequestsSound'
    BY <1>2
    DEF MarkLocked, BookingInv, TypeOK, RequestsSound, CreatingSound, InitiatingSound,
        VerifyingSound, CancellingSound, RefundingSound, Settling, CreatePCs, InitiatePCs,
        VerifyPCs, CancelPCs, Goto, At, Requests, Idle, PCs
  <1>4. PaymentsSound' /\ ConfirmedIsPaid'
    BY DEF MarkLocked, BookingInv, PaymentsSound, ConfirmedIsPaid, IsPaidFor
  <1>5. BookedSeatIsPaid => BookedSeatIsPaid'
    BY SeatCountAssumption
    DEF MarkLocked, SetSeats, BookingInv, TypeOK, BusDocs, SeatDocs, BookedSeatIsPaid,
        IsPaidFor, RequestsSound, VerifyingSound, VerifyPCs, At
  <1>. QED
    BY <1>2, <1>3, <1>4, <1>5 DEF BookingInv, Preserved

\* createBooking inserts a pending booking under an id that nothing refers to.
LEMMA InsertBookingInv ==
  ASSUME NEW h \in Handlers, BookingInv, InsertBooking(h) \/ InsertBookingUnanswered(h)
  PROVE  Preserved
  <1>. DEFINE b == handler[h].booking
  <1>1. /\ b \in BookingIds /\ bookings[b].status = "absent"
        /\ \A g \in Handlers \ {h} : handler[g].booking # b
        /\ handler[h].user \in Users /\ handler[h].seats \in SeatLists
    BY DEF InsertBooking, InsertBookingUnanswered, At, BookingInv, RequestsSound, CreatingSound,
           CreatePCs
  <1>2. /\ bookings' \in [BookingIds -> BookingDocs]
        /\ bookings'[b].status = "pending"
        /\ \A c \in BookingIds \ {b} : bookings'[c] = bookings[c]
    <2>1. Inserted(h)
      BY DEF InsertBooking, InsertBookingUnanswered
    <2>. QED
      BY <1>1, <2>1 DEF Inserted, BookingInv, TypeOK, BookingDocs, BookingStatuses, SeatLists
  <1>3. PICK l \in {"emailCreated", "unlockFailed"} : Goto(h, l)
    BY DEF InsertBooking, InsertBookingUnanswered
  <1>4. /\ handler' \in [Handlers -> Requests]
        /\ handler'[h].pc = l
        /\ handler'[h].user = handler[h].user
        /\ handler'[h].seats = handler[h].seats
        /\ handler'[h].booking = b
        /\ \A g \in Handlers \ {h} : handler'[g] = handler[g]
    BY <1>3, GotoMoves DEF BookingInv, PCs, CreatePCs
  <1>5. UNCHANGED <<bus, seatLock, payments, jobs>>
    BY DEF InsertBooking, InsertBookingUnanswered
  <1>6. TypeOK'
    BY <1>2, <1>4, <1>5 DEF BookingInv, TypeOK
  <1>. HIDE DEF b
  <1>7. \A c \in BookingIds : bookings[c].status # "absent" => c # b /\ bookings'[c] = bookings[c]
    BY <1>1, <1>2
  <1>8. RequestsSound'
    <2>1. CreatingSound(h)'
      BY <1>1, <1>2, <1>4 DEF CreatingSound
    <2>2. ~ (l \in InitiatePCs \/ l \in VerifyPCs \/ l \in CancelPCs \/ l = "saveRefund")
      BY DEF InitiatePCs, VerifyPCs, CancelPCs
    <2>3. ASSUME NEW g \in Handlers \ {h}
          PROVE  /\ CreatingSound(g)' /\ InitiatingSound(g)' /\ VerifyingSound(g)'
                 /\ CancellingSound(g)' /\ RefundingSound(g)'
      <3>1. /\ CreatingSound(g) /\ InitiatingSound(g) /\ VerifyingSound(g)
            /\ CancellingSound(g) /\ RefundingSound(g)
        BY DEF BookingInv, RequestsSound
      <3>2. handler[g].booking # b /\ handler'[g] = handler[g]
        BY <1>1, <1>4
      <3>3. CreatingSound(g)'
        BY <1>2, <1>4, <3>1, <3>2 DEF CreatingSound, b
      <3>4. InitiatingSound(g)' /\ CancellingSound(g)'
        <4>1. \A f \in Handlers : handler'[f].payment = handler[f].payment
          BY <1>3, GotoMoves, <1>4 DEF BookingInv, PCs, CreatePCs
        <4>. QED
          BY <1>5, <1>7, <3>1, <3>2, <4>1 DEF InitiatingSound, CancellingSound
      <3>5. VerifyingSound(g)' /\ RefundingSound(g)'
        BY <1>2, <1>5, <3>1, <3>2 DEF VerifyingSound, RefundingSound, Settling
      <3>. QED
        BY <3>3, <3>4, <3>5
    <2>4. InitiatingSound(h)' /\ VerifyingSound(h)' /\ CancellingSound(h)' /\ RefundingSound(h)'
      BY <1>4, <2>2 DEF InitiatingSound, VerifyingSound, CancellingSound, RefundingSound
    <2>. QED
      BY <2>1, <2>3, <2>4 DEF RequestsSound
  <1>9. PaymentsSound'
    BY <1>5, <1>7 DEF BookingInv, PaymentsSound
  <1>10. ConfirmedIsPaid'
    BY <1>2, <1>5 DEF BookingInv, ConfirmedIsPaid, IsPaidFor
  <1>11. \A c \in BookingIds, p \in PaymentIds : IsPaidFor(p, c) => bookings'[c] = bookings[c]
    BY <1>1, <1>7, NullAssumption DEF BookingInv, PaymentsSound, IsPaidFor, AbsentPayment
  <1>12. BookedSeatIsPaid => BookedSeatIsPaid'
    BY <1>5, <1>11 DEF BookedSeatIsPaid, IsPaidFor
  <1>. QED
    BY <1>6, <1>8, <1>9, <1>10, <1>12 DEF BookingInv, Preserved

\* The catch block of createBooking deletes a key.
LEMMA UnlockFailedInv ==
  ASSUME NEW h \in Handlers, BookingInv, UnlockFailed(h)
  PROVE  Preserved
  <1>1. handler' \in [Handlers -> Requests]
    BY AnswerFrees DEF UnlockFailed, BookingInv
  <1>2. TypeOK'
    BY <1>1 DEF UnlockFailed, BookingInv, TypeOK, Unlock
  <1>3. RequestsSound'
    BY <1>2, NullAssumption
    DEF UnlockFailed, BookingInv, TypeOK, RequestsSound, CreatingSound, InitiatingSound,
        VerifyingSound, CancellingSound, RefundingSound, Settling, CreatePCs, InitiatePCs,
        VerifyPCs, CancelPCs, Answer, At, Requests, Idle, PCs
  <1>4. PaymentsSound' /\ ConfirmedIsPaid' /\ (BookedSeatIsPaid => BookedSeatIsPaid')
    BY DocsFrame DEF UnlockFailed, BookingInv
  <1>. QED
    BY <1>2, <1>3, <1>4 DEF BookingInv, Preserved

\* createBooking queues its email.
LEMMA EmailCreatedInv ==
  ASSUME NEW h \in Handlers, BookingInv, EmailCreated(h)
  PROVE  Preserved
  <1>1. handler' \in [Handlers -> Requests]
    BY AnswerFrees DEF EmailCreated, BookingInv
  <1>2. TypeOK'
    BY <1>1
    DEF EmailCreated, BookingInv, TypeOK, RequestsSound, CreatingSound, CreatePCs,
        JobNames, At
  <1>3. RequestsSound'
    BY <1>2, NullAssumption
    DEF EmailCreated, BookingInv, TypeOK, RequestsSound, CreatingSound, InitiatingSound,
        VerifyingSound, CancellingSound, RefundingSound, Settling, CreatePCs, InitiatePCs,
        VerifyPCs, CancelPCs, Answer, At, Requests, Idle, PCs
  <1>4. PaymentsSound' /\ ConfirmedIsPaid' /\ (BookedSeatIsPaid => BookedSeatIsPaid')
    BY DocsFrame DEF EmailCreated, BookingInv
  <1>. QED
    BY <1>2, <1>3, <1>4 DEF BookingInv, Preserved

\* confirmBooking reads the booking.
LEMMA ConfirmReadInv ==
  ASSUME NEW h \in Handlers, BookingInv, ConfirmRead(h)
  PROVE  Preserved
  <1>1. Goto(h, "confirmBus") \/ Answer(h)
    BY DEF ConfirmRead
  <1>2. handler' \in [Handlers -> Requests]
    BY <1>1, GotoMoves, AnswerFrees
    DEF BookingInv, PCs, CreatePCs, InitiatePCs, VerifyPCs, CancelPCs
  <1>3. TypeOK'
    BY <1>2 DEF ConfirmRead, BookingInv, TypeOK
  <1>4. RequestsSound'
    <2>1. CASE Goto(h, "confirmBus")
      BY <1>3, <2>1
      DEF ConfirmRead, BookingInv, TypeOK, RequestsSound, CreatingSound, InitiatingSound,
          VerifyingSound, CancellingSound, RefundingSound, Settling, CreatePCs, InitiatePCs,
          VerifyPCs, CancelPCs, Goto, At, Requests, Idle, PCs
    <2>2. CASE Answer(h)
      BY <1>3, <2>2, NullAssumption
      DEF ConfirmRead, BookingInv, TypeOK, RequestsSound, CreatingSound, InitiatingSound,
          VerifyingSound, CancellingSound, RefundingSound, Settling, CreatePCs, InitiatePCs,
          VerifyPCs, CancelPCs, Answer, At, Requests, Idle, PCs
    <2>. QED
      BY <1>1, <2>1, <2>2
  <1>5. PaymentsSound' /\ ConfirmedIsPaid' /\ (BookedSeatIsPaid => BookedSeatIsPaid')
    BY DocsFrame DEF ConfirmRead, BookingInv
  <1>. QED
    BY <1>3, <1>4, <1>5 DEF BookingInv, Preserved

\* confirmBooking reads the bus.
LEMMA ConfirmBusInv ==
  ASSUME NEW h \in Handlers, BookingInv, ConfirmBus(h)
  PROVE  Preserved
  <1>1. Goto(h, "markBooked") \/ Answer(h)
    BY DEF ConfirmBus
  <1>2. handler' \in [Handlers -> Requests]
    BY <1>1, GotoMoves, AnswerFrees
    DEF BookingInv, PCs, CreatePCs, InitiatePCs, VerifyPCs, CancelPCs
  <1>3. TypeOK'
    BY <1>2 DEF ConfirmBus, BookingInv, TypeOK
  <1>4. RequestsSound'
    <2>1. CASE Goto(h, "markBooked")
      BY <1>3, <2>1
      DEF ConfirmBus, BookingInv, TypeOK, RequestsSound, CreatingSound, InitiatingSound,
          VerifyingSound, CancellingSound, RefundingSound, Settling, CreatePCs, InitiatePCs,
          VerifyPCs, CancelPCs, Goto, At, Requests, Idle, PCs
    <2>2. CASE Answer(h)
      BY <1>3, <2>2, NullAssumption
      DEF ConfirmBus, BookingInv, TypeOK, RequestsSound, CreatingSound, InitiatingSound,
          VerifyingSound, CancellingSound, RefundingSound, Settling, CreatePCs, InitiatePCs,
          VerifyPCs, CancelPCs, Answer, At, Requests, Idle, PCs
    <2>. QED
      BY <1>1, <2>1, <2>2
  <1>5. PaymentsSound' /\ ConfirmedIsPaid' /\ (BookedSeatIsPaid => BookedSeatIsPaid')
    BY DocsFrame DEF ConfirmBus, BookingInv
  <1>. QED
    BY <1>3, <1>4, <1>5 DEF BookingInv, Preserved

\* confirmBooking marks seats booked for a booking whose payment has been saved.
LEMMA MarkBookedInv ==
  ASSUME NEW h \in Handlers, BookingInv, MarkBooked(h)
  PROVE  Preserved
  <1>1. handler' \in [Handlers -> Requests]
    BY GotoMoves
    DEF MarkBooked, BookingInv, PCs, CreatePCs, InitiatePCs, VerifyPCs, CancelPCs
  <1>2. TypeOK'
    <2>1. bus' \in BusDocs
      BY SetSeatsType
      DEF MarkBooked, BookingInv, TypeOK, At, SeatDocs, SeatStatuses, BusDocs, Requests,
          RequestsSound, CreatingSound, CreatePCs
    <2>. QED
      BY <1>1, <2>1 DEF MarkBooked, BookingInv, TypeOK
  <1>3. RequestsSound'
    BY <1>2
    DEF MarkBooked, BookingInv, TypeOK, RequestsSound, CreatingSound, InitiatingSound,
        VerifyingSound, CancellingSound, RefundingSound, Settling, CreatePCs, InitiatePCs,
        VerifyPCs, CancelPCs, Goto, At, Requests, Idle, PCs
  <1>4. PaymentsSound' /\ ConfirmedIsPaid'
    BY DEF MarkBooked, BookingInv, PaymentsSound, ConfirmedIsPaid, IsPaidFor
  <1>5. BookedSeatIsPaid => BookedSeatIsPaid'
    BY SeatCountAssumption
    DEF MarkBooked, SetSeats, BookingInv, TypeOK, BusDocs, SeatDocs, BookedSeatIsPaid,
        IsPaidFor, RequestsSound, VerifyingSound, VerifyPCs, At
  <1>. QED
    BY <1>2, <1>3, <1>4, <1>5 DEF BookingInv, Preserved

\* confirmBooking confirms a booking whose payment has been saved.
LEMMA SetConfirmedInv ==
  ASSUME NEW h \in Handlers, BookingInv, SetConfirmed(h)
  PROVE  Preserved
  <1>. DEFINE b == handler[h].booking
              p == handler[h].payment
              new == [bookings[b] EXCEPT !.status = "confirmed", !.paymentId = p]
  <1>1. /\ b \in BookingIds /\ p \in PaymentIds
        /\ payments[p].bookingId = b /\ payments[p].paid
    BY DEF SetConfirmed, At, BookingInv, RequestsSound, VerifyingSound, VerifyPCs
  <1>2. bookings' = [bookings EXCEPT ![b] = new]
    BY DEF SetConfirmed
  <1>3. /\ bookings[b] \in BookingDocs
        /\ \A c \in BookingIds : bookings'[c] = IF c = b THEN new ELSE bookings[c]
    BY <1>1, <1>2 DEF BookingInv, TypeOK
  <1>4. new \in BookingDocs /\ new.status = "confirmed" /\ new.paymentId = p /\ new.seats = bookings[b].seats
    BY <1>1, <1>3 DEF BookingDocs, BookingStatuses
  <1>5. handler' \in [Handlers -> Requests]
    BY GotoMoves
    DEF SetConfirmed, BookingInv, PCs, CreatePCs, InitiatePCs, VerifyPCs, CancelPCs
  <1>6. TypeOK'
    BY <1>2, <1>4, <1>5 DEF SetConfirmed, BookingInv, TypeOK
  <1>. HIDE DEF new
  <1>7. RequestsSound'
    BY <1>1, <1>3, <1>4, <1>6
    DEF SetConfirmed, BookingInv, TypeOK, RequestsSound, CreatingSound, InitiatingSound,
        VerifyingSound, CancellingSound, RefundingSound, Settling, CreatePCs, InitiatePCs,
        VerifyPCs, CancelPCs, Goto, At, Requests, Idle, PCs
  <1>8. PaymentsSound'
    BY <1>1, <1>3, <1>4 DEF SetConfirmed, BookingInv, PaymentsSound
  <1>9. ConfirmedIsPaid'
    BY <1>1, <1>3, <1>4 DEF SetConfirmed, BookingInv, ConfirmedIsPaid, IsPaidFor
  <1>10. BookedSeatIsPaid => BookedSeatIsPaid'
    BY <1>1, <1>3, <1>4 DEF SetConfirmed, BookingInv, BookedSeatIsPaid, IsPaidFor
  <1>. QED
    BY <1>6, <1>7, <1>8, <1>9, <1>10 DEF BookingInv, Preserved

\* confirmBooking deletes a key.
LEMMA UnlockConfirmedInv ==
  ASSUME NEW h \in Handlers, BookingInv, UnlockConfirmed(h)
  PROVE  Preserved
  <1>1. handler' \in [Handlers -> Requests]
    BY GotoMoves
    DEF UnlockConfirmed, BookingInv, PCs, CreatePCs, InitiatePCs, VerifyPCs, CancelPCs
  <1>2. TypeOK'
    BY <1>1 DEF UnlockConfirmed, BookingInv, TypeOK, Unlock
  <1>3. RequestsSound'
    BY <1>2
    DEF UnlockConfirmed, BookingInv, TypeOK, RequestsSound, CreatingSound,
        InitiatingSound, VerifyingSound, CancellingSound, RefundingSound, Settling, CreatePCs,
        InitiatePCs, VerifyPCs, CancelPCs, Goto, At, Requests, Idle, PCs
  <1>4. PaymentsSound' /\ ConfirmedIsPaid' /\ (BookedSeatIsPaid => BookedSeatIsPaid')
    BY DocsFrame DEF UnlockConfirmed, BookingInv
  <1>. QED
    BY <1>2, <1>3, <1>4 DEF BookingInv, Preserved

\* confirmBooking queues the ticket email.
LEMMA EmailTicketInv ==
  ASSUME NEW h \in Handlers, BookingInv, EmailTicket(h)
  PROVE  Preserved
  <1>1. handler' \in [Handlers -> Requests]
    BY GotoMoves
    DEF EmailTicket, BookingInv, PCs, CreatePCs, InitiatePCs, VerifyPCs, CancelPCs
  <1>2. TypeOK'
    BY <1>1
    DEF EmailTicket, BookingInv, TypeOK, RequestsSound, VerifyingSound, VerifyPCs,
        JobNames, At
  <1>3. RequestsSound'
    BY <1>2
    DEF EmailTicket, BookingInv, TypeOK, RequestsSound, CreatingSound, InitiatingSound,
        VerifyingSound, CancellingSound, RefundingSound, Settling, CreatePCs, InitiatePCs,
        VerifyPCs, CancelPCs, Goto, At, Requests, Idle, PCs
  <1>4. PaymentsSound' /\ ConfirmedIsPaid' /\ (BookedSeatIsPaid => BookedSeatIsPaid')
    BY DocsFrame DEF EmailTicket, BookingInv
  <1>. QED
    BY <1>2, <1>3, <1>4 DEF BookingInv, Preserved

\* cancelBooking reads the booking.
LEMMA CancelReadInv ==
  ASSUME NEW h \in Handlers, BookingInv, CancelRead(h)
  PROVE  Preserved
  <1>1. handler' \in [Handlers -> Requests]
    BY AcceptFills, RefundAssumption
    DEF CancelRead, BookingInv, TypeOK, PaymentDocs, SeatLists, PaymentsSound, Requests,
        Idle, PCs, CreatePCs, InitiatePCs, VerifyPCs, CancelPCs
  <1>2. TypeOK'
    BY <1>1 DEF CancelRead, BookingInv, TypeOK
  <1>3. RequestsSound'
    BY <1>2, NullAssumption
    DEF CancelRead, BookingInv, TypeOK, PaymentsSound, FreshBooking, FreshPayment,
        PaymentStatuses, RequestsSound, CreatingSound, InitiatingSound, VerifyingSound,
        CancellingSound, RefundingSound, Settling, CreatePCs, InitiatePCs, VerifyPCs,
        CancelPCs, Accept, At, Requests, Idle, PCs
  <1>4. PaymentsSound' /\ ConfirmedIsPaid' /\ (BookedSeatIsPaid => BookedSeatIsPaid')
    BY DocsFrame DEF CancelRead, BookingInv
  <1>. QED
    BY <1>2, <1>3, <1>4 DEF BookingInv, Preserved

\* cancelBooking makes seats available.
LEMMA FreeSeatsInv ==
  ASSUME NEW h \in Handlers, BookingInv, FreeSeats(h)
  PROVE  Preserved
  <1>1. handler' \in [Handlers -> Requests]
    BY GotoMoves
    DEF FreeSeats, BookingInv, PCs, CreatePCs, InitiatePCs, VerifyPCs, CancelPCs
  <1>2. TypeOK'
    <2>1. bus' \in BusDocs
      BY SetSeatsType
      DEF FreeSeats, BookingInv, TypeOK, At, SeatDocs, SeatStatuses, BusDocs, Requests,
          RequestsSound, CreatingSound, CreatePCs
    <2>. QED
      BY <1>1, <2>1 DEF FreeSeats, BookingInv, TypeOK
  <1>3. RequestsSound'
    BY <1>2
    DEF FreeSeats, BookingInv, TypeOK, RequestsSound, CreatingSound, InitiatingSound,
        VerifyingSound, CancellingSound, RefundingSound, Settling, CreatePCs, InitiatePCs,
        VerifyPCs, CancelPCs, Goto, At, Requests, Idle, PCs
  <1>4. PaymentsSound' /\ ConfirmedIsPaid'
    BY DEF FreeSeats, BookingInv, PaymentsSound, ConfirmedIsPaid, IsPaidFor
  <1>5. BookedSeatIsPaid => BookedSeatIsPaid'
    BY SeatCountAssumption
    DEF FreeSeats, SetSeats, BookingInv, TypeOK, BusDocs, SeatDocs, BookedSeatIsPaid,
        IsPaidFor, RequestsSound, VerifyingSound, VerifyPCs, At
  <1>. QED
    BY <1>2, <1>3, <1>4, <1>5 DEF BookingInv, Preserved

\* cancelBooking keeps the booking's seats and payment.
LEMMA SetCancelledInv ==
  ASSUME NEW h \in Handlers, BookingInv, SetCancelled(h)
  PROVE  Preserved
  <1>. DEFINE b == handler[h].booking
              new == [bookings[b] EXCEPT !.status = "cancelled"]
  <1>1. b \in BookingIds
    BY DEF SetCancelled, At, BookingInv, RequestsSound, CancellingSound, CancelPCs
  <1>2. bookings' = [bookings EXCEPT ![b] = new]
    BY DEF SetCancelled
  <1>3. /\ bookings[b] \in BookingDocs
        /\ \A c \in BookingIds : bookings'[c] = IF c = b THEN new ELSE bookings[c]
    BY <1>1, <1>2 DEF BookingInv, TypeOK
  <1>4. new \in BookingDocs /\ new.status = "cancelled" /\ new.seats = bookings[b].seats
    BY <1>1, <1>3 DEF BookingDocs, BookingStatuses
  <1>5. handler' \in [Handlers -> Requests]
    BY GotoMoves
    DEF SetCancelled, BookingInv, PCs, CreatePCs, InitiatePCs, VerifyPCs, CancelPCs
  <1>6. TypeOK'
    BY <1>2, <1>4, <1>5 DEF SetCancelled, BookingInv, TypeOK
  <1>. HIDE DEF new
  <1>7. RequestsSound'
    BY <1>1, <1>3, <1>4, <1>6
    DEF SetCancelled, BookingInv, TypeOK, RequestsSound, CreatingSound, InitiatingSound,
        VerifyingSound, CancellingSound, RefundingSound, Settling, CreatePCs, InitiatePCs,
        VerifyPCs, CancelPCs, Goto, At, Requests, Idle, PCs
  <1>8. PaymentsSound'
    BY <1>1, <1>3, <1>4 DEF SetCancelled, BookingInv, PaymentsSound
  <1>9. ConfirmedIsPaid'
    BY <1>1, <1>3, <1>4 DEF SetCancelled, BookingInv, ConfirmedIsPaid, IsPaidFor
  <1>10. BookedSeatIsPaid => BookedSeatIsPaid'
    BY <1>1, <1>3, <1>4 DEF SetCancelled, BookingInv, BookedSeatIsPaid, IsPaidFor
  <1>. QED
    BY <1>6, <1>7, <1>8, <1>9, <1>10 DEF BookingInv, Preserved

\* cancelBooking deletes a key.
LEMMA UnlockCancelledInv ==
  ASSUME NEW h \in Handlers, BookingInv, UnlockCancelled(h)
  PROVE  Preserved
  <1>1. handler' \in [Handlers -> Requests]
    BY AnswerFrees DEF UnlockCancelled, BookingInv
  <1>2. TypeOK'
    BY <1>1 DEF UnlockCancelled, BookingInv, TypeOK, Unlock
  <1>3. RequestsSound'
    BY <1>2, NullAssumption
    DEF UnlockCancelled, BookingInv, TypeOK, RequestsSound, CreatingSound,
        InitiatingSound, VerifyingSound, CancellingSound, RefundingSound, Settling, CreatePCs,
        InitiatePCs, VerifyPCs, CancelPCs, Answer, At, Requests, Idle, PCs
  <1>4. PaymentsSound' /\ ConfirmedIsPaid' /\ (BookedSeatIsPaid => BookedSeatIsPaid')
    BY DocsFrame DEF UnlockCancelled, BookingInv
  <1>. QED
    BY <1>2, <1>3, <1>4 DEF BookingInv, Preserved

\* initiatePayment starts with an id that no payment and no other request has.
LEMMA InitiateReadInv ==
  ASSUME NEW h \in Handlers, BookingInv, InitiateRead(h)
  PROVE  Preserved
  <1>1. handler' \in [Handlers -> Requests]
    BY AcceptFills, RefundAssumption
    DEF InitiateRead, BookingInv, TypeOK, PaymentDocs, SeatLists, PaymentsSound, Requests,
        Idle, PCs, CreatePCs, InitiatePCs, VerifyPCs, CancelPCs
  <1>2. TypeOK'
    BY <1>1 DEF InitiateRead, BookingInv, TypeOK
  <1>3. RequestsSound'
    BY <1>2, NullAssumption
    DEF InitiateRead, BookingInv, TypeOK, PaymentsSound, FreshBooking, FreshPayment,
        PaymentStatuses, RequestsSound, CreatingSound, InitiatingSound, VerifyingSound,
        CancellingSound, RefundingSound, Settling, CreatePCs, InitiatePCs, VerifyPCs,
        CancelPCs, Accept, At, Requests, Idle, PCs
  <1>4. PaymentsSound' /\ ConfirmedIsPaid' /\ (BookedSeatIsPaid => BookedSeatIsPaid')
    BY DocsFrame DEF InitiateRead, BookingInv
  <1>. QED
    BY <1>2, <1>3, <1>4 DEF BookingInv, Preserved

\* initiatePayment looks for a payment of the booking.
LEMMA FindExistingInv ==
  ASSUME NEW h \in Handlers, BookingInv, FindExisting(h)
  PROVE  Preserved
  <1>1. Goto(h, "insertPayment") \/ Answer(h)
    BY DEF FindExisting
  <1>2. handler' \in [Handlers -> Requests]
    BY <1>1, GotoMoves, AnswerFrees
    DEF BookingInv, PCs, CreatePCs, InitiatePCs, VerifyPCs, CancelPCs
  <1>3. TypeOK'
    BY <1>2 DEF FindExisting, BookingInv, TypeOK
  <1>4. RequestsSound'
    <2>1. CASE Goto(h, "insertPayment")
      BY <1>3, <2>1
      DEF FindExisting, BookingInv, TypeOK, RequestsSound, CreatingSound, InitiatingSound,
          VerifyingSound, CancellingSound, RefundingSound, Settling, CreatePCs, InitiatePCs,
          VerifyPCs, CancelPCs, Goto, At, Requests, Idle, PCs
    <2>2. CASE Answer(h)
      BY <1>3, <2>2, NullAssumption
      DEF FindExisting, BookingInv, TypeOK, RequestsSound, CreatingSound, InitiatingSound,
          VerifyingSound, CancellingSound, RefundingSound, Settling, CreatePCs, InitiatePCs,
          VerifyPCs, CancelPCs, Answer, At, Requests, Idle, PCs
    <2>. QED
      BY <1>1, <2>1, <2>2
  <1>5. PaymentsSound' /\ ConfirmedIsPaid' /\ (BookedSeatIsPaid => BookedSeatIsPaid')
    BY DocsFrame DEF FindExisting, BookingInv
  <1>. QED
    BY <1>3, <1>4, <1>5 DEF BookingInv, Preserved

\* initiatePayment inserts an unpaid payment under an id that nothing refers to.
LEMMA InsertPaymentInv ==
  ASSUME NEW h \in Handlers, BookingInv, InsertPayment(h)
  PROVE  Preserved
  <1>. DEFINE b == handler[h].booking
              p == handler[h].payment
              new == [AbsentPayment EXCEPT !.bookingId = b, !.status = "initiated"]
  <1>1. /\ b \in BookingIds /\ bookings[b].status # "absent"
        /\ p \in PaymentIds /\ payments[p].status = "absent" /\ payments[p] = AbsentPayment
        /\ \A g \in Handlers \ {h} : handler[g].payment # p
    BY DEF InsertPayment, At, BookingInv, PaymentsSound, RequestsSound, InitiatingSound,
           InitiatePCs
  <1>2. new \in PaymentDocs /\ new.status = "initiated" /\ new.bookingId = b /\ ~ new.paid
    BY <1>1 DEF PaymentDocs, PaymentStatuses, AbsentPayment
  <1>3. \/ payments' = payments
        \/ payments' = [payments EXCEPT ![p] = new]
    BY DEF InsertPayment
  <1>4. handler' \in [Handlers -> Requests]
    BY AnswerFrees DEF InsertPayment, BookingInv
  <1>5. TypeOK'
    BY <1>2, <1>3, <1>4 DEF InsertPayment, BookingInv, TypeOK
  <1>. HIDE DEF new
  <1>6. \A q \in PaymentIds : payments'[q] = payments[q] \/ (q = p /\ payments'[q] = new)
    <2>1. CASE payments' = payments
      BY <2>1
    <2>2. CASE payments' = [payments EXCEPT ![p] = new]
      BY <1>1, <2>2 DEF BookingInv, TypeOK
    <2>. QED
      BY <1>3, <2>1, <2>2
  <1>7. \A q \in PaymentIds : payments[q].paid => q # p /\ payments'[q] = payments[q]
    BY <1>1, <1>6 DEF AbsentPayment
  <1>8. RequestsSound'
    BY <1>1, <1>2, <1>5, <1>6, <1>7, NullAssumption
    DEF InsertPayment, BookingInv, TypeOK, RequestsSound, CreatingSound, InitiatingSound,
        VerifyingSound, CancellingSound, RefundingSound, Settling, CreatePCs, InitiatePCs,
        VerifyPCs, CancelPCs, AbsentPayment, Answer, At, Requests, Idle, PCs
  <1>9. PaymentsSound'
    <2>1. CASE payments' = payments
      BY <2>1 DEF InsertPayment, BookingInv, PaymentsSound
    <2>2. CASE payments' = [payments EXCEPT ![p] = new]
      <3>1. CASE payments' # payments
        <4>1. \A q \in PaymentIds : payments[q].bookingId # b
          BY <3>1 DEF InsertPayment, PaymentsOf
        <4>2. payments'[p] = new /\ \A q \in PaymentIds \ {p} : payments'[q] = payments[q]
          BY <1>1, <2>2 DEF BookingInv, TypeOK
        <4>3. UNCHANGED bookings
          BY DEF InsertPayment
        <4>. HIDE DEF b, p
        <4>4. ASSUME NEW q \in PaymentIds, payments'[q].status # "absent",
                     NEW r \in PaymentIds \ {q}
              PROVE  payments'[r].bookingId # payments'[q].bookingId
          BY <1>1, <1>2, <4>1, <4>2, <4>4, NullAssumption DEF BookingInv, PaymentsSound, AbsentPayment
        <4>. QED
          BY <1>1, <1>2, <4>2, <4>3, <4>4 DEF BookingInv, PaymentsSound
      <3>. QED
        BY <2>1, <3>1
    <2>. QED
      BY <1>3, <2>1, <2>2
  <1>10. ConfirmedIsPaid'
    BY <1>7 DEF InsertPayment, BookingInv, ConfirmedIsPaid, IsPaidFor
  <1>11. BookedSeatIsPaid => BookedSeatIsPaid'
    BY <1>7 DEF InsertPayment, BookingInv, BookedSeatIsPaid, IsPaidFor
  <1>. QED
    BY <1>5, <1>8, <1>9, <1>10, <1>11 DEF BookingInv, Preserved

\* verifyPayment starts from a payment that exists.
LEMMA VerifyReadInv ==
  ASSUME NEW h \in Handlers, BookingInv, VerifyRead(h)
  PROVE  Preserved
  <1>1. handler' \in [Handlers -> Requests]
    BY AcceptFills
    DEF VerifyRead, BookingInv, TypeOK, PaymentDocs, Requests, Idle, PCs, VerifyPCs
  <1>2. TypeOK'
    BY <1>1 DEF VerifyRead, BookingInv, TypeOK
  <1>3. RequestsSound'
    BY <1>2, NullAssumption
    DEF VerifyRead, BookingInv, TypeOK, PaymentsSound, FreshBooking, FreshPayment,
        PaymentStatuses, RequestsSound, CreatingSound, InitiatingSound, VerifyingSound,
        CancellingSound, RefundingSound, Settling, CreatePCs, InitiatePCs, VerifyPCs,
        CancelPCs, Accept, At, Requests, Idle, PCs
  <1>4. PaymentsSound' /\ ConfirmedIsPaid' /\ (BookedSeatIsPaid => BookedSeatIsPaid')
    BY DocsFrame DEF VerifyRead, BookingInv
  <1>. QED
    BY <1>2, <1>3, <1>4 DEF BookingInv, Preserved

\* verifyPayment records the payment and forgets no other.
LEMMA SavePaidInv ==
  ASSUME NEW h \in Handlers, BookingInv, SavePaid(h)
  PROVE  Preserved
  <1>. DEFINE p == handler[h].payment
              new == [payments[p] EXCEPT !.status = "success", !.paid = TRUE]
  <1>1. /\ p \in PaymentIds /\ payments[p] \in PaymentDocs
        /\ payments[p].bookingId \in BookingIds
        /\ bookings[payments[p].bookingId].status # "absent"
        /\ payments[p].status # "absent"
    BY NullAssumption
    DEF SavePaid, At, BookingInv, TypeOK, PaymentsSound, RequestsSound, VerifyingSound,
        VerifyPCs, AbsentPayment
  <1>2. payments' = [payments EXCEPT ![p] = new]
    BY DEF SavePaid
  <1>3. \A q \in PaymentIds : payments'[q] = IF q = p THEN new ELSE payments[q]
    BY <1>1, <1>2 DEF BookingInv, TypeOK
  <1>4. /\ new \in PaymentDocs /\ new.bookingId = payments[p].bookingId
        /\ new.paid /\ new.status # "absent"
    BY <1>1 DEF PaymentDocs, PaymentStatuses
  <1>5. handler' \in [Handlers -> Requests]
    BY GotoMoves, AnswerFrees
    DEF SavePaid, BookingInv, PCs, CreatePCs, InitiatePCs, VerifyPCs, CancelPCs
  <1>6. TypeOK'
    BY <1>2, <1>4, <1>5 DEF SavePaid, BookingInv, TypeOK
  <1>. HIDE DEF new
  <1>7. RequestsSound'
    BY <1>1, <1>3, <1>4, <1>6, NullAssumption
    DEF SavePaid, BookingInv, TypeOK, RequestsSound, CreatingSound, InitiatingSound,
        VerifyingSound, CancellingSound, RefundingSound, Settling, CreatePCs, InitiatePCs,
        VerifyPCs, CancelPCs, Goto, Answer, At, Requests, Idle, PCs
  <1>8. PaymentsSound'
    <2>. UNCHANGED bookings
      BY DEF SavePaid
    <2>. QED
      BY <1>1, <1>3, <1>4 DEF BookingInv, PaymentsSound
  <1>9. ConfirmedIsPaid'
    BY <1>1, <1>3, <1>4 DEF SavePaid, BookingInv, ConfirmedIsPaid, IsPaidFor
  <1>10. BookedSeatIsPaid => BookedSeatIsPaid'
    BY <1>1, <1>3, <1>4 DEF SavePaid, BookingInv, BookedSeatIsPaid, IsPaidFor
  <1>. QED
    BY <1>6, <1>7, <1>8, <1>9, <1>10 DEF BookingInv, Preserved

\* verifyPayment queues the invoice.
LEMMA QueueInvoiceInv ==
  ASSUME NEW h \in Handlers, BookingInv, QueueInvoice(h)
  PROVE  Preserved
  <1>1. handler' \in [Handlers -> Requests]
    BY GotoMoves
    DEF QueueInvoice, BookingInv, PCs, CreatePCs, InitiatePCs, VerifyPCs, CancelPCs
  <1>2. TypeOK'
    BY <1>1
    DEF QueueInvoice, BookingInv, TypeOK, RequestsSound, VerifyingSound, VerifyPCs,
        JobNames, At
  <1>3. RequestsSound'
    BY <1>2
    DEF QueueInvoice, BookingInv, TypeOK, RequestsSound, CreatingSound, InitiatingSound,
        VerifyingSound, CancellingSound, RefundingSound, Settling, CreatePCs, InitiatePCs,
        VerifyPCs, CancelPCs, Goto, At, Requests, Idle, PCs
  <1>4. PaymentsSound' /\ ConfirmedIsPaid' /\ (BookedSeatIsPaid => BookedSeatIsPaid')
    BY DocsFrame DEF QueueInvoice, BookingInv
  <1>. QED
    BY <1>2, <1>3, <1>4 DEF BookingInv, Preserved

\* verifyPayment queues the receipt.
LEMMA EmailReceiptInv ==
  ASSUME NEW h \in Handlers, BookingInv, EmailReceipt(h)
  PROVE  Preserved
  <1>1. handler' \in [Handlers -> Requests]
    BY AnswerFrees DEF EmailReceipt, BookingInv
  <1>2. TypeOK'
    BY <1>1
    DEF EmailReceipt, BookingInv, TypeOK, RequestsSound, VerifyingSound, VerifyPCs,
        JobNames, At
  <1>3. RequestsSound'
    BY <1>2, NullAssumption
    DEF EmailReceipt, BookingInv, TypeOK, RequestsSound, CreatingSound, InitiatingSound,
        VerifyingSound, CancellingSound, RefundingSound, Settling, CreatePCs, InitiatePCs,
        VerifyPCs, CancelPCs, Answer, At, Requests, Idle, PCs
  <1>4. PaymentsSound' /\ ConfirmedIsPaid' /\ (BookedSeatIsPaid => BookedSeatIsPaid')
    BY DocsFrame DEF EmailReceipt, BookingInv
  <1>. QED
    BY <1>2, <1>3, <1>4 DEF BookingInv, Preserved

\* initiateRefund starts from a payment that has been paid.
LEMMA RefundReadInv ==
  ASSUME NEW h \in Handlers, BookingInv, RefundRead(h)
  PROVE  Preserved
  <1>1. handler' \in [Handlers -> Requests]
    BY AcceptFills, RefundAssumption
    DEF RefundRead, BookingInv, TypeOK, PaymentDocs, SeatLists, PaymentsSound, Requests,
        Idle, PCs, CreatePCs, InitiatePCs, VerifyPCs, CancelPCs
  <1>2. TypeOK'
    BY <1>1 DEF RefundRead, BookingInv, TypeOK
  <1>3. RequestsSound'
    BY <1>2, NullAssumption
    DEF RefundRead, BookingInv, TypeOK, PaymentsSound, FreshBooking, FreshPayment,
        PaymentStatuses, RequestsSound, CreatingSound, InitiatingSound, VerifyingSound,
        CancellingSound, RefundingSound, Settling, CreatePCs, InitiatePCs, VerifyPCs,
        CancelPCs, Accept, At, Requests, Idle, PCs
  <1>4. PaymentsSound' /\ ConfirmedIsPaid' /\ (BookedSeatIsPaid => BookedSeatIsPaid')
    BY DocsFrame DEF RefundRead, BookingInv
  <1>. QED
    BY <1>2, <1>3, <1>4 DEF BookingInv, Preserved

\* initiateRefund leaves a payment paid.
LEMMA SaveRefundInv ==
  ASSUME NEW h \in Handlers, BookingInv, SaveRefund(h)
  PROVE  Preserved
  <1>. DEFINE p == handler[h].payment
              new == [payments[p] EXCEPT
                !.refunds = payments[p].refunds + handler[h].amount,
                !.totalRefunded = handler[h].seen + handler[h].amount,
                !.status = IF handler[h].seen + handler[h].amount >= Fare
                           THEN "refunded" ELSE "partially_refunded"]
  <1>1. /\ p \in PaymentIds /\ payments[p] \in PaymentDocs
        /\ payments[p].bookingId \in BookingIds
        /\ bookings[payments[p].bookingId].status # "absent"
        /\ payments[p].status # "absent"
    BY NullAssumption
    DEF SaveRefund, At, BookingInv, TypeOK, PaymentsSound, RequestsSound, RefundingSound,
        VerifyPCs, AbsentPayment
  <1>2. payments' = [payments EXCEPT ![p] = new]
    BY DEF SaveRefund
  <1>3. \A q \in PaymentIds : payments'[q] = IF q = p THEN new ELSE payments[q]
    BY <1>1, <1>2 DEF BookingInv, TypeOK
  <1>4. /\ new \in PaymentDocs /\ new.bookingId = payments[p].bookingId
        /\ new.paid /\ new.status # "absent"
    <2>1. handler[h].seen \in Nat /\ handler[h].amount \in Nat /\ payments[p].paid
      BY DEF SaveRefund, At, BookingInv, TypeOK, Requests, RequestsSound, RefundingSound
    <2>. DEFINE total == handler[h].seen + handler[h].amount
                sum == payments[p].refunds + handler[h].amount
                status == IF total >= Fare THEN "refunded" ELSE "partially_refunded"
    <2>2. total \in Nat /\ sum \in Nat
      BY <1>1, <2>1 DEF PaymentDocs
    <2>3. status \in PaymentStatuses /\ status # "absent"
      BY DEF PaymentStatuses
    <2>. HIDE DEF total, sum, status
    <2>4. /\ [payments[p] EXCEPT !.refunds = sum, !.totalRefunded = total, !.status = status]
               \in PaymentDocs
          /\ new = [payments[p] EXCEPT !.refunds = sum, !.totalRefunded = total, !.status = status]
      BY <1>1, <2>2, <2>3 DEF PaymentDocs, total, sum, status
    <2>. QED
      BY <1>1, <2>1, <2>3, <2>4 DEF PaymentDocs
  <1>5. handler' \in [Handlers -> Requests]
    BY GotoMoves, AnswerFrees
    DEF SaveRefund, BookingInv, PCs, CreatePCs, InitiatePCs, VerifyPCs, CancelPCs
  <1>6. TypeOK'
    BY <1>2, <1>4, <1>5 DEF SaveRefund, BookingInv, TypeOK
  <1>. HIDE DEF new
  <1>7. RequestsSound'
    BY <1>1, <1>3, <1>4, <1>6, NullAssumption
    DEF SaveRefund, BookingInv, TypeOK, RequestsSound, CreatingSound, InitiatingSound,
        VerifyingSound, CancellingSound, RefundingSound, Settling, CreatePCs, InitiatePCs,
        VerifyPCs, CancelPCs, Goto, Answer, At, Requests, Idle, PCs
  <1>8. PaymentsSound'
    <2>. UNCHANGED bookings
      BY DEF SaveRefund
    <2>. QED
      BY <1>1, <1>3, <1>4 DEF BookingInv, PaymentsSound
  <1>9. ConfirmedIsPaid'
    BY <1>1, <1>3, <1>4 DEF SaveRefund, BookingInv, ConfirmedIsPaid, IsPaidFor
  <1>10. BookedSeatIsPaid => BookedSeatIsPaid'
    BY <1>1, <1>3, <1>4 DEF SaveRefund, BookingInv, BookedSeatIsPaid, IsPaidFor
  <1>. QED
    BY <1>6, <1>7, <1>8, <1>9, <1>10 DEF BookingInv, Preserved

\* An operator's edit touches no booking and no payment, and books no seat it may not book.
LEMMA UpdateBusInv ==
  ASSUME BookingInv, UpdateBus
  PROVE  /\ BookingInv'
         /\ "booked" \notin OperatorStatuses /\ BookedSeatIsPaid => BookedSeatIsPaid'
  <1>1. PICK st \in {"active", "delayed"}, seats \in {bus.seats} \cup SeatArrays :
           bus' = [status |-> st, seats |-> seats]
    BY DEF UpdateBus
  <1>2. bus' \in BusDocs
    BY <1>1, InputAssumption
    DEF BookingInv, TypeOK, BusDocs, SeatArrays, SeatDocs, SeatStatuses
  <1>3. "booked" \notin OperatorStatuses =>
          \A s \in Seats : bus'.seats[s].status = "booked" => bus.seats[s].status = "booked"
    BY <1>1 DEF SeatArrays
  <1>4. TypeOK' /\ RequestsSound'
    BY <1>2
    DEF UpdateBus, BookingInv, TypeOK, RequestsSound, CreatingSound, InitiatingSound,
        VerifyingSound, CancellingSound, RefundingSound, Settling, CreatePCs, InitiatePCs,
        VerifyPCs, CancelPCs
  <1>5. /\ PaymentsSound' /\ ConfirmedIsPaid'
        /\ "booked" \notin OperatorStatuses /\ BookedSeatIsPaid => BookedSeatIsPaid'
    BY <1>3
    DEF UpdateBus, BookingInv, PaymentsSound, ConfirmedIsPaid, BookedSeatIsPaid, IsPaidFor
  <1>. QED
    BY <1>4, <1>5 DEF BookingInv

\* Removing the bus touches no booking and no payment.
LEMMA RemoveBusInv ==
  ASSUME BookingInv, RemoveBus
  PROVE  Preserved
  <1>1. bus' \in BusDocs /\ bus'.seats = bus.seats
    BY DEF RemoveBus, BookingInv, TypeOK, BusDocs
  <1>2. TypeOK' /\ RequestsSound'
    BY <1>1
    DEF RemoveBus, BookingInv, TypeOK, RequestsSound, CreatingSound, InitiatingSound,
        VerifyingSound, CancellingSound, RefundingSound, Settling, CreatePCs, InitiatePCs,
        VerifyPCs, CancelPCs
  <1>3. PaymentsSound' /\ ConfirmedIsPaid' /\ (BookedSeatIsPaid => BookedSeatIsPaid')
    BY <1>1
    DEF RemoveBus, BookingInv, PaymentsSound, ConfirmedIsPaid, BookedSeatIsPaid, IsPaidFor
  <1>. QED
    BY <1>2, <1>3 DEF BookingInv, Preserved

\* A call that fails writes nothing.
LEMMA CallFailsInv ==
  ASSUME NEW h \in Handlers, BookingInv, CallFails(h)
  PROVE  Preserved
  <1>1. \/ Goto(h, "unlockFailed") /\ handler[h].pc \in {"markLocked", "insertBooking"}
        \/ Answer(h)
    BY DEF CallFails
  <1>2. handler' \in [Handlers -> Requests]
    BY <1>1, GotoMoves, AnswerFrees
    DEF BookingInv, PCs, CreatePCs, InitiatePCs, VerifyPCs, CancelPCs
  <1>3. TypeOK'
    BY <1>2 DEF CallFails, BookingInv, TypeOK
  <1>4. RequestsSound'
    <2>1. CASE Goto(h, "unlockFailed") /\ handler[h].pc \in {"markLocked", "insertBooking"}
      BY <1>3, <2>1
      DEF CallFails, BookingInv, TypeOK, RequestsSound, CreatingSound, InitiatingSound,
          VerifyingSound, CancellingSound, RefundingSound, Settling, CreatePCs, InitiatePCs,
          VerifyPCs, CancelPCs, Goto, Requests, Idle, PCs
    <2>2. CASE Answer(h)
      BY <1>3, <2>2, NullAssumption
      DEF CallFails, BookingInv, TypeOK, RequestsSound, CreatingSound, InitiatingSound,
          VerifyingSound, CancellingSound, RefundingSound, Settling, CreatePCs, InitiatePCs,
          VerifyPCs, CancelPCs, Answer, Requests, Idle, PCs
    <2>. QED
      BY <1>1, <2>1, <2>2
  <1>5. PaymentsSound' /\ ConfirmedIsPaid' /\ (BookedSeatIsPaid => BookedSeatIsPaid')
    BY DocsFrame DEF CallFails, BookingInv
  <1>. QED
    BY <1>3, <1>4, <1>5 DEF BookingInv, Preserved

\* A crash forgets the requests and keeps the documents.
LEMMA CrashInv ==
  ASSUME BookingInv, Crash
  PROVE  Preserved
  <1>1. TypeOK'
    BY DEF Crash, BookingInv, TypeOK, Requests, Idle, PCs
  <1>2. RequestsSound'
    BY DEF Crash, Idle, RequestsSound, CreatingSound, InitiatingSound, VerifyingSound,
           CancellingSound, RefundingSound, Settling, CreatePCs, InitiatePCs, VerifyPCs,
           CancelPCs
  <1>3. PaymentsSound' /\ ConfirmedIsPaid' /\ (BookedSeatIsPaid => BookedSeatIsPaid')
    BY DocsFrame DEF Crash, BookingInv
  <1>. QED
    BY <1>1, <1>2, <1>3 DEF BookingInv, Preserved

\* A step of one request preserves the invariant.
LEMMA RequestInv ==
  ASSUME NEW h \in Handlers, BookingInv,
         Request(h) \/ Proceed(h) \/ SetLockUnnoticedError(h) \/ InsertBookingUnanswered(h)
           \/ CallFails(h)
  PROVE  Preserved
  <1>1. CASE Request(h)
    BY <1>1, CreateReadInv, InitiateReadInv, VerifyReadInv, RefundReadInv, CancelReadInv DEF Request
  <1>2. CASE CreateStep(h)
    BY <1>2, GetLockInv, SetLockInv, MarkLockedInv, InsertBookingInv, UnlockFailedInv,
       EmailCreatedInv DEF CreateStep
  <1>3. CASE ConfirmStep(h)
    BY <1>3, ConfirmReadInv, ConfirmBusInv, MarkBookedInv, SetConfirmedInv, UnlockConfirmedInv,
       EmailTicketInv DEF ConfirmStep
  <1>4. CASE CancelStep(h)
    BY <1>4, FreeSeatsInv, SetCancelledInv, UnlockCancelledInv DEF CancelStep
  <1>5. CASE PaymentStep(h)
    BY <1>5, FindExistingInv, InsertPaymentInv, SavePaidInv, QueueInvoiceInv, EmailReceiptInv,
       SaveRefundInv DEF PaymentStep
  <1>6. CASE SetLockUnnoticedError(h) \/ InsertBookingUnanswered(h) \/ CallFails(h)
    BY <1>6, SetLockUnnoticedErrorInv, InsertBookingInv, CallFailsInv
  <1>. QED
    BY <1>1, <1>2, <1>3, <1>4, <1>5, <1>6 DEF Proceed

\* The initial state satisfies the invariant.
LEMMA InitInv == Init => BookingInv /\ BookedSeatIsPaid
  <1>1. Init => TypeOK
    BY SeatCountAssumption
    DEF Init, TypeOK, BusDocs, SeatDocs, SeatStatuses, BookingDocs, BookingStatuses,
        AbsentBooking, PaymentDocs, PaymentStatuses, AbsentPayment, Requests, Idle, PCs
  <1>2. Init => RequestsSound /\ PaymentsSound
    BY DEF Init, Idle, AbsentBooking, AbsentPayment, RequestsSound, CreatingSound,
           InitiatingSound, VerifyingSound, CancellingSound, RefundingSound, PaymentsSound,
           CreatePCs, InitiatePCs, VerifyPCs, CancelPCs
  <1>3. Init => ConfirmedIsPaid /\ BookedSeatIsPaid
    BY DEF Init, AbsentBooking, ConfirmedIsPaid, BookedSeatIsPaid
  <1>. QED
    BY <1>1, <1>2, <1>3 DEF BookingInv

\* Every step, and every stuttering step, preserves the invariant.
LEMMA NextInv ==
  ASSUME BookingInv, [Next]_vars
  PROVE  /\ BookingInv'
         /\ "booked" \notin OperatorStatuses /\ BookedSeatIsPaid => BookedSeatIsPaid'
  <1>1. ASSUME NEW h \in Handlers,
               Request(h) \/ Proceed(h) \/ SetLockUnnoticedError(h) \/ InsertBookingUnanswered(h)
           \/ CallFails(h)
        PROVE  Preserved
    BY <1>1, RequestInv
  <1>2. ASSUME NEW S \in SeatLists, Expire(S) PROVE Preserved
    BY <1>2, ExpireInv
  <1>3. CASE UpdateBus
    BY <1>3, UpdateBusInv
  <1>4. CASE RemoveBus \/ Crash
    BY <1>4, RemoveBusInv, CrashInv DEF Preserved
  <1>5. CASE UNCHANGED vars
    <2>1. TypeOK' /\ RequestsSound' /\ PaymentsSound' /\ ConfirmedIsPaid'
      BY <1>5 DEF vars, BookingInv, TypeOK, RequestsSound, CreatingSound, InitiatingSound,
                  VerifyingSound, CancellingSound, RefundingSound, PaymentsSound,
                  ConfirmedIsPaid, IsPaidFor
    <2>2. BookedSeatIsPaid => BookedSeatIsPaid'
      BY <1>5 DEF vars, BookedSeatIsPaid, IsPaidFor
    <2>. QED
      BY <2>1, <2>2 DEF BookingInv
  <1>. QED
    BY <1>1, <1>2, <1>3, <1>4, <1>5 DEF Next, Preserved

-----------------------------------------------------------------------------
(* Theorems *)

\* The requests in flight agree with the documents, in every reachable state.
THEOREM Invariance == Spec => []BookingInv
  <1>1. Init => BookingInv
    BY InitInv
  <1>2. BookingInv /\ [Next]_vars => BookingInv'
    BY NextInv
  <1>. QED
    BY <1>1, <1>2, PTL DEF Spec

\* Every document, lock, job and request keeps its type.
THEOREM TypeCorrect == Spec => []TypeOK
  <1>1. BookingInv => TypeOK
    BY DEF BookingInv
  <1>. QED
    BY <1>1, Invariance, PTL

\* No race and no failure confirms a booking that has not been paid.
THEOREM ConfirmedBookingsArePaid == Spec => []ConfirmedIsPaid
  <1>1. BookingInv => ConfirmedIsPaid
    BY DEF BookingInv
  <1>. QED
    BY <1>1, Invariance, PTL

\* If operators do not mark seats booked by hand, a booked seat is one that a paid
\* booking lists.
THEOREM BookedSeatsArePaid ==
  ASSUME "booked" \notin OperatorStatuses
  PROVE  Spec => []BookedSeatIsPaid
  <1>1. Init => BookedSeatIsPaid
    BY InitInv
  <1>2. BookingInv /\ BookedSeatIsPaid /\ [Next]_vars => BookedSeatIsPaid'
    BY NextInv
  <1>. QED
    BY <1>1, <1>2, Invariance, PTL DEF Spec

-----------------------------------------------------------------------------
(* Refinement of BookingLifecycle *)

\* What a step of the services is for BookingLifecycle.
LifecycleStep == Lifecycle!LNext \/ UNCHANGED <<Stage, Paid, Issued>>

\* A step that writes no booking, pays nothing and issues nothing is a stutter.
LEMMA Stutter ==
  ASSUME UNCHANGED bookings,
         \A p \in PaymentIds : /\ payments'[p].paid = payments[p].paid
                               /\ payments[p].paid => payments'[p].bookingId = payments[p].bookingId,
         \A j \in Issuing, b \in BookingIds : <<j, b>> \in jobs' <=> <<j, b>> \in jobs
  PROVE  UNCHANGED <<Stage, Paid, Issued>>
  <1>1. Stage' = Stage
    BY DEF Stage
  <1>2. \A p \in PaymentIds, b \in BookingIds : IsPaidFor(p, b)' <=> IsPaidFor(p, b)
    BY DEF IsPaidFor
  <1>3. Paid' = Paid
    BY <1>2 DEF Paid
  <1>4. Issued' = Issued
    BY DEF Issued
  <1>. QED
    BY <1>1, <1>3, <1>4

\* So is a step that writes neither collection and queues no job.
LEMMA NothingWritten ==
  ASSUME UNCHANGED <<bookings, payments, jobs>>
  PROVE  LifecycleStep
  BY Stutter DEF LifecycleStep

\* InsertBooking creates its booking.
LEMMA InsertBookingStep ==
  ASSUME NEW h \in Handlers, BookingInv, InsertBooking(h) \/ InsertBookingUnanswered(h)
  PROVE  LifecycleStep
  <1>. USE DEF InsertBooking, InsertBookingUnanswered, Inserted
  <1>. DEFINE b == handler[h].booking
  <1>1. b \in BookingIds /\ bookings[b].status = "absent"
    BY DEF At, BookingInv, RequestsSound, CreatingSound, CreatePCs
  <1>2. Stage' = [Stage EXCEPT ![b] = "pending"]
    <2>1. /\ bookings'[b].status = "pending"
          /\ \A c \in BookingIds \ {b} : bookings'[c] = bookings[c]
      BY <1>1 DEF BookingInv, TypeOK
    <2>. QED
      BY <1>1, <2>1 DEF Stage
  <1>3. UNCHANGED <<Paid, Issued>>
    BY DEF InsertBooking, Paid, IsPaidFor, Issued
  <1>4. Lifecycle!Create(b)
    BY <1>1, <1>2, <1>3 DEF Lifecycle!Create, Stage
  <1>. QED
    BY <1>1, <1>4 DEF LifecycleStep, Lifecycle!LNext

\* SetConfirmed confirms a booking that has been paid, unless it is confirmed already.
LEMMA SetConfirmedStep ==
  ASSUME NEW h \in Handlers, BookingInv, SetConfirmed(h)
  PROVE  LifecycleStep
  <1>. DEFINE b == handler[h].booking
  <1>1. b \in BookingIds /\ bookings[b].status \in {"pending", "confirmed", "cancelled"} /\ b \in Paid
    BY NullAssumption
    DEF SetConfirmed, At, BookingInv, TypeOK, BookingDocs, BookingStatuses, RequestsSound,
        VerifyingSound, VerifyPCs, PaymentsSound, AbsentPayment, Paid, IsPaidFor
  <1>2. Stage' = [Stage EXCEPT ![b] = "confirmed"]
    <2>1. \A c \in BookingIds :
            bookings'[c].status = IF c = b THEN "confirmed" ELSE bookings[c].status
      BY <1>1 DEF SetConfirmed, BookingInv, TypeOK, BookingDocs
    <2>. QED
      BY <1>1, <2>1 DEF Stage
  <1>3. UNCHANGED <<Paid, Issued>>
    BY DEF SetConfirmed, Paid, IsPaidFor, Issued
  <1>4. CASE bookings[b].status = "confirmed"
    <2>1. Stage' = Stage
      BY <1>1, <1>2, <1>4 DEF Stage
    <2>. QED
      BY <1>3, <2>1 DEF LifecycleStep
  <1>5. CASE bookings[b].status \in {"pending", "cancelled"}
    <2>1. Lifecycle!Confirm(b)
      BY <1>1, <1>2, <1>3, <1>5 DEF Lifecycle!Confirm, Stage
    <2>. QED
      BY <1>1, <2>1 DEF LifecycleStep, Lifecycle!LNext
  <1>. QED
    BY <1>1, <1>4, <1>5

\* SetCancelled cancels its booking, unless it is cancelled already.
LEMMA SetCancelledStep ==
  ASSUME NEW h \in Handlers, BookingInv, SetCancelled(h)
  PROVE  LifecycleStep
  <1>. DEFINE b == handler[h].booking
  <1>1. b \in BookingIds /\ bookings[b].status \in {"pending", "confirmed", "cancelled"}
    BY DEF SetCancelled, At, BookingInv, TypeOK, BookingDocs, BookingStatuses, RequestsSound,
           CancellingSound, CancelPCs
  <1>2. Stage' = [Stage EXCEPT ![b] = "cancelled"]
    <2>1. \A c \in BookingIds :
            bookings'[c].status = IF c = b THEN "cancelled" ELSE bookings[c].status
      BY <1>1 DEF SetCancelled, BookingInv, TypeOK, BookingDocs
    <2>. QED
      BY <1>1, <2>1 DEF Stage
  <1>3. UNCHANGED <<Paid, Issued>>
    BY DEF SetCancelled, Paid, IsPaidFor, Issued
  <1>4. CASE bookings[b].status = "cancelled"
    <2>1. Stage' = Stage
      BY <1>1, <1>2, <1>4 DEF Stage
    <2>. QED
      BY <1>3, <2>1 DEF LifecycleStep
  <1>5. CASE bookings[b].status \in {"pending", "confirmed"}
    <2>1. Lifecycle!Cancel(b)
      BY <1>1, <1>2, <1>3, <1>5 DEF Lifecycle!Cancel, Stage
    <2>. QED
      BY <1>1, <2>1 DEF LifecycleStep, Lifecycle!LNext
  <1>. QED
    BY <1>1, <1>4, <1>5

\* InsertPayment pays nothing.
LEMMA InsertPaymentStep ==
  ASSUME NEW h \in Handlers, BookingInv, InsertPayment(h)
  PROVE  LifecycleStep
  <1>. DEFINE p == handler[h].payment
              new == [AbsentPayment EXCEPT !.bookingId = handler[h].booking, !.status = "initiated"]
  <1>1. p \in PaymentIds /\ payments[p] = AbsentPayment /\ ~ payments[p].paid
    <2>1. p \in PaymentIds /\ payments[p].status = "absent"
      BY DEF InsertPayment, At, BookingInv, RequestsSound, InitiatingSound, InitiatePCs
    <2>2. payments[p] = AbsentPayment
      BY <2>1 DEF BookingInv, PaymentsSound
    <2>. QED
      BY <2>1, <2>2 DEF AbsentPayment
  <1>2. payments' = payments \/ payments' = [payments EXCEPT ![p] = new]
    BY DEF InsertPayment
  <1>3. ~ new.paid
    BY DEF AbsentPayment
  <1>. HIDE DEF new
  <1>4. \A q \in PaymentIds : payments'[q] = payments[q] \/ (q = p /\ payments'[q] = new)
    <2>1. CASE payments' = payments
      BY <2>1
    <2>2. CASE payments' = [payments EXCEPT ![p] = new]
      BY <1>1, <2>2 DEF BookingInv, TypeOK
    <2>. QED
      BY <1>2, <2>1, <2>2
  <1>5. \A q \in PaymentIds : /\ payments'[q].paid = payments[q].paid
                              /\ payments[q].paid => payments'[q].bookingId = payments[q].bookingId
    <2>1. payments[p].paid = FALSE /\ new.paid = FALSE
      BY <1>1, <1>3 DEF AbsentPayment, new
    <2>. QED
      BY <1>1, <1>4, <2>1
  <1>. QED
    BY <1>5, Stutter DEF InsertPayment, LifecycleStep

\* SavePaid pays the booking of its payment, unless it is paid already.
LEMMA SavePaidStep ==
  ASSUME NEW h \in Handlers, BookingInv, SavePaid(h)
  PROVE  LifecycleStep
  <1>. DEFINE p == handler[h].payment
              b == handler[h].booking
              new == [payments[p] EXCEPT !.status = "success", !.paid = TRUE]
  <1>1. /\ p \in PaymentIds /\ b \in BookingIds /\ payments[p].bookingId = b
        /\ payments[p] \in PaymentDocs /\ bookings[b].status # "absent"
    BY NullAssumption
    DEF SavePaid, At, BookingInv, TypeOK, RequestsSound, VerifyingSound, VerifyPCs,
        PaymentsSound, AbsentPayment
  <1>2. \A q \in PaymentIds : payments'[q] = IF q = p THEN new ELSE payments[q]
    BY <1>1 DEF SavePaid, BookingInv, TypeOK
  <1>3. new.bookingId = b /\ new.paid
    BY <1>1 DEF PaymentDocs
  <1>. HIDE DEF new
  <1>4. \A q \in PaymentIds, c \in BookingIds :
          IsPaidFor(q, c)' <=> IsPaidFor(q, c) \/ (q = p /\ c = b)
    BY <1>1, <1>2, <1>3 DEF IsPaidFor
  <1>5. Paid' = Paid \cup {b}
    BY <1>1, <1>4 DEF Paid
  <1>6. UNCHANGED <<Stage, Issued>>
    BY DEF SavePaid, Stage, Issued
  <1>7. CASE b \in Paid
    <2>1. Paid' = Paid
      BY <1>5, <1>7
    <2>. QED
      BY <1>6, <2>1 DEF LifecycleStep
  <1>8. CASE b \notin Paid
    <2>1. Lifecycle!Pay(b)
      BY <1>1, <1>5, <1>6, <1>8 DEF Lifecycle!Pay, Stage
    <2>. QED
      BY <1>1, <2>1 DEF LifecycleStep, Lifecycle!LNext
  <1>. QED
    BY <1>7, <1>8

\* SaveRefund leaves its payment paid.
LEMMA SaveRefundStep ==
  ASSUME NEW h \in Handlers, BookingInv, SaveRefund(h)
  PROVE  LifecycleStep
  <1>. DEFINE p == handler[h].payment
  <1>1. p \in PaymentIds /\ payments \in [PaymentIds -> PaymentDocs]
    BY DEF SaveRefund, At, BookingInv, TypeOK, RequestsSound, RefundingSound
  <1>2. PICK refunds, total, status :
          payments' = [payments EXCEPT ![p] =
            [payments[p] EXCEPT !.refunds = refunds, !.totalRefunded = total, !.status = status]]
    BY DEF SaveRefund
  <1>3. \A q \in PaymentIds : /\ payments'[q].paid = payments[q].paid
                              /\ payments'[q].bookingId = payments[q].bookingId
    BY <1>1, <1>2 DEF PaymentDocs
  <1>. QED
    BY <1>3, Stutter DEF SaveRefund, LifecycleStep

\* The ticket, the invoice and the receipt are issued for a booking that has been paid
\* and confirmed.
LEMMA IssueStep ==
  ASSUME NEW h \in Handlers, BookingInv, NEW j \in Issuing,
         handler[h].pc \in {"emailTicket", "queueInvoice", "emailReceipt"},
         jobs' = jobs \cup {<<j, handler[h].booking>>}, UNCHANGED <<bookings, payments>>
  PROVE  LifecycleStep
  <1>. DEFINE b == handler[h].booking
  <1>1. b \in BookingIds /\ bookings[b].status \in {"confirmed", "cancelled"} /\ b \in Paid
    BY DEF BookingInv, RequestsSound, VerifyingSound, VerifyPCs, Settling, Paid, IsPaidFor
  <1>2. Issued' = Issued \cup {b}
    <2>1. \A c \in BookingIds : (\E i \in Issuing : <<i, c>> \in jobs')
            <=> (\E i \in Issuing : <<i, c>> \in jobs) \/ c = b
      OBVIOUS
    <2>. QED
      BY <1>1, <2>1 DEF Issued
  <1>3. UNCHANGED <<Stage, Paid>>
    BY DEF Stage, Paid, IsPaidFor
  <1>4. Lifecycle!Issue(b)
    BY <1>1, <1>2, <1>3 DEF Lifecycle!Issue, Stage
  <1>. QED
    BY <1>1, <1>4 DEF LifecycleStep, Lifecycle!LNext

\* A step of one request is a step of the lifecycle or a stutter.
LEMMA RequestStep ==
  ASSUME NEW h \in Handlers, BookingInv,
         Request(h) \/ Proceed(h) \/ SetLockUnnoticedError(h) \/ InsertBookingUnanswered(h)
           \/ CallFails(h)
  PROVE  LifecycleStep
  <1>1. CASE Request(h) \/ SetLockUnnoticedError(h) \/ CallFails(h)
    BY <1>1, NothingWritten
    DEF Request, CreateRead, InitiateRead, VerifyRead, RefundRead, CancelRead,
        SetLockUnnoticedError, CallFails
  <1>2. CASE CreateStep(h)
    <2>1. CASE EmailCreated(h)
      <3>1. \A j \in Issuing, b \in BookingIds : <<j, b>> \in jobs' <=> <<j, b>> \in jobs
        BY <2>1 DEF EmailCreated, Issuing
      <3>. QED
        BY <2>1, <3>1, Stutter DEF EmailCreated, LifecycleStep
    <2>. QED
      BY <1>2, <2>1, InsertBookingStep, NothingWritten
      DEF CreateStep, GetLock, SetLock, MarkLocked, UnlockFailed
  <1>3. CASE ConfirmStep(h)
    <2>1. CASE EmailTicket(h)
      BY <2>1, IssueStep DEF EmailTicket, At, Issuing
    <2>. QED
      BY <1>3, <2>1, SetConfirmedStep, NothingWritten
      DEF ConfirmStep, ConfirmRead, ConfirmBus, MarkBooked, UnlockConfirmed
  <1>4. CASE CancelStep(h)
    BY <1>4, SetCancelledStep, NothingWritten DEF CancelStep, FreeSeats, UnlockCancelled
  <1>5. CASE PaymentStep(h)
    <2>1. CASE QueueInvoice(h)
      BY <2>1, IssueStep DEF QueueInvoice, At, Issuing
    <2>2. CASE EmailReceipt(h)
      BY <2>2, IssueStep DEF EmailReceipt, At, Issuing
    <2>. QED
      BY <1>5, <2>1, <2>2, InsertPaymentStep, SavePaidStep, SaveRefundStep, NothingWritten
      DEF PaymentStep, FindExisting
  <1>. QED
    BY <1>1, <1>2, <1>3, <1>4, <1>5, InsertBookingStep DEF Proceed

\* The services implement BookingLifecycle, whatever requests race and whatever fails.
THEOREM Refinement == Spec => LifecycleSpec
  <1>1. Init => Lifecycle!LInit
    BY DEF Init, Lifecycle!LInit, Stage, Paid, Issued, IsPaidFor, AbsentBooking, AbsentPayment
  <1>2. BookingInv /\ [Next]_vars => [Lifecycle!LNext]_(Lifecycle!lifecycleVars)
    <2>. SUFFICES ASSUME BookingInv, [Next]_vars PROVE LifecycleStep
      BY DEF LifecycleStep, Lifecycle!lifecycleVars
    <2>1. CASE \E S \in SeatLists : Expire(S)
      BY <2>1, NothingWritten DEF Expire
    <2>2. CASE UpdateBus \/ RemoveBus \/ Crash \/ UNCHANGED vars
      BY <2>2, NothingWritten DEF UpdateBus, RemoveBus, Crash, vars
    <2>. QED
      BY <2>1, <2>2, RequestStep DEF Next
  <1>. QED
    BY <1>1, <1>2, Invariance, PTL DEF Spec, LifecycleSpec, Lifecycle!LSpec

-----------------------------------------------------------------------------
(* Withdrawn bookings *)

\* What WithdrawnIsFinal asks of one step.
WithdrawnKept == \A b \in BookingIds : Withdrawn(b) => Withdrawn(b)'

\* A step that takes no cancellation back, and lets no request but those of pending
\* bookings past the check of confirmBooking, keeps the withdrawn bookings.
LEMMA WithdrawnFrame ==
  ASSUME \A b \in BookingIds : bookings[b].status = "cancelled" /\ Withdrawn(b)
           => bookings'[b].status = "cancelled",
         \A g \in Handlers :
           \/ handler'[g] = handler[g]
           \/ handler'[g].pc \notin Confirming
           \/ /\ handler'[g].booking = handler[g].booking
              /\ \/ handler[g].pc \in Confirming
                 \/ bookings[handler[g].booking].status = "pending"
  PROVE  WithdrawnKept
  BY DEF WithdrawnKept, Withdrawn

\* A step of one request, whatever the others are doing, takes no withdrawal back.
LEMMA WithdrawnStep ==
  ASSUME NEW h \in Handlers, BookingInv,
         Request(h) \/ Proceed(h) \/ SetLockUnnoticedError(h) \/ InsertBookingUnanswered(h)
           \/ CallFails(h)
  PROVE  WithdrawnKept
  <1>. USE DEF BookingInv, TypeOK
  <1>1. ASSUME NEW l \in PCs \ Confirming, Goto(h, l),
               \A b \in BookingIds : bookings[b].status = "cancelled" /\ Withdrawn(b)
                 => bookings'[b].status = "cancelled"
        PROVE  WithdrawnKept
    BY <1>1, GotoMoves, WithdrawnFrame
  <1>2. ASSUME Answer(h), UNCHANGED bookings
        PROVE  WithdrawnKept
    BY <1>2, AnswerFrees, WithdrawnFrame DEF Idle, Confirming
  <1>3. ASSUME NEW r, Accept(h, r), r.pc \notin Confirming, UNCHANGED bookings
        PROVE  WithdrawnKept
    BY <1>3, WithdrawnFrame DEF Accept
  <1>4. ASSUME NEW l \in PCs, Goto(h, l), UNCHANGED bookings,
               \/ handler[h].pc \in Confirming
               \/ bookings[handler[h].booking].status = "pending"
        PROVE  WithdrawnKept
    BY <1>4, GotoMoves, WithdrawnFrame
  <1>5. CASE InsertBooking(h) \/ InsertBookingUnanswered(h)
    <2>1. \A b \in BookingIds : bookings[b].status = "cancelled" => bookings'[b] = bookings[b]
      BY <1>5 DEF InsertBooking, InsertBookingUnanswered, Inserted, At, RequestsSound, CreatingSound, CreatePCs
    <2>. QED
      BY <1>1, <1>5, <2>1 DEF InsertBooking, InsertBookingUnanswered, PCs, CreatePCs, Confirming
  <1>6. CASE SetConfirmed(h)
    <2>1. \A b \in BookingIds : Withdrawn(b) => b # handler[h].booking
      BY <1>6 DEF SetConfirmed, At, Withdrawn, Confirming
    <2>2. \A b \in BookingIds : Withdrawn(b) => bookings'[b] = bookings[b]
      BY <1>6, <2>1 DEF SetConfirmed
    <2>. QED
      BY <1>1, <1>6, <2>2 DEF SetConfirmed, PCs, VerifyPCs, Confirming
  <1>7. CASE SetCancelled(h)
    <2>1. \A b \in BookingIds : bookings'[b] = bookings[b] \/ bookings'[b].status = "cancelled"
      BY <1>7 DEF SetCancelled, BookingDocs
    <2>. QED
      BY <1>1, <1>7, <2>1 DEF SetCancelled, PCs, CancelPCs, Confirming
  <1>8. CASE Request(h)
    BY <1>3, <1>8
    DEF Request, CreateRead, InitiateRead, VerifyRead, RefundRead, CancelRead, Idle, Confirming
  <1>9. CASE CreateStep(h) \/ CancelStep(h) \/ SetLockUnnoticedError(h) \/ CallFails(h)
    BY <1>1, <1>2, <1>5, <1>7, <1>9
    DEF CreateStep, GetLock, SetLock, MarkLocked, UnlockFailed, EmailCreated, CancelStep, FreeSeats,
        UnlockCancelled, SetLockUnnoticedError, CallFails, PCs, CreatePCs, CancelPCs, Confirming
  <1>10. CASE ConfirmStep(h)
    <2>1. CASE ConfirmRead(h)
      BY <1>2, <1>4, <2>1 DEF ConfirmRead, PCs, VerifyPCs
    <2>2. CASE ConfirmBus(h) \/ MarkBooked(h)
      BY <1>2, <1>4, <2>2 DEF ConfirmBus, MarkBooked, At, Confirming, PCs, VerifyPCs
    <2>. QED
      BY <1>1, <1>2, <1>6, <1>10, <2>1, <2>2
      DEF ConfirmStep, UnlockConfirmed, EmailTicket, PCs, VerifyPCs, Confirming
  <1>11. CASE PaymentStep(h)
    BY <1>1, <1>2, <1>11
    DEF PaymentStep, FindExisting, InsertPayment, SavePaid, QueueInvoice, EmailReceipt, SaveRefund,
        PCs, InitiatePCs, VerifyPCs, Confirming
  <1>. QED
    BY <1>5, <1>8, <1>9, <1>10, <1>11 DEF Proceed

\* A cancelled booking that no confirmation carries past its check of the status is never
\* taken back, whatever requests race and whatever fails.
THEOREM WithdrawnStaysWithdrawn == Spec => WithdrawnIsFinal
  <1>1. BookingInv /\ [Next]_vars => WithdrawnKept
    <2>. SUFFICES ASSUME BookingInv, [Next]_vars PROVE WithdrawnKept
      OBVIOUS
    <2>1. CASE Crash
      BY <2>1, WithdrawnFrame DEF Crash, Idle, Confirming
    <2>2. CASE UpdateBus \/ RemoveBus \/ (\E S \in SeatLists : Expire(S)) \/ UNCHANGED vars
      BY <2>2, WithdrawnFrame DEF UpdateBus, RemoveBus, Expire, vars
    <2>. QED
      BY <2>1, <2>2, WithdrawnStep DEF Next
  <1>2. WithdrawnKept => [\A b \in BookingIds : Withdrawn(b) => Withdrawn(b)']_vars
    BY DEF WithdrawnKept
  <1>. QED
    BY <1>1, <1>2, Invariance, PTL DEF Spec, WithdrawnIsFinal

-----------------------------------------------------------------------------
(* What is owed *)

\* What OwedIsAttended asks of one step.
OwedKept ==
  \A b \in BookingIds : Attended(b) =>
    Attended(b)' \/ Crash \/ \E h \in Handlers : Abandons(h, b)

\* The requests that carry what is owed: to confirm a paid booking, and to send its ticket.
ToConfirm == {"confirmRead"} \cup Confirming
ToTicket == {"unlockConfirmed", "emailTicket"}

\* A step after which no more is owed for a booking than before, and whose requests carry
\* on with it, leaves it attended.
LEMMA AttendedFrame ==
  ASSUME NEW b \in BookingIds, Attended(b),
         Unsettled(b)' => Unsettled(b), Unticketed(b)' => Unticketed(b),
         \A g \in Handlers :
           \/ handler'[g] = handler[g]
           \/ handler[g].booking # b
           \/ handler[g].pc \notin ToConfirm \cup ToTicket
           \/ /\ handler'[g].booking = b
              /\ \/ handler[g].pc \in ToConfirm /\ handler'[g].pc \in ToConfirm
                 \/ handler[g].pc \in ToTicket /\ handler'[g].pc \in ToTicket
  PROVE  Attended(b)'
  <1>1. ToConfirm \cap ToTicket = {}
    BY DEF ToConfirm, ToTicket, Confirming
  <1>2. Unsettled(b) => \E h \in Handlers : handler[h].booking = b /\ handler[h].pc \in ToConfirm
    BY DEF Attended, Carried, ToConfirm
  <1>3. Unticketed(b) => \E h \in Handlers : handler[h].booking = b /\ handler[h].pc \in ToTicket
    BY DEF Attended, Carried, ToTicket
  <1>4. Unsettled(b)' => \E h \in Handlers : handler'[h].booking = b /\ handler'[h].pc \in ToConfirm
    BY <1>1, <1>2
  <1>5. Unticketed(b)' => \E h \in Handlers : handler'[h].booking = b /\ handler'[h].pc \in ToTicket
    BY <1>1, <1>3
  <1>. QED
    BY <1>4, <1>5 DEF Attended, Carried, ToConfirm, ToTicket

\* No more is owed where no booking changes and no payment becomes paid.
LEMMA NothingOwed ==
  ASSUME NEW b \in BookingIds, bookings'[b] = bookings[b], jobs \subseteq jobs',
         \A p \in PaymentIds : IsPaidFor(p, b)' => IsPaidFor(p, b)
  PROVE  (Unsettled(b)' => Unsettled(b)) /\ (Unticketed(b)' => Unticketed(b))
  BY DEF Unsettled, Unticketed

\* A payment that is not paid becomes paid by no step but SavePaid.
LEMMA PaidByVerification ==
  ASSUME NEW h \in Handlers, BookingInv, InsertPayment(h) \/ SaveRefund(h)
  PROVE  \A b \in BookingIds, q \in PaymentIds : IsPaidFor(q, b)' => IsPaidFor(q, b)
  <1>. USE DEF BookingInv, TypeOK
  <1>1. CASE InsertPayment(h)
    <2>1. CASE payments' = payments
      BY <2>1 DEF IsPaidFor
    <2>2. CASE payments' = [payments EXCEPT ![handler[h].payment] =
            [AbsentPayment EXCEPT !.bookingId = handler[h].booking, !.status = "initiated"]]
      <3>1. \A q \in PaymentIds : payments'[q] = payments[q] \/ ~ payments'[q].paid
        BY <2>2 DEF AbsentPayment
      <3>. QED
        BY <3>1 DEF IsPaidFor
    <2>. QED
      BY <1>1, <2>1, <2>2 DEF InsertPayment
  <1>2. CASE SaveRefund(h)
    <2>1. \A q \in PaymentIds : /\ payments'[q].bookingId = payments[q].bookingId
                                /\ payments'[q].paid = payments[q].paid
      BY <1>2 DEF SaveRefund, PaymentDocs
    <2>. QED
      BY <2>1 DEF IsPaidFor
  <1>. QED
    BY <1>1, <1>2

\* A step of one request drops nothing that is owed, unless it ends with an error.
LEMMA OwedStep ==
  ASSUME NEW h \in Handlers, BookingInv,
         Request(h) \/ Proceed(h) \/ SetLockUnnoticedError(h) \/ InsertBookingUnanswered(h)
           \/ CallFails(h),
         NEW b \in BookingIds, Attended(b), ~ Abandons(h, b)
  PROVE  Attended(b)'
  <1>. USE DEF BookingInv, TypeOK
  <1>1. ASSUME Unsettled(b)' => Unsettled(b), Unticketed(b)' => Unticketed(b),
               \A g \in Handlers \ {h} : handler'[g] = handler[g],
               \/ handler[h].booking # b
               \/ handler[h].pc \notin ToConfirm \cup ToTicket
        PROVE  Attended(b)'
    BY <1>1, AttendedFrame
  <1>2. ASSUME UNCHANGED <<bookings, payments>>, jobs \subseteq jobs',
               \A g \in Handlers \ {h} : handler'[g] = handler[g],
               \/ handler[h].booking # b
               \/ handler[h].pc \notin ToConfirm \cup ToTicket
        PROVE  Attended(b)'
    BY <1>1, <1>2, NothingOwed DEF IsPaidFor
  <1>3. ASSUME NEW l \in PCs, Goto(h, l), UNCHANGED <<bookings, payments>>, jobs \subseteq jobs',
               \/ handler[h].pc \in ToConfirm /\ l \in ToConfirm
               \/ handler[h].pc \in ToTicket /\ l \in ToTicket
               \/ handler[h].pc \notin ToConfirm \cup ToTicket
        PROVE  Attended(b)'
    <2>1. (Unsettled(b)' => Unsettled(b)) /\ (Unticketed(b)' => Unticketed(b))
      BY <1>3, NothingOwed DEF IsPaidFor
    <2>2. /\ handler'[h].pc = l /\ handler'[h].booking = handler[h].booking
          /\ \A g \in Handlers \ {h} : handler'[g] = handler[g]
      BY <1>3, GotoMoves
    <2>. QED
      BY <1>3, <2>1, <2>2, AttendedFrame
  <1>4. ASSUME Answer(h), UNCHANGED <<bookings, payments>>, jobs \subseteq jobs',
               \/ handler[h].booking # b
               \/ handler[h].pc \notin ToConfirm \cup ToTicket
        PROVE  Attended(b)'
    BY <1>2, <1>4, AnswerFrees
  <1>5. CASE Request(h)
    <2>1. /\ At(h, "idle") /\ UNCHANGED <<bookings, payments, jobs>>
          /\ \A g \in Handlers \ {h} : handler'[g] = handler[g]
      BY <1>5 DEF Request, CreateRead, InitiateRead, VerifyRead, RefundRead, CancelRead, Accept
    <2>. QED
      BY <1>2, <2>1 DEF At, ToConfirm, ToTicket, Confirming
  <1>6. CASE InsertBooking(h) \/ InsertBookingUnanswered(h)
    <2>. USE DEF InsertBooking, InsertBookingUnanswered, Inserted
    <2>1. /\ handler[h].booking \in BookingIds /\ bookings[handler[h].booking].status = "absent"
          /\ bookings'[handler[h].booking].status = "pending"
          /\ \A c \in BookingIds \ {handler[h].booking} : bookings'[c] = bookings[c]
      BY <1>6 DEF InsertBooking, At, RequestsSound, CreatingSound, CreatePCs
    <2>2. \A p \in PaymentIds : ~ IsPaidFor(p, handler[h].booking)
      BY <2>1, NullAssumption DEF IsPaidFor, PaymentsSound, AbsentPayment
    <2>3. UNCHANGED <<payments, jobs>>
      BY <1>6 DEF InsertBooking
    <2>4. \A p \in PaymentIds, c \in BookingIds : IsPaidFor(p, c)' <=> IsPaidFor(p, c)
      BY <2>3 DEF IsPaidFor
    <2>5. (Unsettled(b)' => Unsettled(b)) /\ (Unticketed(b)' => Unticketed(b))
      <3>1. CASE b = handler[h].booking
        BY <2>1, <2>2, <2>4, <3>1 DEF Unsettled, Unticketed
      <3>2. CASE b # handler[h].booking
        BY <2>1, <2>3, <2>4, <3>2, NothingOwed
      <3>. QED
        BY <3>1, <3>2
    <2>6. /\ handler[h].pc \notin ToConfirm \cup ToTicket
          /\ \A g \in Handlers \ {h} : handler'[g] = handler[g]
      BY <1>6, GotoMoves
      DEF InsertBooking, At, ToConfirm, ToTicket, Confirming, PCs, CreatePCs
    <2>. QED
      BY <1>1, <2>5, <2>6
  <1>7. CASE CreateStep(h) \/ SetLockUnnoticedError(h)
    BY <1>3, <1>4, <1>6, <1>7
    DEF CreateStep, GetLock, SetLock, MarkLocked, UnlockFailed, EmailCreated,
        SetLockUnnoticedError, At, PCs, CreatePCs, ToConfirm, ToTicket, Confirming
  <1>8. CASE CallFails(h)
    <2>1. handler[h].booking # b
      BY <1>8 DEF Abandons
    <2>2. /\ UNCHANGED <<bookings, payments, jobs>>
          /\ \A g \in Handlers \ {h} : handler'[g] = handler[g]
      BY <1>8, GotoMoves, AnswerFrees DEF CallFails, PCs, CreatePCs
    <2>. QED
      BY <1>2, <2>1, <2>2
  <1>9. CASE ConfirmStep(h)
    <2>1. CASE ConfirmRead(h)
      <3>1. CASE bookings[handler[h].booking].status = "pending"
        BY <1>3, <2>1, <3>1 DEF ConfirmRead, At, PCs, VerifyPCs, ToConfirm, Confirming
      <3>2. CASE bookings[handler[h].booking].status # "pending"
        <4>1. handler[h].pc \notin ToTicket /\ UNCHANGED <<bookings, payments, jobs>>
          BY <2>1 DEF ConfirmRead, At, ToTicket
        <4>2. \A g \in Handlers \ {h} : handler'[g] = handler[g]
          BY <2>1, <3>2, AnswerFrees DEF ConfirmRead
        <4>3. /\ Unsettled(b)' <=> Unsettled(b)
              /\ Unticketed(b)' <=> Unticketed(b)
          BY <4>1 DEF Unsettled, Unticketed, IsPaidFor
        <4>4. CASE handler[h].booking = b
          BY <3>2, <4>1, <4>2, <4>3, <4>4 DEF Attended, Carried, Unsettled, ToTicket
        <4>. QED
          BY <1>2, <4>1, <4>2, <4>4
      <3>. QED
        BY <3>1, <3>2
    <2>2. CASE ConfirmBus(h)
      <3>1. CASE bus.status = "removed"
        BY <1>4, <2>2, <3>1 DEF ConfirmBus, Abandons
      <3>2. CASE bus.status # "removed"
        BY <1>3, <2>2, <3>2 DEF ConfirmBus, At, PCs, VerifyPCs, ToConfirm, Confirming
      <3>. QED
        BY <3>1, <3>2
    <2>3. CASE MarkBooked(h)
      BY <1>3, <2>3 DEF MarkBooked, At, PCs, VerifyPCs, ToConfirm, Confirming
    <2>4. CASE SetConfirmed(h)
      <3>1. /\ handler'[h].pc = "unlockConfirmed" /\ handler'[h].booking = handler[h].booking
            /\ \A g \in Handlers \ {h} : handler'[g] = handler[g]
        BY <2>4, GotoMoves DEF SetConfirmed, PCs, VerifyPCs
      <3>2. UNCHANGED <<payments, jobs>>
        BY <2>4 DEF SetConfirmed
      <3>3. CASE handler[h].booking = b
        <4>1. bookings'[b].status = "confirmed"
          BY <2>4, <3>3 DEF SetConfirmed, BookingDocs
        <4>. QED
          BY <3>1, <3>3, <4>1 DEF Attended, Carried, Unsettled
      <3>4. CASE handler[h].booking # b
        <4>1. bookings'[b] = bookings[b]
          BY <2>4, <3>4 DEF SetConfirmed
        <4>2. \A p \in PaymentIds : IsPaidFor(p, b)' => IsPaidFor(p, b)
          BY <3>2 DEF IsPaidFor
        <4>. QED
          BY <1>1, <3>1, <3>2, <3>4, <4>1, <4>2, NothingOwed
      <3>. QED
        BY <3>3, <3>4
    <2>5. CASE UnlockConfirmed(h)
      BY <1>3, <2>5 DEF UnlockConfirmed, At, PCs, VerifyPCs, ToTicket
    <2>6. CASE EmailTicket(h)
      <3>1. /\ UNCHANGED <<bookings, payments>>
            /\ jobs' = jobs \cup {<<"booking_confirmed", handler[h].booking>>}
            /\ handler[h].pc = "emailTicket"
        BY <2>6 DEF EmailTicket, At
      <3>2. \A g \in Handlers \ {h} : handler'[g] = handler[g]
        BY <2>6, GotoMoves DEF EmailTicket, PCs, VerifyPCs
      <3>3. CASE handler[h].booking = b
        <4>1. ~ Unticketed(b)' /\ (Unsettled(b)' => Unsettled(b))
          BY <3>1, <3>3 DEF Unticketed, Unsettled, IsPaidFor
        <4>. QED
          BY <3>1, <3>2, <4>1 DEF Attended, Carried, Confirming
      <3>. QED
        BY <1>2, <3>1, <3>2, <3>3
    <2>. QED
      BY <1>9, <2>1, <2>2, <2>3, <2>4, <2>5, <2>6 DEF ConfirmStep
  <1>10. CASE CancelStep(h)
    <2>1. CASE SetCancelled(h)
      <3>1. UNCHANGED <<payments, jobs>> /\ handler[h].pc \notin ToConfirm \cup ToTicket
        BY <2>1 DEF SetCancelled, At, ToConfirm, ToTicket, Confirming
      <3>2. bookings'[b] = bookings[b] \/ bookings'[b].status = "cancelled"
        BY <2>1 DEF SetCancelled, BookingDocs
      <3>3. (Unsettled(b)' => Unsettled(b)) /\ (Unticketed(b)' => Unticketed(b))
        BY <3>1, <3>2 DEF Unsettled, Unticketed, IsPaidFor
      <3>4. \A g \in Handlers \ {h} : handler'[g] = handler[g]
        BY <2>1, GotoMoves DEF SetCancelled, PCs, CancelPCs
      <3>. QED
        BY <1>1, <3>1, <3>3, <3>4
    <2>. QED
      BY <1>3, <1>4, <1>10, <2>1
      DEF CancelStep, FreeSeats, UnlockCancelled, At, PCs, CancelPCs, ToConfirm, ToTicket, Confirming
  <1>11. CASE PaymentStep(h)
    <2>1. CASE SavePaid(h)
      <3>1. /\ handler'[h].pc = "confirmRead" /\ handler'[h].booking = handler[h].booking
            /\ handler[h].pc = "savePaid"
            /\ \A g \in Handlers \ {h} : handler'[g] = handler[g]
        BY <2>1, GotoMoves DEF SavePaid, At, PCs, VerifyPCs
      <3>2. UNCHANGED <<bookings, jobs>>
        BY <2>1 DEF SavePaid
      <3>3. CASE handler[h].booking = b
        <4>1. Unticketed(b)' => Unticketed(b)
          BY <3>2 DEF Unticketed
        <4>2. Carried(b, ToConfirm)'
          BY <3>1, <3>3 DEF Carried, ToConfirm
        <4>3. Unticketed(b) => Carried(b, ToTicket)'
          BY <3>1 DEF Attended, Carried, ToTicket
        <4>. QED
          BY <4>1, <4>2, <4>3 DEF Attended, ToConfirm, ToTicket
      <3>4. CASE handler[h].booking # b
        <4>1. \A p \in PaymentIds : IsPaidFor(p, b)' => IsPaidFor(p, b)
          <5>1. /\ handler[h].payment \in PaymentIds
                /\ payments[handler[h].payment].bookingId = handler[h].booking
            BY <3>1 DEF RequestsSound, VerifyingSound, VerifyPCs
          <5>2. /\ payments'[handler[h].payment].bookingId = handler[h].booking
                /\ \A p \in PaymentIds \ {handler[h].payment} : payments'[p] = payments[p]
            BY <2>1, <5>1 DEF SavePaid, PaymentDocs
          <5>. QED
            BY <3>4, <5>2 DEF IsPaidFor
        <4>. QED
          BY <1>1, <3>1, <3>2, <3>4, <4>1, NothingOwed
      <3>. QED
        BY <3>3, <3>4
    <2>2. CASE InsertPayment(h) \/ SaveRefund(h)
      <3>1. /\ UNCHANGED <<bookings, jobs>> /\ handler[h].pc \notin ToConfirm \cup ToTicket
            /\ \A g \in Handlers \ {h} : handler'[g] = handler[g]
        BY <2>2, AnswerFrees DEF InsertPayment, SaveRefund, At, ToConfirm, ToTicket, Confirming
      <3>2. \A p \in PaymentIds : IsPaidFor(p, b)' => IsPaidFor(p, b)
        BY <2>2, PaidByVerification
      <3>. QED
        BY <1>1, <3>1, <3>2, NothingOwed
    <2>. QED
      BY <1>3, <1>4, <1>11, <2>1, <2>2
      DEF PaymentStep, FindExisting, QueueInvoice, EmailReceipt, At, PCs, InitiatePCs, VerifyPCs,
          ToConfirm, ToTicket, Confirming
  <1>. QED
    BY <1>5, <1>6, <1>7, <1>8, <1>9, <1>10, <1>11 DEF Proceed

\* A paid booking is on its way to be confirmed and a confirmed one to get its ticket, until
\* a call of its own requests fails, its bus is gone or the process stops.
THEOREM OwedStaysAttended == Spec => OwedIsAttended
  <1>1. BookingInv /\ [Next]_vars => OwedKept
    <2>. SUFFICES ASSUME BookingInv, [Next]_vars, NEW b \in BookingIds, Attended(b), ~ Crash,
                         ~ \E h \in Handlers : Abandons(h, b)
                  PROVE  Attended(b)'
      BY DEF OwedKept
    <2>1. CASE UpdateBus \/ RemoveBus \/ (\E S \in SeatLists : Expire(S)) \/ UNCHANGED vars
      <3>1. UNCHANGED <<bookings, payments, jobs, handler>>
        BY <2>1 DEF UpdateBus, RemoveBus, Expire, vars
      <3>. QED
        BY <3>1 DEF Attended, Carried, Unsettled, Unticketed, IsPaidFor
    <2>. QED
      BY <2>1, OwedStep DEF Next
  <1>2. OwedKept => [\A b \in BookingIds : Attended(b) =>
          Attended(b)' \/ Crash \/ \E h \in Handlers : Abandons(h, b)]_vars
    BY DEF OwedKept
  <1>. QED
    BY <1>1, <1>2, Invariance, PTL DEF Spec, OwedIsAttended

-----------------------------------------------------------------------------
(* Refunds *)

\* A step of one request keeps the refund totals below the refund entries.
LEMMA RefundsStep ==
  ASSUME NEW h \in Handlers, BookingInv, RefundsSound,
         Request(h) \/ Proceed(h) \/ SetLockUnnoticedError(h) \/ InsertBookingUnanswered(h)
           \/ CallFails(h)
  PROVE  RefundsSound'
  <1>. USE DEF BookingInv, TypeOK
  <1>1. CASE SaveRefund(h)
    <2>. DEFINE p == handler[h].payment
                total == handler[h].seen + handler[h].amount
                sum == payments[p].refunds + handler[h].amount
    <2>1. /\ p \in PaymentIds /\ handler[h].seen <= payments[p].refunds
          /\ handler[h].seen \in Nat /\ handler[h].amount \in Nat /\ payments[p].refunds \in Nat
      BY <1>1 DEF SaveRefund, At, RequestsSound, RefundingSound, RefundsSound, Requests, PaymentDocs
    <2>2. total <= sum /\ payments[p].refunds <= sum
      BY <2>1
    <2>3. PICK status : payments' = [payments EXCEPT ![p] =
            [payments[p] EXCEPT !.refunds = sum, !.totalRefunded = total, !.status = status]]
      BY <1>1 DEF SaveRefund
    <2>. HIDE DEF total, sum
    <2>4. /\ payments'[p].refunds = sum /\ payments'[p].totalRefunded = total
          /\ \A q \in PaymentIds \ {p} : payments'[q] = payments[q]
      BY <2>1, <2>3 DEF PaymentDocs
    <2>5. TotalNotOverstated'
      BY <2>2, <2>4 DEF RefundsSound, TotalNotOverstated
    <2>6. \A g \in Handlers : handler'[g] = handler[g] \/ handler'[g].pc # "saveRefund"
      BY <1>1, AnswerFrees DEF SaveRefund, Idle
    <2>7. ASSUME NEW g \in Handlers, handler[g].pc = "saveRefund"
          PROVE  handler[g].seen <= payments'[handler[g].payment].refunds
      <3>1. /\ handler[g].payment \in PaymentIds /\ handler[g].seen \in Nat
            /\ handler[g].seen <= payments[handler[g].payment].refunds
        BY <2>7 DEF RequestsSound, RefundingSound, RefundsSound, At, Requests
      <3>2. CASE handler[g].payment = p
        BY <2>1, <2>2, <2>4, <3>1, <3>2 DEF sum
      <3>3. CASE handler[g].payment # p
        BY <2>4, <3>1, <3>3
      <3>. QED
        BY <3>2, <3>3
    <2>. QED
      BY <2>5, <2>6, <2>7 DEF RefundsSound, At
  <1>2. CASE SavePaid(h)
    <2>1. \A q \in PaymentIds : /\ payments'[q].refunds = payments[q].refunds
                                /\ payments'[q].totalRefunded = payments[q].totalRefunded
      BY <1>2 DEF SavePaid, PaymentDocs
    <2>2. \A g \in Handlers : handler'[g] = handler[g] \/ handler'[g].pc # "saveRefund"
      BY <1>2, GotoMoves DEF SavePaid, PCs, VerifyPCs
    <2>. QED
      BY <2>1, <2>2 DEF RefundsSound, TotalNotOverstated, At, RequestsSound, RefundingSound
  <1>3. CASE InsertPayment(h)
    <2>1. handler[h].payment \in PaymentIds /\ payments[handler[h].payment].status = "absent"
      BY <1>3 DEF InsertPayment, At, RequestsSound, InitiatingSound, InitiatePCs
    <2>2. payments[handler[h].payment] = AbsentPayment
      BY <2>1 DEF PaymentsSound
    <2>3. \A q \in PaymentIds : /\ payments'[q].refunds = payments[q].refunds
                                /\ payments'[q].totalRefunded = payments[q].totalRefunded
      <3>1. CASE payments' = payments
        BY <3>1
      <3>2. CASE payments' = [payments EXCEPT ![handler[h].payment] =
              [AbsentPayment EXCEPT !.bookingId = handler[h].booking, !.status = "initiated"]]
        BY <2>1, <2>2, <3>2 DEF AbsentPayment
      <3>. QED
        BY <1>3, <3>1, <3>2 DEF InsertPayment
    <2>4. \A g \in Handlers : handler'[g] = handler[g] \/ handler'[g].pc # "saveRefund"
      BY <1>3, AnswerFrees DEF InsertPayment, Idle
    <2>. QED
      BY <2>3, <2>4 DEF RefundsSound, TotalNotOverstated, At, RequestsSound, RefundingSound
  <1>4. CASE RefundRead(h)
    <2>1. PICK p \in PaymentIds, amount \in RefundAmounts :
            /\ Accept(h, [Idle EXCEPT !.pc = "saveRefund", !.payment = p,
                                      !.seen = payments[p].totalRefunded, !.amount = amount])
            /\ UNCHANGED payments
      BY <1>4 DEF RefundRead
    <2>2. \A g \in Handlers : \/ handler'[g] = handler[g]
                              \/ /\ handler'[g].payment = p
                                 /\ handler'[g].seen = payments[p].totalRefunded
      BY <2>1 DEF Accept, Idle
    <2>. QED
      BY <2>1, <2>2 DEF RefundsSound, TotalNotOverstated, At
  <1>5. ASSUME UNCHANGED payments,
               \A g \in Handlers : handler'[g] = handler[g] \/ handler'[g].pc # "saveRefund"
        PROVE  RefundsSound'
    BY <1>5 DEF RefundsSound, TotalNotOverstated, At
  <1>6. ASSUME NEW l \in PCs \ {"saveRefund"}, Goto(h, l), UNCHANGED payments
        PROVE  RefundsSound'
    BY <1>5, <1>6, GotoMoves
  <1>7. ASSUME Answer(h), UNCHANGED payments
        PROVE  RefundsSound'
    BY <1>5, <1>7, AnswerFrees DEF Idle
  <1>8. ASSUME NEW r, Accept(h, r), r.pc # "saveRefund", UNCHANGED payments
        PROVE  RefundsSound'
    BY <1>5, <1>8 DEF Accept
  <1>9. CASE CreateRead(h) \/ InitiateRead(h) \/ VerifyRead(h) \/ CancelRead(h)
    BY <1>8, <1>9 DEF CreateRead, InitiateRead, VerifyRead, CancelRead, Idle
  <1>10. CASE CreateStep(h) \/ SetLockUnnoticedError(h) \/ InsertBookingUnanswered(h) \/ CallFails(h)
    BY <1>6, <1>7, <1>10
    DEF CreateStep, GetLock, SetLock, MarkLocked, InsertBooking, UnlockFailed, EmailCreated,
        SetLockUnnoticedError, InsertBookingUnanswered, CallFails, PCs, CreatePCs
  <1>11. CASE ConfirmStep(h) \/ CancelStep(h)
    BY <1>6, <1>7, <1>11
    DEF ConfirmStep, ConfirmRead, ConfirmBus, MarkBooked, SetConfirmed, UnlockConfirmed, EmailTicket,
        CancelStep, FreeSeats, SetCancelled, UnlockCancelled, PCs, VerifyPCs, CancelPCs
  <1>12. CASE FindExisting(h) \/ QueueInvoice(h) \/ EmailReceipt(h)
    BY <1>6, <1>7, <1>12 DEF FindExisting, QueueInvoice, EmailReceipt, PCs, InitiatePCs, VerifyPCs
  <1>. QED
    BY <1>1, <1>2, <1>3, <1>4, <1>9, <1>10, <1>11, <1>12 DEF Request, Proceed, PaymentStep

\* However many refunds race, totalRefunded never claims more than the refund entries.
THEOREM TotalsNotOverstated == Spec => []TotalNotOverstated
  <1>1. Init => RefundsSound
    BY DEF Init, RefundsSound, TotalNotOverstated, AbsentPayment, At, Idle
  <1>2. BookingInv /\ RefundsSound /\ [Next]_vars => RefundsSound'
    <2>. SUFFICES ASSUME BookingInv, RefundsSound, [Next]_vars PROVE RefundsSound'
      OBVIOUS
    <2>1. CASE Crash
      BY <2>1 DEF Crash, RefundsSound, TotalNotOverstated, At, Idle
    <2>2. CASE UpdateBus \/ RemoveBus \/ (\E S \in SeatLists : Expire(S)) \/ UNCHANGED vars
      BY <2>2 DEF UpdateBus, RemoveBus, Expire, vars, RefundsSound, TotalNotOverstated, At
    <2>. QED
      BY <2>1, <2>2, RefundsStep DEF Next
  <1>3. RefundsSound => TotalNotOverstated
    BY DEF RefundsSound
  <1>. QED
    BY <1>1, <1>2, <1>3, Invariance, PTL DEF Spec

-----------------------------------------------------------------------------
(* Held seats *)

\* A step of one request that is no cancellation keeps held seats off the market.
LEMMA HoldingStep ==
  ASSUME NEW h \in Handlers, BookingInv, HoldingInv, "cancel" \notin Ops,
         Request(h) \/ Proceed(h) \/ SetLockUnnoticedError(h) \/ InsertBookingUnanswered(h)
           \/ CallFails(h)
  PROVE  HoldingInv'
  <1>. USE DEF BookingInv, TypeOK
  <1>1. ASSUME UNCHANGED <<bus, bookings>>,
               \A g \in Handlers : handler'[g] = handler[g]
                                   \/ handler'[g].pc \notin CancelPCs \cup {"insertBooking"}
        PROVE  HoldingInv'
    BY <1>1 DEF HoldingInv, HeldSeatsNotAvailable, At
  <1>2. ASSUME NEW l \in PCs \ (CancelPCs \cup {"insertBooking"}), Goto(h, l),
               UNCHANGED <<bus, bookings>>
        PROVE  HoldingInv'
    BY <1>1, <1>2, GotoMoves
  <1>3. ASSUME Answer(h), UNCHANGED <<bus, bookings>>
        PROVE  HoldingInv'
    BY <1>1, <1>3, AnswerFrees DEF Idle, CancelPCs
  <1>4. ASSUME NEW r, Accept(h, r), r.pc \notin CancelPCs \cup {"insertBooking"},
               UNCHANGED <<bus, bookings>>
        PROVE  HoldingInv'
    BY <1>1, <1>4 DEF Accept
  <1>5. ~ CancelRead(h) /\ ~ CancelStep(h)
    BY DEF CancelRead, CancelStep, FreeSeats, SetCancelled, UnlockCancelled, HoldingInv, At, CancelPCs
  <1>6. CASE MarkLocked(h)
    <2>1. /\ handler[h].seats \subseteq Seats
          /\ bus'.status = bus.status
          /\ \A s \in Seats : bus'.seats[s].status =
               IF s \in handler[h].seats THEN "locked" ELSE bus.seats[s].status
      BY <1>6 DEF MarkLocked, SetSeats, BusDocs, Requests, HoldingInv
    <2>2. handler' = [handler EXCEPT ![h].pc = "insertBooking"] /\ UNCHANGED bookings
      BY <1>6 DEF MarkLocked, Goto
    <2>. QED
      BY <2>1, <2>2 DEF HoldingInv, HeldSeatsNotAvailable, At, CancelPCs, Requests
  <1>7. CASE MarkBooked(h)
    <2>1. /\ bus'.status = bus.status
          /\ \A s \in Seats : bus'.seats[s].status \in {"booked", bus.seats[s].status}
      BY <1>7 DEF MarkBooked, SetSeats, BusDocs, SeatDocs, HoldingInv
    <2>2. handler' = [handler EXCEPT ![h].pc = "setConfirmed"] /\ UNCHANGED bookings
      BY <1>7 DEF MarkBooked, Goto
    <2>. QED
      BY <2>1, <2>2 DEF HoldingInv, HeldSeatsNotAvailable, At, CancelPCs, Requests
  <1>8. CASE InsertBooking(h) \/ InsertBookingUnanswered(h)
    <2>. USE DEF InsertBooking, InsertBookingUnanswered, Inserted
    <2>1. \A b \in BookingIds : \/ bookings'[b] = bookings[b]
                                \/ /\ bookings'[b].seats = handler[h].seats
                                   /\ bookings'[b].status = "pending"
      BY <1>8 DEF InsertBooking
    <2>2. \A s \in handler[h].seats : bus.seats[s].status # "available"
      BY <1>8 DEF InsertBooking, HoldingInv
    <2>3. /\ \/ handler' = [handler EXCEPT ![h].pc = "emailCreated"]
             \/ handler' = [handler EXCEPT ![h].pc = "unlockFailed"]
          /\ UNCHANGED bus
      BY <1>8 DEF InsertBooking, Goto
    <2>. QED
      BY <2>1, <2>2, <2>3 DEF HoldingInv, HeldSeatsNotAvailable, At, CancelPCs, Requests
  <1>9. CASE SetConfirmed(h)
    <2>. DEFINE b == handler[h].booking
    <2>1. b \in BookingIds /\ bookings[b].status \in {"pending", "confirmed"}
      <3>1. b \in BookingIds /\ bookings[b].status # "absent"
        BY <1>9, NullAssumption
        DEF SetConfirmed, At, RequestsSound, VerifyingSound, VerifyPCs, PaymentsSound, AbsentPayment
      <3>. QED
        BY <3>1 DEF HoldingInv, BookingDocs, BookingStatuses
    <2>3. PICK p : bookings' = [bookings EXCEPT ![b] =
            [bookings[b] EXCEPT !.status = "confirmed", !.paymentId = p]]
      BY <1>9 DEF SetConfirmed
    <2>4. /\ bookings'[b].seats = bookings[b].seats /\ bookings'[b].status = "confirmed"
          /\ \A c \in BookingIds \ {b} : bookings'[c] = bookings[c]
      BY <2>1, <2>3 DEF BookingDocs
    <2>2. handler' = [handler EXCEPT ![h].pc = "unlockConfirmed"] /\ UNCHANGED bus
      BY <1>9 DEF SetConfirmed, Goto
    <2>. QED
      <3>. HIDE DEF b
      <3>1. HeldSeatsNotAvailable' /\ \A c \in BookingIds : bookings'[c].status # "cancelled"
        BY <2>1, <2>2, <2>4 DEF HoldingInv, HeldSeatsNotAvailable
      <3>2. \A g \in Handlers : handler'[g] = handler[g]
                                \/ handler'[g].pc \notin CancelPCs \cup {"insertBooking"}
        BY <2>2 DEF CancelPCs, Requests
      <3>. QED
        BY <2>2, <3>1, <3>2 DEF HoldingInv, At
  <1>10. CASE Request(h)
    BY <1>4, <1>5, <1>10
    DEF Request, CreateRead, InitiateRead, VerifyRead, RefundRead, Idle, CancelPCs
  <1>11. CASE CreateStep(h)
    BY <1>2, <1>3, <1>6, <1>8, <1>11
    DEF CreateStep, GetLock, SetLock, UnlockFailed, EmailCreated, PCs, CreatePCs, CancelPCs
  <1>12. CASE ConfirmStep(h)
    BY <1>2, <1>3, <1>7, <1>9, <1>12
    DEF ConfirmStep, ConfirmRead, ConfirmBus, UnlockConfirmed, EmailTicket, PCs, VerifyPCs, CancelPCs
  <1>13. CASE PaymentStep(h) \/ SetLockUnnoticedError(h) \/ CallFails(h)
    BY <1>2, <1>3, <1>13
    DEF PaymentStep, FindExisting, InsertPayment, SavePaid, QueueInvoice, EmailReceipt, SaveRefund,
        SetLockUnnoticedError, CallFails, PCs, CreatePCs, InitiatePCs, VerifyPCs, CancelPCs
  <1>. QED
    BY <1>5, <1>8, <1>10, <1>11, <1>12, <1>13 DEF Proceed

\* Where nobody cancels, edits or removes, every step keeps the seats that are held.
LEMMA Holding ==
  ASSUME Ops \cap {"cancel", "updateBus", "removeBus"} = {}
  PROVE  Spec => []HoldingInv
  <1>1. Init => HoldingInv
    BY DEF Init, HoldingInv, HeldSeatsNotAvailable, AbsentBooking, At, Idle, CancelPCs
  <1>2. BookingInv /\ HoldingInv /\ [Next]_vars => HoldingInv'
    <2>. SUFFICES ASSUME BookingInv, HoldingInv, [Next]_vars PROVE HoldingInv'
      OBVIOUS
    <2>1. ~ UpdateBus /\ ~ RemoveBus
      BY DEF UpdateBus, RemoveBus
    <2>2. CASE Crash
      BY <2>2 DEF Crash, HoldingInv, HeldSeatsNotAvailable, At, Idle, CancelPCs
    <2>3. CASE (\E S \in SeatLists : Expire(S)) \/ UNCHANGED vars
      BY <2>3 DEF Expire, vars, HoldingInv, HeldSeatsNotAvailable, At
    <2>. QED
      BY <2>1, <2>2, <2>3, HoldingStep DEF Next
  <1>. QED
    BY <1>1, <1>2, Invariance, PTL DEF Spec

\* Where nobody cancels, edits or removes, no seat of a pending or confirmed booking is
\* offered again, whatever requests race and whatever fails.
THEOREM HeldSeatsStayHeld ==
  ASSUME Ops \cap {"cancel", "updateBus", "removeBus"} = {}
  PROVE  Spec => []HeldSeatsNotAvailable
  <1>1. HoldingInv => HeldSeatsNotAvailable
    BY DEF HoldingInv
  <1>. QED
    BY <1>1, Holding, PTL

==============================================================================
