--------------------------- MODULE PaymentService ---------------------------
(***************************************************************************)
(* initiatePayment, verifyPayment and initiateRefund of PaymentService     *)
(* (modules/payment/payment.service.ts).  verifyPayment's isSuccess is the *)
(* constant true, so its failure branch is not reachable.                  *)
(***************************************************************************)
EXTENDS BookingService

-----------------------------------------------------------------------------
(* initiatePayment *)

InitiateRead(h) == \E b \in BookingIds, p \in PaymentIds :
  /\ "initiate" \in Ops
  /\ bookings[b].status = "pending"
  /\ FreshPayment(p)
  /\ Accept(h, [Idle EXCEPT !.pc = "findExisting", !.booking = b, !.payment = p])
  /\ UNCHANGED <<bus, seatLock, bookings, payments, jobs>>

PaymentsOf(b) == {p \in PaymentIds : payments[p].bookingId = b}

FindExisting(h) ==
  /\ At(h, "findExisting")
  /\ IF \E p \in PaymentsOf(handler[h].booking) : payments[p].status \in {"initiated", "success"}
     THEN Answer(h)
     ELSE Goto(h, "insertPayment")
  /\ UNCHANGED <<bus, seatLock, bookings, payments, jobs>>

\* Mutant: the index on bookingId is not unique.
InsertPaymentUnindexed(h) ==
  /\ At(h, "insertPayment")
  /\ payments' = [payments EXCEPT ![handler[h].payment] =
       [AbsentPayment EXCEPT !.bookingId = handler[h].booking, !.status = "initiated"]]
  /\ Answer(h)
  /\ UNCHANGED <<bus, seatLock, bookings, jobs>>

\* The unique index on bookingId refuses a second payment of the booking.
InsertPayment(h) ==
  /\ At(h, "insertPayment")
  /\ IF PaymentsOf(handler[h].booking) # {}
     THEN UNCHANGED payments
     ELSE payments' = [payments EXCEPT ![handler[h].payment] =
            [AbsentPayment EXCEPT !.bookingId = handler[h].booking, !.status = "initiated"]]
  /\ Answer(h)
  /\ UNCHANGED <<bus, seatLock, bookings, jobs>>

-----------------------------------------------------------------------------
(* verifyPayment *)

\* Mutant: the booking is confirmed without the payment having been saved as paid.
VerifyReadUnsaved(h) == \E p \in PaymentIds :
  /\ "verify" \in Ops
  /\ payments[p].status \in PaymentStatuses \ {"absent", "success"}
  /\ Accept(h, [Idle EXCEPT !.pc = "confirmRead", !.booking = payments[p].bookingId, !.payment = p])
  /\ UNCHANGED <<bus, seatLock, bookings, payments, jobs>>

\* Any payment that is not success passes, one that has been refunded too.
VerifyRead(h) == \E p \in PaymentIds :
  /\ "verify" \in Ops
  /\ payments[p].status \in PaymentStatuses \ {"absent", "success"}
  /\ Accept(h, [Idle EXCEPT !.pc = "savePaid", !.booking = payments[p].bookingId, !.payment = p])
  /\ UNCHANGED <<bus, seatLock, bookings, payments, jobs>>

\* Mutant: confirmBooking is not called.
SavePaidOnly(h) ==
  /\ At(h, "savePaid")
  /\ payments' = [payments EXCEPT ![handler[h].payment] =
                    [@ EXCEPT !.status = "success", !.paid = TRUE]]
  /\ Goto(h, "queueInvoice")
  /\ UNCHANGED <<bus, seatLock, bookings, jobs>>

\* payment.save writes the fields that were assigned, status and paidAt.
SavePaid(h) ==
  /\ At(h, "savePaid")
  /\ payments' = [payments EXCEPT ![handler[h].payment] =
                    [@ EXCEPT !.status = "success", !.paid = TRUE]]
  /\ Goto(h, "confirmRead")
  /\ UNCHANGED <<bus, seatLock, bookings, jobs>>

QueueInvoice(h) ==
  /\ At(h, "queueInvoice")
  /\ jobs' = jobs \cup {<<"generate-invoice", handler[h].booking>>}
  /\ Goto(h, "emailReceipt")
  /\ UNCHANGED <<bus, seatLock, bookings, payments>>

EmailReceipt(h) ==
  /\ At(h, "emailReceipt")
  /\ jobs' = jobs \cup {<<"payment_success", handler[h].booking>>}
  /\ Answer(h)
  /\ UNCHANGED <<bus, seatLock, bookings, payments>>

-----------------------------------------------------------------------------
(* initiateRefund: seen is the totalRefunded of the copy that was read *)

\* Mutant: the limit forgets what has been refunded.
RefundReadAnew(h) == \E p \in PaymentIds, amount \in RefundAmounts :
  /\ "refund" \in Ops
  /\ payments[p].status = "success"
  /\ amount <= Fare
  /\ Accept(h, [Idle EXCEPT !.pc = "saveRefund", !.payment = p,
                            !.seen = payments[p].totalRefunded, !.amount = amount])
  /\ UNCHANGED <<bus, seatLock, bookings, payments, jobs>>

RefundRead(h) == \E p \in PaymentIds, amount \in RefundAmounts :
  /\ "refund" \in Ops
  /\ payments[p].status = "success"
  /\ amount + payments[p].totalRefunded <= Fare
  /\ Accept(h, [Idle EXCEPT !.pc = "saveRefund", !.payment = p,
                            !.seen = payments[p].totalRefunded, !.amount = amount])
  /\ UNCHANGED <<bus, seatLock, bookings, payments, jobs>>

\* Mutant: the refund entry is set from the copy that was read, not pushed.
SaveRefundSet(h) ==
  LET r == handler[h]
      payment == payments[r.payment]
      total == r.seen + r.amount
  IN
  /\ At(h, "saveRefund")
  /\ payments' = [payments EXCEPT ![r.payment] =
       [payment EXCEPT !.refunds = r.amount, !.totalRefunded = total,
                       !.status = IF total >= Fare THEN "refunded" ELSE "partially_refunded"]]
  /\ Answer(h)
  /\ UNCHANGED <<bus, seatLock, bookings, jobs>>

\* payment.save: the entry is pushed onto refunds, totalRefunded and status are set.
SaveRefund(h) ==
  LET r == handler[h]
      payment == payments[r.payment]
      total == r.seen + r.amount
  IN
  /\ At(h, "saveRefund")
  /\ payments' = [payments EXCEPT ![r.payment] =
       [payment EXCEPT !.refunds = payment.refunds + r.amount, !.totalRefunded = total,
                       !.status = IF total >= Fare THEN "refunded" ELSE "partially_refunded"]]
  /\ Answer(h)
  /\ UNCHANGED <<bus, seatLock, bookings, jobs>>

PaymentStep(h) ==
  \/ FindExisting(h) \/ InsertPayment(h) \/ SavePaid(h) \/ QueueInvoice(h)
  \/ EmailReceipt(h) \/ SaveRefund(h)
=============================================================================
