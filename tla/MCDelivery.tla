----------------------------- MODULE MCDelivery -----------------------------
(***************************************************************************)
(* A small instance of Delivery for TLC.                                   *)
(***************************************************************************)
EXTENDS Delivery, TLC

CONSTANTS b1, owner, admin

MCOwner == b1 :> owner

\* A mail, and an invoice, with every failure; a mail and an invoice whose processors
\* are never held up; the invoices of two verifications; the days; the socket of an owner,
\* an administrator, a stranger or nobody; the notifications.
MCWorkloads ==
  {{"smtp", "bookings", "workers", "booking_confirmed", "failing", "crash", "holdup"},
   {"bookings", "workers", "generate-invoice", "failing", "crash", "holdup"},
   {"bookings", "workers", "booking_created", "generate-invoice", "failing", "crash"},
   {"bookings", "twice", "workers", "generate-invoice", "crash"},
   {"days", "workers", "failing", "crash", "holdup"},
   {"bookings", "twice", "cancel", "sockets", "failing", "crash"},
   {"sockets", "notices", "crash"}}
=============================================================================
