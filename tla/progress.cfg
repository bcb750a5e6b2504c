SPECIFICATION FairSpec
CONSTANTS
  NoUser = NoUser
  NoBooking = NoBooking
  NoPayment = NoPayment
  Users = {u1}
  SeatCount = 2
  BookingIds = {b1, b2}
  PaymentIds = {p1, p2}
  Handlers = {h1, h2}
  Fare = 2
  RefundAmounts = {1, 2}
  OperatorStatuses = {"available", "disabled"}
  Ops = {"create", "initiate", "verify"}
  Faults = {}
INVARIANTS
  HeldSeatsNotAvailable
PROPERTIES
 PaidLeadsToSettled
 ConfirmedLeadsToTicket
CHECK_DEADLOCK FALSE
