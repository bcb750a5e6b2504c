SPECIFICATION FairSpec
CONSTANTS
  NoUser = NoUser
  NoBooking = NoBooking
  NoPayment = NoPayment
  Users = {u1}
  SeatCount = 1
  BookingIds = {b1}
  PaymentIds = {p1}
  Handlers = {h1}
  Fare = 2
  RefundAmounts = {1, 2}
  OperatorStatuses = {"available"}
  Ops = {"create", "initiate", "verify"}
  Faults = {}
PROPERTY LockedSeatsAreReleased
CHECK_DEADLOCK FALSE
