SPECIFICATION Spec
CONSTANTS
  NoUser = NoUser
  NoBooking = NoBooking
  NoPayment = NoPayment
  Users = {u1, u2}
  SeatCount = 2
  BookingIds = {b1, b2, b3}
  PaymentIds = {p1, p2}
  Handlers = {h1}
  Fare = 2
  RefundAmounts = {1, 2}
  OperatorStatuses = {"available"}
  Ops = {"create", "initiate", "verify", "cancel"}
  Faults = {}
SYMMETRY Symmetry
INVARIANT NoDoubleSale
CHECK_DEADLOCK FALSE
