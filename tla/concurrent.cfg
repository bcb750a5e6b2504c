SPECIFICATION Spec
CONSTANTS
  NoUser = NoUser
  NoBooking = NoBooking
  NoPayment = NoPayment
  Users = {u1}
  SeatCount = 2
  BookingIds = {b1, b2}
  PaymentIds = {p1, p2}
  Handlers = {h1, h2}
  Fare = 2
  RefundAmounts = {1, 2}
  OperatorStatuses = {"available"}
  Ops = {"create", "initiate", "verify", "cancel", "updateBus"}
  Faults = {}
SYMMETRY Symmetry
INVARIANTS
  BookingInv
  TypeOK
  ConfirmedIsPaid
  BookedSeatIsPaid
PROPERTIES
  LifecycleSpec
  WithdrawnIsFinal
CHECK_DEADLOCK FALSE
