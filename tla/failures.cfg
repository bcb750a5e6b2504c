SPECIFICATION Spec
CONSTANTS
  NoUser = NoUser
  NoBooking = NoBooking
  NoPayment = NoPayment
  Users = {u1}
  SeatCount = 1
  BookingIds = {b1}
  PaymentIds = {p1}
  Handlers = {h1, h2}
  Fare = 2
  RefundAmounts = {1, 2}
  OperatorStatuses = {"available", "disabled"}
  Ops = {"create", "initiate", "verify", "cancel", "refund", "updateBus", "removeBus"}
  Faults = {"db", "redis", "queue", "crash"}
SYMMETRY Symmetry
INVARIANTS
  BookingInv
  TotalNotOverstated
PROPERTIES
  LifecycleSpec
  OwedIsAttended
CHECK_DEADLOCK FALSE
