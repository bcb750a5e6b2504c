SPECIFICATION FairSpec
CONSTANTS
  NoUser = NoUser
  b1 = b1
  owner = owner
  admin = admin
  Bookings = {b1}
  Users = {owner, admin, stranger}
  Owner <- MCOwner
  Admins = {admin}
  Runners = {r1, r2}
  Sockets = {s1}
  Buses = {x1}
  Notices = {n1}
  MaxDay = 1
  MaxPerDay = 2
  MaxFaults = 3
  Workloads <- MCWorkloads
INVARIANTS
  DeliveryInv
  MailsAreCounted
  TornTicketIsExplained
  CompletedTicketIsWhole
  UpdatesReachTheirAudience
  LastUpdateIsTrue
PROPERTIES
  ReportsNeverRegress
  EveryJobSettles
  AtLeastOnceSpec
CHECK_DEADLOCK FALSE
