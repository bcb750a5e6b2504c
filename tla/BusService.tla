----------------------------- MODULE BusService -----------------------------
(***************************************************************************)
(* The writes of BusService (modules/bus/bus.service.ts) to a bus that is  *)
(* on sale.  Neither looks at the seats' statuses or at the bookings.      *)
(***************************************************************************)
EXTENDS BookingState

\* The seats of an update's body: the whole array is replaced, and the passenger
\* it was booked for is dropped.  The array keeps its seat numbers here.
SeatArrays == [Seats -> {[status |-> st, bookedByUserId |-> NoUser] : st \in OperatorStatuses}]

\* findByIdAndUpdate with {$set: dto}: status and seats are both optional.
UpdateBus ==
  /\ "updateBus" \in Ops
  /\ bus.status # "removed"
  /\ \E st \in {"active", "delayed"}, seats \in {bus.seats} \cup SeatArrays :
       bus' = [status |-> st, seats |-> seats]
  /\ UNCHANGED <<seatLock, bookings, payments, jobs, handler>>

\* findByIdAndDelete
RemoveBus ==
  /\ "removeBus" \in Ops
  /\ bus.status # "removed"
  /\ bus' = [bus EXCEPT !.status = "removed"]
  /\ UNCHANGED <<seatLock, bookings, payments, jobs, handler>>
=============================================================================
