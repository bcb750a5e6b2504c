---------------------------- MODULE MCSeatBooking ----------------------------
(***************************************************************************)
(* Instances of SeatBooking for TLC.  The configurations give the sets of  *)
(* ids as model values, and the operations and failures the question of    *)
(* the run is about.                                                       *)
(***************************************************************************)
EXTENDS SeatBooking, TLC

\* Interchangeable ids, for the runs that check no liveness property.
Symmetry ==
  Permutations(Users) \cup Permutations(BookingIds) \cup Permutations(PaymentIds)
    \cup Permutations(Handlers)
=============================================================================
