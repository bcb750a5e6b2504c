------------------------------ MODULE SeatLock ------------------------------
(***************************************************************************)
(* lockSeats and unlockSeats of core/redis/redis.service.ts.  The key of a *)
(* lock is the whole sorted list of seats, so two requests meet at a lock  *)
(* only when they ask for the same set of seats.  lockSeats is a GET and   *)
(* then a SETEX: two calls, with other requests between them.              *)
(***************************************************************************)
EXTENDS BookingState

\* GET: refused when another user holds the key; the holder itself passes.
GetLock(h) ==
  /\ At(h, "lockGet")
  /\ IF seatLock[handler[h].seats] \in {NoUser, handler[h].user}
     THEN Goto(h, "lockSet")
     ELSE Answer(h)
  /\ UNCHANGED <<bus, seatLock, bookings, payments, jobs>>

\* Mutant: the seats are never marked in the bus document.
SetLockOnly(h) ==
  /\ At(h, "lockSet")
  /\ seatLock' = [seatLock EXCEPT ![handler[h].seats] = handler[h].user]
  /\ Goto(h, "insertBooking")
  /\ UNCHANGED <<bus, bookings, payments, jobs>>

\* SETEX in a pipeline, unconditional.
SetLock(h) ==
  /\ At(h, "lockSet")
  /\ seatLock' = [seatLock EXCEPT ![handler[h].seats] = handler[h].user]
  /\ Goto(h, "markLocked")
  /\ UNCHANGED <<bus, bookings, payments, jobs>>

\* pipeline.exec resolves with the commands' errors, which lockSeats ignores.
SetLockUnnoticedError(h) ==
  /\ "redis" \in Faults
  /\ At(h, "lockSet")
  /\ Goto(h, "markLocked")
  /\ UNCHANGED <<bus, seatLock, bookings, payments, jobs>>

\* DEL of the key, whoever holds it.
Unlock(S) == seatLock' = [seatLock EXCEPT ![S] = NoUser]

\* The time to live of the key has passed.
Expire(S) ==
  /\ seatLock[S] # NoUser
  /\ Unlock(S)
  /\ UNCHANGED <<bus, bookings, payments, jobs, handler>>
=============================================================================
