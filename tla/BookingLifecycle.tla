-------------------------- MODULE BookingLifecycle --------------------------
(***************************************************************************)
(* What the booking and payment services promise of one booking, whatever  *)
(* requests race and whatever fails: it is created pending, it is paid at  *)
(* most once, only a paid booking is confirmed, a booking that has left    *)
(* pending never returns to it, and no ticket or invoice is issued before  *)
(* a confirmation.                                                         *)
(***************************************************************************)
CONSTANT BookingIds

VARIABLES
  stage,     \* absent, pending, confirmed or cancelled
  paid,      \* the bookings a successful payment has been recorded for
  issued     \* the bookings a ticket or an invoice has been issued for

lifecycleVars == <<stage, paid, issued>>

LInit ==
  /\ stage = [b \in BookingIds |-> "absent"]
  /\ paid = {}
  /\ issued = {}

Create(b) ==
  /\ stage[b] = "absent"
  /\ stage' = [stage EXCEPT ![b] = "pending"]
  /\ UNCHANGED <<paid, issued>>

Pay(b) ==
  /\ stage[b] # "absent"
  /\ b \notin paid
  /\ paid' = paid \cup {b}
  /\ UNCHANGED <<stage, issued>>

\* Also of a cancelled booking: a verification under way is not stopped.
Confirm(b) ==
  /\ b \in paid
  /\ stage[b] \in {"pending", "cancelled"}
  /\ stage' = [stage EXCEPT ![b] = "confirmed"]
  /\ UNCHANGED <<paid, issued>>

Cancel(b) ==
  /\ stage[b] \in {"pending", "confirmed"}
  /\ stage' = [stage EXCEPT ![b] = "cancelled"]
  /\ UNCHANGED <<paid, issued>>

Issue(b) ==
  /\ b \in paid
  /\ stage[b] \in {"confirmed", "cancelled"}
  /\ issued' = issued \cup {b}
  /\ UNCHANGED <<stage, paid>>

LNext == \E b \in BookingIds : Create(b) \/ Pay(b) \/ Confirm(b) \/ Cancel(b) \/ Issue(b)

LSpec == LInit /\ [][LNext]_lifecycleVars
=============================================================================
