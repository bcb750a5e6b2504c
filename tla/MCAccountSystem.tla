--------------------------- MODULE MCAccountSystem ---------------------------
(***************************************************************************)
(* A small instance of AccountSystem for TLC.                              *)
(***************************************************************************)
EXTENDS AccountSystem, TLC

\* The operations that meet: sign-ins and logouts over time; who creates and suspends
\* whom; reviews by several of the staff, and of drivers who also sign in; a phone that is
\* registered by its owner and by the staff at once; emails.
MCWorkloads ==
  {{"otp", "login", "logout", "time"},
   {"login", "admin", "operator", "manager", "super_admin", "activation"},
   {"driver", "manager", "review"},
   {"otp", "driver", "review"},
   {"otp", "admin", "manager"},
   {"admin", "driver", "profile"}}

\* The phones nobody has registered yet, and the requests, are interchangeable.
Symmetry == Permutations(Phones \ Founders) \cup Permutations(Handlers)
=============================================================================
