--------------------------- MODULE AccountRegister ---------------------------
(***************************************************************************)
(* What the register of accounts promises, whatever requests race: a phone *)
(* is registered once, by its owner as a passenger or by a member of the   *)
(* staff who may grant the role, and neither the role nor the one who      *)
(* granted it ever changes.                                                *)
(***************************************************************************)
CONSTANTS
  Phones, Founders, GrantedRoles, NoUser,
  MayCreate(_, _)   \* may an account of the first role create one of the second?

VARIABLES
  role,      \* the role of every phone, or "none"
  grantor    \* who created the account, or NoUser

registerVars == <<role, grantor>>

RInit ==
  /\ role = [p \in Phones |-> IF p \in Founders THEN "super_admin" ELSE "none"]
  /\ grantor = [p \in Phones |-> NoUser]

SignUp(p) ==
  /\ role[p] = "none"
  /\ role' = [role EXCEPT ![p] = "user"]
  /\ UNCHANGED grantor

Grant(a, p, r) ==
  /\ role[p] = "none"
  /\ MayCreate(role[a], r)
  /\ role' = [role EXCEPT ![p] = r]
  /\ grantor' = [grantor EXCEPT ![p] = a]

RNext ==
  \E p \in Phones :
    SignUp(p) \/ \E a \in Phones, r \in GrantedRoles : Grant(a, p, r)

RSpec == RInit /\ [][RNext]_registerVars
=============================================================================
