----------------------------- MODULE AuthService -----------------------------
(***************************************************************************)
(* modules/auth/auth.service.ts, and the nightly cleaning of               *)
(* jobs/scheduler.ts: one action per awaited call.                         *)
(*                                                                         *)
(* refreshAccessToken has no action: it loads the account without its      *)
(* refreshTokens, which are not selected, so it fails before its first     *)
(* write and changes nothing.                                              *)
(***************************************************************************)
EXTENDS Accounts

(* One-time passwords *)

\* A new code replaces the one that was sent before; one phone at a time has a code.
SendOtp(p, c) ==
  /\ "otp" \in ops
  /\ \A q \in Phones \ {p} : otp[q] = NoCode
  /\ otp' = [otp EXCEPT ![p] = c]
  /\ UNCHANGED <<users, handler>>

\* The time to live of a code has passed.
ExpireOtp(p) ==
  /\ otp[p] # NoCode
  /\ otp' = [otp EXCEPT ![p] = NoCode]
  /\ UNCHANGED <<users, handler>>

\* getOtp, and the comparison with the code of the request.
VerifyOtp(h, p, c) ==
  /\ "otp" \in ops
  /\ otp[p] = c
  /\ Accept(h, [Idle EXCEPT !.pc = "deleteOtp", !.phone = p, !.otpLogin = TRUE])
  /\ UNCHANGED <<users, otp>>

\* deleteOtp, whatever code is stored by now.
DeleteOtp(h) ==
  /\ At(h, "deleteOtp")
  /\ otp' = [otp EXCEPT ![handler[h].phone] = NoCode]
  /\ Goto(h, "findByPhone")
  /\ UNCHANGED users

FindByPhone(h) ==
  /\ At(h, "findByPhone")
  /\ Goto(h, IF Registered(handler[h].phone) THEN "addToken" ELSE "createUser")
  /\ UNCHANGED <<users, otp>>

\* Mutant: the account is upserted instead of inserted.
CreateUserUpsert(h) ==
  /\ At(h, "createUser")
  /\ users' = [users EXCEPT ![handler[h].phone] = [Blank EXCEPT !.role = "user"]]
  /\ Goto(h, "addToken")
  /\ UNCHANGED otp

\* The insert fails when the phone was registered meanwhile; the code is gone by then.
CreateUser(h) ==
  LET p == handler[h].phone IN
  /\ At(h, "createUser")
  /\ \/ Insert(p, [Blank EXCEPT !.role = "user"]) /\ Goto(h, "addToken")
     \/ Registered(p) /\ Answer(h) /\ UNCHANGED users
  /\ UNCHANGED otp

\* clearOtpOnUser marks the account verified, whatever its role.
ClearOtp(h) ==
  /\ At(h, "clearOtp")
  /\ users' = [users EXCEPT ![handler[h].phone].isVerified = TRUE]
  /\ Answer(h)
  /\ UNCHANGED otp

-----------------------------------------------------------------------------
(* Password logins of administrators and operators *)

\* findOne by phone or email, then the checks of role and suspension.
PasswordLogin(h, p, roles) ==
  /\ "login" \in ops
  /\ users[p].role \in roles
  /\ users[p].isActive
  /\ Accept(h, [Idle EXCEPT !.pc = "comparePassword", !.phone = p])
  /\ UNCHANGED <<users, otp>>

AdminLogin(h, p) == PasswordLogin(h, p, {"admin", "operator", "super_admin"})
OperatorLogin(h, p) == PasswordLogin(h, p, {"operator"})

ComparePassword(h) ==
  /\ At(h, "comparePassword")
  /\ Goto(h, "addToken") \/ Answer(h)
  /\ UNCHANGED <<users, otp>>

-----------------------------------------------------------------------------
(* Refresh tokens *)

\* A second token is told from the first only by a logout.
TokenBound == IF "logout" \in ops THEN MaxTokens ELSE 1
StoredTokens == {t \in Phones \X Ages : t[2] \in users[t[1]].refreshTokens}

\* $push of the token that was signed when the account had been found.
AddToken(h) ==
  LET p == handler[h].phone IN
  /\ At(h, "addToken")
  /\ Cardinality(StoredTokens \cup {<<p, handler[h].token>>}) <= TokenBound
  /\ users' = [users EXCEPT ![p].refreshTokens = @ \cup {handler[h].token}]
  /\ IF handler[h].otpLogin THEN Goto(h, "clearOtp") ELSE Answer(h)
  /\ UNCHANGED otp

\* The token in the request's body is one of the user's.
Logout(h, p, t) ==
  /\ "logout" \in ops
  /\ Authenticated(p)
  /\ Accept(h, [Idle EXCEPT !.pc = "pullToken", !.phone = p, !.token = t])
  /\ UNCHANGED <<users, otp>>

\* $pull by hash: every entry that was signed in the same second goes.
PullToken(h) ==
  /\ At(h, "pullToken")
  /\ users' = [users EXCEPT ![handler[h].phone].refreshTokens = @ \ {handler[h].token}]
  /\ Answer(h)
  /\ UNCHANGED otp

LogoutAllDevices(h, p) ==
  /\ "logout" \in ops
  /\ Authenticated(p)
  /\ Accept(h, [Idle EXCEPT !.pc = "clearTokens", !.phone = p])
  /\ UNCHANGED <<users, otp>>

ClearTokens(h) ==
  /\ At(h, "clearTokens")
  /\ users' = [users EXCEPT ![handler[h].phone].refreshTokens = {}]
  /\ Answer(h)
  /\ UNCHANGED otp

\* Mutant: the comparison with the cut-off is the wrong way round.
CleanNewTokens ==
  /\ users' = [p \in Phones |->
                 [users[p] EXCEPT !.refreshTokens = {a \in @ : a >= Retention}]]
  /\ UNCHANGED <<otp, handler>>

\* cleanExpiredTokens, every night.
CleanExpiredTokens ==
  /\ users' = [p \in Phones |->
                 [users[p] EXCEPT !.refreshTokens = {a \in @ : a < Retention}]]
  /\ UNCHANGED <<otp, handler>>

-----------------------------------------------------------------------------
(* createAdminUser *)

AdminCreators == {"admin", "super_admin", "manager"}

\* The rules on which role may create which.
MayCreate(creator, role) ==
  /\ creator \in {"admin", "super_admin", "manager", "operator"}
  /\ role = "super_admin" => creator = "super_admin"
  /\ role \in {"manager", "operator", "driver"} => creator \in AdminCreators

\* The route's check of the role, and findOne by phone: refused when it is registered.
CreateAdmin(h, actor, p, role, email) ==
  /\ role \in ops
  /\ RequireRoles(actor, AdminCreators)
  /\ ~ Registered(p)
  /\ Accept(h, [Idle EXCEPT !.pc = "findCreator", !.phone = p, !.actor = actor,
                            !.role = role, !.email = email])
  /\ UNCHANGED <<users, otp>>

\* Mutant: a manager may create whom an administrator may, super administrators included.
FindCreatorUnchecked(h) ==
  /\ At(h, "findCreator")
  /\ Goto(h, "saveAdmin")
  /\ UNCHANGED <<users, otp>>

FindCreator(h) ==
  /\ At(h, "findCreator")
  /\ IF MayCreate(users[handler[h].actor].role, handler[h].role)
     THEN Goto(h, "saveAdmin") ELSE Answer(h)
  /\ UNCHANGED <<users, otp>>

\* The request is answered after its write of an email; those about to write the same
\* one have been raced.
AnswerWithEmail(h, email) ==
  handler' = [g \in Handlers |->
    IF g = h THEN Idle
    ELSE [handler[g] EXCEPT !.raced = @ \/ (At(g, "writeProfile") /\ email # NoEmail
                                               /\ handler[g].email = email)]]

\* Drivers wait for a review, everyone else is verified.  The email is not checked, and
\* the insert fails when the phone was registered meanwhile.
SaveAdmin(h) ==
  LET r == handler[h]
      driver == r.role = "driver" IN
  /\ At(h, "saveAdmin")
  /\ \/ /\ Insert(r.phone, [Blank EXCEPT !.role = r.role, !.email = r.email,
                              !.createdBy = r.actor, !.isVerified = ~ driver,
                              !.verificationStatus = IF driver THEN "pending" ELSE "approved"])
        /\ AnswerWithEmail(h, r.email)
     \/ Registered(r.phone) /\ Answer(h) /\ UNCHANGED users
  /\ UNCHANGED otp

-----------------------------------------------------------------------------
(* completeRegistration *)

\* findOne by phone; without an email there is nothing to check.
CompleteRegistration(h, p, email) ==
  /\ "profile" \in ops
  /\ Registered(p)
  /\ Accept(h, [Idle EXCEPT !.pc = IF email = NoEmail THEN "writeProfile" ELSE "checkEmail",
                            !.phone = p, !.email = email])
  /\ UNCHANGED <<users, otp>>

EmailTaken(p, e) == \E q \in Phones \ {p} : users[q].email = e

\* Mutant: only one's own email is looked for.
CheckEmailOfSelf(h) ==
  /\ At(h, "checkEmail")
  /\ IF users[handler[h].phone].email = handler[h].email
     THEN Answer(h) ELSE Goto(h, "writeProfile")
  /\ UNCHANGED <<users, otp>>

\* Is the email in use by another account?
CheckEmail(h) ==
  /\ At(h, "checkEmail")
  /\ IF EmailTaken(handler[h].phone, handler[h].email)
     THEN Answer(h) ELSE Goto(h, "writeProfile")
  /\ UNCHANGED <<users, otp>>

\* The write does not look again.  An email that is empty replaces the one there is, one
\* that is left out does not.
WriteProfile(h) ==
  /\ At(h, "writeProfile")
  /\ \/ users' = [users EXCEPT ![handler[h].phone].email = handler[h].email]
     \/ handler[h].email = NoEmail /\ UNCHANGED users
  /\ AnswerWithEmail(h, handler[h].email)
  /\ UNCHANGED otp
=============================================================================
