---------------------------- MODULE AccountSystem ----------------------------
(***************************************************************************)
(* Accounts and sign-ins as a whole: the authentication, user and admin    *)
(* services over the User collection, with the failures of MongoDB, Redis  *)
(* and the process, and what they keep.                                    *)
(***************************************************************************)
EXTENDS UserService

(* Failures *)

DbCalls == {"findByPhone", "createUser", "clearOtp", "addToken", "pullToken", "clearTokens",
            "checkEmail", "writeProfile", "findCreator", "saveAdmin",
            "setActive", "setInactive", "findDriver", "saveReview"}

\* An awaited call rejects without effect; the controller hands the error on.
CallFails(h) ==
  /\ \/ "db" \in Faults /\ handler[h].pc \in DbCalls
     \/ "redis" \in Faults /\ At(h, "deleteOtp")
  /\ Answer(h)
  /\ UNCHANGED <<users, otp>>

\* The process stops and restarts: its requests are gone.
Crash ==
  /\ "crash" \in Faults
  /\ \E h \in Handlers : ~ At(h, "idle")
  /\ handler' = [h \in Handlers |-> Idle]
  /\ UNCHANGED <<users, otp>>

-----------------------------------------------------------------------------
\* Emails are only sent where profiles are edited.
EmailsSent == IF "profile" \in ops THEN Emails \cup {NoEmail} ELSE {NoEmail}

AuthRequest(h) ==
  \E p \in Phones :
    \/ \E c \in Codes : VerifyOtp(h, p, c)
    \/ \E e \in EmailsSent : CompleteRegistration(h, p, e)
    \/ \E t \in users[p].refreshTokens : Logout(h, p, t)
    \/ LogoutAllDevices(h, p)
    \/ AdminLogin(h, p)
    \/ OperatorLogin(h, p)

AdminRequest(h) ==
  \E a \in Phones, p \in Phones :
    \/ \E r \in GrantedRoles, e \in EmailsSent : CreateAdmin(h, a, p, r, e)
    \/ DeactivateUser(h, a, p)
    \/ ActivateUser(h, a, p)
    \/ \E v \in Verdicts : ReviewDriver(h, a, p, v)

ProfileRequest(h) == \E p \in Phones, e \in Emails : UpdateProfile(h, p, e)

Proceed(h) ==
  \/ DeleteOtp(h) \/ FindByPhone(h) \/ CreateUser(h) \/ ClearOtp(h)
  \/ ComparePassword(h) \/ AddToken(h) \/ PullToken(h) \/ ClearTokens(h)
  \/ FindCreator(h) \/ SaveAdmin(h) \/ CheckEmail(h) \/ WriteProfile(h)
  \/ SetActivation(h) \/ FindDriver(h) \/ SaveReview(h)

Step ==
  \/ \E h \in Handlers :
       AuthRequest(h) \/ AdminRequest(h) \/ ProfileRequest(h) \/ Proceed(h) \/ CallFails(h)
  \/ \E p \in Phones, c \in Codes : SendOtp(p, c)
  \/ \E p \in Phones : ExpireOtp(p)
  \/ CleanExpiredTokens
  \/ Tick
  \/ Crash

Next == Step /\ UNCHANGED ops

Spec == Init /\ [][Next]_vars

-----------------------------------------------------------------------------
(* Safety *)

\* Every document, code and request has its type (user.model.ts, auth.validation.ts).
TypeOK ==
  /\ users \in [Phones -> UserDocs]
  /\ otp \in [Phones -> Codes \cup {NoCode}]
  /\ handler \in [Handlers -> Requests]
  /\ ops \in Workloads

\* The calls of requests about an account that was found, and those of the staff.
Found == {"clearOtp", "comparePassword", "addToken", "pullToken", "clearTokens", "checkEmail",
          "writeProfile", "setActive", "setInactive", "findDriver", "saveReview"}
Managing == {"findCreator", "saveAdmin", "setActive", "setInactive", "findDriver", "saveReview"}

\* What a request in flight relies on, after every await: the accounts it found are still
\* there, and those it checked have the role it checked; a reviewer that was read is still
\* named, and an email that was free is free, unless the request has been raced.
RequestSound(r) ==
  /\ r.pc # "idle" => r.phone \in Phones
  /\ r.pc \in Found => Registered(r.phone)
  /\ r.pc \in Managing => r.actor \in Phones /\ users[r.actor].role \in AdminCreators
  /\ r.pc \in {"findCreator", "saveAdmin"} => r.role \in GrantedRoles
  /\ r.pc = "saveAdmin" => MayCreate(users[r.actor].role, r.role)
  /\ r.pc = "setInactive" => r.actor # r.phone /\ users[r.actor].role \in Administrators
  /\ r.pc = "saveReview" =>
       /\ users[r.phone].role = "driver"
       /\ r.seen.verifiedBy # NoUser => users[r.phone].verifiedBy # NoUser
  /\ r.pc = "writeProfile" /\ ~ r.raced /\ r.email # NoEmail => ~ EmailTaken(r.phone, r.email)

RequestsSound == \A h \in Handlers : RequestSound(handler[h])

\* Every account is a founder, a passenger, or was created by an account that may create
\* its role; so a super administrator's creator is a super administrator.
GrantSound(p) ==
  \/ users[p].role = "none" /\ users[p] = Blank
  \/ users[p].role = "user"
  \/ p \in Founders /\ users[p].role = "super_admin"
  \/ /\ users[p].role \in GrantedRoles
     /\ users[p].createdBy \in Phones
     /\ MayCreate(users[users[p].createdBy].role, users[p].role)

\* Whoever is named as the reviewer of a driver is one of the staff, and a verdict other
\* than pending names one.
VerdictSound(p) ==
  users[p].role = "driver" =>
    /\ users[p].verifiedBy # NoUser => users[users[p].verifiedBy].role \in Reviewers
    /\ users[p].verificationStatus # "pending" => users[p].verifiedBy # NoUser

AccountsSound == \A p \in Phones : GrantSound(p) /\ VerdictSound(p)

\* What every step preserves.
AccountInv == TypeOK /\ RequestsSound /\ AccountsSound

-----------------------------------------------------------------------------
(* What a step may never do *)

AnAdministratorIsActive == \E p \in Phones : RequireRoles(p, Administrators)

\* user.service.ts:74, "Cannot deactivate your own account": the last active administrator
\* is suspended only by a request of one who was suspended while it was under way.
LastAdministratorStays ==
  [][AnAdministratorIsActive /\ ~ AnAdministratorIsActive' =>
       \E h \in Handlers : At(h, "setInactive") /\ ~ users[handler[h].actor].isActive]_vars

\* A refresh token that is still valid leaves its account only by a logout of that
\* account: neither the nightly cleaning, nor a login on another device, nor anyone
\* else's request takes it away.
ValidSessionsStay ==
  [][~ Tick => \A p \in Phones : \A t \in users[p].refreshTokens \ users'[p].refreshTokens :
       t < RefreshLife =>
         \E h \in Handlers :
           /\ handler[h].phone = p
           /\ \/ At(h, "clearTokens")
              \/ At(h, "pullToken") /\ handler[h].token = t]_vars

EmailsDistinct == \A p, q \in Phones : p # q /\ users[p].email = users[q].email
                                         => users[p].email = NoEmail

\* auth.service.ts:137, "Email is already in use": two accounts get the same email only
\* through createAdminUser, which does not look, or when the email was taken between the
\* check and the write.
EmailClashesAreRaces ==
  [][EmailsDistinct /\ ~ EmailsDistinct' =>
       \E h \in Handlers :
         \/ At(h, "saveAdmin")
         \/ At(h, "writeProfile") /\ handler[h].raced]_vars

VerdictShown(p) ==
  users[p].role = "driver" =>
    (users[p].isVerified <=> users[p].verificationStatus = "approved")

\* A driver's isVerified and verdict part only when the driver logs in with a one-time
\* password, or when two reviews race: save() leaves out what the slower one did not
\* change in the copy it had read.
VerdictsDriftByRace ==
  [][\A p \in Phones : VerdictShown(p) /\ ~ VerdictShown(p)' =>
       \E h \in Handlers :
         /\ handler[h].phone = p
         /\ \/ At(h, "clearOtp")
            \/ At(h, "saveReview") /\ handler[h].seen # ReviewOf(users[p])]_vars

-----------------------------------------------------------------------------
(* Refinement of AccountRegister *)

RoleOf == [p \in Phones |-> users[p].role]
GrantorOf == [p \in Phones |-> users[p].createdBy]

Register == INSTANCE AccountRegister WITH role <- RoleOf, grantor <- GrantorOf

\* The services keep the promises of AccountRegister.
RegisterSpec == Register!RSpec
=============================================================================
