------------------------------ MODULE Accounts ------------------------------
(***************************************************************************)
(* The state of accounts and sign-ins: the User collection (user.model.ts),*)
(* the one-time passwords in Redis, and the requests in flight.            *)
(*                                                                         *)
(* An account is its phone: the index on phone is unique and no operation  *)
(* changes it.  A refresh token is a JWT of the user's id, role, tenant    *)
(* and the second it was signed, and only its hash is stored; for one user *)
(* it is therefore its age.  Time is kept as the ages of the tokens that   *)
(* exist, up to the age at which the nightly cleaning removes them, so     *)
(* there is no clock to bound: an age a stands for the times from a up to  *)
(* a + 1.                                                                  *)
(*                                                                         *)
(* Names, tenants, devices and passwords are left out.                     *)
(***************************************************************************)
EXTENDS Naturals, FiniteSets

CONSTANTS
  Phones,          \* phone numbers
  Founders,        \* super administrators that are in the database from the start
  Emails,
  Codes,           \* one-time passwords
  Handlers,        \* requests served at the same time
  RefreshLife,     \* age at which a refresh token is no longer valid
  Retention,       \* age at which the scheduler removes a token, seven days
  MaxTokens,       \* bound on the refresh tokens of all accounts
  Workloads,       \* which operations, and which roles of new staff, are asked for together
  Faults           \* which of "db", "redis", "crash" may fail

CONSTANTS NoUser, NoEmail, NoCode

GrantedRoles == {"admin", "operator", "manager", "driver", "super_admin"}
AllOps == {"otp", "profile", "logout", "time", "login", "activation", "review"} \cup GrantedRoles

ASSUME AccountConstants ==
  /\ Founders \subseteq Phones
  /\ NoUser \notin Phones /\ NoEmail \notin Emails /\ NoCode \notin Codes
  /\ Workloads \subseteq SUBSET AllOps
  /\ Faults \subseteq {"db", "redis", "crash"}
\* REFRESH_EXPIRES_IN is at most the seven days scheduler.ts keeps a token.
ASSUME RetentionAssumption ==
  /\ RefreshLife \in Nat \ {0} /\ Retention \in Nat
  /\ RefreshLife <= Retention

VARIABLES
  users,    \* the User collection, by phone
  otp,      \* Redis: otp:<phone> -> the code that was sent
  handler,  \* the requests in flight
  ops       \* the Workload of this behaviour, chosen once

vars == <<users, otp, handler, ops>>

-----------------------------------------------------------------------------
Roles == {"user", "admin", "operator", "super_admin", "manager", "driver"}
Verdicts == {"pending", "approved", "rejected"}
Ages == 0 .. Retention

UserDocs ==
  [role : Roles \cup {"none"}, email : Emails \cup {NoEmail},
   isActive : BOOLEAN, isVerified : BOOLEAN,
   verificationStatus : Verdicts, verifiedBy : Phones \cup {NoUser},
   createdBy : Phones \cup {NoUser}, refreshTokens : SUBSET Ages]

\* The paths of a driver that a review reads and writes.
Reviews == [verificationStatus : Verdicts, verifiedBy : Phones \cup {NoUser},
            isVerified : BOOLEAN]
ReviewOf(doc) == [verificationStatus |-> doc.verificationStatus,
                  verifiedBy |-> doc.verifiedBy, isVerified |-> doc.isVerified]

OtpPCs == {"deleteOtp", "findByPhone", "createUser", "clearOtp"}
SessionPCs == {"comparePassword", "addToken", "pullToken", "clearTokens"}
AccountPCs == {"checkEmail", "writeProfile", "findCreator", "saveAdmin",
               "setActive", "setInactive", "findDriver", "saveReview"}

\* phone is the account a request is about, actor the one that sent it.  raced is history:
\* another request has taken the email since this one found it free.
Requests ==
  [pc : {"idle"} \cup OtpPCs \cup SessionPCs \cup AccountPCs,
   phone : Phones \cup {NoUser}, actor : Phones \cup {NoUser}, otpLogin : BOOLEAN,
   role : Roles \cup {"none"}, email : Emails \cup {NoEmail}, token : Ages,
   seen : Reviews, verdict : Verdicts, raced : BOOLEAN]

-----------------------------------------------------------------------------
\* The defaults of the schema.
Blank ==
  [role |-> "none", email |-> NoEmail, isActive |-> TRUE, isVerified |-> FALSE,
   verificationStatus |-> "pending", verifiedBy |-> NoUser, createdBy |-> NoUser,
   refreshTokens |-> {}]
Founder == [Blank EXCEPT !.role = "super_admin", !.isVerified = TRUE,
                         !.verificationStatus = "approved"]
Idle ==
  [pc |-> "idle", phone |-> NoUser, actor |-> NoUser, otpLogin |-> FALSE,
   role |-> "none", email |-> NoEmail, token |-> 0,
   seen |-> ReviewOf(Blank), verdict |-> "pending", raced |-> FALSE]

Init ==
  /\ users = [p \in Phones |-> IF p \in Founders THEN Founder ELSE Blank]
  /\ otp = [p \in Phones |-> NoCode]
  /\ handler = [h \in Handlers |-> Idle]
  /\ ops \in Workloads

-----------------------------------------------------------------------------
At(h, pc) == handler[h].pc = pc
Accept(h, request) == At(h, "idle") /\ handler' = [handler EXCEPT ![h] = request]
Goto(h, pc) == handler' = [handler EXCEPT ![h].pc = pc]
Answer(h) == handler' = [handler EXCEPT ![h] = Idle]

Registered(p) == users[p].role # "none"

\* authenticate: the access token is the user's own, and the strategy reads the account
\* again and refuses a suspended one.
Authenticated(p) == Registered(p) /\ users[p].isActive
RequireRoles(p, roles) == Authenticated(p) /\ users[p].role \in roles

\* The unique index on phone refuses a second document.
Insert(p, doc) == ~ Registered(p) /\ users' = [users EXCEPT ![p] = doc]

-----------------------------------------------------------------------------
\* Time passes: every token, stored or in a request's hands, grows older.
Older(a) == IF a = Retention THEN a ELSE a + 1

Tick ==
  /\ "time" \in ops
  /\ users' = [p \in Phones |->
                 [users[p] EXCEPT !.refreshTokens = {Older(a) : a \in @}]]
  /\ handler' = [h \in Handlers |->
                   IF handler[h].pc \in {"addToken", "pullToken"}
                   THEN [handler[h] EXCEPT !.token = Older(@)] ELSE handler[h]]
  /\ UNCHANGED otp
=============================================================================
