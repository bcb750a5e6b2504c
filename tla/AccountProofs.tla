---------------------------- MODULE AccountProofs ----------------------------
(***************************************************************************)
(* Proofs about AccountSystem, for every set of phones, founders, emails,  *)
(* codes and concurrent requests, every life of a token, every mixture of  *)
(* operations and every set of failures.                                   *)
(***************************************************************************)
EXTENDS AccountSystem, TLAPS

-----------------------------------------------------------------------------
(* Lemmas about the helpers of Accounts *)

\* The defaults of the schema and an idle slot have their types.
LEMMA DefaultsType ==
  /\ Blank \in UserDocs /\ Founder \in UserDocs
  /\ Idle \in Requests
  /\ Idle.pc = "idle"
  <1>1. 0 \in Ages
    BY RetentionAssumption DEF Ages
  <1>2. Blank \in UserDocs
    BY DEF Blank, UserDocs, Verdicts
  <1>3. [Blank EXCEPT !.role = "super_admin"] \in UserDocs
    BY <1>2 DEF UserDocs, Roles
  <1>4. Founder \in UserDocs
    BY <1>3 DEF Founder, UserDocs, Verdicts
  <1>5. ReviewOf(Blank) \in Reviews
    BY <1>2 DEF ReviewOf, Reviews, UserDocs
  <1>6. Idle \in Requests /\ Idle.pc = "idle"
    BY <1>1, <1>5 DEF Idle, Requests, Verdicts
  <1>. QED
    BY <1>2, <1>4, <1>6

\* An account without tokens has none to remove or to grow older.
LEMMA BlankHasNoTokens ==
  ASSUME NEW d, d = Blank
  PROVE  /\ [d EXCEPT !.refreshTokens = {a \in @ : a < Retention}] = d
         /\ [d EXCEPT !.refreshTokens = {Older(a) : a \in @}] = d
  <1>1. d.refreshTokens = {}
    BY DEF Blank
  <1>2. /\ {a \in d.refreshTokens : a < Retention} = {}
        /\ {Older(a) : a \in d.refreshTokens} = {}
    BY <1>1
  <1>3. [d EXCEPT !.refreshTokens = {}] = d
    BY <1>1, DefaultsType DEF UserDocs
  <1>4. [d EXCEPT !.refreshTokens = {a \in @ : a < Retention}] = d
    BY <1>2, <1>3, Zenon
  <1>5. [d EXCEPT !.refreshTokens = {Older(a) : a \in @}] = d
    BY <1>2, <1>3, Zenon
  <1>. QED
    BY <1>4, <1>5

\* An answered request leaves an idle slot, and the other requests are untouched.
LEMMA AnswerFrees ==
  ASSUME NEW h \in Handlers, TypeOK, Answer(h)
  PROVE  /\ handler' \in [Handlers -> Requests]
         /\ handler'[h] = Idle
         /\ \A g \in Handlers \ {h} : handler'[g] = handler[g]
  BY DefaultsType DEF Answer, TypeOK

\* A request that moves on keeps its locals, and the other requests are untouched.
LEMMA GotoMoves ==
  ASSUME NEW h \in Handlers, NEW pc \in OtpPCs \cup SessionPCs \cup AccountPCs,
         TypeOK, Goto(h, pc)
  PROVE  /\ handler' \in [Handlers -> Requests]
         /\ handler'[h] = [handler[h] EXCEPT !.pc = pc]
         /\ \A g \in Handlers \ {h} : handler'[g] = handler[g]
  BY DEF Goto, TypeOK, Requests

\* A request that is accepted fills its slot, and the other requests are untouched.
LEMMA AcceptFills ==
  ASSUME NEW h \in Handlers, NEW r \in Requests, TypeOK, Accept(h, r)
  PROVE  /\ handler' \in [Handlers -> Requests]
         /\ handler'[h] = r
         /\ \A g \in Handlers \ {h} : handler'[g] = handler[g]
  BY DEF Accept, TypeOK

\* An idle slot relies on nothing.
LEMMA IdleIsSound ==
  RequestSound(Idle) /\ RequestSound(Idle)'
  BY DefaultsType DEF RequestSound, Found, Managing

-----------------------------------------------------------------------------
(* What the documents keep *)

\* No registered account changes its role or its creator, or loses its reviewer.
AccountsKept ==
  \A p \in Phones :
    /\ Registered(p) => users'[p].role = users[p].role
    /\ users[p].verifiedBy # NoUser => users'[p].verifiedBy # NoUser

\* No email but e is written.
OnlyEmail(e) == \A p \in Phones : users'[p].email \in {users[p].email, e}

\* A request that waits while others write documents stays sound, unless one of them
\* writes the email it has found free.
LEMMA WaitingStaysSound ==
  ASSUME NEW r, NEW e, RequestSound(r), AccountsKept, OnlyEmail(e),
         r.pc = "writeProfile" /\ ~ r.raced /\ r.email # NoEmail => r.email # e
  PROVE  RequestSound(r)'
  <1>1. /\ r.pc # "idle" => r.phone \in Phones
        /\ r.pc \in Found => users'[r.phone].role # "none"
    BY DEF RequestSound, AccountsKept, Registered, Found
  <1>2. r.pc \in Managing => /\ r.actor \in Phones
                             /\ users'[r.actor].role = users[r.actor].role
    BY DEF RequestSound, AccountsKept, Registered, AdminCreators
  <1>3. r.pc = "saveReview" => /\ users'[r.phone].role = "driver"
                               /\ r.seen.verifiedBy # NoUser => users'[r.phone].verifiedBy # NoUser
    BY <1>1 DEF RequestSound, AccountsKept, Registered
  <1>4. r.pc = "writeProfile" /\ ~ r.raced /\ r.email # NoEmail
          => ~ \E q \in Phones \ {r.phone} : users'[q].email = r.email
    BY DEF RequestSound, OnlyEmail, EmailTaken
  <1>. QED
    BY <1>1, <1>2, <1>3, <1>4
    DEF RequestSound, Registered, EmailTaken, Managing

\* A step that leaves roles, creators and verdicts alone.
QuietStep ==
  /\ users' \in [Phones -> UserDocs]
  /\ \A p \in Phones :
       /\ users'[p].role = users[p].role
       /\ users'[p].createdBy = users[p].createdBy
       /\ users'[p].verifiedBy = users[p].verifiedBy
       /\ users'[p].verificationStatus = users[p].verificationStatus
       /\ ~ Registered(p) => users'[p] = users[p]

\* Such a step keeps every account in order.
LEMMA QuietKeepsAccounts ==
  ASSUME AccountInv, QuietStep
  PROVE  AccountsKept /\ AccountsSound'
  <1>1. AccountsKept
    BY DEF QuietStep, AccountsKept
  <1>2. ASSUME NEW p \in Phones
        PROVE  GrantSound(p)'
    BY DEF AccountInv, AccountsSound, GrantSound, QuietStep, Registered, GrantedRoles
  <1>3. ASSUME NEW p \in Phones
        PROVE  VerdictSound(p)'
    <2>1. users[p].verifiedBy \in Phones \cup {NoUser}
      BY DEF AccountInv, TypeOK, UserDocs
    <2>. QED
      BY <2>1 DEF AccountInv, AccountsSound, VerdictSound, QuietStep
  <1>. QED
    BY <1>1, <1>2, <1>3 DEF AccountsSound

\* A step that writes no document is such a step.
LEMMA SameUsersIsQuiet ==
  ASSUME AccountInv, UNCHANGED users
  PROVE  QuietStep /\ OnlyEmail(NoEmail)
  BY DEF AccountInv, TypeOK, QuietStep, OnlyEmail

\* A step of one request that writes no email keeps the invariant if the documents and that
\* request stay sound.
LEMMA StepKeeps ==
  ASSUME NEW h \in Handlers, AccountInv, TypeOK', AccountsSound', AccountsKept,
         OnlyEmail(NoEmail), RequestSound(handler[h])',
         \A g \in Handlers \ {h} : handler'[g] = handler[g]
  PROVE  AccountInv'
  <1>1. ASSUME NEW g \in Handlers, g # h
        PROVE  RequestSound(handler[g])'
    <2>1. RequestSound(handler[g])
      BY DEF AccountInv, RequestsSound
    <2>2. handler'[g] = handler[g]
      BY <1>1
    <2>3. \A r : r = handler[g] => RequestSound(r)'
      BY <2>1, WaitingStaysSound
    <2>. QED
      BY <2>2, <2>3 DEF RequestSound
  <1>. QED
    BY <1>1 DEF AccountInv, RequestsSound

\* A request that is accepted with the documents as they are.
LEMMA AcceptKeeps ==
  ASSUME NEW h \in Handlers, NEW r \in Requests, AccountInv, Accept(h, r), RequestSound(r),
         UNCHANGED <<users, otp, ops>>
  PROVE  AccountInv'
  <1>1. /\ handler' \in [Handlers -> Requests]
        /\ handler'[h] = r
        /\ \A g \in Handlers \ {h} : handler'[g] = handler[g]
    BY AcceptFills DEF AccountInv
  <1>2. TypeOK'
    BY <1>1 DEF AccountInv, TypeOK
  <1>3. RequestSound(handler[h])'
    BY <1>1 DEF RequestSound, EmailTaken, Registered
  <1>. QED
    BY <1>1, <1>2, <1>3, SameUsersIsQuiet, QuietKeepsAccounts, StepKeeps

\* A request that is answered after a quiet write, or none.
LEMMA AnswerKeeps ==
  ASSUME NEW h \in Handlers, AccountInv, Answer(h), QuietStep, OnlyEmail(NoEmail),
         otp' \in [Phones -> Codes \cup {NoCode}], UNCHANGED ops
  PROVE  AccountInv'
  <1>1. /\ handler' \in [Handlers -> Requests]
        /\ handler'[h] = Idle
        /\ \A g \in Handlers \ {h} : handler'[g] = handler[g]
    BY AnswerFrees DEF AccountInv
  <1>2. TypeOK'
    BY <1>1 DEF AccountInv, TypeOK, QuietStep
  <1>3. RequestSound(handler[h])'
    BY <1>1, DefaultsType DEF RequestSound, Found, Managing
  <1>. QED
    BY <1>1, <1>2, <1>3, QuietKeepsAccounts, StepKeeps

\* A request that goes on after a quiet write, or none.
LEMMA GotoKeeps ==
  ASSUME NEW h \in Handlers, NEW pc \in OtpPCs \cup SessionPCs \cup AccountPCs,
         AccountInv, Goto(h, pc), QuietStep, OnlyEmail(NoEmail),
         RequestSound(handler[h])',
         otp' \in [Phones -> Codes \cup {NoCode}], UNCHANGED ops
  PROVE  AccountInv'
  <1>1. /\ handler' \in [Handlers -> Requests]
        /\ \A g \in Handlers \ {h} : handler'[g] = handler[g]
    BY GotoMoves DEF AccountInv
  <1>2. TypeOK'
    BY <1>1 DEF AccountInv, TypeOK, QuietStep
  <1>. QED
    BY <1>1, <1>2, QuietKeepsAccounts, StepKeeps

\* A request that goes on keeps its locals.
LEMMA GotoLocals ==
  ASSUME NEW h \in Handlers, NEW pc \in OtpPCs \cup SessionPCs \cup AccountPCs,
         AccountInv, Goto(h, pc)
  PROVE  /\ handler'[h].pc = pc
         /\ handler'[h].phone = handler[h].phone
         /\ handler'[h].actor = handler[h].actor
         /\ handler'[h].role = handler[h].role
         /\ handler'[h].email = handler[h].email
         /\ handler'[h].seen = handler[h].seen
         /\ handler'[h].raced = handler[h].raced
  BY DEF AccountInv, TypeOK, Goto, Requests

-----------------------------------------------------------------------------
(* Every step preserves the invariant *)

\* The requests of auth.service.ts about one's own account.
LEMMA AuthRequestInv ==
  ASSUME NEW h \in Handlers, AccountInv, AuthRequest(h), UNCHANGED ops
  PROVE  AccountInv'
  <1>1. ASSUME NEW p \in Phones, NEW c \in Codes, VerifyOtp(h, p, c)
        PROVE  AccountInv'
    <2> DEFINE r == [Idle EXCEPT !.pc = "deleteOtp", !.phone = p, !.otpLogin = TRUE]
    <2>1. r \in Requests
      BY DefaultsType DEF Requests, OtpPCs
    <2>2. r.pc = "deleteOtp" /\ r.phone = p
      BY DefaultsType DEF Requests
    <2>3. RequestSound(r)
      BY <2>2 DEF RequestSound, Found, Managing
    <2>. QED
      BY <1>1, <2>1, <2>3, AcceptKeeps DEF VerifyOtp
  <1>2. ASSUME NEW p \in Phones, AdminLogin(h, p) \/ OperatorLogin(h, p)
        PROVE  AccountInv'
    <2> DEFINE r == [Idle EXCEPT !.pc = "comparePassword", !.phone = p]
    <2>1. r \in Requests
      BY DefaultsType DEF Requests, SessionPCs
    <2>2. r.pc = "comparePassword" /\ r.phone = p
      BY DefaultsType DEF Requests
    <2>3. Registered(p)
      BY <1>2 DEF AdminLogin, OperatorLogin, PasswordLogin, Registered
    <2>4. RequestSound(r)
      BY <2>2, <2>3 DEF RequestSound, Found, Managing
    <2>5. Accept(h, r) /\ UNCHANGED <<users, otp>>
      BY <1>2 DEF AdminLogin, OperatorLogin, PasswordLogin
    <2>. QED
      BY <2>1, <2>4, <2>5, AcceptKeeps
  <1>3. ASSUME NEW p \in Phones, NEW t \in users[p].refreshTokens, Logout(h, p, t)
        PROVE  AccountInv'
    <2> DEFINE r == [Idle EXCEPT !.pc = "pullToken", !.phone = p, !.token = t]
    <2>1. t \in Ages
      BY DEF AccountInv, TypeOK, UserDocs
    <2>2. r \in Requests
      BY <2>1, DefaultsType DEF Requests, SessionPCs
    <2>3. r.pc = "pullToken" /\ r.phone = p
      BY DefaultsType DEF Requests
    <2>4. RequestSound(r)
      BY <1>3, <2>3 DEF Logout, Authenticated, RequestSound, Found, Managing
    <2>. QED
      BY <1>3, <2>2, <2>4, AcceptKeeps DEF Logout
  <1>4. ASSUME NEW p \in Phones, LogoutAllDevices(h, p)
        PROVE  AccountInv'
    <2> DEFINE r == [Idle EXCEPT !.pc = "clearTokens", !.phone = p]
    <2>1. r \in Requests
      BY DefaultsType DEF Requests, SessionPCs
    <2>2. r.pc = "clearTokens" /\ r.phone = p
      BY DefaultsType DEF Requests
    <2>3. RequestSound(r)
      BY <1>4, <2>2 DEF LogoutAllDevices, Authenticated, RequestSound, Found, Managing
    <2>. QED
      BY <1>4, <2>1, <2>3, AcceptKeeps DEF LogoutAllDevices
  <1>5. ASSUME NEW p \in Phones, NEW e \in Emails \cup {NoEmail}, CompleteRegistration(h, p, e)
        PROVE  AccountInv'
    <2> DEFINE r == [Idle EXCEPT !.pc = IF e = NoEmail THEN "writeProfile" ELSE "checkEmail",
                                 !.phone = p, !.email = e]
    <2>1. r \in Requests
      BY DefaultsType DEF Requests, AccountPCs
    <2>2. /\ r.pc = IF e = NoEmail THEN "writeProfile" ELSE "checkEmail"
          /\ r.phone = p /\ r.email = e
      BY DefaultsType DEF Requests
    <2>3. RequestSound(r)
      BY <1>5, <2>2 DEF CompleteRegistration, RequestSound, Found, Managing
    <2>. QED
      BY <1>5, <2>1, <2>3, AcceptKeeps DEF CompleteRegistration
  <1>. QED
    BY <1>1, <1>2, <1>3, <1>4, <1>5 DEF AuthRequest, EmailsSent

\* The requests of the staff.
LEMMA AdminRequestInv ==
  ASSUME NEW h \in Handlers, AccountInv, AdminRequest(h), UNCHANGED ops
  PROVE  AccountInv'
  <1>1. ASSUME NEW a \in Phones, NEW p \in Phones, NEW role \in GrantedRoles,
               NEW e \in Emails \cup {NoEmail}, CreateAdmin(h, a, p, role, e)
        PROVE  AccountInv'
    <2> DEFINE r == [Idle EXCEPT !.pc = "findCreator", !.phone = p, !.actor = a,
                                 !.role = role, !.email = e]
    <2>1. r \in Requests
      BY DefaultsType DEF Requests, AccountPCs, GrantedRoles, Roles
    <2>2. r.pc = "findCreator" /\ r.phone = p /\ r.actor = a /\ r.role = role
      BY DefaultsType DEF Requests
    <2>3. RequestSound(r)
      BY <1>1, <2>2 DEF CreateAdmin, RequireRoles, RequestSound, Found, Managing
    <2>. QED
      BY <1>1, <2>1, <2>3, AcceptKeeps DEF CreateAdmin
  <1>2. ASSUME NEW a \in Phones, NEW p \in Phones, DeactivateUser(h, a, p)
        PROVE  AccountInv'
    <2> DEFINE r == [Idle EXCEPT !.pc = "setInactive", !.phone = p, !.actor = a]
    <2>1. r \in Requests
      BY DefaultsType DEF Requests, AccountPCs
    <2>2. r.pc = "setInactive" /\ r.phone = p /\ r.actor = a
      BY DefaultsType DEF Requests
    <2>3. RequestSound(r)
      BY <1>2, <2>2
      DEF DeactivateUser, RequireRoles, RequestSound, Found, Managing, Administrators,
          AdminCreators
    <2>. QED
      BY <1>2, <2>1, <2>3, AcceptKeeps DEF DeactivateUser
  <1>3. ASSUME NEW a \in Phones, NEW p \in Phones, ActivateUser(h, a, p)
        PROVE  AccountInv'
    <2> DEFINE r == [Idle EXCEPT !.pc = "setActive", !.phone = p, !.actor = a]
    <2>1. r \in Requests
      BY DefaultsType DEF Requests, AccountPCs
    <2>2. r.pc = "setActive" /\ r.phone = p /\ r.actor = a
      BY DefaultsType DEF Requests
    <2>3. RequestSound(r)
      BY <1>3, <2>2
      DEF ActivateUser, RequireRoles, RequestSound, Found, Managing, Administrators,
          AdminCreators
    <2>. QED
      BY <1>3, <2>1, <2>3, AcceptKeeps DEF ActivateUser
  <1>4. ASSUME NEW a \in Phones, NEW p \in Phones, NEW v \in Verdicts, ReviewDriver(h, a, p, v)
        PROVE  AccountInv'
    <2> DEFINE r == [Idle EXCEPT !.pc = "findDriver", !.phone = p, !.actor = a, !.verdict = v]
    <2>1. r \in Requests
      BY DefaultsType DEF Requests, AccountPCs
    <2>2. r.pc = "findDriver" /\ r.phone = p /\ r.actor = a
      BY DefaultsType DEF Requests
    <2>3. RequestSound(r)
      BY <1>4, <2>2
      DEF ReviewDriver, RequireRoles, RequestSound, Found, Managing, Reviewers, AdminCreators
    <2>. QED
      BY <1>4, <2>1, <2>3, AcceptKeeps DEF ReviewDriver
  <1>. QED
    BY <1>1, <1>2, <1>3, <1>4 DEF AdminRequest, EmailsSent

\* An update of one's own profile (user.service.ts).
LEMMA ProfileRequestInv ==
  ASSUME NEW h \in Handlers, AccountInv, ProfileRequest(h), UNCHANGED ops
  PROVE  AccountInv'
  <1> PICK p \in Phones, e \in Emails : UpdateProfile(h, p, e)
    BY DEF ProfileRequest
  <1> DEFINE r == [Idle EXCEPT !.pc = "checkEmail", !.phone = p, !.email = e]
  <1>1. r \in Requests
    BY DefaultsType DEF Requests, AccountPCs
  <1>2. r.pc = "checkEmail" /\ r.phone = p
    BY DefaultsType DEF Requests
  <1>3. RequestSound(r)
    BY <1>2 DEF UpdateProfile, Authenticated, RequestSound, Found, Managing
  <1>. QED
    BY <1>1, <1>3, AcceptKeeps DEF UpdateProfile

\* A request that has deleted its code or looked for its account goes on.
LEMMA OtpInv ==
  ASSUME NEW h \in Handlers, AccountInv, DeleteOtp(h) \/ FindByPhone(h) \/ ComparePassword(h),
         UNCHANGED ops
  PROVE  AccountInv'
  <1>1. /\ TypeOK /\ RequestSound(handler[h])
        /\ UNCHANGED users /\ QuietStep /\ OnlyEmail(NoEmail)
    BY SameUsersIsQuiet
    DEF AccountInv, RequestsSound, DeleteOtp, FindByPhone, ComparePassword
  <1>2. otp' \in [Phones -> Codes \cup {NoCode}]
    BY <1>1 DEF TypeOK, DeleteOtp, FindByPhone, ComparePassword
  <1>3. CASE DeleteOtp(h)
    <2>1. handler'[h].pc = "findByPhone" /\ handler'[h].phone = handler[h].phone
      BY <1>3, GotoLocals DEF DeleteOtp, OtpPCs
    <2>2. RequestSound(handler[h])'
      BY <1>1, <1>3, <2>1 DEF DeleteOtp, At, RequestSound, Found, Managing
    <2>. QED
      BY <1>1, <1>2, <1>3, <2>2, GotoKeeps DEF DeleteOtp, OtpPCs
  <1>4. CASE FindByPhone(h)
    <2> DEFINE pc == IF Registered(handler[h].phone) THEN "addToken" ELSE "createUser"
    <2>1. pc \in OtpPCs \cup SessionPCs \cup AccountPCs
      BY DEF OtpPCs, SessionPCs
    <2>2. handler'[h].pc = pc /\ handler'[h].phone = handler[h].phone
      BY <1>4, <2>1, GotoLocals DEF FindByPhone
    <2>3. RequestSound(handler[h])'
      BY <1>1, <1>4, <2>2 DEF FindByPhone, At, RequestSound, Found, Managing, Registered
    <2>. QED
      BY <1>1, <1>2, <1>4, <2>1, <2>3, GotoKeeps DEF FindByPhone
  <1>5. CASE ComparePassword(h) /\ Goto(h, "addToken")
    <2>1. handler'[h].pc = "addToken" /\ handler'[h].phone = handler[h].phone
      BY <1>5, GotoLocals DEF SessionPCs
    <2>2. RequestSound(handler[h])'
      BY <1>1, <1>5, <2>1
      DEF ComparePassword, At, RequestSound, Found, Managing, Registered
    <2>. QED
      BY <1>1, <1>2, <1>5, <2>2, GotoKeeps DEF SessionPCs
  <1>6. CASE ComparePassword(h) /\ Answer(h)
    BY <1>1, <1>2, <1>6, AnswerKeeps
  <1>. QED
    BY <1>3, <1>4, <1>5, <1>6 DEF ComparePassword

\* The insert of a new account: nobody else's documents change, and this one is in order.
LEMMA InsertKeepsAccounts ==
  ASSUME NEW p \in Phones, NEW d \in UserDocs, AccountInv, Insert(p, d),
         d.role # "none", d.verifiedBy = NoUser,
         d.role = "driver" => d.verificationStatus = "pending",
         \/ d.role = "user"
         \/ /\ d.role \in GrantedRoles /\ d.createdBy \in Phones
            /\ MayCreate(users[d.createdBy].role, d.role)
  PROVE  /\ users' \in [Phones -> UserDocs]
         /\ AccountsKept /\ AccountsSound'
         /\ OnlyEmail(d.email)
  <1>1. /\ users' = [users EXCEPT ![p] = d]
        /\ users[p].role = "none" /\ users[p] = Blank
        /\ users \in [Phones -> UserDocs]
    BY DEF Insert, Registered, AccountInv, AccountsSound, GrantSound, TypeOK, GrantedRoles
  <1>2. users[p].verifiedBy = NoUser
    BY <1>1 DEF Blank
  <1>3. /\ users' \in [Phones -> UserDocs]
        /\ AccountsKept
        /\ OnlyEmail(d.email)
    BY <1>1, <1>2 DEF AccountsKept, Registered, OnlyEmail
  <1>4. users'[p] = d /\ \A q \in Phones \ {p} : users'[q] = users[q]
    BY <1>1
  <1>5. ASSUME NEW q \in Phones
        PROVE  GrantSound(q)'
    <2>1. CASE q = p
      <3>1. d.role # "user" => d.createdBy # p
        BY <1>1 DEF MayCreate
      <3>. QED
        BY <1>4, <2>1, <3>1 DEF GrantSound
    <2>2. CASE q # p
      <3>1. GrantSound(q) /\ users'[q] = users[q]
        BY <1>4, <2>2 DEF AccountInv, AccountsSound
      <3>2. ASSUME users[q].createdBy \in Phones,
                   MayCreate(users[users[q].createdBy].role, users[q].role)
            PROVE  users'[users[q].createdBy] = users[users[q].createdBy]
        BY <1>1, <1>4, <3>2 DEF MayCreate
      <3>. QED
        BY <3>1, <3>2 DEF GrantSound
    <2>. QED
      BY <2>1, <2>2
  <1>6. ASSUME NEW q \in Phones
        PROVE  VerdictSound(q)'
    <2>1. CASE q = p
      BY <1>4, <2>1 DEF VerdictSound
    <2>2. CASE q # p
      <3>1. VerdictSound(q) /\ users'[q] = users[q]
        BY <1>4, <2>2 DEF AccountInv, AccountsSound
      <3>2. users[q].verifiedBy \in Phones \cup {NoUser}
        BY <1>1 DEF UserDocs
      <3>3. ASSUME users[q].role = "driver", users[q].verifiedBy # NoUser
            PROVE  users'[users[q].verifiedBy] = users[users[q].verifiedBy]
        BY <1>1, <1>4, <3>1, <3>2, <3>3 DEF VerdictSound, Reviewers
      <3>. QED
        BY <3>1, <3>3 DEF VerdictSound
    <2>. QED
      BY <2>1, <2>2
  <1>. QED
    BY <1>3, <1>5, <1>6 DEF AccountsSound

\* The first login of a phone.
LEMMA CreateUserInv ==
  ASSUME NEW h \in Handlers, AccountInv, CreateUser(h), UNCHANGED ops
  PROVE  AccountInv'
  <1> DEFINE p == handler[h].phone
             d == [Blank EXCEPT !.role = "user"]
  <1>1. /\ TypeOK /\ p \in Phones
        /\ otp' \in [Phones -> Codes \cup {NoCode}]
    BY DEF AccountInv, RequestsSound, RequestSound, TypeOK, CreateUser, At
  <1>2. CASE Insert(p, d) /\ Goto(h, "addToken")
    <2>1. /\ d \in UserDocs /\ d.role = "user" /\ d.verifiedBy = NoUser /\ d.email = NoEmail
      BY DefaultsType DEF Blank, UserDocs, Roles
    <2>2. /\ users' \in [Phones -> UserDocs]
          /\ AccountsKept /\ AccountsSound'
          /\ OnlyEmail(NoEmail)
      BY <1>1, <1>2, <2>1, InsertKeepsAccounts
    <2>3. users'[p].role = "user"
      BY <1>1, <1>2, <2>1 DEF Insert, TypeOK
    <2>4. /\ handler' \in [Handlers -> Requests]
          /\ handler'[h].pc = "addToken" /\ handler'[h].phone = p
          /\ \A g \in Handlers \ {h} : handler'[g] = handler[g]
      BY <1>1, <1>2, GotoMoves, GotoLocals DEF SessionPCs
    <2>5. RequestSound(handler[h])'
      BY <1>1, <2>3, <2>4 DEF RequestSound, Registered, Found, Managing
    <2>6. TypeOK'
      BY <1>1, <2>2, <2>4 DEF TypeOK
    <2>. QED
      BY <2>2, <2>4, <2>5, <2>6, StepKeeps
  <1>3. CASE Answer(h) /\ UNCHANGED users
    BY <1>1, <1>3, SameUsersIsQuiet, AnswerKeeps
  <1>. QED
    BY <1>2, <1>3 DEF CreateUser

\* The quiet writes of one registered account.
LEMMA QuietWrites ==
  ASSUME NEW p \in Phones, AccountInv, Registered(p),
         \/ \E v \in BOOLEAN : \/ users' = [users EXCEPT ![p].isVerified = v]
                               \/ users' = [users EXCEPT ![p].isActive = v]
         \/ \E T \in SUBSET Ages : users' = [users EXCEPT ![p].refreshTokens = T]
  PROVE  QuietStep /\ OnlyEmail(NoEmail)
  <1>1. users \in [Phones -> UserDocs]
    BY DEF AccountInv, TypeOK
  <1>2. ASSUME NEW v \in BOOLEAN, users' = [users EXCEPT ![p].isVerified = v]
        PROVE  QuietStep /\ OnlyEmail(NoEmail)
    BY <1>1, <1>2 DEF QuietStep, OnlyEmail, UserDocs
  <1>3. ASSUME NEW v \in BOOLEAN, users' = [users EXCEPT ![p].isActive = v]
        PROVE  QuietStep /\ OnlyEmail(NoEmail)
    BY <1>1, <1>3 DEF QuietStep, OnlyEmail, UserDocs
  <1>4. ASSUME NEW T \in SUBSET Ages, users' = [users EXCEPT ![p].refreshTokens = T]
        PROVE  QuietStep /\ OnlyEmail(NoEmail)
    BY <1>1, <1>4 DEF QuietStep, OnlyEmail, UserDocs
  <1>. QED
    BY <1>2, <1>3, <1>4

\* The writes that follow a login, a logout or a decision about a suspension.
LEMMA QuietRequestsInv ==
  ASSUME NEW h \in Handlers, AccountInv, UNCHANGED ops,
         ClearOtp(h) \/ AddToken(h) \/ PullToken(h) \/ ClearTokens(h) \/ SetActivation(h)
  PROVE  AccountInv'
  <1> DEFINE p == handler[h].phone
  <1>1. /\ TypeOK /\ RequestSound(handler[h])
        /\ handler[h].token \in Ages
        /\ otp' \in [Phones -> Codes \cup {NoCode}]
    BY DEF AccountInv, RequestsSound, TypeOK, Requests, ClearOtp, AddToken, PullToken,
           ClearTokens, SetActivation
  <1>2. ASSUME Registered(p), p \in Phones
        PROVE  QuietStep /\ OnlyEmail(NoEmail)
    <2>1. users[p].refreshTokens \in SUBSET Ages
      BY <1>1, <1>2 DEF TypeOK, UserDocs
    <2>2. \/ \E v \in BOOLEAN : \/ users' = [users EXCEPT ![p].isVerified = v]
                                \/ users' = [users EXCEPT ![p].isActive = v]
          \/ \E T \in SUBSET Ages : users' = [users EXCEPT ![p].refreshTokens = T]
      <3>1. CASE ClearOtp(h)
        BY <3>1 DEF ClearOtp
      <3>2. CASE AddToken(h)
        <4>1. users' = [users EXCEPT ![p].refreshTokens
                                       = users[p].refreshTokens \cup {handler[h].token}]
          BY <3>2 DEF AddToken
        <4>. QED
          BY <1>1, <2>1, <4>1
      <3>3. CASE PullToken(h)
        <4>1. users' = [users EXCEPT ![p].refreshTokens
                                       = users[p].refreshTokens \ {handler[h].token}]
          BY <3>3 DEF PullToken
        <4>. QED
          BY <2>1, <4>1
      <3>4. CASE ClearTokens(h)
        BY <3>4 DEF ClearTokens
      <3>5. CASE SetActivation(h)
        BY <3>5 DEF SetActivation, At
      <3>. QED
        BY <3>1, <3>2, <3>3, <3>4, <3>5
    <2>. QED
      BY <1>2, <2>2, QuietWrites
  <1>3. CASE \/ ClearOtp(h) \/ PullToken(h) \/ ClearTokens(h) \/ SetActivation(h)
             \/ AddToken(h) /\ Answer(h)
    <2>1. Registered(p) /\ p \in Phones
      BY <1>1, <1>3
      DEF ClearOtp, PullToken, ClearTokens, SetActivation, AddToken, At, RequestSound, Found
    <2>2. Answer(h)
      BY <1>3 DEF ClearOtp, PullToken, ClearTokens, SetActivation
    <2>. QED
      BY <1>1, <1>2, <2>1, <2>2, AnswerKeeps
  <1>4. CASE AddToken(h) /\ Goto(h, "clearOtp")
    <2>1. Registered(p) /\ p \in Phones
      BY <1>1, <1>4 DEF AddToken, At, RequestSound, Found
    <2>2. QuietStep /\ OnlyEmail(NoEmail)
      BY <1>2, <2>1
    <2>3. handler'[h].pc = "clearOtp" /\ handler'[h].phone = p
      BY <1>4, GotoLocals DEF OtpPCs
    <2>4. RequestSound(handler[h])'
      BY <2>1, <2>2, <2>3 DEF RequestSound, Registered, QuietStep, Found, Managing
    <2>. QED
      BY <1>1, <1>4, <2>2, <2>4, GotoKeeps DEF OtpPCs
  <1>. QED
    BY <1>3, <1>4 DEF AddToken

\* An answer after a write of the email e marks the requests that found e free as raced.
LEMMA EmailStepKeeps ==
  ASSUME NEW h \in Handlers, NEW e \in Emails \cup {NoEmail}, AccountInv,
         users' \in [Phones -> UserDocs], AccountsSound', AccountsKept, OnlyEmail(e),
         AnswerWithEmail(h, e), UNCHANGED <<otp, ops>>
  PROVE  AccountInv'
  <1>1. handler \in [Handlers -> Requests] /\ TypeOK
    BY DEF AccountInv, TypeOK
  <1> DEFINE raced(g) == handler[g].raced
                           \/ (At(g, "writeProfile") /\ e # NoEmail /\ handler[g].email = e)
  <1>2. /\ handler'[h] = Idle
        /\ \A g \in Handlers \ {h} : handler'[g] = [handler[g] EXCEPT !.raced = raced(g)]
        /\ handler' = [g \in Handlers |-> handler'[g]]
    BY DEF AnswerWithEmail
  <1>3. \A g \in Handlers \ {h} : [handler[g] EXCEPT !.raced = raced(g)] \in Requests
    BY <1>1 DEF Requests
  <1>4. handler' \in [Handlers -> Requests]
    BY <1>2, <1>3, DefaultsType
  <1>5. TypeOK'
    BY <1>1, <1>4 DEF TypeOK
  <1>6. ASSUME NEW g \in Handlers \ {h}
        PROVE  RequestSound(handler[g])'
    <2>1. ASSUME NEW r, r = [handler[g] EXCEPT !.raced = raced(g)]
          PROVE  RequestSound(r)'
      <3>1. /\ r.pc = handler[g].pc /\ r.phone = handler[g].phone
            /\ r.actor = handler[g].actor /\ r.role = handler[g].role
            /\ r.email = handler[g].email /\ r.seen = handler[g].seen
            /\ r.raced = raced(g)
        BY <1>1, <2>1 DEF Requests
      <3>2. RequestSound(handler[g])
        BY DEF AccountInv, RequestsSound
      <3>3. RequestSound(r)
        BY <3>1, <3>2 DEF RequestSound
      <3>4. r.pc = "writeProfile" /\ ~ r.raced /\ r.email # NoEmail => r.email # e
        BY <3>1 DEF At
      <3>. QED
        BY <3>3, <3>4, WaitingStaysSound
    <2>. QED
      BY <1>2, <2>1 DEF RequestSound
  <1>7. RequestSound(handler[h])'
    BY <1>2, DefaultsType DEF RequestSound, Found, Managing
  <1>. QED
    BY <1>5, <1>6, <1>7 DEF AccountInv, RequestsSound

\* createAdminUser checks its rules.
LEMMA FindCreatorInv ==
  ASSUME NEW h \in Handlers, AccountInv, FindCreator(h), UNCHANGED ops
  PROVE  AccountInv'
  <1>1. /\ TypeOK /\ RequestSound(handler[h]) /\ QuietStep /\ OnlyEmail(NoEmail)
        /\ otp' \in [Phones -> Codes \cup {NoCode}] /\ UNCHANGED users
    BY SameUsersIsQuiet DEF AccountInv, RequestsSound, TypeOK, FindCreator
  <1>2. CASE Answer(h)
    BY <1>1, <1>2, AnswerKeeps
  <1>3. CASE MayCreate(users[handler[h].actor].role, handler[h].role) /\ Goto(h, "saveAdmin")
    <2>1. /\ handler'[h].pc = "saveAdmin" /\ handler'[h].phone = handler[h].phone
          /\ handler'[h].actor = handler[h].actor /\ handler'[h].role = handler[h].role
      BY <1>3, GotoLocals DEF AccountPCs
    <2>2. RequestSound(handler[h])'
      BY <1>1, <1>3, <2>1 DEF FindCreator, At, RequestSound, Found, Managing
    <2>. QED
      BY <1>1, <1>3, <2>2, GotoKeeps DEF AccountPCs
  <1>. QED
    BY <1>2, <1>3 DEF FindCreator

\* The insert of an account by one of the staff.
LEMMA SaveAdminInv ==
  ASSUME NEW h \in Handlers, AccountInv, SaveAdmin(h), UNCHANGED ops
  PROVE  AccountInv'
  <1> DEFINE r == handler[h]
             driver == r.role = "driver"
             d == [Blank EXCEPT !.role = r.role, !.email = r.email, !.createdBy = r.actor,
                     !.isVerified = ~ driver,
                     !.verificationStatus = IF driver THEN "pending" ELSE "approved"]
  <1>1. /\ TypeOK /\ r \in Requests /\ UNCHANGED otp
        /\ r.phone \in Phones /\ r.actor \in Phones /\ r.role \in GrantedRoles
        /\ r.email \in Emails \cup {NoEmail}
        /\ MayCreate(users[r.actor].role, r.role)
    BY DEF AccountInv, RequestsSound, RequestSound, TypeOK, Requests, SaveAdmin, At, Managing
  <1>2. CASE Insert(r.phone, d) /\ AnswerWithEmail(h, r.email)
    <2>1. d \in UserDocs
      <3> DEFINE d1 == [Blank EXCEPT !.role = r.role, !.email = r.email]
                 d2 == [d1 EXCEPT !.createdBy = r.actor, !.isVerified = ~ driver]
      <3>1. d1 \in UserDocs
        BY <1>1, DefaultsType DEF UserDocs, Roles, GrantedRoles
      <3>2. d2 \in UserDocs
        BY <1>1, <3>1 DEF UserDocs
      <3>3. [d2 EXCEPT !.verificationStatus = IF driver THEN "pending" ELSE "approved"]
              \in UserDocs
        BY <3>2 DEF UserDocs, Verdicts
      <3>. QED
        BY <3>3
    <2>2. /\ d.role = r.role /\ d.email = r.email /\ d.createdBy = r.actor
          /\ d.verifiedBy = NoUser
          /\ driver => d.verificationStatus = "pending"
      BY DEF Blank
    <2>3. d.role # "none"
      BY <1>1, <2>2 DEF GrantedRoles
    <2>4. /\ users' \in [Phones -> UserDocs]
          /\ AccountsKept /\ AccountsSound'
          /\ OnlyEmail(r.email)
      BY <1>1, <1>2, <2>1, <2>2, <2>3, InsertKeepsAccounts
    <2>. QED
      BY <1>1, <1>2, <2>4, EmailStepKeeps
  <1>3. CASE Answer(h) /\ UNCHANGED users
    BY <1>1, <1>3, SameUsersIsQuiet, AnswerKeeps DEF TypeOK
  <1>. QED
    BY <1>2, <1>3 DEF SaveAdmin

\* The check of an email.
LEMMA CheckEmailInv ==
  ASSUME NEW h \in Handlers, AccountInv, CheckEmail(h), UNCHANGED ops
  PROVE  AccountInv'
  <1>1. /\ TypeOK /\ RequestSound(handler[h]) /\ QuietStep /\ OnlyEmail(NoEmail)
        /\ otp' \in [Phones -> Codes \cup {NoCode}] /\ UNCHANGED users
    BY SameUsersIsQuiet DEF AccountInv, RequestsSound, TypeOK, CheckEmail
  <1>2. CASE Answer(h)
    BY <1>1, <1>2, AnswerKeeps
  <1>3. CASE ~ EmailTaken(handler[h].phone, handler[h].email) /\ Goto(h, "writeProfile")
    <2>1. /\ handler'[h].pc = "writeProfile" /\ handler'[h].phone = handler[h].phone
          /\ handler'[h].email = handler[h].email
      BY <1>3, GotoLocals DEF AccountPCs
    <2>2. RequestSound(handler[h])'
      BY <1>1, <1>3, <2>1
      DEF CheckEmail, At, RequestSound, Registered, EmailTaken, Found, Managing
    <2>. QED
      BY <1>1, <1>3, <2>2, GotoKeeps DEF AccountPCs
  <1>. QED
    BY <1>2, <1>3 DEF CheckEmail

\* The write of a profile.
LEMMA WriteProfileInv ==
  ASSUME NEW h \in Handlers, AccountInv, WriteProfile(h), UNCHANGED ops
  PROVE  AccountInv'
  <1> DEFINE p == handler[h].phone
             e == handler[h].email
  <1>1. /\ users \in [Phones -> UserDocs] /\ UNCHANGED otp
        /\ p \in Phones /\ Registered(p) /\ e \in Emails \cup {NoEmail}
    BY DEF AccountInv, RequestsSound, RequestSound, TypeOK, Requests, WriteProfile, At, Found
  <1>2. users' = [users EXCEPT ![p].email = e] \/ UNCHANGED users
    BY DEF WriteProfile
  <1>3. QuietStep /\ OnlyEmail(e)
    BY <1>1, <1>2 DEF QuietStep, OnlyEmail, UserDocs
  <1>4. AccountsKept /\ AccountsSound' /\ users' \in [Phones -> UserDocs]
    BY <1>3, QuietKeepsAccounts DEF QuietStep
  <1>. QED
    BY <1>1, <1>3, <1>4, EmailStepKeeps DEF WriteProfile

\* A review reads the driver.
LEMMA FindDriverInv ==
  ASSUME NEW h \in Handlers, AccountInv, FindDriver(h), UNCHANGED ops
  PROVE  AccountInv'
  <1> DEFINE p == handler[h].phone
  <1>1. /\ TypeOK /\ RequestSound(handler[h]) /\ QuietStep /\ OnlyEmail(NoEmail)
        /\ otp' \in [Phones -> Codes \cup {NoCode}] /\ UNCHANGED users
        /\ p \in Phones
    BY SameUsersIsQuiet DEF AccountInv, RequestsSound, RequestSound, TypeOK, FindDriver, At
  <1>2. CASE Answer(h)
    BY <1>1, <1>2, AnswerKeeps
  <1>3. CASE /\ users[p].role = "driver"
             /\ handler' = [handler EXCEPT ![h].pc = "saveReview",
                                           ![h].seen = ReviewOf(users[p])]
    <2>1. ReviewOf(users[p]) \in Reviews
      BY <1>1 DEF TypeOK, UserDocs, ReviewOf, Reviews
    <2>2. ReviewOf(users[p]).verifiedBy = users[p].verifiedBy
      BY DEF ReviewOf
    <2>3. /\ handler' \in [Handlers -> Requests]
          /\ handler'[h].pc = "saveReview" /\ handler'[h].phone = p
          /\ handler'[h].actor = handler[h].actor
          /\ handler'[h].seen = ReviewOf(users[p])
          /\ \A g \in Handlers \ {h} : handler'[g] = handler[g]
      <3> DEFINE r == [handler[h] EXCEPT !.pc = "saveReview", !.seen = ReviewOf(users[p])]
      <3>1. handler \in [Handlers -> Requests]
        BY <1>1 DEF TypeOK
      <3>2. /\ r \in Requests
            /\ r.pc = "saveReview" /\ r.phone = p /\ r.actor = handler[h].actor
            /\ r.seen = ReviewOf(users[p])
        BY <2>1, <3>1 DEF Requests, AccountPCs
      <3>3. handler' = [handler EXCEPT ![h] = r]
        BY <1>3
      <3>. QED
        BY <3>1, <3>2, <3>3
    <2>4. RequestSound(handler[h])'
      BY <1>1, <1>3, <2>2, <2>3
      DEF FindDriver, At, RequestSound, Registered, Found, Managing
    <2>5. TypeOK'
      BY <1>1, <2>3 DEF TypeOK
    <2>. QED
      BY <1>1, <2>3, <2>4, <2>5, QuietKeepsAccounts, StepKeeps
  <1>. QED
    BY <1>2, <1>3 DEF FindDriver

\* What save() writes of a review.
LEMMA ReviewWrites ==
  ASSUME NEW h \in Handlers, TypeOK, SaveReview(h), handler[h].phone \in Phones
  PROVE  LET r == handler[h]
             p == r.phone IN
         /\ users' \in [Phones -> UserDocs]
         /\ \A q \in Phones : q # p => users'[q] = users[q]
         /\ users'[p].role = users[p].role
         /\ users'[p].createdBy = users[p].createdBy
         /\ users'[p].email = users[p].email
         /\ users'[p].isActive = users[p].isActive
         /\ users'[p].refreshTokens = users[p].refreshTokens
         /\ users'[p].verificationStatus = IF r.verdict = r.seen.verificationStatus
                                           THEN users[p].verificationStatus ELSE r.verdict
         /\ users'[p].verifiedBy = IF r.actor = r.seen.verifiedBy
                                   THEN users[p].verifiedBy ELSE r.actor
         /\ users'[p].isVerified = IF (r.verdict = "approved") = r.seen.isVerified
                                   THEN users[p].isVerified ELSE r.verdict = "approved"
  <1> DEFINE r == handler[h]
             p == r.phone
             status == IF r.verdict = r.seen.verificationStatus
                       THEN users[p].verificationStatus ELSE r.verdict
             reviewer == IF r.actor = r.seen.verifiedBy THEN users[p].verifiedBy ELSE r.actor
             shown == IF (r.verdict = "approved") = r.seen.isVerified
                      THEN users[p].isVerified ELSE r.verdict = "approved"
  <1>1. p \in Phones /\ users[p] \in UserDocs /\ r \in Requests
    BY DEF TypeOK
  <1>2. status \in Verdicts /\ reviewer \in Phones \cup {NoUser} /\ shown \in BOOLEAN
    BY <1>1 DEF UserDocs, Requests
  <1>3. users' = [users EXCEPT ![p] = [users[p] EXCEPT !.verificationStatus = status,
                                         !.verifiedBy = reviewer, !.isVerified = shown]]
    BY DEF SaveReview
  <1>4. [users[p] EXCEPT !.verificationStatus = status, !.verifiedBy = reviewer,
                         !.isVerified = shown] \in UserDocs
    BY <1>1, <1>2 DEF UserDocs
  <1>5. /\ users' \in [Phones -> UserDocs]
        /\ \A q \in Phones : q # p => users'[q] = users[q]
        /\ users'[p].role = users[p].role
        /\ users'[p].createdBy = users[p].createdBy
        /\ users'[p].email = users[p].email
        /\ users'[p].isActive = users[p].isActive
        /\ users'[p].refreshTokens = users[p].refreshTokens
        /\ users'[p].verificationStatus = status
        /\ users'[p].verifiedBy = reviewer
        /\ users'[p].isVerified = shown
    <2> HIDE DEF p, status, reviewer, shown
    <2>. QED
      BY <1>1, <1>3, <1>4 DEF TypeOK, UserDocs
  <1>. QED
    BY <1>5, Zenon

\* The review of a driver is saved: who reviews is one of the staff, and is named.
LEMMA SaveReviewInv ==
  ASSUME NEW h \in Handlers, AccountInv, SaveReview(h), UNCHANGED ops
  PROVE  AccountInv'
  <1> DEFINE r == handler[h]
             p == r.phone
  <1>1. /\ TypeOK /\ p \in Phones /\ users[p].role = "driver"
        /\ r.actor \in Phones /\ users[r.actor].role \in Reviewers
        /\ r.seen.verifiedBy # NoUser => users[p].verifiedBy # NoUser
        /\ r.actor # NoUser /\ UNCHANGED otp
    BY AccountConstants
    DEF AccountInv, RequestsSound, RequestSound, SaveReview, At, Managing, AdminCreators,
        Reviewers
  <1>2. /\ users' \in [Phones -> UserDocs]
        /\ \A q \in Phones : /\ users'[q].role = users[q].role
                             /\ users'[q].createdBy = users[q].createdBy
                             /\ users'[q].email = users[q].email
                             /\ q # p => users'[q] = users[q]
        /\ users'[p].verifiedBy \in {users[p].verifiedBy, r.actor}
        /\ users'[p].verifiedBy # NoUser
    BY <1>1, ReviewWrites
  <1>3. AccountsKept /\ OnlyEmail(NoEmail)
    BY <1>1, <1>2 DEF AccountsKept, OnlyEmail
  <1>4. ASSUME NEW q \in Phones
        PROVE  GrantSound(q)' /\ VerdictSound(q)'
    <2>1. /\ GrantSound(q) /\ VerdictSound(q)
          /\ users[q].verifiedBy \in Phones \cup {NoUser}
      BY <1>1 DEF AccountInv, AccountsSound, TypeOK, UserDocs
    <2>2. GrantSound(q)'
      BY <1>1, <1>2, <2>1 DEF GrantSound, GrantedRoles
    <2>3. VerdictSound(q)'
      BY <1>1, <1>2, <2>1 DEF VerdictSound
    <2>. QED
      BY <2>2, <2>3
  <1>5. /\ handler' \in [Handlers -> Requests]
        /\ handler'[h] = Idle
        /\ \A g \in Handlers \ {h} : handler'[g] = handler[g]
    BY <1>1, AnswerFrees DEF SaveReview
  <1>6. TypeOK'
    BY <1>1, <1>2, <1>5 DEF TypeOK
  <1>7. RequestSound(handler[h])'
    BY <1>5, DefaultsType DEF RequestSound, Found, Managing
  <1>. QED
    BY <1>3, <1>4, <1>5, <1>6, <1>7, StepKeeps DEF AccountsSound

\* Codes come and go, the cleaning removes tokens, and the process may restart.
LEMMA WorldInv ==
  ASSUME AccountInv, UNCHANGED ops,
         \/ \E p \in Phones, c \in Codes : SendOtp(p, c)
         \/ \E p \in Phones : ExpireOtp(p)
         \/ CleanExpiredTokens
         \/ Crash
  PROVE  AccountInv'
  <1>1. /\ TypeOK /\ \A h \in Handlers : RequestSound(handler[h])
        /\ users \in [Phones -> UserDocs]
    BY DEF AccountInv, RequestsSound, TypeOK
  <1>2. QuietStep /\ OnlyEmail(NoEmail)
    <2>1. CASE CleanExpiredTokens
      <3>1. ASSUME NEW p \in Phones
            PROVE  LET d == [users[p] EXCEPT !.refreshTokens = {a \in @ : a < Retention}] IN
                   /\ d \in UserDocs
                   /\ d.role = users[p].role /\ d.createdBy = users[p].createdBy
                   /\ d.verifiedBy = users[p].verifiedBy /\ d.email = users[p].email
                   /\ d.verificationStatus = users[p].verificationStatus
        <4>1. {a \in users[p].refreshTokens : a < Retention} \in SUBSET Ages
          BY <1>1 DEF UserDocs
        <4>. QED
          BY <1>1, <4>1 DEF UserDocs
      <3>2. ASSUME NEW p \in Phones, ~ Registered(p)
            PROVE  users'[p] = users[p]
        <4>1. users[p] = Blank
          BY <3>2 DEF AccountInv, AccountsSound, GrantSound, Registered, GrantedRoles
        <4>. QED
          BY <2>1, <4>1, BlankHasNoTokens DEF CleanExpiredTokens
      <3>. QED
        BY <2>1, <3>1, <3>2 DEF CleanExpiredTokens, QuietStep, OnlyEmail
    <2>2. CASE UNCHANGED users
      BY <2>2, SameUsersIsQuiet
    <2>. QED
      BY <2>1, <2>2 DEF SendOtp, ExpireOtp, Crash
  <1>3. \A h \in Handlers : handler'[h] \in {handler[h], Idle}
    BY DEF SendOtp, ExpireOtp, CleanExpiredTokens, Crash
  <1>4. /\ handler' \in [Handlers -> Requests]
        /\ otp' \in [Phones -> Codes \cup {NoCode}]
    BY <1>1, DefaultsType DEF TypeOK, SendOtp, ExpireOtp, CleanExpiredTokens, Crash
  <1>5. AccountsKept /\ AccountsSound'
    BY <1>2, QuietKeepsAccounts
  <1>6. ASSUME NEW h \in Handlers
        PROVE  RequestSound(handler[h])'
    <2>1. \A r : r = handler[h] => RequestSound(r)'
      BY <1>1, <1>2, <1>5, WaitingStaysSound
    <2>2. \A r : r = Idle => RequestSound(r)'
      BY IdleIsSound DEF RequestSound
    <2>. QED
      BY <1>3, <2>1, <2>2 DEF RequestSound
  <1>. QED
    BY <1>1, <1>2, <1>4, <1>5, <1>6 DEF AccountInv, RequestsSound, TypeOK, QuietStep

\* Time passes.
LEMMA TickInv ==
  ASSUME AccountInv, UNCHANGED ops, Tick
  PROVE  AccountInv'
  <1>1. /\ TypeOK /\ \A h \in Handlers : RequestSound(handler[h])
        /\ users \in [Phones -> UserDocs] /\ handler \in [Handlers -> Requests]
    BY DEF AccountInv, RequestsSound, TypeOK
  <1>2. \A a \in Ages : Older(a) \in Ages
    BY RetentionAssumption DEF Older, Ages
  <1>3. ASSUME NEW p \in Phones
        PROVE  LET d == [users[p] EXCEPT !.refreshTokens = {Older(a) : a \in @}] IN
               /\ d \in UserDocs
               /\ d.role = users[p].role /\ d.createdBy = users[p].createdBy
               /\ d.verifiedBy = users[p].verifiedBy /\ d.email = users[p].email
               /\ d.verificationStatus = users[p].verificationStatus
    <2>1. {Older(a) : a \in users[p].refreshTokens} \in SUBSET Ages
      BY <1>1, <1>2 DEF UserDocs
    <2>. QED
      BY <1>1, <2>1 DEF UserDocs
  <1>4. ASSUME NEW p \in Phones, ~ Registered(p)
        PROVE  users'[p] = users[p]
    <2>1. users[p] = Blank
      BY <1>4 DEF AccountInv, AccountsSound, GrantSound, Registered, GrantedRoles
    <2>. QED
      BY <2>1, BlankHasNoTokens DEF Tick
  <1>5. QuietStep /\ OnlyEmail(NoEmail)
    BY <1>3, <1>4 DEF Tick, QuietStep, OnlyEmail
  <1>6. ASSUME NEW h \in Handlers
        PROVE  /\ handler'[h] \in Requests
               /\ handler'[h].pc = handler[h].pc /\ handler'[h].phone = handler[h].phone
               /\ handler'[h].actor = handler[h].actor /\ handler'[h].role = handler[h].role
               /\ handler'[h].email = handler[h].email /\ handler'[h].seen = handler[h].seen
               /\ handler'[h].raced = handler[h].raced
    <2> DEFINE r == [handler[h] EXCEPT !.token = Older(handler[h].token)]
    <2>1. handler[h] \in Requests /\ Older(handler[h].token) \in Ages
      BY <1>1, <1>2 DEF Requests
    <2>2. /\ r \in Requests
          /\ r.pc = handler[h].pc /\ r.phone = handler[h].phone
          /\ r.actor = handler[h].actor /\ r.role = handler[h].role
          /\ r.email = handler[h].email /\ r.seen = handler[h].seen
          /\ r.raced = handler[h].raced
      BY <2>1 DEF Requests
    <2>3. handler'[h] \in {handler[h], r}
      BY DEF Tick
    <2>. QED
      BY <2>1, <2>2, <2>3
  <1>7. AccountsKept /\ AccountsSound'
    BY <1>5, QuietKeepsAccounts
  <1>8. ASSUME NEW h \in Handlers
        PROVE  RequestSound(handler[h])'
    <2>1. \A r : r = handler[h] => RequestSound(r)'
      BY <1>1, <1>5, <1>7, WaitingStaysSound
    <2>. QED
      BY <1>6, <2>1 DEF RequestSound
  <1>9. handler' \in [Handlers -> Requests]
    BY <1>6 DEF Tick
  <1>. QED
    BY <1>1, <1>5, <1>7, <1>8, <1>9 DEF AccountInv, RequestsSound, TypeOK, QuietStep, Tick

-----------------------------------------------------------------------------
(* The invariant *)

\* An empty database but for the founders is in order.
LEMMA InitInv == Init => AccountInv
  <1> SUFFICES ASSUME Init PROVE AccountInv
    OBVIOUS
  <1>1. TypeOK
    BY DefaultsType DEF Init, TypeOK
  <1>2. Founder.role = "super_admin" /\ Blank.role = "none"
    BY DEF Founder, Blank
  <1>3. AccountsSound
    BY <1>2 DEF Init, AccountsSound, GrantSound, VerdictSound
  <1>4. RequestsSound
    BY IdleIsSound DEF Init, RequestsSound
  <1>. QED
    BY <1>1, <1>3, <1>4 DEF AccountInv

\* Every call of a request in flight.
LEMMA ProceedInv ==
  ASSUME NEW h \in Handlers, AccountInv, Proceed(h), UNCHANGED ops
  PROVE  AccountInv'
  BY OtpInv, CreateUserInv, QuietRequestsInv, FindCreatorInv, SaveAdminInv, CheckEmailInv,
     WriteProfileInv, FindDriverInv, SaveReviewInv
  DEF Proceed

\* A call that fails ends its request.
LEMMA CallFailsInv ==
  ASSUME NEW h \in Handlers, AccountInv, CallFails(h), UNCHANGED ops
  PROVE  AccountInv'
  <1>1. Answer(h) /\ UNCHANGED <<users, otp>>
    BY DEF CallFails
  <1>2. otp \in [Phones -> Codes \cup {NoCode}]
    BY DEF AccountInv, TypeOK
  <1>. QED
    BY <1>1, <1>2, SameUsersIsQuiet, AnswerKeeps

\* Every step of the system.
LEMMA NextInv ==
  ASSUME AccountInv, [Next]_vars
  PROVE  AccountInv'
  <1>1. CASE UNCHANGED vars
    BY <1>1
    DEF vars, AccountInv, TypeOK, RequestsSound, RequestSound, AccountsSound, GrantSound,
        VerdictSound, Registered, EmailTaken
  <1>2. CASE Next
    BY <1>2, AuthRequestInv, AdminRequestInv, ProfileRequestInv, ProceedInv, CallFailsInv,
       WorldInv, TickInv
    DEF Next, Step
  <1>. QED
    BY <1>1, <1>2

\* Whatever requests race, accounts are in order: created by those who may, reviewed by the
\* staff, and found again by the requests that found them (auth.service.ts, user.service.ts).
THEOREM AccountsStayInOrder == Spec => []AccountInv
  <1>1. Init => AccountInv
    BY InitInv
  <1>2. AccountInv /\ [Next]_vars => AccountInv'
    BY NextInv
  <1>. QED
    BY <1>1, <1>2, PTL DEF Spec

-----------------------------------------------------------------------------
(* Which step writes an account *)

\* The steps that leave the accounts alone.
LEMMA ReadersWriteNothing ==
  ASSUME NEW h \in Handlers,
         \/ AuthRequest(h) \/ AdminRequest(h) \/ ProfileRequest(h) \/ CallFails(h)
         \/ DeleteOtp(h) \/ FindByPhone(h) \/ ComparePassword(h)
         \/ FindCreator(h) \/ CheckEmail(h) \/ FindDriver(h)
  PROVE  UNCHANGED users
  BY DEF AuthRequest, AdminRequest, ProfileRequest, CallFails, VerifyOtp, CompleteRegistration,
         Logout, LogoutAllDevices, AdminLogin, OperatorLogin, PasswordLogin, CreateAdmin,
         DeactivateUser, ActivateUser, ReviewDriver, UpdateProfile, DeleteOtp, FindByPhone,
         ComparePassword, FindCreator, CheckEmail, FindDriver

\* What a step does to the accounts.
Inserts(h, p, d) == handler[h].phone = p /\ Insert(p, d)
Writes ==
  \E h \in Handlers :
    \/ CreateUser(h) /\ Inserts(h, handler[h].phone, [Blank EXCEPT !.role = "user"])
    \/ ClearOtp(h) \/ AddToken(h) \/ PullToken(h) \/ ClearTokens(h)
    \/ SaveAdmin(h) /\ ~ Registered(handler[h].phone)
    \/ WriteProfile(h) \/ SetActivation(h) \/ SaveReview(h)

\* No other step writes an account.
LEMMA StepsWrite ==
  ASSUME [Next]_vars
  PROVE  Writes \/ CleanExpiredTokens \/ Tick \/ UNCHANGED users
  <1>1. CASE UNCHANGED vars
    BY <1>1 DEF vars
  <1>2. ASSUME NEW h \in Handlers, Proceed(h)
        PROVE  Writes \/ UNCHANGED users
    <2>1. CASE CreateUser(h)
      BY <2>1 DEF CreateUser, Writes, Inserts
    <2>2. CASE SaveAdmin(h)
      BY <2>2 DEF SaveAdmin, Writes, Insert
    <2>3. CASE \/ ClearOtp(h) \/ AddToken(h) \/ PullToken(h) \/ ClearTokens(h)
               \/ WriteProfile(h) \/ SetActivation(h) \/ SaveReview(h)
      BY <2>3 DEF Writes
    <2>. QED
      BY <1>2, <2>1, <2>2, <2>3, ReadersWriteNothing DEF Proceed
  <1>3. CASE \/ \E p \in Phones, c \in Codes : SendOtp(p, c)
             \/ \E p \in Phones : ExpireOtp(p)
             \/ Crash
    BY <1>3 DEF SendOtp, ExpireOtp, Crash
  <1>. QED
    BY <1>1, <1>2, <1>3, ReadersWriteNothing DEF Next, Step

\* A request writes only the account it is about.
LEMMA WritesOwnAccount ==
  ASSUME NEW h \in Handlers, NEW q \in Phones, TypeOK, handler[h].phone # q,
         \/ CreateUser(h) \/ ClearOtp(h) \/ AddToken(h) \/ PullToken(h) \/ ClearTokens(h)
         \/ SaveAdmin(h) \/ WriteProfile(h) \/ SetActivation(h) \/ SaveReview(h)
  PROVE  users'[q] = users[q]
  <1>1. CASE CreateUser(h)
    BY <1>1 DEF CreateUser, Insert, TypeOK
  <1>2. CASE ClearOtp(h)
    BY <1>2 DEF ClearOtp, TypeOK
  <1>3. CASE AddToken(h)
    BY <1>3 DEF AddToken, TypeOK
  <1>4. CASE PullToken(h)
    BY <1>4 DEF PullToken, TypeOK
  <1>5. CASE ClearTokens(h)
    BY <1>5 DEF ClearTokens, TypeOK
  <1>6. CASE SaveAdmin(h)
    BY <1>6 DEF SaveAdmin, Insert, TypeOK
  <1>7. CASE WriteProfile(h)
    BY <1>7 DEF WriteProfile, TypeOK
  <1>8. CASE SetActivation(h)
    BY <1>8 DEF SetActivation, TypeOK
  <1>9. CASE SaveReview(h)
    BY <1>9 DEF SaveReview, TypeOK
  <1>. QED
    BY <1>1, <1>2, <1>3, <1>4, <1>5, <1>6, <1>7, <1>8, <1>9

\* Which step changes which part of a registered account.
LEMMA WhoWritesWhat ==
  ASSUME AccountInv, [Next]_vars, NEW q \in Phones, Registered(q)
  PROVE  /\ users'[q].role = users[q].role
         /\ users'[q].createdBy = users[q].createdBy
         /\ users'[q].isActive # users[q].isActive =>
              \E h \in Handlers : handler[h].phone = q /\ SetActivation(h)
         /\ users'[q].email # users[q].email =>
              \E h \in Handlers : handler[h].phone = q /\ WriteProfile(h)
         /\ ReviewOf(users'[q]) # ReviewOf(users[q]) =>
              \E h \in Handlers : handler[h].phone = q /\ (ClearOtp(h) \/ SaveReview(h))
         /\ ~ (users[q].refreshTokens \subseteq users'[q].refreshTokens) =>
              \/ Tick \/ CleanExpiredTokens
              \/ \E h \in Handlers : handler[h].phone = q /\ (PullToken(h) \/ ClearTokens(h))
  <1>1. TypeOK /\ users[q] \in UserDocs
    BY DEF AccountInv, TypeOK
  <1>2. CASE UNCHANGED users
    BY <1>2
  <1>3. CASE CleanExpiredTokens \/ Tick
    BY <1>1, <1>3 DEF CleanExpiredTokens, Tick, UserDocs, ReviewOf
  <1>4. ASSUME NEW h \in Handlers, handler[h].phone = q, ClearOtp(h)
        PROVE  users'[q] = [users[q] EXCEPT !.isVerified = TRUE]
    BY <1>1, <1>4 DEF ClearOtp, TypeOK
  <1>5. ASSUME NEW h \in Handlers, handler[h].phone = q, AddToken(h)
        PROVE  users'[q] = [users[q] EXCEPT !.refreshTokens
                                               = users[q].refreshTokens \cup {handler[h].token}]
    BY <1>1, <1>5 DEF AddToken, TypeOK
  <1>6. ASSUME NEW h \in Handlers, handler[h].phone = q, PullToken(h) \/ ClearTokens(h)
        PROVE  \E T : users'[q] = [users[q] EXCEPT !.refreshTokens = T]
    BY <1>1, <1>6 DEF PullToken, ClearTokens, TypeOK
  <1>7. ASSUME NEW h \in Handlers, handler[h].phone = q, WriteProfile(h)
        PROVE  users'[q] \in {users[q], [users[q] EXCEPT !.email = handler[h].email]}
    BY <1>1, <1>7 DEF WriteProfile, TypeOK
  <1>8. ASSUME NEW h \in Handlers, handler[h].phone = q, SetActivation(h)
        PROVE  users'[q] = [users[q] EXCEPT !.isActive = At(h, "setActive")]
    BY <1>1, <1>8 DEF SetActivation, TypeOK
  <1>9. ASSUME NEW h \in Handlers, handler[h].phone = q, SaveReview(h)
        PROVE  /\ users'[q].role = users[q].role
               /\ users'[q].createdBy = users[q].createdBy
               /\ users'[q].email = users[q].email
               /\ users'[q].isActive = users[q].isActive
               /\ users'[q].refreshTokens = users[q].refreshTokens
    BY <1>1, <1>9, ReviewWrites
  <1>10. CASE Writes
    <2>1. PICK h \in Handlers :
            \/ CreateUser(h) /\ Inserts(h, handler[h].phone, [Blank EXCEPT !.role = "user"])
            \/ ClearOtp(h) \/ AddToken(h) \/ PullToken(h) \/ ClearTokens(h)
            \/ SaveAdmin(h) /\ ~ Registered(handler[h].phone)
            \/ WriteProfile(h) \/ SetActivation(h) \/ SaveReview(h)
      BY <1>10 DEF Writes
    <2>2. CASE handler[h].phone # q
      BY <1>1, <2>1, <2>2, WritesOwnAccount
    <2>3. CASE handler[h].phone = q
      <3>1. \/ ClearOtp(h) \/ AddToken(h) \/ PullToken(h) \/ ClearTokens(h)
            \/ WriteProfile(h) \/ SetActivation(h) \/ SaveReview(h)
        BY <2>1, <2>3 DEF Inserts, Insert
      <3>2. CASE ClearOtp(h)
        BY <1>1, <1>4, <2>3, <3>2 DEF UserDocs
      <3>3. CASE AddToken(h)
        <4>1. /\ users'[q].refreshTokens = users[q].refreshTokens \cup {handler[h].token}
              /\ users'[q].role = users[q].role /\ users'[q].createdBy = users[q].createdBy
              /\ users'[q].isActive = users[q].isActive /\ users'[q].email = users[q].email
          BY <1>1, <1>5, <2>3, <3>3 DEF UserDocs
        <4>2. ReviewOf(users'[q]) = ReviewOf(users[q])
          BY <1>1, <1>5, <2>3, <3>3 DEF UserDocs, ReviewOf
        <4>. QED
          BY <4>1, <4>2
      <3>4. CASE PullToken(h) \/ ClearTokens(h)
        BY <1>1, <1>6, <2>3, <3>4 DEF UserDocs, ReviewOf
      <3>5. CASE WriteProfile(h)
        BY <1>1, <1>7, <2>3, <3>5 DEF UserDocs, ReviewOf
      <3>6. CASE SetActivation(h)
        BY <1>1, <1>8, <2>3, <3>6 DEF UserDocs, ReviewOf
      <3>7. CASE SaveReview(h)
        BY <1>9, <2>3, <3>7
      <3>. QED
        BY <3>1, <3>2, <3>3, <3>4, <3>5, <3>6, <3>7
    <2>. QED
      BY <2>2, <2>3
  <1>. QED
    BY <1>2, <1>3, <1>10, StepsWrite

\* The document createAdminUser saves.
AdminDoc(r) ==
  [Blank EXCEPT !.role = r.role, !.email = r.email, !.createdBy = r.actor,
                !.isVerified = ~ (r.role = "driver"),
                !.verificationStatus = IF r.role = "driver" THEN "pending" ELSE "approved"]

\* It has its type, and what the request asks for.
LEMMA AdminDocType ==
  ASSUME NEW r \in Requests, r.role \in GrantedRoles, r.actor \in Phones
  PROVE  /\ AdminDoc(r) \in UserDocs
         /\ AdminDoc(r).role = r.role /\ AdminDoc(r).email = r.email
         /\ AdminDoc(r).createdBy = r.actor
         /\ r.role = "driver" => /\ AdminDoc(r).isVerified = FALSE
                                 /\ AdminDoc(r).verificationStatus = "pending"
  <1> DEFINE driver == r.role = "driver"
             d1 == [Blank EXCEPT !.role = r.role, !.email = r.email]
             d2 == [d1 EXCEPT !.createdBy = r.actor, !.isVerified = ~ driver]
  <1>1. d1 \in UserDocs /\ d1.role = r.role /\ d1.email = r.email
    BY DefaultsType DEF UserDocs, Roles, GrantedRoles, Requests
  <1>2. /\ d2 \in UserDocs /\ d2.role = r.role /\ d2.email = r.email
        /\ d2.createdBy = r.actor /\ d2.isVerified = ~ driver
    BY <1>1 DEF UserDocs
  <1>3. AdminDoc(r) = [d2 EXCEPT !.verificationStatus = IF driver THEN "pending" ELSE "approved"]
    BY DEF AdminDoc
  <1>. QED
    BY <1>2, <1>3 DEF UserDocs, Verdicts

\* An account is registered by the first login of its phone or by one of the staff.
LEMMA WhoRegisters ==
  ASSUME AccountInv, [Next]_vars, NEW q \in Phones, ~ Registered(q), users'[q] # users[q]
  PROVE  \E h \in Handlers :
           /\ handler[h].phone = q
           /\ \/ CreateUser(h) /\ users' = [users EXCEPT ![q] = [Blank EXCEPT !.role = "user"]]
              \/ SaveAdmin(h) /\ users' = [users EXCEPT ![q] = AdminDoc(handler[h])]
  <1>1. TypeOK /\ users[q] = Blank
    BY DEF AccountInv, AccountsSound, GrantSound, Registered, GrantedRoles
  <1>2. ~ CleanExpiredTokens /\ ~ Tick
    BY <1>1, BlankHasNoTokens DEF CleanExpiredTokens, Tick
  <1>3. PICK h \in Handlers :
          \/ CreateUser(h) /\ Inserts(h, handler[h].phone, [Blank EXCEPT !.role = "user"])
          \/ ClearOtp(h) \/ AddToken(h) \/ PullToken(h) \/ ClearTokens(h)
          \/ SaveAdmin(h) /\ ~ Registered(handler[h].phone)
          \/ WriteProfile(h) \/ SetActivation(h) \/ SaveReview(h)
    BY <1>2, StepsWrite DEF Writes
  <1>4. handler[h].phone = q
    BY <1>1, <1>3, WritesOwnAccount
  <1>5. handler[h].pc \notin Found
    BY <1>4 DEF AccountInv, RequestsSound, RequestSound
  <1>6. ~ \/ ClearOtp(h) \/ AddToken(h) \/ PullToken(h) \/ ClearTokens(h)
          \/ WriteProfile(h) \/ SetActivation(h) \/ SaveReview(h)
    BY <1>5 DEF Found, At, ClearOtp, AddToken, PullToken, ClearTokens, WriteProfile,
                SetActivation, SaveReview
  <1>7. CASE CreateUser(h) /\ Inserts(h, q, [Blank EXCEPT !.role = "user"])
    BY <1>4, <1>7 DEF Inserts, Insert
  <1>8. CASE SaveAdmin(h) /\ ~ Registered(q)
    <2>1. users' = [users EXCEPT ![q] = AdminDoc(handler[h])]
      BY <1>4, <1>8 DEF SaveAdmin, Insert, AdminDoc
    <2>. QED
      BY <1>4, <1>8, <2>1
  <1>. QED
    BY <1>3, <1>4, <1>6, <1>7, <1>8

-----------------------------------------------------------------------------
(* What a step never does *)

\* user.service.ts:74: the last active administrator is suspended only by a request of one
\* who was suspended while it was under way.
THEOREM AdministratorsStay == Spec => LastAdministratorStays
  <1> DEFINE Goes == \E h \in Handlers :
                       At(h, "setInactive") /\ ~ users[handler[h].actor].isActive
  <1>1. AccountInv /\ [Next]_vars
          => [AnAdministratorIsActive /\ ~ AnAdministratorIsActive' => Goes]_vars
    <2> SUFFICES ASSUME AccountInv, [Next]_vars,
                        AnAdministratorIsActive, ~ AnAdministratorIsActive'
                 PROVE  Goes
      OBVIOUS
    <2>1. PICK a \in Phones : Registered(a) /\ users[a].isActive /\ users[a].role \in Administrators
      BY DEF AnAdministratorIsActive, RequireRoles, Authenticated
    <2>2. users'[a].role = users[a].role
      BY <2>1, WhoWritesWhat
    <2>3. users'[a].isActive # users[a].isActive
      BY <2>1, <2>2 DEF AnAdministratorIsActive, RequireRoles, Authenticated, Registered
    <2>4. PICK h \in Handlers : handler[h].phone = a /\ SetActivation(h)
      BY <2>1, <2>3, WhoWritesWhat
    <2>5. users[a] \in UserDocs /\ TypeOK
      BY DEF AccountInv, TypeOK
    <2>6. users'[a].isActive = At(h, "setActive")
      BY <2>4, <2>5 DEF SetActivation, TypeOK, UserDocs
    <2>7. At(h, "setInactive")
      BY <2>1, <2>3, <2>4, <2>6 DEF SetActivation, At
    <2>8. /\ handler[h].actor \in Phones \ {a}
          /\ users[handler[h].actor].role \in Administrators
      BY <2>4, <2>7 DEF At, AccountInv, RequestsSound, RequestSound, Managing
    <2>9. users'[handler[h].actor] = users[handler[h].actor]
      BY <2>4, <2>5, <2>8, WritesOwnAccount
    <2>10. ~ users[handler[h].actor].isActive
      BY <2>8, <2>9
      DEF AnAdministratorIsActive, RequireRoles, Authenticated, Registered, Administrators
    <2>. QED
      BY <2>7, <2>10
  <1>2. Spec => []AccountInv
    BY AccountsStayInOrder
  <1>. QED
    BY <1>1, <1>2, PTL DEF Spec, LastAdministratorStays

\* auth.service.ts, scheduler.ts: only a logout of its account ends a session that is valid.
THEOREM SessionsStay == Spec => ValidSessionsStay
  <1> DEFINE LoggedOut(p, t) == \E h \in Handlers :
               /\ handler[h].phone = p
               /\ \/ At(h, "clearTokens")
                  \/ At(h, "pullToken") /\ handler[h].token = t
             Kept == ~ Tick => \A p \in Phones : \A t \in users[p].refreshTokens \ users'[p].refreshTokens :
                                 t < RefreshLife => LoggedOut(p, t)
  <1>1. AccountInv /\ [Next]_vars => [Kept]_vars
    <2> SUFFICES ASSUME AccountInv, [Next]_vars, ~ Tick, NEW p \in Phones,
                        NEW t \in users[p].refreshTokens, t \notin users'[p].refreshTokens,
                        t < RefreshLife
                 PROVE  LoggedOut(p, t)
      OBVIOUS
    <2>1. TypeOK /\ users[p] \in UserDocs
      BY DEF AccountInv, TypeOK
    <2>2. t \in 0 .. Retention
      BY <2>1 DEF UserDocs, Ages
    <2>3. Registered(p)
      BY DEF AccountInv, AccountsSound, GrantSound, Registered, Blank, GrantedRoles
    <2>4. ~ CleanExpiredTokens
      <3>1. SUFFICES ASSUME CleanExpiredTokens PROVE FALSE
        OBVIOUS
      <3>2. users'[p].refreshTokens = {a \in users[p].refreshTokens : a < Retention}
        BY <2>1, <3>1 DEF CleanExpiredTokens, UserDocs
      <3>. QED
        BY <2>2, <3>2, RetentionAssumption
    <2>5. PICK h \in Handlers : handler[h].phone = p /\ (PullToken(h) \/ ClearTokens(h))
      BY <2>3, <2>4, WhoWritesWhat
    <2>6. CASE ClearTokens(h)
      BY <2>5, <2>6 DEF ClearTokens
    <2>7. CASE PullToken(h)
      <3>1. users'[p].refreshTokens = users[p].refreshTokens \ {handler[h].token}
        BY <2>1, <2>5, <2>7 DEF PullToken, TypeOK, UserDocs
      <3>. QED
        BY <2>5, <2>7, <3>1 DEF PullToken
    <2>. QED
      BY <2>5, <2>6, <2>7
  <1>2. Spec => []AccountInv
    BY AccountsStayInOrder
  <1>. QED
    BY <1>1, <1>2, PTL DEF Spec, ValidSessionsStay

\* A step that gives p the email of another account was not told that it had one.
LEMMA WhoClashes ==
  ASSUME AccountInv, [Next]_vars, NEW p \in Phones, NEW q \in Phones, p # q,
         users'[p].email # users[p].email, users'[p].email # NoEmail,
         users'[p].email = users'[q].email
  PROVE  \E h \in Handlers : \/ At(h, "saveAdmin")
                             \/ At(h, "writeProfile") /\ handler[h].raced
  <1>1. TypeOK /\ users[p] \in UserDocs
    BY DEF AccountInv, TypeOK
  <1>2. CASE Registered(p)
    <2>1. PICK h \in Handlers : handler[h].phone = p /\ WriteProfile(h)
      BY <1>2, WhoWritesWhat
    <2>2. users'[p].email = handler[h].email
      BY <1>1, <2>1 DEF WriteProfile, TypeOK, UserDocs
    <2>3. users'[q] = users[q]
      BY <1>1, <2>1, WritesOwnAccount
    <2>4. EmailTaken(p, handler[h].email)
      BY <2>2, <2>3 DEF EmailTaken
    <2>5. RequestSound(handler[h]) /\ At(h, "writeProfile")
      BY <2>1 DEF AccountInv, RequestsSound, WriteProfile
    <2>6. handler[h].raced
      BY <2>1, <2>2, <2>4, <2>5 DEF RequestSound, At
    <2>. QED
      BY <2>5, <2>6
  <1>3. CASE ~ Registered(p)
    <2>1. PICK h \in Handlers :
            /\ handler[h].phone = p
            /\ \/ CreateUser(h) /\ users' = [users EXCEPT ![p] = [Blank EXCEPT !.role = "user"]]
               \/ SaveAdmin(h) /\ users' = [users EXCEPT ![p] = AdminDoc(handler[h])]
      BY <1>3, WhoRegisters
    <2>2. CASE users' = [users EXCEPT ![p] = [Blank EXCEPT !.role = "user"]]
      <3>1. users'[p].email = NoEmail
        BY <1>1, <2>2 DEF TypeOK, Blank
      <3>. QED
        BY <3>1
    <2>3. CASE SaveAdmin(h)
      BY <2>3 DEF SaveAdmin
    <2>. QED
      BY <2>1, <2>2, <2>3
  <1>. QED
    BY <1>2, <1>3

\* auth.service.ts:137: two accounts get the same email only through createAdminUser, or
\* when it was taken between the check and the write.
THEOREM EmailsClashByRace == Spec => EmailClashesAreRaces
  <1> DEFINE Excused == \E h \in Handlers : \/ At(h, "saveAdmin")
                                            \/ At(h, "writeProfile") /\ handler[h].raced
  <1>1. AccountInv /\ [Next]_vars
          => [EmailsDistinct /\ ~ EmailsDistinct' => Excused]_vars
    <2> SUFFICES ASSUME AccountInv, [Next]_vars, EmailsDistinct, ~ EmailsDistinct'
                 PROVE  Excused
      OBVIOUS
    <2>1. PICK p \in Phones, q \in Phones :
            p # q /\ users'[p].email = users'[q].email /\ users'[p].email # NoEmail
      BY DEF EmailsDistinct
    <2>2. users'[p].email # users[p].email \/ users'[q].email # users[q].email
      BY <2>1 DEF EmailsDistinct
    <2>. QED
      BY <2>1, <2>2, WhoClashes
  <1>2. Spec => []AccountInv
    BY AccountsStayInOrder
  <1>. QED
    BY <1>1, <1>2, PTL DEF Spec, EmailClashesAreRaces

\* user.service.ts: a driver's isVerified and verdict part only at a one-time password
\* login of the driver, or when two reviews race.
THEOREM VerdictsDrift == Spec => VerdictsDriftByRace
  <1> DEFINE Excused(p) == \E h \in Handlers :
               /\ handler[h].phone = p
               /\ \/ At(h, "clearOtp")
                  \/ At(h, "saveReview") /\ handler[h].seen # ReviewOf(users[p])
  <1>1. AccountInv /\ [Next]_vars
          => [\A p \in Phones : VerdictShown(p) /\ ~ VerdictShown(p)' => Excused(p)]_vars
    <2> SUFFICES ASSUME AccountInv, [Next]_vars, NEW p \in Phones,
                        VerdictShown(p), ~ VerdictShown(p)'
                 PROVE  Excused(p)
      OBVIOUS
    <2>1. TypeOK /\ users[p] \in UserDocs /\ users'[p] # users[p]
      BY DEF AccountInv, TypeOK, VerdictShown
    <2>2. CASE Registered(p)
      <3>1. ReviewOf(users'[p]) # ReviewOf(users[p])
        BY <2>2, WhoWritesWhat DEF VerdictShown, ReviewOf
      <3>2. PICK h \in Handlers : handler[h].phone = p /\ (ClearOtp(h) \/ SaveReview(h))
        BY <2>2, <3>1, WhoWritesWhat
      <3>3. CASE ClearOtp(h)
        BY <3>2, <3>3 DEF ClearOtp
      <3>4. CASE SaveReview(h)
        <4>1. ASSUME handler[h].seen = ReviewOf(users[p])
              PROVE  /\ users'[p].verificationStatus = handler[h].verdict
                     /\ users'[p].isVerified = (handler[h].verdict = "approved")
          BY <2>1, <3>2, <3>4, <4>1, ReviewWrites DEF ReviewOf
        <4>2. handler[h].seen # ReviewOf(users[p])
          BY <4>1 DEF VerdictShown
        <4>. QED
          BY <3>2, <3>4, <4>2 DEF SaveReview
      <3>. QED
        BY <3>2, <3>3, <3>4
    <2>3. CASE ~ Registered(p)
      <3>1. PICK h \in Handlers :
              /\ handler[h].phone = p
              /\ \/ CreateUser(h) /\ users' = [users EXCEPT ![p] = [Blank EXCEPT !.role = "user"]]
                 \/ SaveAdmin(h) /\ users' = [users EXCEPT ![p] = AdminDoc(handler[h])]
        BY <2>1, <2>3, WhoRegisters
      <3>2. CASE users' = [users EXCEPT ![p] = [Blank EXCEPT !.role = "user"]]
        <4>1. users'[p].role = "user"
          BY <2>1, <3>2 DEF TypeOK, Blank
        <4>. QED
          BY <4>1 DEF VerdictShown
      <3>3. CASE SaveAdmin(h) /\ users' = [users EXCEPT ![p] = AdminDoc(handler[h])]
        <4>1. users'[p] = AdminDoc(handler[h]) /\ handler[h] \in Requests
          BY <2>1, <3>3 DEF TypeOK
        <4>2. handler[h].role \in GrantedRoles /\ handler[h].actor \in Phones
          BY <3>3 DEF SaveAdmin, At, AccountInv, RequestsSound, RequestSound, Managing
        <4>. QED
          BY <4>1, <4>2, AdminDocType DEF VerdictShown
      <3>. QED
        BY <3>1, <3>2, <3>3
    <2>. QED
      BY <2>2, <2>3
  <1>2. Spec => []AccountInv
    BY AccountsStayInOrder
  <1>. QED
    BY <1>1, <1>2, PTL DEF Spec, VerdictsDriftByRace

-----------------------------------------------------------------------------
(* Refinement of AccountRegister *)

\* The role and the creator of every account when q has just been given d.
LEMMA RegistersOne ==
  ASSUME NEW q \in Phones, NEW d \in UserDocs, TypeOK, users' = [users EXCEPT ![q] = d]
  PROVE  /\ RoleOf' = [RoleOf EXCEPT ![q] = d.role]
         /\ GrantorOf' = [GrantorOf EXCEPT ![q] = d.createdBy]
         /\ RoleOf[q] = users[q].role /\ GrantorOf[q] = users[q].createdBy
  BY DEF RoleOf, GrantorOf, TypeOK

\* A step that changes the role or the creator of a phone registers it.
LEMMA StepRegisters ==
  ASSUME AccountInv, [Next]_vars
  PROVE  [Register!RNext]_(Register!registerVars)
  <1>1. TypeOK
    BY DEF AccountInv
  <1>2. CASE \A q \in Phones : Registered(q) \/ users'[q] = users[q]
    <2>1. \A q \in Phones : /\ users'[q].role = users[q].role
                            /\ users'[q].createdBy = users[q].createdBy
      BY <1>2, WhoWritesWhat
    <2>2. UNCHANGED <<RoleOf, GrantorOf>>
      BY <2>1 DEF RoleOf, GrantorOf
    <2>. QED
      BY <2>2 DEF Register!registerVars
  <1>3. ASSUME NEW q \in Phones, ~ Registered(q), users'[q] # users[q]
        PROVE  Register!RNext
    <2>1. users[q] = Blank /\ users[q].role = "none"
      BY <1>3 DEF AccountInv, AccountsSound, GrantSound, Registered, GrantedRoles
    <2>2. PICK h \in Handlers :
            /\ handler[h].phone = q
            /\ \/ CreateUser(h) /\ users' = [users EXCEPT ![q] = [Blank EXCEPT !.role = "user"]]
               \/ SaveAdmin(h) /\ users' = [users EXCEPT ![q] = AdminDoc(handler[h])]
      BY <1>3, WhoRegisters
    <2>3. CASE users' = [users EXCEPT ![q] = [Blank EXCEPT !.role = "user"]]
      <3> DEFINE d == [Blank EXCEPT !.role = "user"]
      <3>1. d \in UserDocs /\ d.role = "user" /\ d.createdBy = NoUser
        BY DefaultsType DEF Blank, UserDocs, Roles
      <3>2. users[q].createdBy = NoUser
        BY <2>1 DEF Blank
      <3>. HIDE DEF d
      <3>3. /\ RoleOf' = [RoleOf EXCEPT ![q] = "user"] /\ RoleOf[q] = "none"
            /\ GrantorOf' = [GrantorOf EXCEPT ![q] = GrantorOf[q]]
        <4>1. users' = [users EXCEPT ![q] = d]
          BY <2>3 DEF d
        <4>2. /\ RoleOf' = [RoleOf EXCEPT ![q] = d.role]
              /\ GrantorOf' = [GrantorOf EXCEPT ![q] = d.createdBy]
              /\ RoleOf[q] = users[q].role /\ GrantorOf[q] = users[q].createdBy
          BY <1>1, <3>1, <4>1, RegistersOne
        <4>. QED
          BY <2>1, <3>1, <3>2, <4>2
      <3>4. GrantorOf' = GrantorOf
        BY <3>3 DEF GrantorOf
      <3>. QED
        BY <3>3, <3>4 DEF Register!RNext, Register!SignUp
    <2>4. CASE SaveAdmin(h) /\ users' = [users EXCEPT ![q] = AdminDoc(handler[h])]
      <3> DEFINE r == handler[h]
      <3>1. /\ r \in Requests /\ r.role \in GrantedRoles /\ r.actor \in Phones
            /\ MayCreate(users[r.actor].role, r.role)
        BY <1>1, <2>4
        DEF TypeOK, SaveAdmin, At, AccountInv, RequestsSound, RequestSound, Managing
      <3>2. /\ RoleOf' = [RoleOf EXCEPT ![q] = r.role] /\ RoleOf[q] = "none"
            /\ GrantorOf' = [GrantorOf EXCEPT ![q] = r.actor]
        <4>1. /\ AdminDoc(r) \in UserDocs
              /\ AdminDoc(r).role = r.role /\ AdminDoc(r).createdBy = r.actor
          BY <3>1, AdminDocType
        <4>2. /\ RoleOf' = [RoleOf EXCEPT ![q] = AdminDoc(r).role]
              /\ GrantorOf' = [GrantorOf EXCEPT ![q] = AdminDoc(r).createdBy]
              /\ RoleOf[q] = users[q].role
          BY <1>1, <2>4, <4>1, RegistersOne
        <4>. QED
          BY <2>1, <4>1, <4>2
      <3>3. MayCreate(RoleOf[r.actor], r.role)
        BY <3>1 DEF RoleOf
      <3>. QED
        BY <3>1, <3>2, <3>3 DEF Register!RNext, Register!Grant
    <2>. QED
      BY <2>2, <2>3, <2>4
  <1>. QED
    BY <1>2, <1>3

\* Whatever requests race, a phone is registered once, by its owner or by one who may grant
\* the role, and neither its role nor its creator changes afterwards (auth.service.ts).
THEOREM AccountsImplementRegister == Spec => RegisterSpec
  <1>1. Init => Register!RInit
    <2> SUFFICES ASSUME Init PROVE Register!RInit
      OBVIOUS
    <2>1. /\ Founder.role = "super_admin" /\ Founder.createdBy = NoUser
          /\ Blank.role = "none" /\ Blank.createdBy = NoUser
      BY DEF Founder, Blank
    <2>. QED
      BY <2>1 DEF Init, Register!RInit, RoleOf, GrantorOf
  <1>2. AccountInv /\ [Next]_vars => [Register!RNext]_(Register!registerVars)
    BY StepRegisters
  <1>3. Spec => []AccountInv
    BY AccountsStayInOrder
  <1>. QED
    BY <1>1, <1>2, <1>3, PTL DEF Spec, RegisterSpec, Register!RSpec
=============================================================================
