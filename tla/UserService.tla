----------------------------- MODULE UserService -----------------------------
(***************************************************************************)
(* modules/user/user.service.ts and modules/admin/admin.service.ts:        *)
(* profiles, suspension and the review of drivers.                         *)
(***************************************************************************)
EXTENDS AuthService

\* updateProfile with an email; CheckEmail and WriteProfile go on as for a registration.
UpdateProfile(h, p, email) ==
  /\ "profile" \in ops
  /\ Authenticated(p)
  /\ Accept(h, [Idle EXCEPT !.pc = "checkEmail", !.phone = p, !.email = email])
  /\ UNCHANGED <<users, otp>>

Administrators == {"admin", "super_admin"}

\* Mutant: one may deactivate one's own account.
DeactivateAnyUser(h, actor, p) ==
  /\ "activation" \in ops
  /\ RequireRoles(actor, Administrators)
  /\ Registered(p)
  /\ Accept(h, [Idle EXCEPT !.pc = "setInactive", !.phone = p, !.actor = actor])
  /\ UNCHANGED <<users, otp>>

\* Nobody deactivates their own account.
DeactivateUser(h, actor, p) ==
  /\ "activation" \in ops
  /\ RequireRoles(actor, Administrators)
  /\ Registered(p)
  /\ actor # p
  /\ Accept(h, [Idle EXCEPT !.pc = "setInactive", !.phone = p, !.actor = actor])
  /\ UNCHANGED <<users, otp>>

ActivateUser(h, actor, p) ==
  /\ "activation" \in ops
  /\ RequireRoles(actor, Administrators)
  /\ Registered(p)
  /\ Accept(h, [Idle EXCEPT !.pc = "setActive", !.phone = p, !.actor = actor])
  /\ UNCHANGED <<users, otp>>

\* findByIdAndUpdate.
SetActivation(h) ==
  /\ handler[h].pc \in {"setActive", "setInactive"}
  /\ users' = [users EXCEPT ![handler[h].phone].isActive = At(h, "setActive")]
  /\ Answer(h)
  /\ UNCHANGED otp

-----------------------------------------------------------------------------
(* updateDriverVerificationStatus *)

Reviewers == {"admin", "super_admin", "manager"}

\* The route's check and the reviewer's account.  A founder is no driver and never reviewed.
ReviewDriver(h, actor, p, verdict) ==
  /\ "review" \in ops
  /\ RequireRoles(actor, Reviewers)
  /\ Registered(p) /\ p \notin Founders
  /\ Accept(h, [Idle EXCEPT !.pc = "findDriver", !.phone = p, !.actor = actor,
                            !.verdict = verdict])
  /\ UNCHANGED <<users, otp>>

\* Only drivers are reviewed; the request keeps the document it has read.
FindDriver(h) ==
  LET p == handler[h].phone IN
  /\ At(h, "findDriver")
  /\ IF users[p].role = "driver"
     THEN handler' = [handler EXCEPT ![h].pc = "saveReview", ![h].seen = ReviewOf(users[p])]
     ELSE Answer(h)
  /\ UNCHANGED <<users, otp>>

\* Mutant: the review does not set isVerified.
SaveReviewStatusOnly(h) ==
  LET r == handler[h] IN
  /\ At(h, "saveReview")
  /\ users' = [users EXCEPT ![r.phone].verificationStatus = r.verdict,
                            ![r.phone].verifiedBy = r.actor]
  /\ Answer(h)
  /\ UNCHANGED otp

\* save() writes only the paths whose value differs from the one that was read.
SaveReview(h) ==
  LET r == handler[h]
      Path(seen, new, now) == IF new = seen THEN now ELSE new
      doc == users[r.phone] IN
  /\ At(h, "saveReview")
  /\ users' = [users EXCEPT ![r.phone] = [doc EXCEPT
       !.verificationStatus = Path(r.seen.verificationStatus, r.verdict, @),
       !.verifiedBy = Path(r.seen.verifiedBy, r.actor, @),
       !.isVerified = Path(r.seen.isVerified, r.verdict = "approved", @)]]
  /\ Answer(h)
  /\ UNCHANGED otp
=============================================================================
