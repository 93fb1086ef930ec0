------------------------------ MODULE AdminAuth ------------------------------
(***************************************************************************)
(* admin-auth.service.ts: invitation and registration of admins, promotion *)
(* and demotion of users, the admins' own login, password and e-mail       *)
(* change.  Links are one-time codes without an attempt counter.  Callers  *)
(* that the service restricts to super admins are not told apart here:     *)
(* any of them may act at any time.                                        *)
(***************************************************************************)
EXTENDS UserAuth

VerifiedUser == {"exists", "active", "verified", "password", "USER"}
AdminInit == AuthInit /\ row \in {{}, VerifiedUser}

\* A new link: the old ones are marked used, then the new one is created; nothing
\* holds the two writes together.
VoidLinks(r, p, op) ==
  /\ Supersede(p, "email", {})
  /\ Then(r, op)
CreateLink(r, p) ==
  /\ \E k \in Otps : IsFresh(k) /\ otp' = [otp EXCEPT ![k] = NoCode(p, "email")]
  /\ Done(r)
  /\ UNCHANGED <<claimed, void>>

\* Claiming a link asks for unused and not expired; there are no attempts to count.
CanClaimLink(o) == otp[o].state = "unused" /\ otp[o].age # "expired"
LinkRead(r, op, o, p) ==
  /\ OtpOk(o, p)
  /\ Start(r, op, "right", o, None, {})
  /\ UNCHANGED <<accountVars, otpVars, sessionVars>>
LinkConflict(r, op) ==
  /\ InFlight(r, op, "right") /\ ~CanClaimLink(req[r].otp)
  /\ Done(r)
  /\ UNCHANGED <<accountVars, otpVars, sessionVars>>

-----------------------------------------------------------------------------
(* Registration by invitation. *)

\* No account: it is created inactive and without a password.  An account that still
\* is so gets its roles replaced and another invitation.
adminRegister(r) ==
  /\ row = {} \/ ("exists" \in row /\ row \cap {"password", "active"} = {})
  /\ row # {} => findCooldownOtp("registration", "email") = {}
  /\ row' = row \cup {"exists", "ADMIN"}
  /\ Start(r, "invite", "right", None, None, {})
  /\ UNCHANGED <<fails, otpVars, sessionVars>>

adminRegisterResend(r) ==
  /\ "exists" \in row /\ row \cap {"password", "active"} = {}
  /\ findCooldownOtp("registration", "email") = {}
  /\ Start(r, "invite", "right", None, None, {})
  /\ UNCHANGED <<accountVars, otpVars, sessionVars>>

\* Writes the token's hash over the previous one, whatever the row is by now.
issueRegistrationInvite(r) ==
  /\ InFlight(r, "invite", "right") /\ "exists" \in row
  /\ \E k \in Otps : IsFresh(k) /\ Supersede("registration", "email", {k})
  /\ Done(r)
  /\ UNCHANGED <<accountVars, sessionVars>>

CompleteRead(r, o) == "password" \notin row /\ LinkRead(r, "complete", o, "registration")

\* updateMany(passwordHash: null, inviteTokenHash): expiry is not asked for again.
CompleteClaim(r) ==
  LET o == req[r].otp IN
  /\ InFlight(r, "complete", "right")
  /\ IF otp[o].state = "unused" /\ "exists" \in row /\ "password" \notin row
       THEN /\ Accept(o)
            /\ row' = row \cup {"password", "email", "active"}
            /\ Then(r, "tokens")
       ELSE Done(r) /\ UNCHANGED <<otpVars, row>>
  /\ UNCHANGED <<fails, sessionVars>>

\* Whether the registration is still open is asked of the row as it was read; the
\* delete takes the account with its codes and sessions as it is now.
CancelRegistrationRead(r) ==
  /\ "exists" \in row /\ row \cap {"password", "active"} = {}
  /\ Start(r, "cancelRegistration", "right", None, None, {})
  /\ UNCHANGED <<accountVars, otpVars, sessionVars>>
CancelRegistrationDelete(r) ==
  /\ InFlight(r, "cancelRegistration", "right") /\ "exists" \in row
  /\ row' = {}
  /\ otp' = [o \in Otps |-> IF otp[o].state = "unused" THEN [otp[o] EXCEPT !.state = "used"] ELSE otp[o]]
  /\ void' = void \cup {o \in Otps : otp[o].state = "unused"}
  /\ deleteSessions
  /\ Done(r)
  /\ UNCHANGED <<fails, claimed>>

-----------------------------------------------------------------------------
(* Promotion of a user and demotion of an admin. *)

PromoteInitiate(r) ==
  /\ {"exists", "active", "verified"} \subseteq row /\ ~IsStaff(row)
  /\ row' = row \cup {"pending"}
  /\ Start(r, "promoteVoid", "right", None, None, {})
  /\ UNCHANGED <<fails, otpVars, sessionVars>>
PromoteResend(r) ==
  /\ "pending" \in row /\ ~IsStaff(row)
  /\ \A o \in Latest("promotion", "email") : otp[o].age # "new"
  /\ Start(r, "promoteVoid", "right", None, None, {})
  /\ UNCHANGED <<accountVars, otpVars, sessionVars>>
PromoteVoid(r) ==
  /\ InFlight(r, "promoteVoid", "right")
  /\ VoidLinks(r, "promotion", "promoteLink")
  /\ UNCHANGED <<accountVars, sessionVars>>
PromoteLink(r) ==
  /\ InFlight(r, "promoteLink", "right")
  /\ CreateLink(r, "promotion")
  /\ UNCHANGED <<accountVars, sessionVars>>

PromoteRead(r, o) == "pending" \in row /\ LinkRead(r, "promote", o, "promotion")

\* Eligibility is looked at again inside the transaction; when it is gone the whole
\* transaction, the claim included, is rolled back.
PromoteClaim(r) ==
  LET o == req[r].otp IN
  /\ InFlight(r, "promote", "right") /\ CanClaimLink(o)
  /\ IF "active" \in row /\ ~IsStaff(row)
       THEN /\ Accept(o)
            /\ row' = (row \ {"pending"}) \cup {"email", "password", "ADMIN"}
            /\ deleteSessions
       ELSE UNCHANGED <<row, otpVars, sessionVars>>
  /\ Done(r)
  /\ UNCHANGED fails

\* The links and the pending address go in one transaction.
promoteUserCancel ==
  /\ "exists" \in row /\ ~IsStaff(row) /\ Unused("promotion", "email") # {}
  /\ Supersede("promotion", "email", {})
  /\ row' = row \ {"pending"}
  /\ UNCHANGED <<fails, sessionVars, req>>

\* Only ADMIN goes; an account left without a role becomes a USER.
demoteAdmin ==
  /\ "ADMIN" \in row
  /\ row' = (row \ {"ADMIN"}) \cup {"USER"}
  /\ deleteSessions
  /\ UNCHANGED <<fails, otpVars, req>>

-----------------------------------------------------------------------------
(* The admin's own login, password and address. *)

AdminLoginRead(r) ==
  /\ {"exists", "password", "ADMIN", "email", "active"} \subseteq row /\ "locked" \notin row
  /\ \E code \in {"right", "wrong"} : Start(r, "adminLogin", code, None, None, Seen(row))
  /\ UNCHANGED <<accountVars, otpVars, sessionVars>>
AdminLoginWrong(r) ==
  /\ InFlight(r, "adminLogin", "wrong")
  /\ recordFailedLogin
  /\ Done(r)
  /\ UNCHANGED <<otpVars, sessionVars>>
AdminLoginPass(r) ==
  /\ InFlight(r, "adminLogin", "right") /\ "exists" \in row
  /\ resetLoginAttempts(req[r].seen)
  /\ issueTokens(None)
  /\ Done(r)
  /\ UNCHANGED otpVars

adminForgotPassword ==
  /\ {"exists", "active", "ADMIN"} \subseteq row
  /\ issueAndSendOtp("password_reset", "email")
  /\ UNCHANGED <<accountVars, sessionVars, req>>
adminResendForgotPasswordOtp(o) ==
  /\ otp[o].purpose = "password_reset" /\ otp[o].state = "unused" /\ otp[o].age # "new"
  /\ {"active", "ADMIN"} \subseteq row
  /\ issueAndSendOtp("password_reset", "email")
  /\ UNCHANGED <<accountVars, sessionVars, req>>
AdminResetRead(r, o) == IsStaff(row) /\ OtpRead(r, "adminReset", o, "password_reset")
AdminResetWrong(r) == OtpWrong(r, "adminReset")
AdminResetClaim(r) == NewPassword(r, "adminReset")

adminChangePasswordInitiate ==
  /\ Live # {} /\ {"ADMIN", "password"} \subseteq row
  /\ issueAndSendOtp("password_change", "email")
  /\ UNCHANGED <<accountVars, sessionVars, req>>
AdminChangeRead(r, o) == IsStaff(row) /\ OtpRead(r, "adminChange", o, "password_change")
AdminChangeWrong(r) == OtpWrong(r, "adminChange")
AdminChangeClaim(r) == NewPassword(r, "adminChange")

\* The new address is written at once, unverified; its link follows.
ChangeEmailInitiate(r) ==
  /\ Live # {} /\ IsStaff(row)
  /\ row' = row \ {"email"}
  /\ Start(r, "emailVoid", "right", None, None, {})
  /\ UNCHANGED <<fails, otpVars, sessionVars>>
ChangeEmailResend(r) ==
  /\ Live # {} /\ IsStaff(row) /\ "email" \notin row
  /\ \A o \in Latest("email_verification", "email") : otp[o].age # "new"
  /\ Start(r, "emailVoid", "right", None, None, {})
  /\ UNCHANGED <<accountVars, otpVars, sessionVars>>
ChangeEmailVoid(r) ==
  /\ InFlight(r, "emailVoid", "right")
  /\ VoidLinks(r, "email_verification", "emailLink")
  /\ UNCHANGED <<accountVars, sessionVars>>
ChangeEmailLink(r) ==
  /\ InFlight(r, "emailLink", "right")
  /\ CreateLink(r, "email_verification")
  /\ UNCHANGED <<accountVars, sessionVars>>
ChangeEmailRead(r, o) == LinkRead(r, "verifyEmail", o, "email_verification")
ChangeEmailClaim(r) ==
  /\ InFlight(r, "verifyEmail", "right") /\ CanClaimLink(req[r].otp)
  /\ Accept(req[r].otp)
  /\ row' = row \cup {"email"}
  /\ Done(r)
  /\ UNCHANGED <<fails, sessionVars>>

adminLogout(s) == IsStaff(row) /\ logout(s)
adminLogoutAll == IsStaff(row) /\ logoutAll
adminRefresh(r, s) == RefreshRead(r, s)
revokeMySession(s) == IsStaff(row) /\ Live # {} /\ DeleteSession(s)

-----------------------------------------------------------------------------
RegistrationStep(r) ==
  \/ adminRegister(r) \/ adminRegisterResend(r) \/ issueRegistrationInvite(r)
  \/ CompleteClaim(r) \/ (SignupTokens(r) /\ "exists" \in row)
  \/ CancelRegistrationRead(r) \/ CancelRegistrationDelete(r)
  \/ \E o \in Otps : CompleteRead(r, o)

PromotionStep(r) ==
  \/ PromoteInitiate(r) \/ PromoteResend(r) \/ PromoteVoid(r) \/ PromoteLink(r)
  \/ PromoteClaim(r)
  \/ \E o \in Otps : PromoteRead(r, o)

AdminSelfStep(r) ==
  \/ AdminLoginRead(r) \/ AdminLoginWrong(r) \/ AdminLoginPass(r)
  \/ AdminResetWrong(r) \/ AdminResetClaim(r) \/ AdminChangeWrong(r) \/ AdminChangeClaim(r)
  \/ ChangeEmailInitiate(r) \/ ChangeEmailResend(r) \/ ChangeEmailVoid(r)
  \/ ChangeEmailLink(r) \/ ChangeEmailClaim(r)
  \/ \E o \in Otps : AdminResetRead(r, o) \/ AdminChangeRead(r, o) \/ ChangeEmailRead(r, o)
  \/ \E op \in {"adminReset", "adminChange"} : ClaimConflict(r, op)
  \/ \E op \in {"promote", "verifyEmail"} : LinkConflict(r, op)
  \/ \E s \in Sessions : adminRefresh(r, s)
  \/ RefreshReuse(r) \/ RefreshRotate(r)

AdminNext ==
  \/ AuthStep
  \/ \E r \in Requests : RegistrationStep(r) \/ PromotionStep(r) \/ AdminSelfStep(r)
  \/ \E s \in Sessions : adminLogout(s) \/ revokeMySession(s)
  \/ \E o \in Otps : adminResendForgotPasswordOtp(o)
  \/ promoteUserCancel \/ demoteAdmin \/ adminLogoutAll
  \/ adminForgotPassword \/ adminChangePasswordInitiate

AdminSpec == AdminInit /\ [][AdminNext]_authVars
=============================================================================
