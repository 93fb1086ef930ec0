------------------------------ MODULE UserAuth ------------------------------
(***************************************************************************)
(* auth.service.ts: signup, login, social sign-in, password reset and      *)
(* change, refresh, logout, self-reactivation and the sign-in methods of   *)
(* one user account.  A request whose code is "right" holds the right      *)
(* password or one-time code.                                              *)
(***************************************************************************)
EXTENDS AuthBase

IsStaff(x) == "ADMIN" \in x

UserInit == AuthInit /\ row = {}

-----------------------------------------------------------------------------
(* Signup. *)

\* A phone that is registered but not verified gets another code; a new one gets the
\* account and its first code in one transaction.
Signup ==
  /\ "verified" \notin row
  /\ IF "exists" \in row
       THEN issueAndSendOtp("phone_verification", "sms") /\ UNCHANGED row
       ELSE /\ row' = {"exists", "active", "password", "USER"}
            /\ \E k \in Otps : IsFresh(k) /\ Supersede("phone_verification", "sms", {k})
  /\ UNCHANGED <<fails, sessionVars, req>>

SignupOtpRead(r, o) == OtpRead(r, "signup", o, "phone_verification")
SignupOtpWrong(r) == OtpWrong(r, "signup")
SignupOtpClaim(r) ==
  /\ InFlight(r, "signup", "right") /\ CanClaim(req[r].otp)
  /\ Accept(req[r].otp)
  /\ row' = row \cup {"verified"}
  /\ Then(r, "tokens")
  /\ UNCHANGED <<fails, sessionVars>>

\* Tokens after the transaction, for the user the handler read at the start.
SignupTokens(r) ==
  /\ InFlight(r, "tokens", "right")
  /\ issueTokens(None)
  /\ Done(r)
  /\ UNCHANGED <<accountVars, otpVars>>

resendSignupOtp(o) ==
  /\ otp[o].purpose = "phone_verification" /\ otp[o].state = "unused"
  /\ issueAndSendOtp("phone_verification", "sms")
  /\ UNCHANGED <<accountVars, sessionVars, req>>

-----------------------------------------------------------------------------
(* Login with the password, and social sign-in. *)

LoginRead(r) ==
  /\ {"exists", "password"} \subseteq row
  /\ \E code \in {"right", "wrong"} : Start(r, "login", code, None, None, Seen(row))
  /\ UNCHANGED <<accountVars, otpVars, sessionVars>>

LoginWrong(r) ==
  /\ InFlight(r, "login", "wrong")
  /\ recordFailedLogin
  /\ Done(r)
  /\ UNCHANGED <<otpVars, sessionVars>>

\* The password was right: every later check is made on the row that was read.
LoginRefused(r) ==
  /\ InFlight(r, "login", "right")
  /\ "USER" \notin req[r].seen \/ "locked" \in req[r].seen
  /\ Done(r)
  /\ UNCHANGED <<accountVars, otpVars, sessionVars>>

MayPass(r) == "USER" \in req[r].seen /\ "locked" \notin req[r].seen

LoginPass(r) ==
  /\ InFlight(r, "login", "right") /\ MayPass(r)
  /\ resetLoginAttempts(req[r].seen)
  /\ CASE "active" \notin req[r].seen -> UNCHANGED <<otpVars, sessionVars>>
       [] {"active"} = req[r].seen \cap {"active", "verified"} ->
            issueAndSendOtp("phone_verification", "sms") /\ UNCHANGED sessionVars
       [] OTHER -> issueTokens(None) /\ UNCHANGED otpVars
  /\ Done(r)

\* The provider's id is known, or its verified e-mail is the account's (the provider is
\* linked to it), or there is no such account (it is created).
socialAuth(r, p) ==
  /\ req[r] = Idle
  /\ row' = IF "exists" \in row THEN row \cup (IF p \in row THEN {} ELSE {p, "email"})
                                ELSE {"exists", "active", "email", "USER", p}
  /\ req' = [req EXCEPT ![r] = [Idle EXCEPT !.op = "social", !.seen = Seen(row')]]
  /\ UNCHANGED <<fails, otpVars, sessionVars>>

socialAuthFinish(r) ==
  /\ InFlight(r, "social", "right")
  /\ IF MayPass(r)
       THEN /\ resetLoginAttempts(req[r].seen)
            /\ IF "active" \in req[r].seen THEN issueTokens(None) ELSE UNCHANGED sessionVars
       ELSE UNCHANGED <<accountVars, sessionVars>>
  /\ Done(r)
  /\ UNCHANGED otpVars

-----------------------------------------------------------------------------
(* Password reset and change. *)

forgotPassword ==
  /\ {"exists", "active"} \subseteq row /\ ~IsStaff(row)
  /\ issueAndSendOtp(IF "verified" \in row THEN "password_reset" ELSE "phone_verification", "sms")
  /\ UNCHANGED <<accountVars, sessionVars, req>>

resendForgotPasswordOtp(o) ==
  /\ otp[o].purpose = "password_reset" /\ otp[o].state = "unused" /\ otp[o].age # "new"
  /\ "active" \in row /\ ~IsStaff(row)
  /\ issueAndSendOtp("password_reset", "sms")
  /\ UNCHANGED <<accountVars, sessionVars, req>>

changePasswordInitiate(s) ==
  /\ s \in Live /\ "password" \in row /\ ~IsStaff(row)
  /\ issueAndSendOtp("password_change", "sms")
  /\ UNCHANGED <<accountVars, sessionVars, req>>

\* The code is used, the password set and every session deleted in one transaction.
NewPassword(r, op) ==
  /\ InFlight(r, op, "right") /\ CanClaim(req[r].otp)
  /\ Accept(req[r].otp)
  /\ row' = row \cup {"password"}
  /\ deleteSessions
  /\ Done(r)
  /\ UNCHANGED fails

ResetRead(r, o) == OtpRead(r, "reset", o, "password_reset")
ResetWrong(r) == OtpWrong(r, "reset")
ResetClaim(r) == NewPassword(r, "reset")

ChangeRead(r, o) == OtpRead(r, "change", o, "password_change")
ChangeWrong(r) == OtpWrong(r, "change")
ChangeClaim(r) == NewPassword(r, "change")

\* Checks the code without using it up.
verifyResetOtp(r, o) == OtpRead(r, "checkReset", o, "password_reset")
verifyResetOtpAnswer(r) ==
  \/ OtpWrong(r, "checkReset")
  \/ /\ InFlight(r, "checkReset", "right")
     /\ Done(r)
     /\ UNCHANGED <<accountVars, otpVars, sessionVars>>

-----------------------------------------------------------------------------
(* Sessions. *)

RefreshRead(r, s) ==
  /\ s \in Live \/ session[s] = "revoked"
  /\ s \in Live => "active" \in row
  /\ Start(r, IF s \in Live THEN "refresh" ELSE "reuse", "right", None, s, {})
  /\ UNCHANGED <<accountVars, otpVars, sessionVars>>

\* A rotated token came back: every session is marked revoked, but not one whose row it waits
\* for: that is revoked already when it gets there.
RefreshReuse(r) ==
  /\ InFlight(r, "reuse", "right")
  /\ session' = [t \in Sessions |-> IF session[t] = "live" THEN "revoked" ELSE session[t]]
  /\ ended' = ended \cup {family[t] : t \in Unclaimed}
  /\ Done(r)
  /\ UNCHANGED <<accountVars, otpVars, family>>

\* The transaction begins: the old session is claimed (revokedAt null), or the update waits
\* for another refresh; a session that was revoked or deleted meanwhile is a conflict.
RefreshClaim_Fault(r) ==
  /\ InFlight(r, "refresh", "right")
  /\ session' = [session EXCEPT ![req[r].sess] = "claimed"]
  /\ Then(r, "rotate")
  /\ UNCHANGED <<accountVars, otpVars, family, ended>>
RefreshClaim(r) ==
  LET s == req[r].sess IN
  /\ InFlight(r, "refresh", "right")
  /\ \/ session[s] = "live" /\ session' = [session EXCEPT ![s] = "claimed"] /\ Then(r, "rotate")
     \/ session[s] \in {"revoked", "gone"} /\ UNCHANGED session /\ Done(r)
  /\ UNCHANGED <<accountVars, otpVars, family, ended>>
\* The new session is inserted and both committed; a wipe that has waited deletes the old row.
RefreshRotate(r) ==
  LET s == req[r].sess IN
  /\ InFlight(r, "rotate", "right") /\ session[s] \in {"claimed", "awaited"}
  /\ \E n \in Sessions :
       /\ session[n] = "free" /\ \A t \in Sessions : t < n => session[t] # "free"
       /\ session' = [session EXCEPT ![s] = IF @ = "claimed" THEN "revoked" ELSE "gone", ![n] = "live"]
       /\ family' = [family EXCEPT ![n] = family[s]]
  /\ Done(r)
  /\ UNCHANGED <<accountVars, otpVars, ended>>

\* logout with a refresh token, and revokeRefreshToken: the row is deleted, never
\* marked revoked, so that presenting the token again is not taken for a theft.  While a
\* refresh of it is open the delete waits, and finds the session revoked.
DeleteSession(s) ==
  /\ session[s] \in {"live", "revoked"}
  /\ session' = [session EXCEPT ![s] = "gone"]
  /\ ended' = IF session[s] = "live" THEN ended \cup {family[s]} ELSE ended
  /\ UNCHANGED <<accountVars, otpVars, family, req>>

logout(s) == Live # {} /\ DeleteSession(s)
revokeRefreshToken(s) == Live # {} /\ DeleteSession(s)

logoutAll ==
  /\ Live # {}
  /\ deleteSessions
  /\ UNCHANGED <<accountVars, otpVars, req>>

-----------------------------------------------------------------------------
(* Self-reactivation (auth.selfReactivationEnabled) and sign-in methods. *)

reactivateInitiate ==
  /\ {"exists", "verified"} \subseteq row /\ "active" \notin row /\ ~IsStaff(row)
  /\ issueAndSendOtp("account_reactivation", "sms")
  /\ UNCHANGED <<accountVars, sessionVars, req>>

ReactivateRead(r, o) == OtpRead(r, "reactivate", o, "account_reactivation")
ReactivateWrong(r) == OtpWrong(r, "reactivate")
ReactivateClaim(r) ==
  /\ InFlight(r, "reactivate", "right") /\ CanClaim(req[r].otp)
  /\ Accept(req[r].otp)
  /\ row' = Unlocked(row) \cup {"active"}
  /\ fails' = [fails EXCEPT !["pg"] = 0]
  /\ Done(r)
  /\ UNCHANGED sessionVars

linkSocial(p) ==
  /\ Live # {} /\ p \notin row
  /\ row' = row \cup {p}
  /\ UNCHANGED <<fails, otpVars, sessionVars, req>>

\* Ways to sign in that the row offers once provider p is gone.
OtherWays(x, p) == (x \cap (Providers \ {p})) \cup (x \cap {"password"})

UnlinkRead(r, p) ==
  /\ Live # {} /\ p \in row /\ OtherWays(row, p) # {}
  /\ Start(r, p, "right", None, None, {})
  /\ UNCHANGED <<accountVars, otpVars, sessionVars>>
UnlinkWrite(r, p) ==
  /\ InFlight(r, p, "right")
  /\ row' = row \ {p}
  /\ Done(r)
  /\ UNCHANGED <<fails, otpVars, sessionVars>>

setPassword ==
  /\ Live # {} /\ "verified" \in row /\ "password" \notin row
  /\ row' = row \cup {"password"}
  /\ UNCHANGED <<fails, otpVars, sessionVars, req>>

-----------------------------------------------------------------------------
UserOtpStep(r) ==
  \/ \E o \in Otps : SignupOtpRead(r, o) \/ ResetRead(r, o) \/ ChangeRead(r, o)
                     \/ verifyResetOtp(r, o) \/ ReactivateRead(r, o)
  \/ SignupOtpWrong(r) \/ ResetWrong(r) \/ ChangeWrong(r) \/ ReactivateWrong(r)
  \/ SignupOtpClaim(r) \/ ResetClaim(r) \/ ChangeClaim(r) \/ ReactivateClaim(r)
  \/ verifyResetOtpAnswer(r) \/ SignupTokens(r)
  \/ \E op \in {"signup", "reset", "change", "reactivate"} : ClaimConflict(r, op)

LoginStep(r) ==
  \/ LoginRead(r) \/ LoginWrong(r) \/ LoginRefused(r) \/ LoginPass(r)
  \/ \E p \in Providers : socialAuth(r, p) \/ UnlinkRead(r, p) \/ UnlinkWrite(r, p)
  \/ socialAuthFinish(r)

SessionStep ==
  \/ \E r \in Requests : RefreshReuse(r) \/ RefreshClaim(r) \/ RefreshRotate(r)
  \/ \E s \in Sessions : logout(s) \/ revokeRefreshToken(s) \/ changePasswordInitiate(s)
                         \/ \E r \in Requests : RefreshRead(r, s)
  \/ logoutAll

UserNext ==
  \/ AuthStep \/ SessionStep
  \/ Signup \/ forgotPassword \/ reactivateInitiate \/ setPassword
  \/ \E p \in Providers : linkSocial(p)
  \/ \E o \in Otps : resendSignupOtp(o) \/ resendForgotPasswordOtp(o)
  \/ \E r \in Requests : UserOtpStep(r) \/ LoginStep(r)

UserSpec == UserInit /\ [][UserNext]_authVars
=============================================================================
