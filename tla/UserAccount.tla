----------------------------- MODULE UserAccount -----------------------------
(***************************************************************************)
(* core/user: what a user and the admins do to an existing account.  Phone *)
(* change with a one-time code, revocation of sessions, forced logout and  *)
(* password reset, unlock, legal hold, erasure, and deletion requests.     *)
(* The account row, codes and sessions are those of UserAuth.              *)
(***************************************************************************)
EXTENDS UserAuth

CONSTANTS Phones, Anon   \* phone numbers in play; the number an erased account gets

VARIABLES
  contact,   \* phone and pendingPhone of the row
  sentTo,    \* history: the number each phone_change code was sent to
  unproven,  \* history: numbers the account took without a code sent there
  deletion   \* status of the account's newest deletion request

contactVars == <<contact, sentTo, unproven>>
accountAllVars == <<authVars, contactVars, deletion>>

OPEN_DELETION_STATUSES == {"PENDING", "DELAYED"}

AccountInit ==
  /\ AuthInit
  /\ \E proven \in SUBSET {"verified"} : row = {"exists", "active", "password", "USER"} \cup proven
  /\ \E p \in Phones : contact = [phone |-> p, pending |-> None]
  /\ sentTo = [o \in Otps |-> None]
  /\ unproven = {}
  /\ deletion = "none"

Signed == Live # {} /\ "active" \in row

-----------------------------------------------------------------------------
(* Phone change: by the user, or started by an admin and finished by the user. *)

\* A code that is (re)issued goes to the pending number; within the cooldown no new
\* code is made and none is sent.
SendTo(p) ==
  /\ issueAndSendOtp("phone_change", "sms")
  /\ sentTo' = [o \in Otps |-> IF otp[o].state = "free" /\ otp'[o].state # "free" THEN p ELSE sentTo[o]]

PhonePending(p) ==
  /\ p \in Phones /\ p # contact.phone
  /\ contact' = [contact EXCEPT !.pending = p]
  /\ SendTo(p)
  /\ UNCHANGED <<accountVars, sessionVars, req, unproven, deletion>>
changePhoneInitiate(p) == Signed /\ PhonePending(p)
adminChangePhone(p) == "exists" \in row /\ PhonePending(p)

\* The pending number is read together with the code.
ChangePhoneRead(r, o) ==
  /\ Signed /\ contact.pending # None
  /\ OtpOk(o, "phone_change")
  /\ IF otp[o].attempts >= OtpMaxAttempts
       THEN req[r] = Idle /\ lockAccountForOtpAbuse /\ UNCHANGED req
       ELSE /\ \E code \in {"right", "wrong"} : Start(r, "phone", code, o, None, {contact.pending})
            /\ UNCHANGED accountVars
  /\ UNCHANGED <<otpVars, sessionVars, contactVars, deletion>>
ChangePhoneWrong(r) == OtpWrong(r, "phone") /\ UNCHANGED <<contactVars, deletion>>
ChangePhoneClaim(r) ==
  LET p == CHOOSE x \in req[r].seen : TRUE IN
  /\ InFlight(r, "phone", "right") /\ CanClaim(req[r].otp)
  /\ Accept(req[r].otp)
  /\ contact' = [phone |-> p, pending |-> None]
  /\ unproven' = IF sentTo[req[r].otp] = p THEN unproven ELSE unproven \cup {p}
  /\ Done(r)
  /\ UNCHANGED <<accountVars, sessionVars, sentTo, deletion>>

\* The old code is retired by a write without a condition, then a new one is issued.
ResendPhoneRetire(r, o) ==
  /\ Signed /\ otp[o].purpose = "phone_change" /\ otp[o].state = "unused" /\ otp[o].age # "new"
  /\ contact.pending # None
  /\ otp' = [otp EXCEPT ![o].state = "used"]
  /\ void' = void \cup {o}
  /\ Start(r, "resendPhone", "right", o, None, {contact.pending})
  /\ UNCHANGED <<accountVars, sessionVars, claimed, contactVars, deletion>>
ResendPhoneIssue(r) ==
  /\ InFlight(r, "resendPhone", "right")
  /\ \E p \in req[r].seen : SendTo(p)
  /\ Done(r)
  /\ UNCHANGED <<accountVars, sessionVars, contact, unproven, deletion>>

-----------------------------------------------------------------------------
(* Sessions, lock and password. *)

revokeSession(s) == DeleteSession(s) /\ UNCHANGED <<contactVars, deletion>>

revokeMyOtherSessions(s) ==
  /\ s \in Live
  /\ deleteMany(Sessions \ {s})
  /\ UNCHANGED <<accountVars, otpVars, req, contactVars, deletion>>

forceLogout ==
  /\ "exists" \in row
  /\ deleteSessions
  /\ UNCHANGED <<accountVars, otpVars, req, contactVars, deletion>>

unlockUser ==
  /\ row \cap {"locked", "lockPast"} # {} \/ fails["pg"] > 0
  /\ row' = Unlocked(row)
  /\ fails' = [s \in Stores |-> 0]
  /\ UNCHANGED <<otpVars, sessionVars, req, contactVars, deletion>>

\* A random password, then the sessions: two statements, no transaction.
ForcePasswordReset(r) ==
  /\ "exists" \in row
  /\ row' = row \cup {"password"}
  /\ Start(r, "forceReset", "right", None, None, {})
  /\ UNCHANGED <<fails, otpVars, sessionVars, contactVars, deletion>>
ForcePasswordResetSessions(r) ==
  /\ InFlight(r, "forceReset", "right")
  /\ deleteSessions
  /\ Done(r)
  /\ UNCHANGED <<accountVars, otpVars, contactVars, deletion>>

markPhoneVerified ==
  /\ "verified" \notin row
  /\ row' = row \cup {"verified"}
  /\ UNCHANGED <<fails, otpVars, sessionVars, req, contactVars, deletion>>

\* An account whose only sign-in method would go keeps it; decided on a row read before.
unlinkMyAccount(r, p) == UnlinkRead(r, p) /\ UNCHANGED <<contactVars, deletion>>

-----------------------------------------------------------------------------
(* Legal hold, erasure and deletion requests. *)

setUserLegalHold ==
  /\ "exists" \in row
  /\ row' = IF "hold" \in row THEN row \ {"hold"} ELSE row \cup {"hold"}
  /\ UNCHANGED <<fails, otpVars, sessionVars, req, contactVars, deletion>>

AnonymizeRead(r) ==
  /\ "exists" \in row /\ row \cap {"hold", "erased"} = {}
  /\ Start(r, "anonymize", "right", None, None, {})
  /\ UNCHANGED <<accountVars, otpVars, sessionVars, contactVars, deletion>>
AnonymizeWrite(r) ==
  /\ InFlight(r, "anonymize", "right")
  /\ row' = (row \ ({"active", "email", "pending"} \cup Providers)) \cup {"erased", "password"}
  /\ contact' = [phone |-> Anon, pending |-> None]
  /\ deleteSessions
  /\ Done(r)
  /\ UNCHANGED <<fails, otpVars, sentTo, unproven, deletion>>

\* The duplicate account of a merge: its sessions go and it is switched off.
mergeUser ==
  /\ "hold" \notin row /\ ~IsStaff(row)
  /\ row' = row \ {"active"}
  /\ deleteSessions
  /\ UNCHANGED <<fails, otpVars, req, contactVars, deletion>>

requestMyDeletion ==
  /\ Signed /\ "hold" \notin row /\ deletion \notin OPEN_DELETION_STATUSES
  /\ deletion' = "PENDING"
  /\ UNCHANGED <<authVars, contactVars>>
cancelMyDeletionRequest ==
  /\ Signed /\ deletion \in OPEN_DELETION_STATUSES
  /\ deletion' = "CANCELLED"
  /\ UNCHANGED <<authVars, contactVars>>
\* Whether the request is open, and whether the account is held, is read first.
DecideRead(r, d) ==
  /\ deletion \in OPEN_DELETION_STATUSES
  /\ d = "APPROVED" => "hold" \notin row
  /\ Start(r, d, "right", None, None, {})
  /\ UNCHANGED <<accountVars, otpVars, sessionVars, contactVars, deletion>>
DecideWrite(r, d) ==
  /\ InFlight(r, d, "right")
  /\ deletion' = d
  /\ Done(r)
  /\ UNCHANGED <<accountVars, otpVars, sessionVars, contactVars>>
restoreDeletedUser ==
  /\ "erased" \notin row /\ deletion = "APPROVED"
  /\ row' = row \cup {"active"}
  /\ deletion' = "CANCELLED"
  /\ UNCHANGED <<fails, otpVars, sessionVars, req, contactVars>>

-----------------------------------------------------------------------------
PhoneStep ==
  \/ \E p \in Phones : changePhoneInitiate(p) \/ adminChangePhone(p)
  \/ \E r \in Requests :
       \/ ChangePhoneWrong(r) \/ ChangePhoneClaim(r) \/ ResendPhoneIssue(r)
       \/ \E o \in Otps : ChangePhoneRead(r, o) \/ ResendPhoneRetire(r, o)
       \/ (ClaimConflict(r, "phone") /\ UNCHANGED <<contactVars, deletion>>)

AdminActionStep ==
  \/ forceLogout \/ unlockUser \/ markPhoneVerified \/ setUserLegalHold \/ mergeUser
  \/ \E s \in Sessions : revokeSession(s) \/ revokeMyOtherSessions(s)
  \/ \E r \in Requests : ForcePasswordReset(r) \/ ForcePasswordResetSessions(r)
                         \/ AnonymizeRead(r) \/ AnonymizeWrite(r)
  \/ \E r \in Requests, p \in Providers :
       \/ unlinkMyAccount(r, p)
       \/ ((UnlinkWrite(r, p) \/ socialAuth(r, p)) /\ UNCHANGED <<contactVars, deletion>>)

DeletionStep ==
  \/ requestMyDeletion \/ cancelMyDeletionRequest \/ restoreDeletedUser
  \/ \E r \in Requests, d \in {"APPROVED", "DECLINED", "DELAYED"} : DecideRead(r, d) \/ DecideWrite(r, d)

\* Signing in and rotating go on meanwhile.
SignInStep ==
  /\ \/ AuthStep
     \/ \E r \in Requests : LoginRead(r) \/ LoginWrong(r) \/ LoginRefused(r) \/ LoginPass(r)
                            \/ socialAuthFinish(r)
                            \/ RefreshRotate(r) \/ RefreshReuse(r)
                            \/ \E s \in Sessions : RefreshRead(r, s)
  /\ UNCHANGED <<contactVars, deletion>>

AccountNext == PhoneStep \/ AdminActionStep \/ DeletionStep \/ SignInStep
PhoneNext == PhoneStep \/ SignInStep \/ \E r \in Requests : AnonymizeRead(r) \/ AnonymizeWrite(r)
AdminOpsNext == AdminActionStep \/ DeletionStep \/ SignInStep
AccountSpec == AccountInit /\ [][AccountNext]_accountAllVars

\* A number becomes the account's phone only after a code sent to that number was
\* entered ("The code goes to the new number").
PhoneWasProven == unproven = {}
=============================================================================
