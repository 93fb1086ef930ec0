------------------------------ MODULE AuthBase ------------------------------
(***************************************************************************)
(* What the authentication services of src/modules/auth share: one account *)
(* row, its login counters, the one-time codes (userOtp), the sessions and *)
(* the requests in flight, with the helpers OtpUtil, LockoutUtil and       *)
(* TokenUtil.  Every handler awaits the database several times, so a       *)
(* handler that decides on a row it read is two actions here: one that     *)
(* reads (and keeps what it saw in req) and one that writes.               *)
(*                                                                         *)
(* The database runs READ COMMITTED.  A refresh updates the old session    *)
(* and inserts the new one in one transaction; meanwhile the old one is    *)
(* "claimed": every read still finds it live, every write of it waits.  A  *)
(* wipe that starts now waits too, "awaited", and will not see the session *)
(* that is inserted: the step of a wipe is where its statement begins.     *)
(*                                                                         *)
(* The registration token of an invited admin is a column of the account   *)
(* row; it is kept in otp too, under the purpose "registration": being the *)
(* hash the row holds is being "unused".                                   *)
(***************************************************************************)
EXTENDS Naturals, FiniteSets

CONSTANTS
  Otps,              \* ids of one-time codes, handed out in ascending order
  Sessions,          \* ids of sessions, handed out in ascending order
  Requests,          \* handlers that may be in flight at the same time
  OtpMaxAttempts,    \* otp.maxAttempts
  MaxLoginAttempts,  \* security.maxLoginAttempts
  Providers,         \* social sign-in providers in use
  None

ASSUME AuthAssumption ==
  /\ Otps \subseteq Nat
  /\ Sessions \subseteq Nat
  /\ OtpMaxAttempts \in Nat \ {0}
  /\ MaxLoginAttempts \in Nat \ {0}
  /\ Providers \subseteq {"google", "facebook", "apple"}
  /\ None \notin Otps \cup Sessions

VARIABLES
  row,      \* the set of facts the account row holds
  fails,    \* failed logins counted in Redis and in Postgres
  otp,      \* the one-time codes
  session,  \* state of each session
  family,   \* history: the login a session descends from by rotation
  req,      \* what each request in flight has read
  claimed,  \* history: codes a handler has accepted
  void,     \* history: codes superseded, cancelled or burnt
  ended     \* history: families whose live session a logout, reset, reuse, demotion... has ended

accountVars == <<row, fails>>
otpVars     == <<otp, claimed, void>>
sessionVars == <<session, family, ended>>
authVars    == <<row, fails, otp, session, family, req, claimed, void, ended>>

Flags == {"exists", "active", "verified", "email", "password", "USER", "ADMIN", "pending",
          "locked", "lockPast", "hold", "erased"} \cup Providers
Purposes == {"phone_verification", "password_reset", "password_change", "promotion",
             "account_reactivation", "email_verification", "registration", "phone_change"}
Channels == {"sms", "email"}
Stores == {"redis", "pg"}

NoOtp  == [state |-> "free", purpose |-> None, channel |-> None, attempts |-> 0, age |-> "new"]
NoCode(p, c) == [NoOtp EXCEPT !.state = "unused", !.purpose = p, !.channel = c]
Idle   == [op |-> "idle", code |-> "right", otp |-> None, sess |-> None, seen |-> {}]

AuthInit ==
  /\ fails = [s \in Stores |-> 0]
  /\ otp = [o \in Otps |-> NoOtp]
  /\ session = [s \in Sessions |-> "free"]
  /\ family = [s \in Sessions |-> None]
  /\ req = [r \in Requests |-> Idle]
  /\ claimed = {} /\ void = {} /\ ended = {}

-----------------------------------------------------------------------------
(* Requests. *)

\* What the sign-in handlers go by after the read: the role, the lock (also one whose
\* lockedUntil has passed), a positive failedLoginAttempts, isActive, isPhoneVerified.
Seen(x) == (x \cap {"USER", "ADMIN", "locked", "lockPast", "active", "verified"})
           \cup (IF fails["pg"] > 0 THEN {"counted"} ELSE {})

Start(r, op, code, o, s, seen) ==
  /\ req[r] = Idle
  /\ req' = [req EXCEPT ![r] = [op |-> op, code |-> code, otp |-> o, sess |-> s, seen |-> seen]]

InFlight(r, op, code) == req[r].op = op /\ req[r].code = code
Done(r) == req' = [req EXCEPT ![r] = Idle]
Then(r, op) == req' = [req EXCEPT ![r].op = op]

\* An open refresh is rolled back, and a wipe that waits for its session goes on.
RollBack(s) ==
  /\ \/ session[s] = "claimed" /\ session' = [session EXCEPT ![s] = "live"] /\ UNCHANGED ended
     \/ session[s] = "awaited" /\ session' = [session EXCEPT ![s] = "gone"] /\ ended' = ended \cup {family[s]}
  /\ UNCHANGED family
\* The client goes away, or the process dies: what was committed stays.
Abort(r) ==
  /\ req[r] # Idle /\ Done(r) /\ UNCHANGED <<accountVars, otpVars>>
  /\ IF req[r].op = "rotate" THEN RollBack(req[r].sess) ELSE UNCHANGED sessionVars

-----------------------------------------------------------------------------
(* LockoutUtil. *)

Locked(x) == (x \ {"lockPast"}) \cup {"locked"}
Unlocked(x) == x \ {"locked", "lockPast"}

\* The counter is in Redis; when Redis is unreachable it is the row's.  Locking by the
\* Redis counter resets both, locking by the row's resets that one.  The count, the lock and
\* the reset are statements of their own; they are one step here, so a counter that several
\* requests have pushed past the limit, or that a crash leaves there, is not told apart.
recordFailedLogin_Fault ==
  \E store \in Stores :
    /\ fails' = [fails EXCEPT ![store] = @ + 1]
    /\ row' = IF fails[store] + 1 >= MaxLoginAttempts THEN Locked(row) ELSE row
recordFailedLogin ==
  \E store \in Stores :
    LET n == fails[store] + 1 IN
    IF n >= MaxLoginAttempts
      THEN /\ row' = Locked(row)
           /\ fails' = [fails EXCEPT ![store] = 0, !["pg"] = 0]
      ELSE /\ fails' = [fails EXCEPT ![store] = n]
           /\ UNCHANGED row

\* Looks at the row the handler read, not at the row as it is now.
resetLoginAttempts(seen) ==
  IF seen \cap {"counted", "locked", "lockPast"} # {}
    THEN row' = Unlocked(row) /\ fails' = [s \in Stores |-> 0]
    ELSE fails' = [fails EXCEPT !["redis"] = 0] /\ UNCHANGED row

lockAccountForOtpAbuse == row' = Locked(row) /\ fails' = [s \in Stores |-> 0]

LockExpires ==
  /\ "locked" \in row
  /\ row' = (row \ {"locked"}) \cup {"lockPast"}
  /\ UNCHANGED <<fails, otpVars, sessionVars, req>>

-----------------------------------------------------------------------------
(* OtpUtil. *)

IsFresh(k) == otp[k].state = "free" /\ \A j \in Otps : j < k => otp[j].state # "free"
Issued(p, c) == {o \in Otps : otp[o].purpose = p /\ otp[o].channel = c}
Unused(p, c) == {o \in Issued(p, c) : otp[o].state = "unused"}
Latest(p, c) == {o \in Issued(p, c) : \A j \in Issued(p, c) : j <= o}

\* New codes ks of one purpose and channel, every older unused one marked used.
Supersede(p, c, ks) ==
  /\ otp' = [o \in Otps |-> IF o \in ks THEN NoCode(p, c)
                            ELSE IF o \in Unused(p, c) THEN [otp[o] EXCEPT !.state = "used"]
                            ELSE otp[o]]
  /\ void' = void \cup Unused(p, c)
  /\ UNCHANGED claimed

findCooldownOtp(p, c) == {o \in Latest(p, c) : otp[o].state = "unused" /\ otp[o].age = "new"}

\* Within the cooldown the same code is handed out again: Redis remembers its id even
\* after it was used, the database check asks for an unused one.  Two requests that
\* both pass the check inside their transactions leave two unused codes.
issueAndSendOtp(p, c) ==
  \/ (\E o \in Latest(p, c) : otp[o].age = "new") /\ UNCHANGED otpVars
  \/ /\ findCooldownOtp(p, c) = {}
     /\ \E k \in Otps :
          /\ IsFresh(k)
          /\ \/ Supersede(p, c, {k})
             \/ k + 1 \in Otps /\ Supersede(p, c, {k, k + 1})

\* Time passes for one code: out of its cooldown, then past expiresAt.
OtpAges(o) ==
  /\ otp[o].state = "unused" /\ otp[o].age # "expired"
  /\ otp' = [otp EXCEPT ![o].age = IF @ = "new" THEN "old" ELSE "expired"]
  /\ UNCHANGED <<accountVars, sessionVars, req, claimed, void>>

\* The checks every verifying handler makes on the code it read.
OtpOk(o, p) == otp[o].state = "unused" /\ otp[o].purpose = p /\ otp[o].age # "expired"

OtpRead(r, op, o, p) ==
  /\ OtpOk(o, p)
  /\ UNCHANGED <<otpVars, sessionVars>>
  /\ IF otp[o].attempts >= OtpMaxAttempts
       THEN req[r] = Idle /\ lockAccountForOtpAbuse /\ UNCHANGED req
       ELSE /\ \E code \in {"right", "wrong"} : Start(r, op, code, o, None, {})
            /\ UNCHANGED accountVars

\* The wrong code is counted on whatever the code's row has become meanwhile.
OtpWrong(r, op) ==
  LET o == req[r].otp IN
  /\ InFlight(r, op, "wrong")
  /\ otp' = [otp EXCEPT ![o].attempts = @ + 1]
  /\ IF otp[o].attempts + 1 >= OtpMaxAttempts
       THEN lockAccountForOtpAbuse /\ void' = void \cup ({o} \ claimed)
       ELSE UNCHANGED <<accountVars, void>>
  /\ Done(r)
  /\ UNCHANGED <<sessionVars, claimed>>

CanClaim_Fault(o) == otp[o].state = "unused" /\ otp[o].age # "expired"
CanClaim(o) ==
  otp[o].state = "unused" /\ otp[o].age # "expired" /\ otp[o].attempts < OtpMaxAttempts

\* updateMany(usedAt: null, ...) inside the handler's transaction.
Accept(o) ==
  /\ otp' = [otp EXCEPT ![o].state = "used"]
  /\ claimed' = claimed \cup {o}
  /\ UNCHANGED void

\* A right code whose claim comes too late: nothing is written.
ClaimConflict(r, op) ==
  /\ InFlight(r, op, "right") /\ ~CanClaim(req[r].otp)
  /\ Done(r)
  /\ UNCHANGED <<accountVars, otpVars, sessionVars>>

-----------------------------------------------------------------------------
(* TokenUtil and the session rows. *)

\* What a read finds live, and what no open refresh holds.
Live == {s \in DOMAIN session : session[s] \in {"live", "claimed", "awaited"}}
Unclaimed == {s \in Live : session[s] = "live"}

\* issueTokens creates a session; rotation passes the family of the old one on.
issueTokens(from) ==
  \E s \in Sessions :
    /\ session[s] = "free" /\ \A t \in Sessions : t < s => session[t] # "free"
    /\ session' = [session EXCEPT ![s] = "live"]
    /\ family' = [family EXCEPT ![s] = IF from = None THEN s ELSE family[from]]
    /\ UNCHANGED ended

\* session.deleteMany for the user, or for some of his sessions.  What follows it in its
\* transaction is part of the step; the sessions it waits for are let go when their refresh ends.
deleteMany(S) ==
  /\ session' = [s \in Sessions |-> IF s \notin S THEN session[s]
                                    ELSE IF session[s] \in {"live", "revoked"} THEN "gone"
                                    ELSE IF session[s] = "claimed" THEN "awaited" ELSE session[s]]
  /\ ended' = ended \cup {family[s] : s \in Unclaimed \cap S}
  /\ UNCHANGED family
deleteSessions == deleteMany(Sessions)

\* user-account.service deactivateMe: the flag and the sessions in one transaction (the
\* count of super admins it makes first is in module StaffRoles).
Deactivate ==
  /\ "active" \in row
  /\ row' = row \ {"active"}
  /\ deleteSessions
  /\ UNCHANGED <<fails, otpVars, req>>

\* user-admin-actions.service reactivateUser: refused while an invitation is pending.
Reactivate ==
  /\ "exists" \in row /\ "active" \notin row
  /\ "password" \in row \/ Unused("registration", "email") = {}
  /\ row' = row \cup {"active"}
  /\ UNCHANGED <<fails, otpVars, sessionVars, req>>

AuthStep ==
  \/ LockExpires \/ Deactivate \/ Reactivate
  \/ \E r \in Requests : Abort(r)
  \/ \E o \in Otps : OtpAges(o)

-----------------------------------------------------------------------------
(* Properties of every service built on this one. *)

AuthTypeOK ==
  /\ row \subseteq Flags
  /\ fails \in [Stores -> 0 .. MaxLoginAttempts - 1]
  /\ \A o \in Otps : otp[o] \in [state : {"free", "unused", "used"}, purpose : Purposes \cup {None},
       channel : Channels \cup {None}, attempts : Nat, age : {"new", "old", "expired"}]
  /\ session \in [Sessions -> {"free", "live", "claimed", "awaited", "revoked", "gone"}]
  /\ family \in [Sessions -> Sessions \cup {None}]
  /\ claimed \subseteq Otps /\ void \subseteq Otps /\ ended \subseteq Sessions

\* A one-time code (or link) that a newer one replaced, that was cancelled, or that
\* was guessed at too often is never accepted afterwards, whatever requests were
\* already past their checks when that happened.
VoidNeverAccepted == claimed \cap void = {}

\* Once a login's live session was ended (password reset or change, logout, refresh-token
\* reuse, deactivation, demotion), no session descending from that login by refresh is live,
\* even when a refresh had read it before that moment.  A refresh whose transaction was open
\* when the wipe began keeps its login: the wipe saw the claimed session only (1304).
EndedStaysEnded == \A s \in Live : family[s] \notin ended

\* A refresh token is rotated once: no login has two sessions that a read finds live.
OneLivePerFamily == \A s, t \in Live : family[s] = family[t] => s = t

\* What was taken back does not come back, whatever was in flight: a login whose live session a
\* logout, a password change or the reuse alarm has ended stays ended, a family of sessions has
\* one live token (refresh), and a one-time code that was replaced, cancelled or guessed at too
\* often is not accepted (CanClaim, claimed in one statement).  It is not said of a refresh
\* that had its transaction open at the wipe: its new session survives (1303-1332).
RevokedStaysRevoked == EndedStaysEnded /\ OneLivePerFamily /\ VoidNeverAccepted
=============================================================================
