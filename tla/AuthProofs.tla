----------------------------- MODULE AuthProofs -----------------------------
(***************************************************************************)
(* What holds of every account, for any number of requests, codes and      *)
(* sessions, under the handlers of auth.service, admin-auth.service and    *)
(* core/user: a login that was ended stays ended, a refresh token is       *)
(* rotated once, and a code that was replaced, cancelled or guessed at too *)
(* often is not accepted.  And of the staff's roles: a request to assign   *)
(* one is answered once, and who was lent one still holds it.              *)
(*                                                                         *)
(* The three services have some eighty actions, but few ways to touch the  *)
(* sessions, the codes and the requests: SessionMove, CodeMove, ReqMove.   *)
(* The proof shows once that a step made of such moves keeps the           *)
(* invariant, and of each action that it is one.                           *)
(***************************************************************************)
EXTENDS AdminAuth, UserAccount, TwoFactor, FiniteSetTheorems, TLAPS

-----------------------------------------------------------------------------
(* The invariant. *)

SessionState == {"free", "live", "claimed", "awaited", "revoked", "gone"}

\* A session that was handed out belongs to the family of one that was handed out before it,
\* so the id of the next login is neither a family yet nor ended.
SessionsOK ==
  /\ session \in [Sessions -> SessionState]
  /\ family \in [Sessions -> Sessions \cup {None}]
  /\ \A s \in Sessions : session[s] # "free" => family[s] \in Sessions /\ session[family[s]] # "free"
  /\ \A f \in ended : f \in Sessions /\ session[f] # "free"
  /\ EndedStaysEnded /\ OneLivePerFamily

LinkPurposes == {"registration", "promotion", "email_verification"}
OtpRecord == [state : {"free", "unused", "used"}, purpose : Purposes \cup {None},
              channel : Channels \cup {None}, attempts : Nat, age : {"new", "old", "expired"}]

\* An accepted code is used; a void one is used too, or out of attempts.  Links count none.
\* Codes are handed out in order.
CodesOK ==
  /\ otp \in [Otps -> OtpRecord] /\ claimed \subseteq Otps /\ void \subseteq Otps
  /\ \A o \in claimed : otp[o].state = "used"
  /\ \A o \in void : \/ otp[o].state = "used"
                     \/ otp[o].state = "unused" /\ otp[o].attempts >= OtpMaxAttempts
  /\ \A o \in Otps : otp[o].purpose \in LinkPurposes => otp[o].attempts = 0
  /\ \A j, k \in Otps : j < k /\ otp[j].state = "free" => otp[k].state = "free"
  /\ VoidNeverAccepted

CodeOps == {"signup", "reset", "change", "checkReset", "reactivate", "adminReset", "adminChange",
            "phone"}
LinkOps == {"complete", "promote", "verifyEmail"}

\* What a request in flight holds: a session to rotate, a code it has checked, or a link.
Holds(x) ==
  /\ x.op \in {"refresh", "rotate"} => x.sess \in Sessions
  /\ x.op \in CodeOps \cup LinkOps => x.otp \in Otps /\ otp[x.otp].state # "free"
  /\ x.op \in CodeOps => otp[x.otp].purpose \notin LinkPurposes
  /\ x.op \in LinkOps => otp[x.otp].purpose \in LinkPurposes

ReqsOK ==
  /\ DOMAIN req = Requests
  /\ \A r \in Requests : {"op", "sess"} \subseteq DOMAIN req[r] /\ Holds(req[r])

AuthInv == SessionsOK /\ CodesOK /\ ReqsOK

-----------------------------------------------------------------------------
(* The moves. *)

NewLogin ==
  \E s \in Sessions :
    /\ session[s] = "free" /\ session' = [session EXCEPT ![s] = "live"]
    /\ family' = [family EXCEPT ![s] = s] /\ UNCHANGED ended
Rotates ==
  \E s, n \in Sessions :
    /\ s \in Live /\ session[n] = "free"
    /\ \E old \in {"revoked", "gone"} : session' = [session EXCEPT ![s] = old, ![n] = "live"]
    /\ family' = [family EXCEPT ![n] = family[s]] /\ UNCHANGED ended
\* No session becomes live, and only the family of one that stops being so may be noted as ended.
Ends ==
  /\ session' \in [Sessions -> SessionState] /\ UNCHANGED family
  /\ \A s \in Sessions : /\ session'[s] = "free" <=> session[s] = "free"
                         /\ s \in Live' => s \in Live
  /\ \A f \in ended' : f \in ended \/ \E t \in Live \ Live' : f = family[t]
SessionMove == UNCHANGED sessionVars \/ NewLogin \/ Rotates \/ Ends

\* The codes ks are handed out, next in order; the unused codes R are withdrawn.
Retires(ks, R, p, c) ==
  /\ \A o \in R : otp[o].state = "unused"
  /\ \A k \in ks : otp[k].state = "free" /\ \A j \in Otps : j < k /\ otp[j].state = "free" => j \in ks
  /\ otp' = [o \in Otps |-> IF o \in ks THEN NoCode(p, c)
                            ELSE IF o \in R THEN [otp[o] EXCEPT !.state = "used"] ELSE otp[o]]
  /\ void' = void \cup R /\ UNCHANGED claimed
Claims(o) == otp[o].state = "unused" /\ otp[o].attempts < OtpMaxAttempts /\ Accept(o)
Counts(o) ==
  /\ otp[o].state # "free" /\ otp[o].purpose \notin LinkPurposes
  /\ otp' = [otp EXCEPT ![o].attempts = @ + 1] /\ UNCHANGED claimed
  /\ \/ UNCHANGED void
     \/ otp[o].attempts + 1 >= OtpMaxAttempts /\ void' = void \cup ({o} \ claimed)
Ages(o) ==
  /\ otp[o].state = "unused" /\ UNCHANGED <<claimed, void>>
  /\ \E a \in {"new", "old", "expired"} : otp' = [otp EXCEPT ![o].age = a]
CodeMove ==
  \/ UNCHANGED otpVars
  \/ \E ks, R \in SUBSET Otps, p \in Purposes, c \in Channels : Retires(ks, R, p, c)
  \/ \E o \in Otps : Claims(o) \/ Counts(o) \/ Ages(o)

ReqMove ==
  \/ UNCHANGED req
  \/ \E r \in Requests : \E x : req' = [req EXCEPT ![r] = x] /\ {"op", "sess"} \subseteq DOMAIN x /\ Holds(x)

AuthMove == SessionMove /\ CodeMove /\ ReqMove

-----------------------------------------------------------------------------
(* Moves keep the invariant. *)

LEMMA SessionsKept == SessionsOK /\ SessionMove => SessionsOK'
  <1> SUFFICES ASSUME SessionsOK, SessionMove PROVE SessionsOK'
    OBVIOUS
  <1> USE DEF SessionsOK, SessionState, EndedStaysEnded, OneLivePerFamily, Live
  <1>1. CASE UNCHANGED sessionVars
    BY <1>1 DEF sessionVars
  <1>2. CASE NewLogin
    BY <1>2 DEF NewLogin
  <1>3. CASE Rotates
    BY <1>3 DEF Rotates
  <1>4. CASE Ends
    BY <1>4 DEF Ends
  <1> QED
    BY <1>1, <1>2, <1>3, <1>4 DEF SessionMove

\* A code that was handed out stays so, for the same purpose.
Persists == \A o \in Otps : otp[o].state # "free" =>
                otp'[o].state # "free" /\ otp'[o].purpose = otp[o].purpose

LEMMA CodesKept == CodesOK /\ CodeMove => CodesOK' /\ Persists
  <1> SUFFICES ASSUME CodesOK, CodeMove PROVE CodesOK' /\ Persists
    OBVIOUS
  <1> USE AuthAssumption DEF Persists, VoidNeverAccepted
  <1>1. CASE UNCHANGED otpVars
    BY <1>1 DEF otpVars, CodesOK
  <1>2. ASSUME NEW ks \in SUBSET Otps, NEW R \in SUBSET Otps, NEW p \in Purposes, NEW c \in Channels,
               Retires(ks, R, p, c)
        PROVE  CodesOK' /\ Persists
    <2>1. /\ NoCode(p, c) \in OtpRecord /\ NoCode(p, c).state = "unused"
          /\ NoCode(p, c).attempts = 0
      BY DEF NoCode, NoOtp, OtpRecord
    <2>2. ASSUME NEW o \in Otps
          PROVE  LET t == [otp[o] EXCEPT !.state = "used"]
                 IN  /\ t \in OtpRecord /\ t.state = "used" /\ t.purpose = otp[o].purpose
                     /\ t.attempts = otp[o].attempts
      BY DEF CodesOK, OtpRecord
    <2>3. /\ otp' \in [Otps -> OtpRecord] /\ claimed' = claimed /\ void' = void \cup R
          /\ \A o \in ks : otp'[o] = NoCode(p, c) /\ otp[o].state = "free"
          /\ \A o \in R : otp[o].state = "unused" /\ otp'[o].state = "used"
                            /\ otp'[o].purpose = otp[o].purpose /\ otp'[o].attempts = otp[o].attempts
          /\ \A o \in Otps : o \notin ks \cup R => otp'[o] = otp[o]
      BY <1>2, <2>1, <2>2 DEF Retires, CodesOK
    <2>4. \A k \in ks, j \in Otps : j < k /\ otp[j].state = "free" => j \in ks
      BY <1>2 DEF Retires
    <2>5. \A j, k \in Otps : j < k /\ otp'[j].state = "free" => otp'[k].state = "free"
      BY <2>1, <2>3, <2>4 DEF CodesOK
    <2>6. \A o \in claimed' : otp'[o].state = "used"
      BY <2>3 DEF CodesOK
    <2>7. \A o \in void' : \/ otp'[o].state = "used"
                           \/ otp'[o].state = "unused" /\ otp'[o].attempts >= OtpMaxAttempts
      BY <2>3 DEF CodesOK
    <2>8. \A o \in Otps : otp'[o].purpose \in LinkPurposes => otp'[o].attempts = 0
      BY <2>1, <2>3 DEF CodesOK
    <2>9. VoidNeverAccepted'
      BY <2>3 DEF CodesOK
    <2>10. Persists
      BY <2>1, <2>3
    <2> QED
      BY <2>3, <2>5, <2>6, <2>7, <2>8, <2>9, <2>10 DEF CodesOK
  <1>3. ASSUME NEW o \in Otps, Claims(o) PROVE CodesOK' /\ Persists
    BY <1>3 DEF Claims, Accept, CodesOK, OtpRecord
  <1>4. ASSUME NEW o \in Otps, Counts(o) PROVE CodesOK' /\ Persists
    BY <1>4 DEF Counts, CodesOK, OtpRecord
  <1>5. ASSUME NEW o \in Otps, Ages(o) PROVE CodesOK' /\ Persists
    BY <1>5 DEF Ages, CodesOK, OtpRecord
  <1> QED
    BY <1>1, <1>2, <1>3, <1>4, <1>5 DEF CodeMove

LEMMA AuthKept == AuthInv /\ AuthMove => AuthInv'
  <1> SUFFICES ASSUME AuthInv, AuthMove PROVE AuthInv'
    OBVIOUS
  <1>1. SessionsOK' /\ CodesOK' /\ Persists
    BY SessionsKept, CodesKept DEF AuthInv, AuthMove
  <1>2. ASSUME NEW x, Holds(x) PROVE Holds(x)'
    BY <1>1, <1>2 DEF Holds, Persists
  <1>3. ReqsOK'
    BY <1>2 DEF AuthInv, AuthMove, ReqMove, ReqsOK
  <1> QED
    BY <1>1, <1>3 DEF AuthInv

-----------------------------------------------------------------------------
(* The helpers of the services make such moves. *)

\* An operation whose request holds nothing that the invariant is about.
Loose(op) == op \notin {"refresh", "rotate"} \cup CodeOps \cup LinkOps

LEMMA DoneMoves == ASSUME NEW r \in Requests, Done(r) PROVE ReqMove
  <1> DEFINE x == Idle
  <1>1. {"op", "sess"} \subseteq DOMAIN x /\ Holds(x)
    BY DEF Idle, Holds, CodeOps, LinkOps
  <1>2. req' = [req EXCEPT ![r] = x]
    BY DEF Done
  <1> QED
    BY <1>1, <1>2 DEF ReqMove

LEMMA StartMoves ==
  ASSUME NEW r \in Requests, NEW op, NEW code, NEW o, NEW s, NEW seen,
         Start(r, op, code, o, s, seen),
         op \in {"refresh", "rotate"} => s \in Sessions,
         op \in CodeOps \cup LinkOps => o \in Otps /\ otp[o].state # "free",
         op \in CodeOps => otp[o].purpose \notin LinkPurposes,
         op \in LinkOps => otp[o].purpose \in LinkPurposes
  PROVE  ReqMove
  <1> DEFINE x == [op |-> op, code |-> code, otp |-> o, sess |-> s, seen |-> seen]
  <1>1. {"op", "sess"} \subseteq DOMAIN x /\ Holds(x)
    BY DEF Holds
  <1>2. req' = [req EXCEPT ![r] = x]
    BY DEF Start
  <1> QED
    BY <1>1, <1>2 DEF ReqMove

LEMMA StartLoose ==
  ASSUME NEW r \in Requests, NEW op, NEW code, NEW o, NEW s, NEW seen,
         Start(r, op, code, o, s, seen), Loose(op)
  PROVE  ReqMove
  BY StartMoves DEF Loose

LEMMA ThenMoves ==
  ASSUME AuthInv, NEW r \in Requests, NEW op, Then(r, op), Loose(op)
  PROVE  ReqMove
  <1> DEFINE x == [req[r] EXCEPT !.op = op]
  <1>1. {"op", "sess"} \subseteq DOMAIN x /\ x.op = op
    BY DEF AuthInv, ReqsOK
  <1>2. req' = [req EXCEPT ![r] = x]
    BY DEF Then
  <1> HIDE DEF x
  <1>3. Holds(x)
    BY <1>1 DEF Holds, Loose
  <1> QED
    BY <1>1, <1>2, <1>3 DEF ReqMove

LEMMA ManyMoves == ASSUME AuthInv, NEW S, deleteMany(S) PROVE SessionMove
  <1>1. Ends
    BY DEF deleteMany, Ends, AuthInv, SessionsOK, SessionState, Live, Unclaimed
  <1> QED
    BY <1>1 DEF SessionMove

LEMMA DeleteMoves == ASSUME AuthInv, deleteSessions PROVE SessionMove
  BY ManyMoves DEF deleteSessions

LEMMA LoginMoves == ASSUME issueTokens(None) PROVE SessionMove
  BY DEF issueTokens, SessionMove, NewLogin

\* New codes are the next ones in order, so what Supersede hands out was free.
LEMMA SupersedeMoves ==
  ASSUME AuthInv, NEW p \in Purposes, NEW c \in Channels, NEW ks \in SUBSET Otps,
         Supersede(p, c, ks),
         \A k \in ks : otp[k].state = "free"
                       /\ \A j \in Otps : j < k /\ otp[j].state = "free" => j \in ks
  PROVE  CodeMove
  <1> DEFINE R == Unused(p, c)
  <1>1. R \in SUBSET Otps /\ \A o \in R : otp[o].state = "unused"
    BY DEF Unused, Issued
  <1>2. Retires(ks, R, p, c)
    BY <1>1 DEF Supersede, Retires
  <1> QED
    BY <1>1, <1>2 DEF CodeMove

LEMMA FreshOne ==
  ASSUME NEW k \in Otps, IsFresh(k)
  PROVE  \A i \in {k} : otp[i].state = "free"
                        /\ \A j \in Otps : j < i /\ otp[j].state = "free" => j \in {k}
  BY DEF IsFresh

LEMMA FreshTwo ==
  ASSUME AuthInv, NEW k \in Otps, IsFresh(k), k + 1 \in Otps
  PROVE  \A i \in {k, k + 1} : otp[i].state = "free"
             /\ \A j \in Otps : j < i /\ otp[j].state = "free" => j \in {k, k + 1}
  BY AuthAssumption DEF IsFresh, AuthInv, CodesOK

LEMMA IssueOne ==
  ASSUME AuthInv, NEW p \in Purposes, NEW c \in Channels, NEW k \in Otps, IsFresh(k),
         Supersede(p, c, {k})
  PROVE  CodeMove
  BY FreshOne, SupersedeMoves

LEMMA IssueMoves ==
  ASSUME AuthInv, NEW p \in Purposes, NEW c \in Channels, issueAndSendOtp(p, c)
  PROVE  CodeMove
  <1>1. CASE UNCHANGED otpVars
    BY <1>1 DEF CodeMove
  <1>2. ASSUME NEW k \in Otps, IsFresh(k), Supersede(p, c, {k}) PROVE CodeMove
    BY <1>2, IssueOne
  <1>3. ASSUME NEW k \in Otps, IsFresh(k), k + 1 \in Otps, Supersede(p, c, {k, k + 1})
        PROVE  CodeMove
    BY <1>3, FreshTwo, SupersedeMoves
  <1> QED
    BY <1>1, <1>2, <1>3 DEF issueAndSendOtp

\* A code that was read and found good is what the request goes on to hold.
LEMMA OtpReadMoves ==
  ASSUME AuthInv, NEW r \in Requests, NEW o \in Otps, NEW op \in CodeOps,
         NEW p \in Purposes \ LinkPurposes, NEW seen,
         OtpOk(o, p), UNCHANGED <<otpVars, sessionVars>>,
         UNCHANGED req \/ \E code \in {"right", "wrong"} : Start(r, op, code, o, None, seen)
  PROVE  AuthMove
  <1>1. ReqMove
    BY StartMoves DEF OtpOk, ReqMove, CodeOps, LinkOps
  <1> QED
    BY <1>1 DEF AuthMove, SessionMove, CodeMove

LEMMA OtpReadIs ==
  ASSUME AuthInv, NEW r \in Requests, NEW o \in Otps, NEW op \in CodeOps,
         NEW p \in Purposes \ LinkPurposes, OtpRead(r, op, o, p)
  PROVE  AuthMove
  BY OtpReadMoves DEF OtpRead

LEMMA OtpWrongMoves ==
  ASSUME AuthInv, NEW r \in Requests, NEW op \in CodeOps, OtpWrong(r, op)
  PROVE  AuthMove
  <1>1. Holds(req[r]) /\ req[r].op = op
    BY DEF OtpWrong, InFlight, AuthInv, ReqsOK
  <1>2. PICK o : o = req[r].otp
    OBVIOUS
  <1>3. o \in Otps /\ Counts(o)
    BY <1>1, <1>2 DEF OtpWrong, Holds, Counts
  <1>4. ReqMove
    BY DoneMoves DEF OtpWrong
  <1> QED
    BY <1>3, <1>4 DEF AuthMove, SessionMove, CodeMove, OtpWrong

\* A code that was checked, or a link, is accepted within its attempts.
LEMMA AcceptMoves ==
  ASSUME AuthInv, NEW r \in Requests, req[r].op \in CodeOps \cup LinkOps,
         otp[req[r].otp].state = "unused",
         req[r].op \in CodeOps => CanClaim(req[r].otp), Accept(req[r].otp)
  PROVE  CodeMove
  <1>1. Holds(req[r])
    BY DEF AuthInv, ReqsOK
  <1>2. PICK o : o = req[r].otp
    OBVIOUS
  <1>3. o \in Otps
    BY <1>1, <1>2 DEF Holds
  <1>4. otp[o].attempts < OtpMaxAttempts
    <2>1. CASE req[r].op \in CodeOps
      BY <1>2, <2>1 DEF CanClaim
    <2>2. CASE req[r].op \in LinkOps
      BY <1>1, <1>2, <1>3, <2>2, AuthAssumption DEF Holds, AuthInv, CodesOK
    <2> QED
      BY <2>1, <2>2
  <1>5. Claims(o)
    BY <1>2, <1>4 DEF Claims
  <1> QED
    BY <1>3, <1>5 DEF CodeMove

LEMMA ClaimMoves ==
  ASSUME AuthInv, NEW r \in Requests, NEW op \in CodeOps, InFlight(r, op, "right"),
         CanClaim(req[r].otp), Accept(req[r].otp)
  PROVE  CodeMove
  BY AcceptMoves DEF InFlight, CanClaim

LEMMA LinkClaimMoves ==
  ASSUME AuthInv, NEW r \in Requests, NEW op \in LinkOps, InFlight(r, op, "right"),
         otp[req[r].otp].state = "unused", Accept(req[r].otp)
  PROVE  CodeMove
  BY AcceptMoves DEF InFlight, CodeOps, LinkOps

LEMMA QuietMoves ==
  ASSUME ReqMove, UNCHANGED <<otpVars, sessionVars>>
  PROVE  AuthMove
  BY DEF AuthMove, SessionMove, CodeMove

LEMMA ConflictMoves ==
  ASSUME NEW r \in Requests, Done(r), UNCHANGED <<otpVars, sessionVars>>
  PROVE  AuthMove
  BY DoneMoves, QuietMoves

\* A handler that begins by reading.
LEMMA ReadMoves ==
  ASSUME NEW r \in Requests, NEW op, NEW code, NEW seen, Loose(op),
         Start(r, op, code, None, None, seen), UNCHANGED <<otpVars, sessionVars>>
  PROVE  AuthMove
  BY StartLoose, QuietMoves

LEMMA PasswordMoves ==
  ASSUME AuthInv, NEW r \in Requests, NEW op \in CodeOps, NewPassword(r, op)
  PROVE  AuthMove
  <1>1. CodeMove
    BY ClaimMoves DEF NewPassword
  <1>2. SessionMove /\ ReqMove
    BY DeleteMoves, DoneMoves DEF NewPassword
  <1> QED
    BY <1>1, <1>2 DEF AuthMove

LEMMA SendMoves ==
  ASSUME AuthInv, NEW p \in Purposes, NEW c \in Channels, issueAndSendOtp(p, c),
         UNCHANGED <<sessionVars, req>>
  PROVE  AuthMove
  BY IssueMoves DEF AuthMove, SessionMove, ReqMove

LEMMA DeleteSessionMoves ==
  ASSUME AuthInv, NEW s \in Sessions, DeleteSession(s)
  PROVE  AuthMove
  <1>1. Ends
    BY DEF DeleteSession, Ends, AuthInv, SessionsOK, SessionState, Live
  <1> QED
    BY <1>1 DEF AuthMove, SessionMove, CodeMove, ReqMove, DeleteSession

LEMMA EndMoves ==
  ASSUME AuthInv, deleteSessions, CodeMove, ReqMove
  PROVE  AuthMove
  BY DeleteMoves DEF AuthMove

\* The session a refresh rotates is the one its request holds.
LEMMA RotateMoves ==
  ASSUME AuthInv, NEW r \in Requests, RefreshRotate(r)
  PROVE  AuthMove
  <1>1. PICK s : s = req[r].sess
    OBVIOUS
  <1>2. s \in Sessions
    BY <1>1 DEF RefreshRotate, InFlight, AuthInv, ReqsOK, Holds
  <1>3. SessionMove
    BY <1>1, <1>2 DEF RefreshRotate, SessionMove, Rotates, Live, AuthInv, SessionsOK
  <1>4. ReqMove
    BY DoneMoves DEF RefreshRotate
  <1> QED
    BY <1>3, <1>4 DEF AuthMove, CodeMove, RefreshRotate

LEMMA RefreshClaimMoves ==
  ASSUME AuthInv, NEW r \in Requests, RefreshClaim(r)
  PROVE  AuthMove
  <1>1. PICK s : s = req[r].sess
    OBVIOUS
  <1>2. s \in Sessions
    BY <1>1 DEF RefreshClaim, InFlight, AuthInv, ReqsOK, Holds
  <1>3. CASE session[s] = "live" /\ session' = [session EXCEPT ![s] = "claimed"] /\ Then(r, "rotate")
    <2>1. Ends
      BY <1>1, <1>2, <1>3 DEF RefreshClaim, Ends, Live, AuthInv, SessionsOK, SessionState
    <2>2. ReqMove
      <3> DEFINE x == [req[r] EXCEPT !.op = "rotate"]
      <3>1. {"op", "sess"} \subseteq DOMAIN x /\ x.op = "rotate" /\ x.sess = s
        BY <1>1 DEF AuthInv, ReqsOK
      <3>2. req' = [req EXCEPT ![r] = x]
        BY <1>3 DEF Then
      <3> HIDE DEF x
      <3>3. Holds(x)
        BY <1>2, <3>1 DEF Holds, CodeOps, LinkOps
      <3> QED
        BY <3>1, <3>2, <3>3 DEF ReqMove
    <2> QED
      BY <2>1, <2>2 DEF AuthMove, SessionMove, CodeMove, RefreshClaim
  <1>4. CASE UNCHANGED session /\ Done(r)
    BY <1>4, ConflictMoves DEF RefreshClaim, sessionVars
  <1> QED
    BY <1>1, <1>3, <1>4 DEF RefreshClaim

LEMMA ReuseMoves ==
  ASSUME AuthInv, NEW r \in Requests, RefreshReuse(r)
  PROVE  AuthMove
  <1>1. Ends
    BY DEF RefreshReuse, Ends, AuthInv, SessionsOK, SessionState, Live, Unclaimed
  <1>2. ReqMove
    BY DoneMoves DEF RefreshReuse
  <1> QED
    BY <1>1, <1>2 DEF AuthMove, SessionMove, CodeMove, RefreshReuse

LEMMA RefreshReadMoves ==
  ASSUME NEW r \in Requests, NEW s \in Sessions, RefreshRead(r, s)
  PROVE  AuthMove
  <1>1. ReqMove
    BY StartMoves DEF RefreshRead, CodeOps, LinkOps
  <1> QED
    BY <1>1, QuietMoves DEF RefreshRead

LEMMA AuthStepMoves == ASSUME AuthInv, AuthStep PROVE AuthMove
  <1>1. CASE LockExpires
    BY <1>1 DEF LockExpires, AuthMove, SessionMove, CodeMove, ReqMove
  <1>2. CASE Deactivate
    BY <1>2, DeleteMoves DEF Deactivate, AuthMove, CodeMove, ReqMove
  <1>3. CASE Reactivate
    BY <1>3 DEF Reactivate, AuthMove, SessionMove, CodeMove, ReqMove
  <1>4. ASSUME NEW r \in Requests, Abort(r) PROVE AuthMove
    <2>1. CASE req[r].op = "rotate"
      <3>1. req[r].sess \in Sessions
        BY <2>1 DEF AuthInv, ReqsOK, Holds
      <3>2. Ends
        BY <1>4, <2>1, <3>1 DEF Abort, RollBack, Ends, Live, AuthInv, SessionsOK, SessionState
      <3>3. ReqMove
        BY <1>4, DoneMoves DEF Abort
      <3> QED
        BY <1>4, <3>2, <3>3 DEF Abort, AuthMove, SessionMove, CodeMove
    <2>2. CASE req[r].op # "rotate"
      BY <1>4, <2>2, ConflictMoves DEF Abort
    <2> QED
      BY <2>1, <2>2
  <1>5. ASSUME NEW o \in Otps, OtpAges(o) PROVE AuthMove
    <2>1. Ages(o)
      BY <1>5 DEF OtpAges, Ages
    <2> QED
      BY <1>5, <2>1 DEF OtpAges, AuthMove, SessionMove, CodeMove, ReqMove
  <1> QED
    BY <1>1, <1>2, <1>3, <1>4, <1>5 DEF AuthStep

-----------------------------------------------------------------------------
(* auth.service: every action is a move. *)

\* The code a handler reads is of a purpose that counts attempts.
LEMMA CodePurposes ==
  /\ {"phone_verification", "password_reset", "password_change", "account_reactivation",
      "phone_change"} \subseteq Purposes \ LinkPurposes
  /\ {"promotion", "registration", "email_verification"} \subseteq Purposes \cap LinkPurposes
  /\ {"sms", "email"} \subseteq Channels
  BY DEF Purposes, LinkPurposes, Channels

LEMMA UserOtpStepMoves ==
  ASSUME AuthInv, NEW r \in Requests, UserOtpStep(r) PROVE AuthMove
  <1> USE CodePurposes
  <1>1. ASSUME NEW o \in Otps,
               \/ SignupOtpRead(r, o) \/ ResetRead(r, o) \/ ChangeRead(r, o)
               \/ verifyResetOtp(r, o) \/ ReactivateRead(r, o)
        PROVE  AuthMove
    BY <1>1, OtpReadIs
       DEF SignupOtpRead, ResetRead, ChangeRead, verifyResetOtp, ReactivateRead, CodeOps
  <1>2. CASE SignupOtpWrong(r) \/ ResetWrong(r) \/ ChangeWrong(r) \/ ReactivateWrong(r)
    BY <1>2, OtpWrongMoves DEF SignupOtpWrong, ResetWrong, ChangeWrong, ReactivateWrong, CodeOps
  <1>3. CASE SignupOtpClaim(r)
    <2>1. CodeMove
      BY <1>3, ClaimMoves DEF SignupOtpClaim, CodeOps
    <2>2. ReqMove
      BY <1>3, ThenMoves DEF SignupOtpClaim, Loose, CodeOps, LinkOps
    <2> QED
      BY <1>3, <2>1, <2>2 DEF SignupOtpClaim, AuthMove, SessionMove
  <1>4. CASE ResetClaim(r) \/ ChangeClaim(r)
    BY <1>4, PasswordMoves DEF ResetClaim, ChangeClaim, CodeOps
  <1>5. CASE ReactivateClaim(r)
    <2>1. CodeMove
      BY <1>5, ClaimMoves DEF ReactivateClaim, CodeOps
    <2> QED
      BY <1>5, <2>1, DoneMoves DEF ReactivateClaim, AuthMove, SessionMove
  <1>6. CASE verifyResetOtpAnswer(r)
    BY <1>6, OtpWrongMoves, ConflictMoves DEF verifyResetOtpAnswer, CodeOps
  <1>7. CASE SignupTokens(r)
    BY <1>7, LoginMoves, DoneMoves DEF SignupTokens, AuthMove, CodeMove
  <1>8. ASSUME NEW op, ClaimConflict(r, op) PROVE AuthMove
    BY <1>8, ConflictMoves DEF ClaimConflict
  <1> QED
    BY <1>1, <1>2, <1>3, <1>4, <1>5, <1>6, <1>7, <1>8 DEF UserOtpStep

LEMMA LoginPassMoves ==
  ASSUME AuthInv, NEW r \in Requests, LoginPass(r) PROVE AuthMove
  <1>1. SessionMove /\ CodeMove
    <2>1. CASE "active" \notin req[r].seen
      BY <2>1 DEF LoginPass, SessionMove, CodeMove
    <2>2. CASE "active" \in req[r].seen /\ {"active"} = req[r].seen \cap {"active", "verified"}
      BY <2>2, CodePurposes, IssueMoves DEF LoginPass, SessionMove
    <2>3. CASE "active" \in req[r].seen /\ {"active"} # req[r].seen \cap {"active", "verified"}
      BY <2>3, LoginMoves DEF LoginPass, CodeMove
    <2> QED
      BY <2>1, <2>2, <2>3
  <1> QED
    BY <1>1, DoneMoves DEF LoginPass, AuthMove

LEMMA SocialMoves ==
  ASSUME NEW r \in Requests, NEW p, socialAuth(r, p) PROVE AuthMove
  <1> DEFINE x == [Idle EXCEPT !.op = "social", !.seen = Seen(row')]
  <1>1. {"op", "sess"} \subseteq DOMAIN x /\ Holds(x)
    BY DEF Idle, Holds, CodeOps, LinkOps
  <1>2. req' = [req EXCEPT ![r] = x]
    BY DEF socialAuth
  <1> HIDE DEF x
  <1>3. ReqMove
    BY <1>1, <1>2 DEF ReqMove
  <1> QED
    BY <1>3, QuietMoves DEF socialAuth

LEMMA SocialFinishMoves ==
  ASSUME NEW r \in Requests, socialAuthFinish(r) PROVE AuthMove
  <1>1. SessionMove
    BY LoginMoves DEF socialAuthFinish, SessionMove
  <1> QED
    BY <1>1, DoneMoves DEF socialAuthFinish, AuthMove, CodeMove

LEMMA UnlinkMoves ==
  ASSUME NEW r \in Requests, NEW p \in Providers, UnlinkRead(r, p) \/ UnlinkWrite(r, p)
  PROVE  AuthMove
  <1>1. Loose(p)
    BY AuthAssumption DEF Loose, CodeOps, LinkOps
  <1> QED
    BY <1>1, ReadMoves, ConflictMoves DEF UnlinkRead, UnlinkWrite

LEMMA PasswordLoginMoves ==
  ASSUME NEW r \in Requests, LoginRead(r) \/ LoginWrong(r) \/ LoginRefused(r)
  PROVE  AuthMove
  <1>1. Loose("login")
    BY DEF Loose, CodeOps, LinkOps
  <1> QED
    BY <1>1, ReadMoves, ConflictMoves DEF LoginRead, LoginWrong, LoginRefused

LEMMA LoginStepMoves ==
  ASSUME AuthInv, NEW r \in Requests, LoginStep(r) PROVE AuthMove
  BY PasswordLoginMoves, LoginPassMoves, SocialMoves, SocialFinishMoves, UnlinkMoves DEF LoginStep

LEMMA LogoutAllMoves == ASSUME AuthInv, logoutAll PROVE AuthMove
  BY EndMoves DEF logoutAll, CodeMove, ReqMove

LEMMA SessionStepMoves == ASSUME AuthInv, SessionStep PROVE AuthMove
  <1>1. ASSUME NEW s \in Sessions, changePasswordInitiate(s) PROVE AuthMove
    BY <1>1, SendMoves, CodePurposes DEF changePasswordInitiate
  <1>2. ASSUME NEW s \in Sessions, logout(s) \/ revokeRefreshToken(s) PROVE AuthMove
    BY <1>2, DeleteSessionMoves DEF logout, revokeRefreshToken
  <1> QED
    BY <1>1, <1>2, ReuseMoves, RefreshClaimMoves, RotateMoves, RefreshReadMoves, LogoutAllMoves DEF SessionStep

LEMMA UserNextMoves == ASSUME AuthInv, UserNext PROVE AuthMove
  <1> USE CodePurposes
  <1>1. CASE Signup
    <2>1. CodeMove
      <3>1. CASE "exists" \in row
        BY <1>1, <3>1, IssueMoves DEF Signup
      <3>2. CASE "exists" \notin row
        BY <1>1, <3>2, IssueOne DEF Signup
      <3> QED
        BY <3>1, <3>2
    <2> QED
      BY <1>1, <2>1 DEF Signup, AuthMove, SessionMove, ReqMove
  <1>2. CASE forgotPassword
    BY <1>2, SendMoves DEF forgotPassword
  <1>3. CASE reactivateInitiate
    BY <1>3, SendMoves DEF reactivateInitiate
  <1>4. CASE setPassword
    BY <1>4 DEF setPassword, AuthMove, SessionMove, CodeMove, ReqMove
  <1>5. ASSUME NEW p \in Providers, linkSocial(p) PROVE AuthMove
    BY <1>5 DEF linkSocial, AuthMove, SessionMove, CodeMove, ReqMove
  <1>6. ASSUME NEW o \in Otps, resendSignupOtp(o) \/ resendForgotPasswordOtp(o) PROVE AuthMove
    BY <1>6, SendMoves DEF resendSignupOtp, resendForgotPasswordOtp
  <1> QED
    BY <1>1, <1>2, <1>3, <1>4, <1>5, <1>6, AuthStepMoves, SessionStepMoves, UserOtpStepMoves,
       LoginStepMoves DEF UserNext

-----------------------------------------------------------------------------
(* admin-auth.service: every action is a move. *)

LEMMA VoidMoves ==
  ASSUME AuthInv, NEW p \in Purposes, Supersede(p, "email", {})
  PROVE  CodeMove
  BY SupersedeMoves, CodePurposes

LEMMA CreateLinkMoves ==
  ASSUME AuthInv, NEW r \in Requests, NEW p \in Purposes, CreateLink(r, p), UNCHANGED sessionVars
  PROVE  AuthMove
  <1>1. PICK k \in Otps : IsFresh(k) /\ otp' = [otp EXCEPT ![k] = NoCode(p, "email")]
    BY DEF CreateLink
  <1>2. Retires({k}, {}, p, "email")
    BY <1>1, FreshOne DEF Retires, CreateLink, AuthInv, CodesOK
  <1>3. CodeMove
    BY <1>2, CodePurposes DEF CodeMove
  <1> QED
    BY <1>3, DoneMoves DEF CreateLink, AuthMove, SessionMove

LEMMA VoidLinksMoves ==
  ASSUME AuthInv, NEW r \in Requests, NEW p \in Purposes, NEW op, Loose(op), VoidLinks(r, p, op),
         UNCHANGED sessionVars
  PROVE  AuthMove
  BY VoidMoves, ThenMoves DEF VoidLinks, AuthMove, SessionMove

LEMMA LinkReadMoves ==
  ASSUME NEW r \in Requests, NEW o \in Otps, NEW op \in LinkOps, NEW p \in LinkPurposes,
         LinkRead(r, op, o, p)
  PROVE  AuthMove
  <1>1. ReqMove
    BY StartMoves DEF LinkRead, OtpOk, CodeOps, LinkOps
  <1> QED
    BY <1>1, QuietMoves DEF LinkRead

\* None of the operations that only lead up to another write holds a code or a session.
LEMMA LooseOps ==
  \A op \in {"tokens", "invite", "cancelRegistration", "promoteVoid", "promoteLink", "adminLogin",
             "emailVoid", "emailLink", "resendPhone", "forceReset", "anonymize", "APPROVED",
             "DECLINED", "DELAYED"} : Loose(op)
  BY DEF Loose, CodeOps, LinkOps

LEMMA CompleteClaimMoves ==
  ASSUME AuthInv, NEW r \in Requests, CompleteClaim(r) PROVE AuthMove
  <1>1. CASE /\ otp[req[r].otp].state = "unused" /\ Accept(req[r].otp)
             /\ Then(r, "tokens")
    <2>1. CodeMove
      BY <1>1, LinkClaimMoves DEF CompleteClaim, LinkOps
    <2>2. ReqMove
      BY <1>1, ThenMoves, LooseOps
    <2> QED
      BY <2>1, <2>2 DEF CompleteClaim, AuthMove, SessionMove
  <1>2. CASE Done(r) /\ UNCHANGED otpVars
    BY <1>2, ConflictMoves DEF CompleteClaim
  <1> QED
    BY <1>1, <1>2 DEF CompleteClaim

LEMMA CancelMoves ==
  ASSUME AuthInv, NEW r \in Requests, CancelRegistrationDelete(r) PROVE AuthMove
  <1>1. PICK R : R = {o \in Otps : otp[o].state = "unused"}
    OBVIOUS
  <1>2. Retires({}, R, "registration", "email")
    BY <1>1 DEF Retires, CancelRegistrationDelete
  <1>3. CodeMove
    BY <1>1, <1>2, CodePurposes DEF CodeMove
  <1> QED
    BY <1>3, EndMoves, DoneMoves DEF CancelRegistrationDelete

LEMMA RegistrationMoves ==
  ASSUME AuthInv, NEW r \in Requests, RegistrationStep(r) PROVE AuthMove
  <1> USE LooseOps, CodePurposes
  <1>1. CASE adminRegister(r) \/ adminRegisterResend(r) \/ CancelRegistrationRead(r)
    BY <1>1, ReadMoves DEF adminRegister, adminRegisterResend, CancelRegistrationRead
  <1>2. CASE issueRegistrationInvite(r)
    <2>1. CodeMove
      BY <1>2, IssueOne DEF issueRegistrationInvite
    <2> QED
      BY <1>2, <2>1, DoneMoves DEF issueRegistrationInvite, AuthMove, SessionMove
  <1>3. CASE SignupTokens(r)
    BY <1>3, LoginMoves, DoneMoves DEF SignupTokens, AuthMove, CodeMove
  <1>4. ASSUME NEW o \in Otps, CompleteRead(r, o) PROVE AuthMove
    BY <1>4, LinkReadMoves DEF CompleteRead, LinkOps
  <1> QED
    BY <1>1, <1>2, <1>3, <1>4, CompleteClaimMoves, CancelMoves DEF RegistrationStep

LEMMA PromotionMoves ==
  ASSUME AuthInv, NEW r \in Requests, PromotionStep(r) PROVE AuthMove
  <1> USE LooseOps, CodePurposes
  <1>1. CASE PromoteInitiate(r) \/ PromoteResend(r)
    BY <1>1, ReadMoves DEF PromoteInitiate, PromoteResend
  <1>2. CASE PromoteVoid(r)
    BY <1>2, VoidLinksMoves DEF PromoteVoid
  <1>3. CASE PromoteLink(r)
    BY <1>3, CreateLinkMoves DEF PromoteLink
  <1>4. CASE PromoteClaim(r)
    <2>1. CASE Accept(req[r].otp) /\ deleteSessions
      <3>1. CodeMove
        BY <1>4, <2>1, LinkClaimMoves DEF PromoteClaim, CanClaimLink, LinkOps
      <3> QED
        BY <1>4, <2>1, <3>1, EndMoves, DoneMoves DEF PromoteClaim
    <2>2. CASE UNCHANGED <<otpVars, sessionVars>>
      BY <1>4, <2>2, ConflictMoves DEF PromoteClaim
    <2> QED
      BY <1>4, <2>1, <2>2 DEF PromoteClaim
  <1>5. ASSUME NEW o \in Otps, PromoteRead(r, o) PROVE AuthMove
    BY <1>5, LinkReadMoves DEF PromoteRead, LinkOps
  <1> QED
    BY <1>1, <1>2, <1>3, <1>4, <1>5 DEF PromotionStep

LEMMA AdminSelfMoves ==
  ASSUME AuthInv, NEW r \in Requests, AdminSelfStep(r) PROVE AuthMove
  <1> USE LooseOps, CodePurposes
  <1>1. CASE AdminLoginRead(r) \/ ChangeEmailInitiate(r) \/ ChangeEmailResend(r)
    BY <1>1, ReadMoves DEF AdminLoginRead, ChangeEmailInitiate, ChangeEmailResend
  <1>2. CASE AdminLoginWrong(r)
    BY <1>2, ConflictMoves DEF AdminLoginWrong
  <1>3. CASE AdminLoginPass(r)
    BY <1>3, LoginMoves, DoneMoves DEF AdminLoginPass, AuthMove, CodeMove
  <1>4. CASE AdminResetWrong(r) \/ AdminChangeWrong(r)
    BY <1>4, OtpWrongMoves DEF AdminResetWrong, AdminChangeWrong, CodeOps
  <1>5. CASE AdminResetClaim(r) \/ AdminChangeClaim(r)
    BY <1>5, PasswordMoves DEF AdminResetClaim, AdminChangeClaim, CodeOps
  <1>6. CASE ChangeEmailVoid(r)
    BY <1>6, VoidLinksMoves DEF ChangeEmailVoid
  <1>7. CASE ChangeEmailLink(r)
    BY <1>7, CreateLinkMoves DEF ChangeEmailLink
  <1>8. CASE ChangeEmailClaim(r)
    <2>1. CodeMove
      BY <1>8, LinkClaimMoves DEF ChangeEmailClaim, CanClaimLink, LinkOps
    <2> QED
      BY <1>8, <2>1, DoneMoves DEF ChangeEmailClaim, AuthMove, SessionMove
  <1>9. ASSUME NEW o \in Otps, AdminResetRead(r, o) \/ AdminChangeRead(r, o) PROVE AuthMove
    BY <1>9, OtpReadIs DEF AdminResetRead, AdminChangeRead, CodeOps
  <1>10. ASSUME NEW o \in Otps, ChangeEmailRead(r, o) PROVE AuthMove
    BY <1>10, LinkReadMoves DEF ChangeEmailRead, LinkOps
  <1>11. ASSUME NEW op, ClaimConflict(r, op) \/ LinkConflict(r, op) PROVE AuthMove
    BY <1>11, ConflictMoves DEF ClaimConflict, LinkConflict
  <1>12. ASSUME NEW s \in Sessions, adminRefresh(r, s) PROVE AuthMove
    BY <1>12, RefreshReadMoves DEF adminRefresh
  <1> QED
    BY <1>1, <1>2, <1>3, <1>4, <1>5, <1>6, <1>7, <1>8, <1>9, <1>10, <1>11, <1>12, ReuseMoves,
       RotateMoves DEF AdminSelfStep

LEMMA AdminNextMoves == ASSUME AuthInv, AdminNext PROVE AuthMove
  <1> USE CodePurposes
  <1>1. ASSUME NEW s \in Sessions, adminLogout(s) \/ revokeMySession(s) PROVE AuthMove
    BY <1>1, DeleteSessionMoves DEF adminLogout, logout, revokeMySession
  <1>2. ASSUME NEW o \in Otps, adminResendForgotPasswordOtp(o) PROVE AuthMove
    BY <1>2, SendMoves DEF adminResendForgotPasswordOtp
  <1>3. CASE promoteUserCancel
    BY <1>3, VoidMoves DEF promoteUserCancel, AuthMove, SessionMove, ReqMove
  <1>4. CASE demoteAdmin
    BY <1>4, EndMoves DEF demoteAdmin, CodeMove, ReqMove
  <1>5. CASE adminLogoutAll
    BY <1>5, LogoutAllMoves DEF adminLogoutAll
  <1>6. CASE adminForgotPassword \/ adminChangePasswordInitiate
    BY <1>6, SendMoves DEF adminForgotPassword, adminChangePasswordInitiate
  <1> QED
    BY <1>1, <1>2, <1>3, <1>4, <1>5, <1>6, AuthStepMoves, RegistrationMoves, PromotionMoves,
       AdminSelfMoves DEF AdminNext

-----------------------------------------------------------------------------
(* core/user: every action is a move. *)

LEMMA PhoneMoves == ASSUME AuthInv, PhoneStep PROVE AuthMove
  <1> USE LooseOps, CodePurposes
  <1>1. ASSUME NEW p \in Phones, changePhoneInitiate(p) \/ adminChangePhone(p) PROVE AuthMove
    BY <1>1, SendMoves DEF changePhoneInitiate, adminChangePhone, PhonePending, SendTo
  <1>2. ASSUME NEW r \in Requests, ChangePhoneWrong(r) PROVE AuthMove
    BY <1>2, OtpWrongMoves DEF ChangePhoneWrong, CodeOps
  <1>3. ASSUME NEW r \in Requests, ChangePhoneClaim(r) PROVE AuthMove
    <2>1. CodeMove
      BY <1>3, ClaimMoves DEF ChangePhoneClaim, CodeOps
    <2> QED
      BY <1>3, <2>1, DoneMoves DEF ChangePhoneClaim, AuthMove, SessionMove
  <1>4. ASSUME NEW r \in Requests, ResendPhoneIssue(r) PROVE AuthMove
    <2>1. CodeMove
      BY <1>4, IssueMoves DEF ResendPhoneIssue, SendTo
    <2> QED
      BY <1>4, <2>1, DoneMoves DEF ResendPhoneIssue, AuthMove, SessionMove
  <1>5. ASSUME NEW r \in Requests, NEW o \in Otps, ChangePhoneRead(r, o) PROVE AuthMove
    BY <1>5, OtpReadMoves DEF ChangePhoneRead, CodeOps
  <1>6. ASSUME NEW r \in Requests, NEW o \in Otps, ResendPhoneRetire(r, o) PROVE AuthMove
    <2>1. Retires({}, {o}, "phone_change", "sms")
      BY <1>6 DEF ResendPhoneRetire, Retires, AuthInv, CodesOK
    <2>2. CodeMove
      BY <2>1 DEF CodeMove
    <2>3. ReqMove
      BY <1>6, StartLoose DEF ResendPhoneRetire
    <2> QED
      BY <1>6, <2>2, <2>3 DEF ResendPhoneRetire, AuthMove, SessionMove
  <1>7. ASSUME NEW r \in Requests, ClaimConflict(r, "phone") PROVE AuthMove
    BY <1>7, ConflictMoves DEF ClaimConflict
  <1> QED
    BY <1>1, <1>2, <1>3, <1>4, <1>5, <1>6, <1>7 DEF PhoneStep

LEMMA AdminActionMoves == ASSUME AuthInv, AdminActionStep PROVE AuthMove
  <1> USE LooseOps
  <1>1. CASE unlockUser \/ markPhoneVerified \/ setUserLegalHold
    BY <1>1 DEF unlockUser, markPhoneVerified, setUserLegalHold, AuthMove, SessionMove, CodeMove,
                ReqMove
  <1>2. CASE forceLogout \/ mergeUser
    BY <1>2, EndMoves DEF forceLogout, mergeUser, CodeMove, ReqMove
  <1>3. ASSUME NEW s \in Sessions, revokeSession(s) PROVE AuthMove
    BY <1>3, DeleteSessionMoves DEF revokeSession
  <1>4. ASSUME NEW s \in Sessions, revokeMyOtherSessions(s) PROVE AuthMove
    BY <1>4, ManyMoves DEF revokeMyOtherSessions, AuthMove, CodeMove, ReqMove
  <1>5. ASSUME NEW r \in Requests, ForcePasswordReset(r) \/ AnonymizeRead(r) PROVE AuthMove
    BY <1>5, ReadMoves DEF ForcePasswordReset, AnonymizeRead
  <1>6. ASSUME NEW r \in Requests, ForcePasswordResetSessions(r) \/ AnonymizeWrite(r) PROVE AuthMove
    BY <1>6, EndMoves, DoneMoves DEF ForcePasswordResetSessions, AnonymizeWrite, CodeMove
  <1>7. ASSUME NEW r \in Requests, NEW p \in Providers, unlinkMyAccount(r, p) PROVE AuthMove
    BY <1>7, UnlinkMoves DEF unlinkMyAccount
  <1> QED
    BY <1>1, <1>2, <1>3, <1>4, <1>5, <1>6, <1>7, UnlinkMoves, SocialMoves DEF AdminActionStep

LEMMA DeletionMoves == ASSUME AuthInv, DeletionStep PROVE AuthMove
  <1> USE LooseOps
  <1>1. CASE requestMyDeletion \/ cancelMyDeletionRequest \/ restoreDeletedUser
    BY <1>1 DEF requestMyDeletion, cancelMyDeletionRequest, restoreDeletedUser, authVars, otpVars,
                sessionVars, AuthMove, SessionMove, CodeMove, ReqMove
  <1>2. ASSUME NEW r \in Requests, NEW d \in {"APPROVED", "DECLINED", "DELAYED"},
               DecideRead(r, d) \/ DecideWrite(r, d)
        PROVE  AuthMove
    BY <1>2, ReadMoves, ConflictMoves DEF DecideRead, DecideWrite
  <1> QED
    BY <1>1, <1>2 DEF DeletionStep

LEMMA AccountNextMoves == ASSUME AuthInv, AccountNext PROVE AuthMove
  <1>1. CASE SignInStep
    BY <1>1, AuthStepMoves, PasswordLoginMoves, LoginPassMoves, SocialFinishMoves, RotateMoves,
       ReuseMoves, RefreshReadMoves DEF SignInStep
  <1> QED
    BY <1>1, PhoneMoves, AdminActionMoves, DeletionMoves DEF AccountNext

-----------------------------------------------------------------------------
(* The theorems. *)

LEMMA AuthInitInv == AuthInit => AuthInv
  <1> SUFFICES ASSUME AuthInit PROVE AuthInv
    OBVIOUS
  <1>1. SessionsOK
    BY DEF AuthInit, SessionsOK, SessionState, EndedStaysEnded, OneLivePerFamily,
           Live
  <1>2. CodesOK
    BY AuthAssumption DEF AuthInit, CodesOK, NoOtp, OtpRecord, VoidNeverAccepted, LinkPurposes
  <1>3. ReqsOK
    BY DEF AuthInit, ReqsOK, Idle, Holds, CodeOps, LinkOps
  <1> QED
    BY <1>1, <1>2, <1>3 DEF AuthInv

LEMMA AuthStutters == AuthInv /\ UNCHANGED authVars => AuthInv'
  <1> SUFFICES ASSUME AuthInv, UNCHANGED authVars PROVE AuthInv'
    OBVIOUS
  <1>1. AuthMove
    BY DEF authVars, otpVars, sessionVars, AuthMove, SessionMove, CodeMove, ReqMove
  <1> QED
    BY <1>1, AuthKept

LEMMA UserInductive == UserSpec => []AuthInv
  <1>1. UserInit => AuthInv
    BY AuthInitInv DEF UserInit
  <1>2. AuthInv /\ [UserNext]_authVars => AuthInv'
    BY UserNextMoves, AuthKept, AuthStutters
  <1> QED
    BY <1>1, <1>2, PTL DEF UserSpec

LEMMA AdminInductive == AdminSpec => []AuthInv
  <1>1. AdminInit => AuthInv
    BY AuthInitInv DEF AdminInit
  <1>2. AuthInv /\ [AdminNext]_authVars => AuthInv'
    BY AdminNextMoves, AuthKept, AuthStutters
  <1> QED
    BY <1>1, <1>2, PTL DEF AdminSpec

LEMMA AccountInductive == AccountSpec => []AuthInv
  <1>1. AccountInit => AuthInv
    BY AuthInitInv DEF AccountInit
  <1>2. AuthInv /\ [AccountNext]_accountAllVars => AuthInv'
    <2>1. UNCHANGED accountAllVars => UNCHANGED authVars
      BY DEF accountAllVars
    <2> QED
      BY <2>1, AccountNextMoves, AuthKept, AuthStutters
  <1> QED
    BY <1>1, <1>2, PTL DEF AccountSpec

\* Whichever of the three services works on the account, what was taken back does not come
\* back.  A login that was ended by a logout, a password reset or change, the reuse alarm, a
\* demotion or an erasure stays ended: no refresh that was in flight at that moment brings one
\* of its sessions back, and a refresh token is rotated once (refresh claims the session with
\* revokedAt null).  A code or link that was replaced, withdrawn, or guessed at OtpMaxAttempts
\* times is never accepted, however many handlers were past their checks (updateMany with
\* usedAt null and attempts below the maximum).
THEOREM RevokedForGood == UserSpec \/ AdminSpec \/ AccountSpec => []RevokedStaysRevoked
  <1>1. AuthInv => RevokedStaysRevoked
    BY DEF AuthInv, SessionsOK, CodesOK, RevokedStaysRevoked
  <1> QED
    BY <1>1, UserInductive, AdminInductive, AccountInductive, PTL

-----------------------------------------------------------------------------
(* Two-factor: a challenge that signed in is consumed, a recovery code that *)
(* was accepted is no longer unused, and neither is undone.                 *)

ChallengesOK ==
  /\ DOMAIN chal = Challenges
  /\ \A h \in Challenges : DOMAIN chal[h] = {"state", "tries", "sms"}
  /\ tokens \in [Challenges -> {0, 1}]
  /\ \A h \in Challenges : tokens[h] = 1 => chal[h].state = "consumed"
RecoveryOK ==
  /\ DOMAIN recovery = Codes
  /\ spent \in [Codes -> {0, 1}]
  /\ \A c \in Codes : spent[c] = 1 => recovery[c] # "unused"
CallsOK ==
  /\ DOMAIN call = Callers
  /\ \A k \in Callers :
       /\ DOMAIN call[k] = {"op", "chal", "step", "code"}
       /\ call[k].op \in {"advance", "recover", "finish"} => call[k].chal \in Challenges
       /\ call[k].op = "recover" => call[k].code \in Codes
TwoFactorInv == ChallengesOK /\ RecoveryOK /\ CallsOK

\* What may happen to the challenges: none, a state or a mark that keeps the consumed ones
\* consumed, or one that is claimed for its tokens.
ChallengeMove ==
  \/ UNCHANGED <<chal, tokens>>
  \/ /\ UNCHANGED tokens /\ DOMAIN chal' = Challenges
     /\ \A h \in Challenges : /\ DOMAIN chal'[h] = {"state", "tries", "sms"}
                              /\ chal[h].state = "consumed" => chal'[h].state = "consumed"
  \/ \E h \in Challenges : /\ chal[h].state # "consumed"
                           /\ chal' = [chal EXCEPT ![h].state = "consumed"]
                           /\ tokens' = [tokens EXCEPT ![h] = @ + 1]
RecoveryMove ==
  \/ UNCHANGED <<recovery, spent>>
  \/ UNCHANGED spent /\ recovery' = [c \in Codes |-> "none"]
  \/ issueRecoveryCodes
  \/ \E c \in Codes : /\ recovery[c] = "unused"
                      /\ recovery' = [recovery EXCEPT ![c] = "used"]
                      /\ spent' = [spent EXCEPT ![c] = @ + 1]
CallMove ==
  \/ UNCHANGED call
  \/ \E k \in Callers : Leave(k)
  \/ \E k \in Callers : call[k].chal \in Challenges /\ call' = [call EXCEPT ![k].op = "finish"]
  \/ \E k \in Callers, op \in {"enable", "regenerate", "stepUp"} :
       \E h, s, c : Enter(k, op, h, s, c)
  \/ \E k \in Callers, op \in {"advance", "finish"}, h \in Challenges :
       \E s, c : Enter(k, op, h, s, c)
  \/ \E k \in Callers, op \in {"recover"}, h \in Challenges, c \in Codes :
       \E s : Enter(k, op, h, s, c)
TwoFactorMove == ChallengeMove /\ RecoveryMove /\ CallMove

LEMMA TwoFactorKept == TwoFactorInv /\ TwoFactorMove => TwoFactorInv'
  <1> SUFFICES ASSUME TwoFactorInv, TwoFactorMove PROVE TwoFactorInv'
    OBVIOUS
  <1>1. ChallengesOK'
    BY DEF TwoFactorInv, TwoFactorMove, ChallengesOK, ChallengeMove
  <1>2. RecoveryOK'
    BY DEF TwoFactorInv, TwoFactorMove, RecoveryOK, RecoveryMove, issueRecoveryCodes
  <1>3. CallsOK'
    BY DEF TwoFactorInv, TwoFactorMove, CallsOK, CallMove, Leave, Enter, NoCall
  <1> QED
    BY <1>1, <1>2, <1>3 DEF TwoFactorInv

\* A wrong answer adds a try, and may consume the challenge.
LEMMA FailMoves ==
  ASSUME TwoFactorInv, NEW h \in Challenges, failChallenge(h), UNCHANGED tokens
  PROVE  ChallengeMove
  BY DEF failChallenge, TwoFactorInv, ChallengesOK, ChallengeMove

LEMMA TwoFactorStep == TwoFactorInv /\ TwoFactorNext => TwoFactorMove
  <1> SUFFICES ASSUME TwoFactorInv, TwoFactorNext PROVE TwoFactorMove
    OBVIOUS
  <1> USE DEF TwoFactorMove
  <1>1. CASE TimePasses \/ twoFactorSetup
    BY <1>1 DEF TimePasses, twoFactorSetup, ChallengeMove, RecoveryMove, CallMove
  <1>2. CASE issueTwoFactorChallenge
    BY <1>2 DEF issueTwoFactorChallenge, NoChallenge, ChallengeMove, RecoveryMove, CallMove,
                TwoFactorInv, ChallengesOK
  <1>3. ASSUME NEW h \in Challenges, ChallengeExpires(h) \/ twoFactorLoginResend(h)
        PROVE  TwoFactorMove
    BY <1>3 DEF ChallengeExpires, twoFactorLoginResend, loadChallenge, ChallengeMove, RecoveryMove,
                CallMove, TwoFactorInv, ChallengesOK
  <1>4. ASSUME NEW s \in Steps, twoFactorDisable(s) PROVE TwoFactorMove
    BY <1>4 DEF twoFactorDisable, ChallengeMove, RecoveryMove, CallMove
  <1>5. ASSUME NEW k \in Callers, VerifyWrite(k) \/ RegenerateWrite(k) \/ StepUpWrite(k)
        PROVE  TwoFactorMove
    BY <1>5 DEF VerifyWrite, RegenerateWrite, StepUpWrite, ChallengeMove, RecoveryMove, CallMove
  <1>6. ASSUME NEW k \in Callers, LoginVerifyAdvance(k) PROVE TwoFactorMove
    <2>1. call[k].chal \in Challenges
      BY <1>6 DEF LoginVerifyAdvance, TwoFactorInv, CallsOK
    <2>2. RecoveryMove
      BY <1>6 DEF LoginVerifyAdvance, RecoveryMove
    <2>3. CASE UNCHANGED chal /\ call' = [call EXCEPT ![k].op = "finish"]
      BY <1>6, <2>1, <2>2, <2>3 DEF LoginVerifyAdvance, ChallengeMove, CallMove
    <2>4. CASE failChallenge(call[k].chal) /\ Leave(k)
      BY <1>6, <2>1, <2>2, <2>4, FailMoves DEF LoginVerifyAdvance, CallMove
    <2> QED
      BY <1>6, <2>3, <2>4 DEF LoginVerifyAdvance
  <1>7. ASSUME NEW k \in Callers, RecoveryClaim(k) PROVE TwoFactorMove
    <2>1. call[k].chal \in Challenges /\ call[k].code \in Codes
      BY <1>7 DEF RecoveryClaim, TwoFactorInv, CallsOK
    <2>2. CASE recovery[call[k].code] = "unused"
      BY <1>7, <2>1, <2>2 DEF RecoveryClaim, ChallengeMove, RecoveryMove, CallMove
    <2>3. CASE recovery[call[k].code] # "unused"
      <3>1. ChallengeMove
        BY <1>7, <2>1, <2>3, FailMoves DEF RecoveryClaim
      <3> QED
        BY <1>7, <2>3, <3>1 DEF RecoveryClaim, RecoveryMove, CallMove
    <2> QED
      BY <2>2, <2>3
  <1>8. ASSUME NEW k \in Callers, Finish(k) PROVE TwoFactorMove
    <2>1. call[k].chal \in Challenges
      BY <1>8 DEF Finish, TwoFactorInv, CallsOK
    <2>2. ChallengeMove
      BY <1>8, <2>1 DEF Finish, finishChallenge, ChallengeMove
    <2> QED
      BY <1>8, <2>2 DEF Finish, RecoveryMove, CallMove
  <1>9. ASSUME NEW k \in Callers, NEW s \in Steps,
               VerifyRead(k, s) \/ RegenerateRead(k, s) \/ StepUpRead(k, s)
        PROVE  TwoFactorMove
    BY <1>9 DEF VerifyRead, RegenerateRead, StepUpRead, ChallengeMove, RecoveryMove, CallMove
  <1>10. ASSUME NEW k \in Callers, NEW h \in Challenges, SmsRead(k, h) PROVE TwoFactorMove
    BY <1>10 DEF SmsRead, ChallengeMove, RecoveryMove, CallMove
  <1>11. ASSUME NEW k \in Callers, NEW h \in Challenges, NEW s \in Steps, LoginVerifyRead(k, h, s)
         PROVE  TwoFactorMove
    BY <1>11, FailMoves DEF LoginVerifyRead, ChallengeMove, RecoveryMove, CallMove
  <1>12. ASSUME NEW k \in Callers, NEW h \in Challenges, NEW c \in Codes, RecoveryRead(k, h, c)
         PROVE  TwoFactorMove
    BY <1>12, FailMoves DEF RecoveryRead, ChallengeMove, RecoveryMove, CallMove
  <1> QED
    BY <1>1, <1>2, <1>3, <1>4, <1>5, <1>6, <1>7, <1>8, <1>9, <1>10, <1>11, <1>12
       DEF TwoFactorNext

\* However many requests answer a sign-in challenge together, by app code, SMS code or
\* recovery code, tokens are issued for it once (finishTwoFactorChallenge claims it with
\* consumedAt null), and a recovery code is accepted once between two issues of codes.
THEOREM SignsInOnce == TwoFactorSpec => []CodesWorkOnce
  <1>1. TwoFactorInit => TwoFactorInv
    BY DEF TwoFactorInit, TwoFactorInv, ChallengesOK, RecoveryOK, CallsOK, NoChallenge, NoCall
  <1>2. TwoFactorInv /\ [TwoFactorNext]_twoFactorVars => TwoFactorInv'
    <2>1. ASSUME TwoFactorInv, UNCHANGED twoFactorVars PROVE TwoFactorMove
      BY <2>1 DEF twoFactorVars, TwoFactorMove, ChallengeMove, RecoveryMove, CallMove
    <2> QED
      BY <2>1, TwoFactorStep, TwoFactorKept
  <1>3. TwoFactorInv => CodesWorkOnce
    BY DEF TwoFactorInv, ChallengesOK, RecoveryOK, CodesWorkOnce, ChallengeSignsInOnce,
           RecoveryCodeOnce
  <1> QED
    BY <1>1, <1>2, <1>3, PTL DEF TwoFactorSpec

-----------------------------------------------------------------------------
(***************************************************************************)
(* The staff roles.  A request carries a verdict only once it has left     *)
(* PENDING, and nothing brings it back: the writes that decide a request   *)
(* are conditional on PENDING, and the one without a condition (ReviewLate)*)
(* writes EXPIRED.  An ACTIVE temporary assignment ends in the transaction *)
(* that takes the role away or removes it.                                 *)
(***************************************************************************)
CONSTANTS Staff, Asks
VARIABLES role, held, off, ask, temp, reviewer, verdicts

Roles == INSTANCE StaffRoles WITH call <- reviewer

AnsweredOnce ==
  /\ DOMAIN ask = Asks /\ DOMAIN verdicts = Asks
  /\ \A q \in Asks : DOMAIN ask[q] = {"status", "by", "target", "age"}
  /\ \A q \in Asks : ask[q].status \in {"free", "PENDING"} => verdicts[q] = {}
  /\ \A q \in Asks : \A v, w \in verdicts[q] : v = w

GrantsKept == temp \in [Staff -> {"none", "ACTIVE", "REVOKED"}] /\ DOMAIN held = Staff /\ Roles!TemporaryIsHeld

LEMMA AnsweredStep == AnsweredOnce /\ [Roles!StaffNext]_(Roles!staffVars) => AnsweredOnce'
  <1> SUFFICES ASSUME AnsweredOnce, [Roles!StaffNext]_(Roles!staffVars) PROVE AnsweredOnce'
    OBVIOUS
  <1> USE DEF AnsweredOnce
  <1>1. ASSUME UNCHANGED <<ask, verdicts>> PROVE AnsweredOnce'
    BY <1>1
  <1>2. ASSUME NEW a \in Staff, Roles!RoleStep(a) PROVE AnsweredOnce'
    <2>1. CASE Roles!RemoveWrite(a)
      BY <2>1 DEF Roles!RemoveWrite, Roles!NoAsk
    <2>2. CASE Roles!archive(a)
      BY <2>2 DEF Roles!archive, Roles!Cancel
    <2>3. CASE ~Roles!RemoveWrite(a) /\ ~Roles!archive(a)
      <3>1. UNCHANGED <<ask, verdicts>>
        BY <1>2, <2>3 DEF Roles!RoleStep, Roles!create, Roles!createRoleWithPermissions, Roles!RemoveRead, Roles!unarchive, Roles!assignToRole,
           Roles!revokeManyFromRole, Roles!revokeFromRole, Roles!setForRole, Roles!PermissionsBecome, Roles!Reads
      <3> QED
        BY <1>1, <3>1
    <2> QED
      BY <2>1, <2>2, <2>3
  <1>3. ASSUME NEW a \in Staff, Roles!GrantStep(a) PROVE AnsweredOnce'
    <2>1. CASE Roles!requestAssignment(a)
      BY <2>1 DEF Roles!requestAssignment, Roles!NoAsk
    <2>2. CASE Roles!ReviewLate(a)
      BY <2>2 DEF Roles!ReviewLate
    <2>3. CASE Roles!ReviewReject(a)
      BY <2>3 DEF Roles!ReviewReject, Roles!Verdict
    <2>4. CASE Roles!ReviewApprove(a)
      BY <2>4 DEF Roles!ReviewApprove, Roles!Verdict
    <2>5. ASSUME NEW u \in Staff, Roles!RequestRead(a, u) PROVE AnsweredOnce'
      BY <2>5 DEF Roles!RequestRead, Roles!expireStaleRequests
    <2>6. CASE Roles!AssignWrite(a) \/ Roles!assignTemporarily(a) \/ Roles!removeFromUser(a)
      BY <1>1, <2>6 DEF Roles!AssignWrite, Roles!assignTemporarily, Roles!removeFromUser
    <2>7. ASSUME NEW u \in Staff, Roles!AssignRead(a, u) \/ Roles!TemporaryRead(a, u) \/ Roles!removeFromUserRead(a, u)
          PROVE  AnsweredOnce'
      BY <1>1, <2>7 DEF Roles!AssignRead, Roles!TemporaryRead, Roles!removeFromUserRead, Roles!Reads
    <2>8. ASSUME NEW q \in Asks, NEW op \in {"approve", "reject"}, Roles!ReviewRead(a, q, op) PROVE AnsweredOnce'
      BY <1>1, <2>8 DEF Roles!ReviewRead, Roles!Reads
    <2> HIDE DEF AnsweredOnce
    <2> QED
      BY <1>3, <2>1, <2>2, <2>3, <2>4, <2>5, <2>6, <2>7, <2>8 DEF Roles!GrantStep
  <1>4. ASSUME NEW a \in Staff, Roles!BuiltInStep(a) \/ Roles!TooLate(a) PROVE AnsweredOnce'
    BY <1>1, <1>4 DEF Roles!BuiltInStep, Roles!TooLate, Roles!Conflict, Roles!assignRole, Roles!revokeRole, Roles!DeactivateWrite, Roles!deactivateMe,
       Roles!DeactivateCount, Roles!AssignRoleRead, Roles!RevokeRoleCount, Roles!demoteAdmin, Roles!deactivateUser, Roles!reactivateUser, Roles!Reads
  <1>5. ASSUME NEW q \in Asks, Roles!AskAges(q) PROVE AnsweredOnce'
    BY <1>5 DEF Roles!AskAges
  <1>6. CASE UNCHANGED Roles!staffVars
    BY <1>1, <1>6 DEF Roles!staffVars
  <1> HIDE DEF AnsweredOnce
  <1> QED
    BY <1>2, <1>3, <1>4, <1>5, <1>6 DEF Roles!StaffNext

LEMMA GrantsStep == GrantsKept /\ [Roles!StaffNext]_(Roles!staffVars) => GrantsKept'
  <1> SUFFICES ASSUME GrantsKept, [Roles!StaffNext]_(Roles!staffVars) PROVE GrantsKept'
    OBVIOUS
  <1> USE DEF GrantsKept, Roles!TemporaryIsHeld
  <1>1. ASSUME UNCHANGED <<held, temp>> PROVE GrantsKept'
    BY <1>1
  <1>2. ASSUME NEW a \in Staff, Roles!RoleStep(a) PROVE GrantsKept'
    <2>1. CASE Roles!RemoveWrite(a)
      BY <2>1 DEF Roles!RemoveWrite
    <2>2. CASE ~Roles!RemoveWrite(a)
      <3>1. UNCHANGED <<held, temp>>
        BY <1>2, <2>2 DEF Roles!RoleStep, Roles!create, Roles!createRoleWithPermissions, Roles!RemoveRead, Roles!archive, Roles!unarchive, Roles!assignToRole,
           Roles!revokeManyFromRole, Roles!revokeFromRole, Roles!setForRole, Roles!PermissionsBecome, Roles!Reads
      <3> QED
        BY <1>1, <3>1
    <2> QED
      BY <2>1, <2>2
  <1>3. ASSUME NEW a \in Staff, Roles!GrantStep(a) PROVE GrantsKept'
    <2>1. CASE Roles!AssignWrite(a)
      BY <2>1 DEF Roles!AssignWrite, Roles!Grant
    <2>2. CASE Roles!assignTemporarily(a)
      BY <2>2 DEF Roles!assignTemporarily, Roles!Grant
    <2>3. CASE Roles!removeFromUser(a)
      BY <2>3 DEF Roles!removeFromUser
    <2>4. CASE Roles!ReviewApprove(a)
      BY <2>4 DEF Roles!ReviewApprove, Roles!Grant
    <2>5. CASE Roles!requestAssignment(a) \/ Roles!ReviewLate(a) \/ Roles!ReviewReject(a)
      BY <1>1, <2>5 DEF Roles!requestAssignment, Roles!ReviewLate, Roles!ReviewReject
    <2>6. ASSUME NEW u \in Staff,
                 Roles!AssignRead(a, u) \/ Roles!TemporaryRead(a, u) \/ Roles!removeFromUserRead(a, u) \/ Roles!RequestRead(a, u)
          PROVE  GrantsKept'
      BY <1>1, <2>6 DEF Roles!AssignRead, Roles!TemporaryRead, Roles!removeFromUserRead, Roles!RequestRead, Roles!Reads
    <2>7. ASSUME NEW q \in Asks, NEW op \in {"approve", "reject"}, Roles!ReviewRead(a, q, op) PROVE GrantsKept'
      BY <1>1, <2>7 DEF Roles!ReviewRead, Roles!Reads
    <2> HIDE DEF GrantsKept
    <2> QED
      BY <1>3, <2>1, <2>2, <2>3, <2>4, <2>5, <2>6, <2>7 DEF Roles!GrantStep
  <1>4. ASSUME NEW a \in Staff, Roles!BuiltInStep(a) PROVE GrantsKept'
    <2>1. CASE Roles!assignRole(a)
      BY <2>1 DEF Roles!assignRole
    <2>2. CASE Roles!revokeRole(a)
      BY <2>2 DEF Roles!revokeRole
    <2>3. ASSUME NEW u \in Staff, Roles!demoteAdmin(a, u) PROVE GrantsKept'
      BY <2>3 DEF Roles!demoteAdmin
    <2>4. CASE Roles!DeactivateWrite(a) \/ Roles!deactivateMe(a)
      BY <1>1, <2>4 DEF Roles!DeactivateWrite, Roles!deactivateMe, Roles!DeactivateCount, Roles!Reads
    <2>5. ASSUME NEW u \in Staff,
                 Roles!AssignRoleRead(a, u) \/ Roles!RevokeRoleCount(a, u) \/ Roles!deactivateUser(a, u) \/ Roles!reactivateUser(a, u)
          PROVE  GrantsKept'
      BY <1>1, <2>5 DEF Roles!AssignRoleRead, Roles!RevokeRoleCount, Roles!deactivateUser, Roles!DeactivateCount, Roles!reactivateUser, Roles!Reads
    <2> HIDE DEF GrantsKept
    <2> QED
      BY <1>4, <2>1, <2>2, <2>3, <2>4, <2>5 DEF Roles!BuiltInStep
  <1>5. ASSUME NEW a \in Staff, Roles!TooLate(a) PROVE GrantsKept'
    BY <1>1, <1>5 DEF Roles!TooLate, Roles!Conflict
  <1>6. ASSUME NEW q \in Asks, Roles!AskAges(q) PROVE GrantsKept'
    BY <1>1, <1>6 DEF Roles!AskAges
  <1>7. CASE UNCHANGED Roles!staffVars
    BY <1>1, <1>7 DEF Roles!staffVars
  <1> HIDE DEF GrantsKept
  <1> QED
    BY <1>2, <1>3, <1>4, <1>5, <1>6, <1>7 DEF Roles!StaffNext

LEMMA RolesCardinality == ASSUME NEW S PROVE Roles!Cardinality(S) = Cardinality(S)
  BY DEF Cardinality, Roles!Cardinality, Roles!IsFiniteSet, IsFiniteSet

LEMMA AtMostOne ==
  ASSUME NEW S, \A x, y \in S : x = y
  PROVE  Cardinality(S) <= 1
  <1>1. CASE S = {}
    BY <1>1, FS_EmptySet
  <1>2. CASE S # {}
    <2>1. PICK x \in S : TRUE
      BY <1>2
    <2>2. S = {x}
      BY <2>1
    <2> QED
      BY <2>2, FS_Singleton
  <1> QED
    BY <1>1, <1>2

\* However many reviewers, archiving admins and late writes interleave, a request to assign a
\* role gets at most one answer (review, archive), and an ACTIVE temporary assignment is of a
\* role the member still holds (removeFromUser, remove, demoteAdmin).
THEOREM RolesConsistent == Roles!StaffSpec => [](Roles!OneVerdict /\ Roles!TemporaryIsHeld)
  <1>1. Roles!StaffInit => AnsweredOnce /\ GrantsKept
    BY DEF Roles!StaffInit, AnsweredOnce, GrantsKept, Roles!TemporaryIsHeld, Roles!NoAsk
  <1>2. AnsweredOnce => Roles!OneVerdict
    BY AtMostOne, RolesCardinality DEF AnsweredOnce, Roles!OneVerdict
  <1>3. GrantsKept => Roles!TemporaryIsHeld
    BY DEF GrantsKept
  <1> QED
    BY <1>1, <1>2, <1>3, AnsweredStep, GrantsStep, PTL DEF Roles!StaffSpec
=============================================================================
