----------------------------- MODULE TwoFactor -----------------------------
(***************************************************************************)
(* The two-factor half of auth.service.ts for one account: enrolment,      *)
(* recovery codes, sign-in challenges and step-up.  A TOTP code is its     *)
(* time step; the authenticator accepts the steps next to the current one  *)
(* that are later than lastUsedStep (0 stands for null).  The login        *)
(* counter these handlers share with the password is in AuthBase.          *)
(***************************************************************************)
EXTENDS Naturals, FiniteSets

CONSTANTS
  Challenges,   \* ids of sign-in challenges, handed out in ascending order
  Codes,        \* recovery codes (TWO_FACTOR_RECOVERY_CODE_COUNT of them)
  Callers,      \* handlers that may be in flight at the same time
  Steps,        \* 1 .. n: the time steps of the bounded run
  MaxTries,     \* TWO_FACTOR_MAX_ATTEMPTS
  Nobody

VARIABLES
  secret,   \* the twoFactorSecret row: state and lastUsedStep
  clock,    \* the current time step
  recovery, \* state of each recovery code
  chal,     \* the twoFactorChallenge rows
  call,     \* what each request in flight has read
  tokens,   \* history: sessions issued per challenge
  spent     \* history: how often each recovery code was accepted

twoFactorVars == <<secret, clock, recovery, chal, call, tokens, spent>>

NoChallenge == [state |-> "free", tries |-> 0, sms |-> "no"]
NoCall == [op |-> "idle", chal |-> Nobody, step |-> 0, code |-> Nobody]
NoSecret == [state |-> "none", last |-> 0]

TwoFactorInit ==
  /\ secret = NoSecret /\ clock = 1
  /\ recovery = [c \in Codes |-> "none"]
  /\ chal = [h \in Challenges |-> NoChallenge]
  /\ call = [k \in Callers |-> NoCall]
  /\ tokens = [h \in Challenges |-> 0]
  /\ spent = [c \in Codes |-> 0]

TimePasses ==
  /\ clock + 1 \in Steps /\ clock' = clock + 1
  /\ UNCHANGED <<secret, recovery, chal, call, tokens, spent>>

\* verifyTotp: a window of one step each way, later than the last one used.
checkTotp(step) == step \in Steps /\ step + 1 >= clock /\ step <= clock + 1 /\ step > secret.last

Enter(k, op, h, step, c) ==
  /\ call[k] = NoCall
  /\ call' = [call EXCEPT ![k] = [op |-> op, chal |-> h, step |-> step, code |-> c]]
Leave(k) == call' = [call EXCEPT ![k] = NoCall]

-----------------------------------------------------------------------------
(* Enrolment. *)

twoFactorSetup ==
  /\ secret.state # "enabled"
  /\ secret' = [state |-> "pending", last |-> 0]
  /\ UNCHANGED <<clock, recovery, chal, call, tokens, spent>>

\* Old recovery codes are deleted and new ones created.
issueRecoveryCodes ==
  /\ recovery' = [c \in Codes |-> "unused"]
  /\ spent' = [c \in Codes |-> 0]

VerifyRead(k, step) ==
  /\ secret.state = "pending" /\ checkTotp(step)
  /\ Enter(k, "enable", Nobody, step, Nobody)
  /\ UNCHANGED <<secret, clock, recovery, chal, tokens, spent>>
\* Enables whatever secret the row holds by now; a deleted row is an error.
VerifyWrite(k) ==
  /\ call[k].op = "enable" /\ secret.state # "none"
  /\ secret' = [state |-> "enabled", last |-> call[k].step]
  /\ issueRecoveryCodes
  /\ Leave(k)
  /\ UNCHANGED <<clock, chal, tokens>>

twoFactorDisable(step) ==
  /\ secret.state = "enabled" /\ checkTotp(step)
  /\ secret' = NoSecret
  /\ recovery' = [c \in Codes |-> "none"]
  /\ UNCHANGED <<clock, chal, call, tokens, spent>>

\* regenerateRecoveryCodes and twoFactorStepUp write lastUsedStep without a condition.
RegenerateRead(k, step) ==
  /\ secret.state = "enabled" /\ checkTotp(step)
  /\ Enter(k, "regenerate", Nobody, step, Nobody)
  /\ UNCHANGED <<secret, clock, recovery, chal, tokens, spent>>
RegenerateWrite(k) ==
  /\ call[k].op = "regenerate" /\ secret.state # "none"
  /\ secret' = [secret EXCEPT !.last = call[k].step]
  /\ issueRecoveryCodes
  /\ Leave(k)
  /\ UNCHANGED <<clock, chal, tokens>>
StepUpRead(k, step) ==
  /\ secret.state = "enabled" /\ checkTotp(step)
  /\ Enter(k, "stepUp", Nobody, step, Nobody)
  /\ UNCHANGED <<secret, clock, recovery, chal, tokens, spent>>
StepUpWrite(k) ==
  /\ call[k].op = "stepUp" /\ secret.state # "none"
  /\ secret' = [secret EXCEPT !.last = call[k].step]
  /\ Leave(k)
  /\ UNCHANGED <<clock, recovery, chal, tokens, spent>>

-----------------------------------------------------------------------------
(* Signing in with a challenge. *)

\* Older unfinished challenges are dropped, then the new one is created.
issueTwoFactorChallenge ==
  /\ secret.state = "enabled"
  /\ \E h \in Challenges :
       /\ chal[h].state = "free" /\ \A j \in Challenges : j < h => chal[j].state # "free"
       /\ chal' = [j \in Challenges |-> IF j = h THEN [NoChallenge EXCEPT !.state = "open"]
                     ELSE IF chal[j].state = "open" THEN [chal[j] EXCEPT !.state = "consumed"]
                     ELSE chal[j]]
  /\ UNCHANGED <<secret, clock, recovery, call, tokens, spent>>

ChallengeExpires(h) ==
  /\ chal[h].state = "open"
  /\ chal' = [chal EXCEPT ![h].state = "expired"]
  /\ UNCHANGED <<secret, clock, recovery, call, tokens, spent>>

loadChallenge(h) == chal[h].state = "open" /\ chal[h].tries < MaxTries

\* A wrong code: the count goes up, and at the limit the challenge is consumed.
failChallenge(h) ==
  chal' = [chal EXCEPT ![h].tries = IF @ < MaxTries THEN @ + 1 ELSE @,
                       ![h].state = IF chal[h].tries + 1 >= MaxTries THEN "consumed" ELSE @]

\* Claims the challenge (consumedAt null) and issues the tokens; too late is an error.
finishChallenge_Fault(h) ==
  /\ chal' = [chal EXCEPT ![h].state = "consumed"]
  /\ tokens' = [tokens EXCEPT ![h] = @ + 1]
finishChallenge(h) ==
  IF chal[h].state \in {"open", "expired"}
    THEN /\ chal' = [chal EXCEPT ![h].state = "consumed"]
         /\ tokens' = [tokens EXCEPT ![h] = @ + 1]
    ELSE UNCHANGED <<chal, tokens>>

SmsRead(k, h) ==
  /\ loadChallenge(h) /\ chal[h].sms = "sent"
  /\ Enter(k, "finish", h, 0, Nobody)
  /\ UNCHANGED <<secret, clock, recovery, chal, tokens, spent>>
LoginVerifyRead(k, h, step) ==
  /\ loadChallenge(h) /\ secret.state = "enabled"
  /\ IF checkTotp(step) THEN Enter(k, "advance", h, step, Nobody) /\ UNCHANGED chal
                        ELSE call[k] = NoCall /\ failChallenge(h) /\ UNCHANGED call
  /\ UNCHANGED <<secret, clock, recovery, tokens, spent>>
\* updateMany(lastUsedStep null or < step): a step that was overtaken is a replay.
LoginVerifyAdvance(k) ==
  /\ call[k].op = "advance"
  /\ IF secret.state # "none" /\ secret.last < call[k].step
       THEN /\ secret' = [secret EXCEPT !.last = call[k].step]
            /\ call' = [call EXCEPT ![k].op = "finish"]
            /\ UNCHANGED chal
       ELSE failChallenge(call[k].chal) /\ Leave(k) /\ UNCHANGED secret
  /\ UNCHANGED <<clock, recovery, tokens, spent>>

RecoveryRead(k, h, c) ==
  /\ loadChallenge(h)
  /\ IF recovery[c] = "unused" THEN Enter(k, "recover", h, 0, c) /\ UNCHANGED chal
                               ELSE call[k] = NoCall /\ failChallenge(h) /\ UNCHANGED call
  /\ UNCHANGED <<secret, clock, recovery, tokens, spent>>
\* Single use: updateMany(usedAt: null).  A code replaced meanwhile is a deleted row.
RecoveryClaim_Fault(k) ==
  LET c == call[k].code IN
  /\ call[k].op = "recover"
  /\ recovery' = [recovery EXCEPT ![c] = "used"]
  /\ spent' = [spent EXCEPT ![c] = @ + 1]
  /\ call' = [call EXCEPT ![k].op = "finish"]
  /\ UNCHANGED <<secret, clock, tokens, chal>>
RecoveryClaim(k) ==
  LET c == call[k].code IN
  /\ call[k].op = "recover"
  /\ IF recovery[c] = "unused"
       THEN /\ recovery' = [recovery EXCEPT ![c] = "used"]
            /\ spent' = [spent EXCEPT ![c] = @ + 1]
            /\ call' = [call EXCEPT ![k].op = "finish"]
            /\ UNCHANGED chal
       ELSE failChallenge(call[k].chal) /\ Leave(k) /\ UNCHANGED <<recovery, spent>>
  /\ UNCHANGED <<secret, clock, tokens>>

Finish(k) ==
  /\ call[k].op = "finish"
  /\ finishChallenge(call[k].chal)
  /\ Leave(k)
  /\ UNCHANGED <<secret, clock, recovery, spent>>

\* The SMS code is stored before it is sent; a failed delivery leaves it valid.
twoFactorLoginResend(h) ==
  /\ loadChallenge(h)
  /\ chal' = [chal EXCEPT ![h].sms = "sent"]
  /\ UNCHANGED <<secret, clock, recovery, call, tokens, spent>>

-----------------------------------------------------------------------------
TwoFactorNext ==
  \/ TimePasses \/ twoFactorSetup \/ issueTwoFactorChallenge
  \/ \E h \in Challenges : ChallengeExpires(h) \/ twoFactorLoginResend(h)
  \/ \E s \in Steps : twoFactorDisable(s)
  \/ \E k \in Callers :
       \/ VerifyWrite(k) \/ RegenerateWrite(k) \/ StepUpWrite(k)
       \/ LoginVerifyAdvance(k) \/ RecoveryClaim(k) \/ Finish(k)
       \/ \E s \in Steps : VerifyRead(k, s) \/ RegenerateRead(k, s) \/ StepUpRead(k, s)
       \/ \E h \in Challenges :
            \/ SmsRead(k, h)
            \/ \E s \in Steps : LoginVerifyRead(k, h, s)
            \/ \E c \in Codes : RecoveryRead(k, h, c)

TwoFactorSpec == TwoFactorInit /\ [][TwoFactorNext]_twoFactorVars

-----------------------------------------------------------------------------
TwoFactorTypeOK ==
  /\ secret.state \in {"none", "pending", "enabled"} /\ secret.last \in Steps \cup {0}
  /\ recovery \in [Codes -> {"none", "unused", "used"}]
  /\ \A h \in Challenges : chal[h].state \in {"free", "open", "expired", "consumed"}
                           /\ chal[h].tries \in 0 .. MaxTries

\* However many requests answer one sign-in challenge at the same time, by app code,
\* SMS or recovery code, it signs the person in once.
ChallengeSignsInOnce == \A h \in Challenges : tokens[h] <= 1

\* A recovery code is accepted once between two issues of codes, also when two
\* sign-ins present it together.
RecoveryCodeOnce == \A c \in Codes : spent[c] <= 1

\* What proves an identity here works once: a challenge issues tokens once
\* (finishTwoFactorChallenge), and a recovery code signs in once, also when it is
\* presented in two challenges at the same time.
CodesWorkOnce == ChallengeSignsInOnce /\ RecoveryCodeOnce
=============================================================================
