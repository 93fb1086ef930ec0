------------------------------- MODULE Payout -------------------------------
(***************************************************************************)
(* Sending a victim's confirmed donations to their bank account.           *)
(*                                                                         *)
(* PayoutService.runForVictim records a transfer (a disbursement row) and  *)
(* then asks Chapa, the payment provider, to execute it; checkDisbursement *)
(* later asks Chapa what became of it; Chapa itself calls approveTransfer  *)
(* before money leaves.  All three run concurrently (webhook, five-minute  *)
(* timer, admin button, several instances), at the granularity of single   *)
(* database statements, with admins pausing payouts, blocking the profile  *)
(* or editing the bank account between any two of them.                    *)
(*                                                                         *)
(* Amounts are small integers.  raised[v] stands for the sum of the        *)
(* victim's PAID payments, which module Donation shows only ever grows.    *)
(***************************************************************************)
EXTENDS Naturals, FiniteSets, Sums

CONSTANTS
    Victims,        \* victim profiles
    Disbursements,  \* identities of disbursement rows
    Workers,        \* concurrent calls of runForVictim
    Checkers,       \* concurrent calls of checkDisbursement
    Accounts,       \* bank account numbers
    MinTransfer,    \* disbursement.minTransferEtb
    MaxRaised,      \* bound: donations modelled per victim
    Spurious4xx,    \* may Chapa answer 4xx about a transfer it does have?
    None            \* "no worker / victim / row / account"

ASSUME SentinelAssumption ==
    /\ None \notin Workers
    /\ None \notin Victims
    /\ None \notin Disbursements
ASSUME FiniteAssumption == IsFiniteSet(Disbursements)
ASSUME BoundAssumption == MinTransfer \in Nat /\ MaxRaised \in Nat
ASSUME SpuriousAssumption == Spurious4xx \in BOOLEAN

VARIABLES
    disb,     \* disbursement rows: status, victim, destination snapshot
    amount,   \* their amount column
    recent,   \* rows that FAILED within the last retryAfterFailureMinutes
    raised,   \* sum of PAID payments per victim
    paused,   \* profiles with payoutsPaused
    blocked,  \* profiles with deletedAt, takedownAt or legalHold set
    dest,     \* account number of each victim's payout destination
    verified, \* victims whose destination is verified
    edit,     \* progress of updateBankDetails per victim
    rowLock,  \* holder of the victim_profile row lock
    worker,   \* progress of each runForVictim call
    check,    \* progress of each checkDisbursement call
    appr,     \* progress of approveTransfer per transfer
    chapa     \* what Chapa knows of each transfer (external)

rows == <<disb, amount, recent>>
profiles == <<raised, paused, blocked, dest, verified, edit>>
vars == <<rows, profiles, rowLock, worker, check, appr, chapa>>

(***************************************************************************)
(* Types                                                                   *)
(***************************************************************************)
\* A transfer in any of these states may still move money.
ACTIVE == {"CREATED", "SUBMITTED", "UNKNOWN"}
DisbursementStatus == ACTIVE \cup {"PAID", "FAILED"}

Row == [status : DisbursementStatus \cup {"none"}, victim : Victims \cup {None},
        account : Accounts \cup {None}]

\* locked .. balance: inside the transaction; recorded, waiting: after it.
WorkerPC == {"idle", "locked", "profile", "clear", "balance", "recorded", "waiting"}
WorkerState == [pc : WorkerPC, victim : Victims \cup {None},
                disb : Disbursements \cup {None}, account : Accounts \cup {None},
                raised : Nat]
IdleWorker == [pc |-> "idle", victim |-> None, disb |-> None,
               account |-> None, raised |-> 0]

CheckAnswer == {"success", "failed", "reverted", "pending", "4xx"}
CheckState == [pc : {"idle", "read", "answered"}, disb : Disbursements \cup {None},
               age : {"fresh", "aged"}, answer : CheckAnswer \cup {None}]
IdleCheck == [pc |-> "idle", disb |-> None, age |-> "fresh", answer |-> None]

ChapaState == {"none", "inTransit", "lost", "refused", "queued", "moved",
               "failed", "reverted"}

\* Everything but the amounts, which are sums over rows.
ShapeOK ==
    /\ disb \in [Disbursements -> Row]
    /\ raised \in [Victims -> Nat]
    /\ recent \subseteq Disbursements
    /\ paused \subseteq Victims /\ blocked \subseteq Victims
    /\ dest \in [Victims -> Accounts \cup {None}]
    /\ verified \subseteq Victims
    /\ edit \in [Victims -> {"idle", "checked", "unpublished"}]
    /\ rowLock \in [Victims -> Workers \cup {None}]
    /\ worker \in [Workers -> WorkerState]
    /\ check \in [Checkers -> CheckState]
    /\ appr \in [Disbursements -> {"idle", "open", "cleared"}]
    /\ chapa \in [Disbursements -> ChapaState]

TypeOK == ShapeOK /\ amount \in [Disbursements -> Nat]

Init ==
    /\ disb = [d \in Disbursements |->
                 [status |-> "none", victim |-> None, account |-> None]]
    /\ amount = [d \in Disbursements |-> 0]
    /\ raised = [v \in Victims |-> 0]
    /\ recent = {}
    /\ paused = {} /\ blocked = {}
    /\ dest = [v \in Victims |-> None]
    /\ verified = {}
    /\ edit = [v \in Victims |-> "idle"]
    /\ rowLock = [v \in Victims |-> None]
    /\ worker = [w \in Workers |-> IdleWorker]
    /\ check = [c \in Checkers |-> IdleCheck]
    /\ appr = [d \in Disbursements |-> "idle"]
    /\ chapa = [d \in Disbursements |-> "none"]

(***************************************************************************)
(* getBalance                                                              *)
(***************************************************************************)
AmountIn(v, states) ==
    SumOver(amount, {d \in Disbursements : disb[d].victim = v /\ disb[d].status \in states})
Sent(v) == AmountIn(v, {"PAID"})
OnTheWay(v) == AmountIn(v, ACTIVE)
Waiting_IgnoresSent(v, paid) == IF paid < OnTheWay(v) THEN 0 ELSE paid - OnTheWay(v)
\* confirmed, not yet part of any transfer, never below zero
Waiting(v, paid) ==
    LET out == Sent(v) + OnTheWay(v) IN IF paid < out THEN 0 ELSE paid - out

\* Faulty variants of a definition are kept next to it, named <Definition>_<fault>.
HasActive_ForgetsUnknown(v) ==
    \E d \in Disbursements : disb[d].victim = v /\ disb[d].status \in {"CREATED", "SUBMITTED"}
HasActive(v) == \E d \in Disbursements : disb[d].victim = v /\ disb[d].status \in ACTIVE
RecentFailure(v) == \E d \in Disbursements :
                        disb[d].victim = v /\ disb[d].status = "FAILED" /\ d \in recent

(***************************************************************************)
(* Status changes are updateMany calls guarded by the current status.      *)
(***************************************************************************)
MoveStatus_Unguarded(d, from, to) ==
    /\ disb' = [disb EXCEPT ![d].status = to]
    /\ recent' = IF to = "FAILED" THEN recent \cup {d} ELSE recent
MoveStatus(d, from, to) ==
    IF disb[d].status \in from
    THEN /\ disb' = [disb EXCEPT ![d].status = to]
         /\ recent' = IF to = "FAILED" THEN recent \cup {d} ELSE recent
    ELSE UNCHANGED <<disb, recent>>
MarkPaid(d) == MoveStatus(d, ACTIVE, "PAID")
MarkFailed(d) == MoveStatus(d, ACTIVE, "FAILED")

(***************************************************************************)
(* runForVictim, step 1: decide and record, inside one transaction.        *)
(***************************************************************************)
LockProfile_NoForUpdate(w, v) ==
    /\ worker[w].pc = "idle"
    /\ worker' = [worker EXCEPT ![w].pc = "locked", ![w].victim = v]
    /\ UNCHANGED <<rows, profiles, rowLock, check, appr, chapa>>

\* BEGIN; SELECT ... FOR UPDATE
LockProfile(w, v) ==
    /\ worker[w].pc = "idle"
    /\ rowLock[v] = None
    /\ rowLock' = [rowLock EXCEPT ![v] = w]
    /\ worker' = [worker EXCEPT ![w].pc = "locked", ![w].victim = v]
    /\ UNCHANGED <<rows, profiles, check, appr, chapa>>

MayPayOut(v) == v \notin paused /\ v \notin blocked /\ v \in verified

ReadProfile(w) ==
    LET v == worker[w].victim IN
    /\ worker[w].pc = "locked"
    /\ MayPayOut(v)
    /\ worker' = [worker EXCEPT ![w].pc = "profile", ![w].account = dest[v]]
    /\ UNCHANGED <<rows, profiles, rowLock, check, appr, chapa>>

FindActive(w) ==
    LET v == worker[w].victim IN
    /\ worker[w].pc = "profile"
    /\ ~HasActive(v) /\ ~RecentFailure(v)
    /\ worker' = [worker EXCEPT ![w].pc = "clear"]
    /\ UNCHANGED <<rows, profiles, rowLock, check, appr, chapa>>

ReadRaised(w) ==
    /\ worker[w].pc = "clear"
    /\ worker' = [worker EXCEPT ![w].pc = "balance",
                                ![w].raised = raised[worker[w].victim]]
    /\ UNCHANGED <<rows, profiles, rowLock, check, appr, chapa>>

\* The disbursement totals are read, the row is created, and the commit
\* publishes it and releases the lock.
CreateTransfer(w, d) ==
    LET v == worker[w].victim
        unsent == Waiting(v, worker[w].raised) IN
    /\ worker[w].pc = "balance"
    /\ disb[d].status = "none"
    /\ unsent >= MinTransfer
    /\ disb' = [disb EXCEPT ![d] = [status |-> "CREATED", victim |-> v,
                                    account |-> worker[w].account]]
    /\ amount' = [amount EXCEPT ![d] = unsent]
    /\ rowLock' = [rowLock EXCEPT ![v] = None]
    /\ worker' = [worker EXCEPT ![w].pc = "recorded", ![w].disb = d]
    /\ UNCHANGED <<recent, profiles, check, appr, chapa>>

\* The transaction ends without a row, and the lock is released.
Leave(w) ==
    /\ rowLock' = [v \in Victims |-> IF rowLock[v] = w THEN None ELSE rowLock[v]]
    /\ worker' = [worker EXCEPT ![w] = IdleWorker]

\* One of the early returns with a skip reason.
SkipPayout(w) ==
    LET v == worker[w].victim IN
    /\ \/ worker[w].pc = "locked" /\ ~MayPayOut(v)
       \/ worker[w].pc = "profile" /\ (HasActive(v) \/ RecentFailure(v))
       \/ worker[w].pc = "balance" /\ Waiting(v, worker[w].raised) < MinTransfer
    /\ Leave(w)
    /\ UNCHANGED <<rows, profiles, check, appr, chapa>>

(***************************************************************************)
(* runForVictim, step 2: send it.                                          *)
(***************************************************************************)
SendTransfer(w) ==
    /\ worker[w].pc = "recorded"
    /\ chapa' = [chapa EXCEPT ![worker[w].disb] = "inTransit"]
    /\ worker' = [worker EXCEPT ![w].pc = "waiting"]
    /\ UNCHANGED <<rows, profiles, rowLock, check, appr>>

\* Chapa accepted the request and its answer arrived.
TransferAccepted(w) ==
    /\ worker[w].pc = "waiting"
    /\ chapa[worker[w].disb] \in {"queued", "moved", "failed", "reverted"}
    /\ MoveStatus(worker[w].disb, {"CREATED"}, "SUBMITTED")
    /\ Leave(w)
    /\ UNCHANGED <<amount, profiles, check, appr, chapa>>

\* isDefiniteRejection: a real 4xx, nothing was sent.
TransferRejected(w) ==
    /\ worker[w].pc = "waiting"
    /\ chapa[worker[w].disb] = "refused"
    /\ MarkFailed(worker[w].disb)
    /\ Leave(w)
    /\ UNCHANGED <<amount, profiles, check, appr, chapa>>

TransferUncertain_Releases(w) ==
    /\ worker[w].pc = "waiting"
    /\ MarkFailed(worker[w].disb)
    /\ Leave(w)
    /\ UNCHANGED <<amount, profiles, check, appr, chapa>>
\* Timeout, 5xx or network error: the request may or may not have arrived.
TransferUncertain(w) ==
    /\ worker[w].pc = "waiting"
    /\ MoveStatus(worker[w].disb, {"CREATED"}, "UNKNOWN")
    /\ Leave(w)
    /\ UNCHANGED <<amount, profiles, check, appr, chapa>>

\* The process dies: an open transaction rolls back, a recorded row stays.
Crash(w) ==
    /\ worker[w].pc # "idle"
    /\ Leave(w)
    /\ UNCHANGED <<rows, profiles, check, appr, chapa>>

(***************************************************************************)
(* checkDisbursement: read the row, ask Chapa, record the answer.          *)
(***************************************************************************)
\* processingTimeoutMinutes (60 by default) is far above the 15 s request
\* timeout, so a row is only ever "aged" once its sender is done with it.
SendOver(d) == chapa[d] # "inTransit" /\ \A w \in Workers : worker[w].disb # d

BeginCheck(c, d, age) ==
    /\ check[c].pc = "idle"
    /\ disb[d].status \in ACTIVE
    /\ age = "aged" => SendOver(d)
    /\ check' = [check EXCEPT ![c] = [pc |-> "read", disb |-> d, age |-> age,
                                      answer |-> None]]
    /\ UNCHANGED <<rows, profiles, rowLock, worker, appr, chapa>>

\* What verifyTransfer can answer about d (external).  4xx means "no record",
\* but isDefiniteRejection cannot tell it from any other 4xx.
VerifyTransfer(d) ==
    (CASE chapa[d] = "queued"   -> {"pending"}
       [] chapa[d] = "moved"    -> {"success"}
       [] chapa[d] = "failed"   -> {"failed"}
       [] chapa[d] = "reverted" -> {"reverted"}
       [] OTHER                 -> {"4xx"})
    \cup (IF Spurious4xx THEN {"4xx"} ELSE {})

ChapaAnswers(c, a) ==
    /\ check[c].pc = "read"
    /\ a \in VerifyTransfer(check[c].disb)
    /\ check' = [check EXCEPT ![c].pc = "answered", ![c].answer = a]
    /\ UNCHANGED <<rows, profiles, rowLock, worker, appr, chapa>>

\* No clear answer (timeout, 5xx), or the checking process dies.
GiveUpCheck(c) ==
    /\ check[c].pc # "idle"
    /\ check' = [check EXCEPT ![c] = IdleCheck]
    /\ UNCHANGED <<rows, profiles, rowLock, worker, appr, chapa>>

RecordAnswer_StoresAnswer(d, answer, age) ==
    IF answer = "success" THEN MarkPaid(d) ELSE MoveStatus(d, ACTIVE, answer)
RecordAnswer_NoTimeout(d, answer, age) ==
    CASE answer = "success" -> MarkPaid(d)
      [] answer = "pending" -> MoveStatus(d, {"CREATED", "UNKNOWN"}, "SUBMITTED")
      [] OTHER              -> MarkFailed(d)
RecordAnswer_NeverReleases(d, answer, age) ==
    CASE answer = "success"                -> MarkPaid(d)
      [] answer \in {"failed", "reverted"} -> MarkFailed(d)
      [] answer = "pending"                -> MoveStatus(d, {"CREATED", "UNKNOWN"}, "SUBMITTED")
      [] OTHER                             -> UNCHANGED <<disb, recent>>

RecordAnswer(d, answer, age) ==
    CASE answer = "success"                -> MarkPaid(d)
      [] answer \in {"failed", "reverted"} -> MarkFailed(d)
      [] answer = "pending"                -> MoveStatus(d, {"CREATED", "UNKNOWN"}, "SUBMITTED")
      [] OTHER                             -> IF age = "aged" THEN MarkFailed(d)
                                                               ELSE UNCHANGED <<disb, recent>>

ApplyCheck(c) ==
    /\ check[c].pc = "answered"
    /\ RecordAnswer(check[c].disb, check[c].answer, check[c].age)
    /\ check' = [check EXCEPT ![c] = IdleCheck]
    /\ UNCHANGED <<amount, profiles, rowLock, worker, appr, chapa>>

(***************************************************************************)
(* approveTransfer, called by Chapa before it executes a queued transfer.  *)
(* Each read is a query of its own; any doubt answers "rejected".          *)
(***************************************************************************)
\* The disbursement row itself: must be open.
ApproveReadRow(d) ==
    /\ chapa[d] = "queued" /\ appr[d] = "idle"
    /\ disb[d].status \in {"CREATED", "SUBMITTED"}
    /\ appr' = [appr EXCEPT ![d] = "open"]
    /\ UNCHANGED <<rows, profiles, rowLock, worker, check, chapa>>

\* The profile and its destination, compared with the snapshot.
ApproveReadProfile(d) ==
    LET v == disb[d].victim IN
    /\ chapa[d] = "queued" /\ appr[d] = "open"
    /\ MayPayOut(v) /\ dest[v] = disb[d].account
    /\ appr' = [appr EXCEPT ![d] = "cleared"]
    /\ UNCHANGED <<rows, profiles, rowLock, worker, check, chapa>>

\* The money must still exist: donations minus every other transfer.
\* On approval Chapa executes the transfer.
CoversTransfer(d) == raised[disb[d].victim] >= Sent(disb[d].victim) + OnTheWay(disb[d].victim)
ApproveReadBalance(d) ==
    /\ chapa[d] = "queued" /\ appr[d] = "cleared"
    /\ CoversTransfer(d)
    /\ appr' = [appr EXCEPT ![d] = "idle"]
    /\ chapa' = [chapa EXCEPT ![d] = "moved"]
    /\ UNCHANGED <<rows, profiles, rowLock, worker, check>>

\* approveTransfer says no or throws, or Chapa gives the transfer up itself.
ChapaFails(d) ==
    /\ chapa[d] = "queued"
    /\ appr' = [appr EXCEPT ![d] = "idle"]
    /\ chapa' = [chapa EXCEPT ![d] = "failed"]
    /\ UNCHANGED <<rows, profiles, rowLock, worker, check>>

(***************************************************************************)
(* Chapa and the network (external)                                        *)
(***************************************************************************)
DeliverRequest(d) ==
    /\ chapa[d] = "inTransit"
    /\ \E s \in {"queued", "refused", "lost"} : chapa' = [chapa EXCEPT ![d] = s]
    /\ UNCHANGED <<rows, profiles, rowLock, worker, check, appr>>

ChapaReverts(d) ==
    /\ chapa[d] = "moved"
    /\ chapa' = [chapa EXCEPT ![d] = "reverted"]
    /\ UNCHANGED <<rows, profiles, rowLock, worker, check, appr>>

\* retryAfterFailureMinutes pass.
RetryWindowPasses(d) ==
    /\ d \in recent
    /\ recent' = recent \ {d}
    /\ UNCHANGED <<disb, amount, profiles, rowLock, worker, check, appr, chapa>>

(***************************************************************************)
(* Donations and admins.  Every update of the victim_profile row waits for *)
(* the row lock; the payout destination is a row of its own and does not.  *)
(***************************************************************************)
Donate(v) ==
    /\ raised[v] < MaxRaised
    /\ raised' = [raised EXCEPT ![v] = @ + 1]
    /\ UNCHANGED <<rows, paused, blocked, dest, verified, edit, rowLock, worker, check, appr, chapa>>

PausePayouts(v) ==
    /\ rowLock[v] = None
    /\ v \notin paused
    /\ paused' = paused \cup {v}
    /\ UNCHANGED <<rows, raised, blocked, dest, verified, edit, rowLock, worker, check, appr, chapa>>

ResumePayouts(v) ==
    /\ rowLock[v] = None
    /\ v \in paused
    /\ paused' = paused \ {v}
    /\ UNCHANGED <<rows, raised, blocked, dest, verified, edit, rowLock, worker, check, appr, chapa>>

\* takedown, legal hold, soft deletion and their inverses
SetBlocked(v) ==
    /\ rowLock[v] = None
    /\ blocked' = IF v \in blocked THEN blocked \ {v} ELSE blocked \cup {v}
    /\ UNCHANGED <<rows, raised, paused, dest, verified, edit, rowLock, worker, check, appr, chapa>>

\* updateBankDetails: the in-flight query, the profile update (approval is
\* withdrawn), then the upsert that replaces the account.
EditCheckInFlight(v) ==
    /\ edit[v] = "idle"
    /\ ~HasActive(v)
    /\ edit' = [edit EXCEPT ![v] = "checked"]
    /\ UNCHANGED <<rows, raised, paused, blocked, dest, verified, rowLock, worker, check, appr, chapa>>

EditUpdateProfile(v) ==
    /\ edit[v] = "checked"
    /\ rowLock[v] = None
    /\ edit' = [edit EXCEPT ![v] = "unpublished"]
    /\ UNCHANGED <<rows, raised, paused, blocked, dest, verified, rowLock, worker, check, appr, chapa>>

\* conditionalUpdate found another updatedAt
EditConflict(v) ==
    /\ edit[v] = "checked"
    /\ edit' = [edit EXCEPT ![v] = "idle"]
    /\ UNCHANGED <<rows, raised, paused, blocked, dest, verified, rowLock, worker, check, appr, chapa>>

EditUpsert(v, a) ==
    /\ edit[v] = "unpublished"
    /\ dest' = [dest EXCEPT ![v] = a]
    /\ verified' = verified \ {v}
    /\ edit' = [edit EXCEPT ![v] = "idle"]
    /\ UNCHANGED <<rows, raised, paused, blocked, rowLock, worker, check, appr, chapa>>

\* verifyBankDetails, compare-and-set on the destination row
VerifyDestination(v) ==
    /\ dest[v] # None
    /\ v \notin verified
    /\ verified' = verified \cup {v}
    /\ UNCHANGED <<rows, raised, paused, blocked, dest, edit, rowLock, worker, check, appr, chapa>>

(***************************************************************************)
(* The specification                                                       *)
(***************************************************************************)
RunForVictim(w) ==
    \/ \E v \in Victims : LockProfile(w, v)
    \/ ReadProfile(w) \/ FindActive(w) \/ ReadRaised(w)
    \/ \E d \in Disbursements : CreateTransfer(w, d)
    \/ SkipPayout(w) \/ SendTransfer(w)
    \/ TransferAccepted(w) \/ TransferRejected(w) \/ TransferUncertain(w)

CheckDisbursement(c) ==
    \/ \E d \in Disbursements, age \in {"fresh", "aged"} : BeginCheck(c, d, age)
    \/ \E a \in CheckAnswer : ChapaAnswers(c, a)
    \/ GiveUpCheck(c) \/ ApplyCheck(c)

ApproveTransfer(d) == ApproveReadRow(d) \/ ApproveReadProfile(d) \/ ApproveReadBalance(d)
Provider(d) == DeliverRequest(d) \/ ChapaFails(d) \/ ChapaReverts(d)

Admin(v) ==
    \/ PausePayouts(v) \/ ResumePayouts(v) \/ SetBlocked(v)
    \/ EditCheckInFlight(v) \/ EditUpdateProfile(v) \/ EditConflict(v)
    \/ \E a \in Accounts : EditUpsert(v, a)
    \/ VerifyDestination(v)

Next ==
    \/ \E w \in Workers : RunForVictim(w) \/ Crash(w)
    \/ \E c \in Checkers : CheckDisbursement(c)
    \/ \E d \in Disbursements : ApproveTransfer(d) \/ Provider(d) \/ RetryWindowPasses(d)
    \/ \E v \in Victims : Donate(v) \/ Admin(v)

Spec == Init /\ [][Next]_vars

\* A check of a transfer old enough to be released (MCLiveness assumes such checks fair).
AgedCheckOf(c, d) == check[c].age = "aged" /\ check[c].disb = d

(***************************************************************************)
(* Properties                                                              *)
(***************************************************************************)
\* A victim never has two transfers that may still move money, whichever of
\* the webhook, the timer and the admin button call runForVictim at once.
OneActivePerVictim ==
    \A d, e \in Disbursements :
        disb[d].status \in ACTIVE /\ disb[e].status \in ACTIVE
            /\ disb[d].victim = disb[e].victim => d = e

\* Transfers recorded as sent or on the way never exceed the confirmed
\* donations that getBalance saw, so no donation is sent twice.
NeverOverdrawn == \A v \in Victims : Sent(v) + OnTheWay(v) <= raised[v]

\* A transfer whose money Chapa has moved is never released as FAILED: its
\* amount would count as unsent again and the next runForVictim resend it.
MovedIsNotReleased ==
    \A d \in Disbursements : chapa[d] = "moved" => disb[d].status \in ACTIVE \cup {"PAID"}

\* The money Chapa really moved for a victim never exceeds what was donated.
MovedWithinDonations ==
    \A v \in Victims :
        SumOver(amount, {d \in Disbursements : disb[d].victim = v /\ chapa[d] = "moved"})
            <= raised[v]

\* A transfer is recorded only while payouts are not paused and the profile
\* not blocked, although runForVictim read both several statements earlier:
\* the row lock makes pausePayouts and takedowns wait for the transaction.
NoTransferWhilePaused ==
    [][\A d \in Disbursements :
         disb[d].status = "none" /\ disb'[d].status = "CREATED" =>
             disb'[d].victim \notin paused \cup blocked]_vars

\* PAID and FAILED are final, whatever late answer a checker or a sender
\* still holds, and a row never returns from SUBMITTED to CREATED.
StatusMovesForward ==
    [][\A d \in Disbursements :
         /\ disb[d].status \in {"PAID", "FAILED"} => disb'[d].status = disb[d].status
         /\ disb[d].status = "SUBMITTED" => disb'[d].status \notin {"CREATED", "UNKNOWN"}]_vars

\* Every recorded transfer is eventually known to be paid or failed, also when
\* the sender crashed before or after reaching Chapa or its answer was lost.
EveryTransferResolves ==
    \A d \in Disbursements :
        disb[d].status \in ACTIVE ~> disb[d].status \in {"PAID", "FAILED"}

=============================================================================
