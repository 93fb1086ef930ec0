------------------------------ MODULE Donation ------------------------------
(***************************************************************************)
(* Collecting a donation for one victim profile.                           *)
(*                                                                         *)
(* DonationService.start records a payment and asks Chapa for a checkout   *)
(* page; settlePayment (webhook, donor's return page, admin ACCEPT) asks   *)
(* Chapa what happened and records it; resolveReview REFUND gives a        *)
(* mismatched payment back; reconcileProfileTotal repairs the cached       *)
(* total.  Any number of these calls run at once, each a sequence of       *)
(* database statements and requests to Chapa, any of which may be the last *)
(* one before a crash, a timeout or a 5xx.                                 *)
(*                                                                         *)
(* A payment is identified by its tx_ref.  A tx_ref derived from an        *)
(* Idempotency-Key (Keyed) may be started again; a random one may not.     *)
(***************************************************************************)
EXTENDS Naturals, FiniteSets, Sums

CONSTANTS
    Refs,        \* tx_refs
    Keyed,       \* the ones derived from an Idempotency-Key
    Starters,    \* concurrent calls of start, on different instances
    Settlers,    \* concurrent calls of settlePayment
    Refunders,   \* concurrent calls of resolveReview(REFUND)
    Auditors,    \* concurrent calls of reconcileProfileTotal
    Asked,       \* the amount a donation is started with
    Collectable, \* amounts Chapa may really collect
    Drift,       \* totals the profile may start with (before any donation)
    Faults,      \* which faults of the refund happen
    None

ASSUME KeyedAssumption == Keyed \subseteq Refs
ASSUME FiniteAssumption == IsFiniteSet(Refs)
ASSUME AmountAssumption == Asked \in Nat /\ Collectable \subseteq Nat /\ Drift \subseteq Nat
ASSUME NoneAssumption == None \notin Refs
ASSUME FaultAssumption == Faults \subseteq {"refundReplyLost", "refundCrash"}

VARIABLES
    pay,       \* Payment.status
    amount,    \* Payment.amount; before the row exists, what it will be created with
    total,     \* VictimProfile.totalRaised
    fresh,     \* auditors whose copy of the profile's updatedAt is current
    url,       \* tx_refs whose checkout URL is cached
    start,     \* progress of each start call
    settle,    \* progress of each settlePayment call
    refund,    \* progress of each refund
    audit,     \* progress of each reconciliation
    cached,    \* the total each reconciliation read,
    live,      \* and the sum it computed
    checkout,  \* Chapa: state of the checkout (external)
    collected, \* Chapa: amount collected (external)
    foreign,   \* Chapa: collected in another currency (external)
    returned,  \* Chapa: refunded (external)
    hooked     \* Chapa: tx_refs whose webhook was delivered (external)

audits == <<audit, cached, live>>
calls == <<start, settle, refund, audits>>
provider == <<checkout, collected, foreign, returned, hooked>>
vars == <<pay, amount, total, fresh, url, calls, provider>>

PaymentStatus == {"PENDING", "PAID", "FAILED", "REVIEW_REQUIRED", "REFUNDED"}

\* The refinement mapping.
Entry == [p \in Refs |->
            CASE pay[p] = "none" -> "absent"
              [] pay[p] = "PAID" -> "counted"
              [] pay[p] \in {"PENDING", "REVIEW_REQUIRED"} -> "open"
              [] pay[p] \in {"FAILED", "REFUNDED"} -> "closed"]
Ledger == INSTANCE DonationLedger WITH entry <- Entry, raised <- total

\* The truth is the sum of confirmed (PAID) donations.
PaidTotal == SumOver(amount, {p \in Refs : pay[p] = "PAID"})

\* role: did this call create the row, or find it?
StartState == [pc : {"idle", "begun", "called", "ok", "rejected", "uncertain"},
               ref : Refs \cup {None}, role : {"creator", "repeat"}]
\* mode: "accept" is settlePayment with acceptAmountMismatch
SettleState == [pc : {"idle", "read", "pending", "failed", "success"},
                ref : Refs \cup {None}, mode : {"check", "accept"}]
RefundState == [pc : {"idle", "read", "claimed", "ok", "error"}, ref : Refs \cup {None}]

IdleStart == [pc |-> "idle", ref |-> None, role |-> "repeat"]
IdleSettle == [pc |-> "idle", ref |-> None, mode |-> "check"]
IdleRefund == [pc |-> "idle", ref |-> None]

\* Everything but the sums.
ShapeOK ==
    /\ pay \in [Refs -> PaymentStatus \cup {"none"}]
    /\ amount \in [Refs -> Nat]
    /\ fresh \subseteq Auditors /\ url \subseteq Refs
    /\ start \in [Starters -> StartState]
    /\ settle \in [Settlers -> SettleState]
    /\ refund \in [Refunders -> RefundState]
    /\ audit \in [Auditors -> {"idle", "read", "summed"}]
    /\ DOMAIN cached = Auditors /\ DOMAIN live = Auditors
    /\ checkout \in [Refs -> {"none", "open", "paid", "failed"}]
    /\ collected \in [Refs -> Nat] /\ foreign \subseteq Refs
    /\ returned \subseteq Refs /\ hooked \subseteq Refs

TypeOK == ShapeOK /\ total \in Nat /\ \A x \in Auditors : cached[x] \in Nat /\ live[x] \in Nat

Init ==
    /\ pay = [p \in Refs |-> "none"]
    /\ amount = [p \in Refs |-> Asked]
    /\ total \in Drift
    /\ fresh = {} /\ url = {}
    /\ start = [r \in Starters |-> IdleStart]
    /\ settle = [s \in Settlers |-> IdleSettle]
    /\ refund = [a \in Refunders |-> IdleRefund]
    /\ audit = [x \in Auditors |-> "idle"]
    /\ cached = [x \in Auditors |-> 0] /\ live = [x \in Auditors |-> 0]
    /\ checkout = [p \in Refs |-> "none"]
    /\ collected = [p \in Refs |-> 0]
    /\ foreign = {} /\ returned = {} /\ hooked = {}

\* payment.updateMany({ where: { status in from } })
Move(p, from, to) == pay' = IF pay[p] \in from THEN [pay EXCEPT ![p] = to] ELSE pay

(***************************************************************************)
(* DonationService.start                                                   *)
(***************************************************************************)
\* payment.create; requests refused before it (profile not open for
\* donations, amount too small, bad key) change nothing.
StartCreate(r, p) ==
    /\ start[r].pc = "idle"
    /\ pay[p] = "none"
    /\ pay' = [pay EXCEPT ![p] = "PENDING"]
    /\ start' = [start EXCEPT ![r] = [pc |-> "begun", ref |-> p, role |-> "creator"]]
    /\ UNCHANGED <<amount, total, fresh, url, settle, refund, audits, provider>>

\* P2002 on a keyed tx_ref whose payment is still PENDING
StartRepeat(r, p) ==
    /\ start[r].pc = "idle"
    /\ p \in Keyed
    /\ pay[p] = "PENDING"
    /\ start' = [start EXCEPT ![r] = [pc |-> "begun", ref |-> p, role |-> "repeat"]]
    /\ UNCHANGED <<pay, amount, total, fresh, url, settle, refund, audits, provider>>

\* cache.wrap: a hit returns the page, a miss (always, without a key) asks
\* Chapa.  Calls on one instance share the request in flight, which only
\* removes interleavings of the calls modelled here.
ReadCheckoutUrl(r) ==
    /\ start[r].pc = "begun"
    /\ start' = IF start[r].ref \in Keyed \cap url
                THEN [start EXCEPT ![r] = IdleStart]
                ELSE [start EXCEPT ![r].pc = "called"]
    /\ UNCHANGED <<pay, amount, total, fresh, url, settle, refund, audits, provider>>

\* Chapa opens a checkout once per tx_ref and refuses the second time
\* (external); the answer may get lost on the way.
InitializeAnswers(r) ==
    LET p == start[r].ref IN
    /\ start[r].pc = "called"
    /\ \/ /\ checkout[p] = "none"
          /\ checkout' = [checkout EXCEPT ![p] = "open"]
          /\ \E reply \in {"ok", "uncertain"} : start' = [start EXCEPT ![r].pc = reply]
       \/ /\ \E reply \in {"rejected", "uncertain"} : start' = [start EXCEPT ![r].pc = reply]
          /\ UNCHANGED checkout
    /\ UNCHANGED <<pay, amount, total, fresh, url, settle, refund, audits,
                   collected, foreign, returned, hooked>>

StartFinish_AnyError(r) ==
    LET p == start[r].ref IN
    /\ start[r].pc \in {"ok", "rejected", "uncertain"}
    /\ url' = IF start[r].pc = "ok" /\ p \in Keyed THEN url \cup {p} ELSE url
    /\ IF start[r].pc # "ok" THEN Move(p, {"PENDING"}, "FAILED") ELSE UNCHANGED pay
    /\ start' = [start EXCEPT ![r] = IdleStart]
    /\ UNCHANGED <<amount, total, fresh, settle, refund, audits, provider>>

\* The URL is cached for a repeat; a clear refusal fails the payment, but
\* only in the call that created it.
StartFinish(r) ==
    LET p == start[r].ref IN
    /\ start[r].pc \in {"ok", "rejected", "uncertain"}
    /\ url' = IF start[r].pc = "ok" /\ p \in Keyed THEN url \cup {p} ELSE url
    /\ IF start[r].pc = "rejected" /\ start[r].role = "creator"
       THEN Move(p, {"PENDING"}, "FAILED")
       ELSE UNCHANGED pay
    /\ start' = [start EXCEPT ![r] = IdleStart]
    /\ UNCHANGED <<amount, total, fresh, settle, refund, audits, provider>>

StartCrash(r) ==
    /\ start[r].pc # "idle"
    /\ start' = [start EXCEPT ![r] = IdleStart]
    /\ UNCHANGED <<pay, amount, total, fresh, url, settle, refund, audits, provider>>

\* CHECKOUT_URL_TTL_SECONDS pass, or Redis loses the entry.
UrlExpires(p) ==
    /\ p \in url
    /\ url' = url \ {p}
    /\ UNCHANGED <<pay, amount, total, fresh, calls, provider>>

(***************************************************************************)
(* The donor at Chapa (external)                                           *)
(***************************************************************************)
DonorPays(p, a, abroad) ==
    /\ checkout[p] = "open"
    /\ checkout' = [checkout EXCEPT ![p] = "paid"]
    /\ collected' = [collected EXCEPT ![p] = a]
    /\ foreign' = IF abroad THEN foreign \cup {p} ELSE foreign
    /\ UNCHANGED <<pay, amount, total, fresh, url, calls, returned, hooked>>

DonorFails(p) ==
    /\ checkout[p] = "open"
    /\ checkout' = [checkout EXCEPT ![p] = "failed"]
    /\ UNCHANGED <<pay, amount, total, fresh, url, calls, collected, foreign, returned, hooked>>

(***************************************************************************)
(* ChapaWebhookService.settlePayment                                       *)
(***************************************************************************)
\* The first read, and the early returns: settled rows, and rows in review
\* unless an admin accepts.
Unsettled(p, mode) == pay[p] \in {"PENDING", "FAILED"}
                          \/ (pay[p] = "REVIEW_REQUIRED" /\ mode = "accept")

BeginSettle(s, p, mode) ==
    /\ settle[s].pc = "idle"
    /\ Unsettled(p, mode)
    /\ settle' = [settle EXCEPT ![s] = [pc |-> "read", ref |-> p, mode |-> mode]]
    /\ UNCHANGED <<pay, amount, total, fresh, url, start, refund, audits,
                   checkout, collected, foreign, returned>>

\* The donor's return page, a repeated webhook
VerifyForPayer(s, p) == BeginSettle(s, p, "check") /\ UNCHANGED hooked

\* The one webhook Chapa is sure to deliver for a finished checkout
HandleEvent(s, p) ==
    /\ checkout[p] \in {"paid", "failed"} /\ p \notin hooked
    /\ BeginSettle(s, p, "check")
    /\ hooked' = hooked \cup {p}

\* resolveReview ACCEPT
AcceptReview(s, p) ==
    /\ pay[p] = "REVIEW_REQUIRED"
    /\ BeginSettle(s, p, "accept") /\ UNCHANGED hooked

VerifyAnswers_Unmapped(s) ==
    /\ settle[s].pc = "read"
    /\ settle' = [settle EXCEPT ![s].pc = checkout[settle[s].ref]]
    /\ UNCHANGED <<pay, amount, total, fresh, url, start, refund, audits, provider>>

\* chapa.verify answers (an unknown tx_ref is a 4xx and ends the call, which
\* changes as little as a pending one)
VerifyAnswers(s) ==
    LET c == checkout[settle[s].ref] IN
    /\ settle[s].pc = "read"
    /\ settle' = [settle EXCEPT ![s].pc = IF c = "paid" THEN "success"
                                          ELSE IF c = "failed" THEN "failed" ELSE "pending"]
    /\ UNCHANGED <<pay, amount, total, fresh, url, start, refund, audits, provider>>

\* chapa.verify throws, or the process dies
SettleGivesUp(s) ==
    /\ settle[s].pc # "idle"
    /\ settle' = [settle EXCEPT ![s] = IdleSettle]
    /\ UNCHANGED <<pay, amount, total, fresh, url, start, refund, audits, provider>>

\* Faulty variants of a definition are kept next to it, named <Definition>_<fault>.
PaidAmountMatches_AnyCurrency(p) == collected[p] = amount[p]
PaidAmountMatches(p) == collected[p] = amount[p] /\ p \notin foreign

RecordPaid_NoGuard(p, from) ==
    /\ pay' = [pay EXCEPT ![p] = "PAID"]
    /\ amount' = [amount EXCEPT ![p] = collected[p]]
    /\ total' = total + collected[p]
    /\ fresh' = {}

\* One transaction: the compare-and-set on the status, and only its winner
\* increments the total.
RecordPaid(p, from) ==
    IF pay[p] \in from
    THEN /\ pay' = [pay EXCEPT ![p] = "PAID"]
         /\ amount' = [amount EXCEPT ![p] = collected[p]]
         /\ total' = total + collected[p]
         /\ fresh' = {}
    ELSE UNCHANGED <<pay, amount, total, fresh>>

RecordSettlement_DropsMismatch(p, answer, mode) ==
    IF answer = "success" /\ (PaidAmountMatches(p) \/ mode = "accept")
    THEN RecordPaid(p, {"PENDING", "REVIEW_REQUIRED"})
    ELSE UNCHANGED <<pay, amount, total, fresh>>
RecordSettlement(p, answer, mode) ==
    CASE answer = "failed" ->
           Move(p, {"PENDING"}, "FAILED") /\ UNCHANGED <<amount, total, fresh>>
      [] answer = "pending" -> UNCHANGED <<pay, amount, total, fresh>>
      [] answer = "success" /\ ~PaidAmountMatches(p) /\ mode = "check" ->
           Move(p, {"PENDING"}, "REVIEW_REQUIRED") /\ UNCHANGED <<amount, total, fresh>>
      [] answer = "success" /\ p \in foreign /\ mode = "accept" -> UNCHANGED <<pay, amount, total, fresh>>
      [] OTHER -> RecordPaid(p, IF mode = "accept" THEN {"PENDING", "REVIEW_REQUIRED"}
                                ELSE {"PENDING"})

SettleFinish(s) ==
    /\ settle[s].pc \in {"failed", "pending", "success"}
    /\ RecordSettlement(settle[s].ref, settle[s].pc, settle[s].mode)
    /\ settle' = [settle EXCEPT ![s] = IdleSettle]
    /\ UNCHANGED <<url, start, refund, audits, provider>>

(***************************************************************************)
(* PaymentsAdminService.resolveReview REFUND                               *)
(***************************************************************************)
\* The row is read, then Chapa is asked what it holds.
RefundRead(a, p) ==
    /\ refund[a].pc = "idle"
    /\ pay[p] = "REVIEW_REQUIRED" /\ checkout[p] = "paid"
    /\ refund' = [refund EXCEPT ![a] = [pc |-> "read", ref |-> p]]
    /\ UNCHANGED <<pay, amount, total, fresh, url, start, settle, audits, provider>>

RefundClaim_NoGuard(a) ==
    /\ refund[a].pc = "read"
    /\ pay' = [pay EXCEPT ![refund[a].ref] = "REFUNDED"]
    /\ refund' = [refund EXCEPT ![a].pc = "claimed"]
    /\ UNCHANGED <<amount, total, fresh, url, start, settle, audits, provider>>

\* Claim the payment first; whoever loses the claim stops.
RefundClaim(a) ==
    LET won == pay[refund[a].ref] = "REVIEW_REQUIRED" IN
    /\ refund[a].pc = "read"
    /\ Move(refund[a].ref, {"REVIEW_REQUIRED"}, "REFUNDED")
    /\ refund' = [refund EXCEPT ![a] = IF won THEN [@ EXCEPT !.pc = "claimed"] ELSE IdleRefund]
    /\ UNCHANGED <<amount, total, fresh, url, start, settle, audits, provider>>

\* chapa.refund (external).  The reference is fixed per payment, so a second
\* request moves no money; its answer may be either.
RefundAnswers(a) ==
    LET p == refund[a].ref IN
    /\ refund[a].pc = "claimed"
    /\ \/ /\ returned' = returned \cup {p}
          /\ \E reply \in {"ok"} \cup (IF "refundReplyLost" \in Faults THEN {"error"} ELSE {}) :
                refund' = [refund EXCEPT ![a].pc = reply]
       \/ /\ refund' = [refund EXCEPT ![a].pc = "error"]
          /\ UNCHANGED returned
    /\ UNCHANGED <<pay, amount, total, fresh, url, start, settle, audits,
                   checkout, collected, foreign, hooked>>

RefundFinish_NoUndo(a) ==
    /\ refund[a].pc \in {"ok", "error"}
    /\ refund' = [refund EXCEPT ![a] = IdleRefund]
    /\ UNCHANGED <<pay, amount, total, fresh, url, start, settle, audits, provider>>

\* Not refunded, or not known to be: put it back for an admin to try again.
RefundFinish(a) ==
    /\ refund[a].pc \in {"ok", "error"}
    /\ IF refund[a].pc = "error"
       THEN Move(refund[a].ref, {"REFUNDED"}, "REVIEW_REQUIRED")
       ELSE UNCHANGED pay
    /\ refund' = [refund EXCEPT ![a] = IdleRefund]
    /\ UNCHANGED <<amount, total, fresh, url, start, settle, audits, provider>>

\* Before the claim a crash is always possible; after it, one of the Faults.
RefundCrash(a) ==
    /\ refund[a].pc = "read" \/ (refund[a].pc # "idle" /\ "refundCrash" \in Faults)
    /\ refund' = [refund EXCEPT ![a] = IdleRefund]
    /\ UNCHANGED <<pay, amount, total, fresh, url, start, settle, audits, provider>>

(***************************************************************************)
(* reconcileProfileTotal with autoCorrect, and other writes to the profile *)
(***************************************************************************)
AuditRead(x) ==
    /\ audit[x] = "idle"
    /\ audit' = [audit EXCEPT ![x] = "read"]
    /\ cached' = [cached EXCEPT ![x] = total]
    /\ fresh' = fresh \cup {x}
    /\ UNCHANGED <<pay, amount, total, url, start, settle, refund, live, provider>>

AuditSum(x) ==
    /\ audit[x] = "read"
    /\ audit' = [audit EXCEPT ![x] = "summed"]
    /\ live' = [live EXCEPT ![x] = PaidTotal]
    /\ UNCHANGED <<pay, amount, total, fresh, url, start, settle, refund, cached, provider>>

AuditFinish_Unconditional(x) ==
    /\ audit[x] = "summed"
    /\ total' = IF live[x] # cached[x] THEN live[x] ELSE total
    /\ fresh' = {}
    /\ audit' = [audit EXCEPT ![x] = "idle"]
    /\ UNCHANGED <<pay, amount, url, start, settle, refund, cached, live, provider>>

\* conditionalUpdate: only if the row still has the updatedAt that was read.
AuditFinish(x) ==
    /\ audit[x] = "summed"
    /\ IF live[x] # cached[x] /\ x \in fresh
       THEN total' = live[x] /\ fresh' = {}
       ELSE UNCHANGED <<total, fresh>>
    /\ audit' = [audit EXCEPT ![x] = "idle"]
    /\ UNCHANGED <<pay, amount, url, start, settle, refund, cached, live, provider>>

\* Any other update of the profile row changes its updatedAt.
ProfileUpdated ==
    /\ fresh # {}
    /\ fresh' = {}
    /\ UNCHANGED <<pay, amount, total, url, calls, provider>>

(***************************************************************************)
(* The specification                                                       *)
(***************************************************************************)
Start(r) ==
    \/ \E p \in Refs : StartCreate(r, p) \/ StartRepeat(r, p)
    \/ ReadCheckoutUrl(r) \/ InitializeAnswers(r) \/ StartFinish(r) \/ StartCrash(r)
Settle(s) ==
    \/ \E p \in Refs : VerifyForPayer(s, p) \/ HandleEvent(s, p) \/ AcceptReview(s, p)
    \/ VerifyAnswers(s) \/ SettleGivesUp(s) \/ SettleFinish(s)
Refund(a) ==
    \/ \E p \in Refs : RefundRead(a, p)
    \/ RefundClaim(a) \/ RefundAnswers(a) \/ RefundFinish(a) \/ RefundCrash(a)
Audit(x) == AuditRead(x) \/ AuditSum(x) \/ AuditFinish(x)
Donor(p) ==
    \/ \E a \in Collectable, abroad \in BOOLEAN : DonorPays(p, a, abroad)
    \/ DonorFails(p) \/ UrlExpires(p)

Next ==
    \/ \E r \in Starters : Start(r)
    \/ \E s \in Settlers : Settle(s)
    \/ \E a \in Refunders : Refund(a)
    \/ \E x \in Auditors : Audit(x)
    \/ \E p \in Refs : Donor(p)
    \/ ProfileUpdated

Spec == Init /\ [][Next]_vars

\* A settlement in progress ends, one way or another (MCLiveness assumes it fair).
SettleStep(s) == VerifyAnswers(s) \/ SettleGivesUp(s) \/ SettleFinish(s)

(***************************************************************************)
(* Properties                                                              *)
(***************************************************************************)
\* The donation code implements the ledger: each donation is counted once and
\* for good, and totalRaised moves by exactly the amount counted, or to the
\* exact sum of PAID payments, whatever settles or reconciles concurrently.
ImplementsLedger == Ledger!Spec

\* A donation counts as raised only with the amount Chapa really collected
\* for it, in our currency.
RaisedIsCollected ==
    \A p \in Refs : pay[p] = "PAID" =>
        checkout[p] = "paid" /\ amount[p] = collected[p] /\ p \notin foreign

\* Money given back to the donor is never counted as raised, however ACCEPT
\* and REFUND by several admins interleave (comment in resolveReview).
NotRefundedAndRaised == \A p \in Refs : ~(pay[p] = "PAID" /\ p \in returned)

\* A payment stays REFUNDED only if the donor got the money back.
RefundedMeansReturned ==
    \A p \in Refs : pay[p] = "REFUNDED" =>
        p \in returned \/ \E a \in Refunders : refund[a].ref = p /\ refund[a].pc # "idle"

\* A failed payment has no checkout page a donor could still pay, or has paid:
\* such money could no longer be recorded.
FailedHasNoCheckout == \A p \in Refs : pay[p] = "FAILED" => checkout[p] \in {"none", "failed"}
=============================================================================
