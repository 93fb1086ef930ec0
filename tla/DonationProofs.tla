--------------------------- MODULE DonationProofs ---------------------------
(***************************************************************************)
(* What the donation code guarantees for any number of payments, callers   *)
(* and admins.                                                             *)
(***************************************************************************)
EXTENDS Donation, SumProofs, TLAPS

\* A call in progress is about a payment.
CallsNameRefs ==
    /\ \A r \in Starters : start[r].pc # "idle" => start[r].ref \in Refs
    /\ \A s \in Settlers : settle[s].pc # "idle" => settle[s].ref \in Refs
    /\ \A a \in Refunders : refund[a].pc # "idle" => refund[a].ref \in Refs

\* Types, without the sums: what every other proof starts from.
Shaped == ShapeOK /\ CallsNameRefs

LEMMA ShapedInit == Init => Shaped
  BY AmountAssumption DEF Init, Shaped, ShapeOK, CallsNameRefs, IdleStart, IdleSettle, IdleRefund,
     StartState, SettleState, RefundState, PaymentStatus

LEMMA ShapedStart == ASSUME Shaped, NEW r \in Starters, Start(r) PROVE Shaped'
  <1> USE DEF Shaped, ShapeOK, CallsNameRefs, StartState, SettleState, RefundState, PaymentStatus,
          IdleStart, audits, provider, Move
  <1>1. ASSUME NEW p \in Refs, StartCreate(r, p) PROVE Shaped'
    BY <1>1 DEF StartCreate
  <1>2. ASSUME NEW p \in Refs, StartRepeat(r, p) PROVE Shaped'
    BY <1>2 DEF StartRepeat
  <1>3. CASE ReadCheckoutUrl(r)
    BY <1>3 DEF ReadCheckoutUrl
  <1>4. CASE InitializeAnswers(r)
    BY <1>4 DEF InitializeAnswers
  <1>5. CASE StartFinish(r)
    BY <1>5 DEF StartFinish
  <1>6. CASE StartCrash(r)
    BY <1>6 DEF StartCrash
  <1> QED
    BY <1>1, <1>2, <1>3, <1>4, <1>5, <1>6 DEF Start

LEMMA ShapedSettle == ASSUME Shaped, NEW s \in Settlers, Settle(s) PROVE Shaped'
  <1> USE DEF Shaped, ShapeOK, CallsNameRefs, StartState, SettleState, RefundState, PaymentStatus,
          IdleSettle, audits, provider, Move
  <1>1. ASSUME NEW p \in Refs, NEW mode \in {"check", "accept"}, BeginSettle(s, p, mode),
               hooked' = hooked \/ hooked' = hooked \cup {p}
        PROVE  Shaped'
    BY <1>1 DEF BeginSettle
  <1>2. ASSUME VerifyAnswers(s) PROVE Shaped'
    <2>1. /\ UNCHANGED <<pay, amount, total, fresh, url, start, refund, audits, provider>>
          /\ settle[s].pc = "read"
          /\ \E reply \in {"success", "failed", "pending"} :
                settle' = [settle EXCEPT ![s].pc = reply]
      BY <1>2, Zenon DEF VerifyAnswers
    <2> QED
      BY <2>1
  <1>3. CASE SettleGivesUp(s)
    BY <1>3 DEF SettleGivesUp
  <1>4. CASE SettleFinish(s)
    BY <1>4 DEF SettleFinish, RecordSettlement, RecordPaid
  <1> QED
    BY <1>1, <1>2, <1>3, <1>4 DEF Settle, VerifyForPayer, HandleEvent, AcceptReview

LEMMA ShapedRefund == ASSUME Shaped, NEW a \in Refunders, Refund(a) PROVE Shaped'
  <1> USE DEF Shaped, ShapeOK, CallsNameRefs, StartState, SettleState, RefundState, PaymentStatus,
          IdleRefund, audits, provider, Move
  <1>1. ASSUME NEW p \in Refs, RefundRead(a, p) PROVE Shaped'
    BY <1>1 DEF RefundRead
  <1>2. CASE RefundClaim(a)
    BY <1>2 DEF RefundClaim
  <1>3. ASSUME RefundAnswers(a) PROVE Shaped'
    <2>1. /\ UNCHANGED <<pay, amount, total, fresh, url, start, settle, audits,
                         checkout, collected, foreign, hooked>>
          /\ refund[a].pc = "claimed"
          /\ returned' = returned \/ returned' = returned \cup {refund[a].ref}
          /\ \E reply \in {"ok", "error"} : refund' = [refund EXCEPT ![a].pc = reply]
      BY <1>3 DEF RefundAnswers
    <2> QED
      BY <2>1
  <1>4. CASE RefundFinish(a)
    BY <1>4 DEF RefundFinish
  <1>5. CASE RefundCrash(a)
    BY <1>5 DEF RefundCrash
  <1> QED
    BY <1>1, <1>2, <1>3, <1>4, <1>5 DEF Refund

LEMMA ShapedRest ==
  ASSUME Shaped, (\E x \in Auditors : Audit(x)) \/ (\E p \in Refs : Donor(p)) \/ ProfileUpdated
  PROVE  Shaped'
  <1> USE AmountAssumption DEF Shaped, ShapeOK, CallsNameRefs, audits, calls, provider
  <1>1. ASSUME NEW x \in Auditors, Audit(x) PROVE Shaped'
    BY <1>1 DEF Audit, AuditRead, AuditSum, AuditFinish
  <1>2. ASSUME NEW p \in Refs, NEW c \in Collectable, NEW abroad \in BOOLEAN, DonorPays(p, c, abroad)
        PROVE  Shaped'
    BY <1>2 DEF DonorPays
  <1>3. ASSUME NEW p \in Refs, DonorFails(p) \/ UrlExpires(p) PROVE Shaped'
    BY <1>3 DEF DonorFails, UrlExpires
  <1>4. CASE ProfileUpdated
    BY <1>4 DEF ProfileUpdated
  <1> QED
    BY <1>1, <1>2, <1>3, <1>4 DEF Donor

LEMMA ShapedStep == Shaped /\ [Next]_vars => Shaped'
  <1>1. ASSUME Shaped, UNCHANGED vars PROVE Shaped'
    BY <1>1 DEF vars, calls, audits, provider, Shaped, ShapeOK, CallsNameRefs
  <1> QED
    BY <1>1, ShapedStart, ShapedSettle, ShapedRefund, ShapedRest DEF Next

-----------------------------------------------------------------------------
(***************************************************************************)
(* What is counted is what Chapa collected                                 *)
(***************************************************************************)
\* A settlement that holds Chapa's "success" is about a checkout that was paid; nothing undoes that.
SuccessIsPaid ==
    \A s \in Settlers : settle[s].pc = "success" => checkout[settle[s].ref] = "paid"

Collecting == SuccessIsPaid /\ RaisedIsCollected

\* A statement that moves a status out of a set without PAID leaves the PAID payments alone.
LEMMA MoveKeepsPaid ==
  ASSUME Shaped, NEW p \in Refs, NEW from, NEW to \in PaymentStatus \ {"PAID"}, "PAID" \notin from,
         Move(p, from, to)
  PROVE  \A q \in Refs : pay'[q] = "PAID" <=> pay[q] = "PAID"
  BY DEF Move, Shaped, ShapeOK, PaymentStatus

\* settlePayment records a success only with the amount and the currency Chapa reported.
LEMMA CollectingSettle ==
  ASSUME Shaped, Collecting, NEW s \in Settlers, SettleFinish(s)
  PROVE  Collecting'
  <1> DEFINE p == settle[s].ref
             from == IF settle[s].mode = "accept" THEN {"PENDING", "REVIEW_REQUIRED"} ELSE {"PENDING"}
  <1>1. /\ p \in Refs /\ settle[s].pc \in {"failed", "pending", "success"}
        /\ settle[s].mode \in {"check", "accept"}
        /\ settle' = [settle EXCEPT ![s] = IdleSettle]
        /\ UNCHANGED <<checkout, collected, foreign>>
    BY DEF SettleFinish, Shaped, ShapeOK, CallsNameRefs, SettleState, provider
  <1>2. SuccessIsPaid'
    BY <1>1 DEF Collecting, SuccessIsPaid, Shaped, ShapeOK, SettleState, IdleSettle
  <1>3. \/ /\ UNCHANGED amount
           /\ \A q \in Refs : pay'[q] = "PAID" <=> pay[q] = "PAID"
        \/ /\ settle[s].pc = "success" /\ p \notin foreign
           /\ pay' = [pay EXCEPT ![p] = "PAID"]
           /\ amount' = [amount EXCEPT ![p] = collected[p]]
    <2>1. RecordSettlement(p, settle[s].pc, settle[s].mode)
      BY DEF SettleFinish
    <2>2. CASE settle[s].pc = "failed"
      <3>1. Move(p, {"PENDING"}, "FAILED") /\ UNCHANGED amount
        BY <2>1, <2>2 DEF RecordSettlement
      <3> QED
        BY <1>1, <3>1, MoveKeepsPaid DEF PaymentStatus
    <2>3. CASE settle[s].pc = "pending"
      BY <2>1, <2>3 DEF RecordSettlement
    <2>4. CASE settle[s].pc = "success" /\ ~PaidAmountMatches(p) /\ settle[s].mode = "check"
      <3>1. Move(p, {"PENDING"}, "REVIEW_REQUIRED") /\ UNCHANGED amount
        BY <2>1, <2>4 DEF RecordSettlement
      <3> QED
        BY <1>1, <3>1, MoveKeepsPaid DEF PaymentStatus
    <2>5. CASE settle[s].pc = "success" /\ p \in foreign /\ settle[s].mode = "accept"
      BY <2>1, <2>5 DEF RecordSettlement
    <2>6. CASE /\ settle[s].pc = "success"
               /\ ~(~PaidAmountMatches(p) /\ settle[s].mode = "check")
               /\ ~(p \in foreign /\ settle[s].mode = "accept")
      <3>1. RecordPaid(p, from)
        BY <2>1, <2>6 DEF RecordSettlement
      <3>2. p \notin foreign
        BY <1>1, <2>6 DEF PaidAmountMatches
      <3> QED
        BY <2>6, <3>1, <3>2 DEF RecordPaid
    <2> QED
      BY <1>1, <2>2, <2>3, <2>4, <2>5, <2>6
  <1>4. RaisedIsCollected'
    BY <1>1, <1>3 DEF Collecting, SuccessIsPaid, RaisedIsCollected, Shaped, ShapeOK
  <1> QED
    BY <1>2, <1>4 DEF Collecting

LEMMA CollectingStep == Shaped /\ Collecting /\ [Next]_vars => Collecting'
  <1> SUFFICES ASSUME Shaped, Collecting, [Next]_vars PROVE Collecting'
    OBVIOUS
  <1> USE DEF Collecting, SuccessIsPaid, RaisedIsCollected
  <1>k. ASSUME UNCHANGED <<amount, settle, checkout, collected, foreign>>,
               \A q \in Refs : pay'[q] = "PAID" <=> pay[q] = "PAID"
        PROVE  Collecting'
    BY <1>k
  <1>1. ASSUME NEW r \in Starters, Start(r) PROVE Collecting'
    <2>1. ASSUME NEW p \in Refs, StartCreate(r, p) \/ StartRepeat(r, p) PROVE Collecting'
      BY <2>1 DEF StartCreate, StartRepeat, provider, Shaped, ShapeOK
    <2>2. CASE ReadCheckoutUrl(r) \/ StartCrash(r)
      BY <2>2, <1>k DEF ReadCheckoutUrl, StartCrash, provider
    <2>3. CASE InitializeAnswers(r)
      <3>1. /\ UNCHANGED <<pay, amount, settle, collected, foreign>>
            /\ \A p \in Refs : checkout[p] = "paid" => checkout'[p] = "paid"
        BY <2>3 DEF InitializeAnswers, Shaped, ShapeOK
      <3> QED
        BY <3>1 DEF Shaped, ShapeOK, CallsNameRefs
    <2>4. CASE StartFinish(r)
      <3>1. start[r].ref \in Refs /\ UNCHANGED <<amount, settle, checkout, collected, foreign>>
        BY <2>4 DEF StartFinish, Shaped, ShapeOK, CallsNameRefs, provider
      <3>2. UNCHANGED pay \/ Move(start[r].ref, {"PENDING"}, "FAILED")
        BY <2>4 DEF StartFinish
      <3>3. \A q \in Refs : pay'[q] = "PAID" <=> pay[q] = "PAID"
        BY <3>1, <3>2, MoveKeepsPaid DEF PaymentStatus
      <3> QED
        BY <3>1, <3>3, <1>k
    <2> QED
      BY <1>1, <2>1, <2>2, <2>3, <2>4 DEF Start
  <1>2. ASSUME NEW s \in Settlers, Settle(s) PROVE Collecting'
    <2>1. ASSUME NEW p \in Refs, NEW mode \in {"check", "accept"}, BeginSettle(s, p, mode)
          PROVE  Collecting'
      BY <2>1 DEF BeginSettle, Shaped, ShapeOK, SettleState
    <2>2. CASE VerifyAnswers(s)
      BY <2>2 DEF VerifyAnswers, provider, Shaped, ShapeOK, SettleState
    <2>3. CASE SettleGivesUp(s)
      BY <2>3 DEF SettleGivesUp, provider, Shaped, ShapeOK, SettleState, IdleSettle
    <2>4. CASE SettleFinish(s)
      BY <2>4, CollectingSettle
    <2> QED
      BY <1>2, <2>1, <2>2, <2>3, <2>4 DEF Settle, VerifyForPayer, HandleEvent, AcceptReview
  <1>3. ASSUME NEW a \in Refunders, Refund(a) PROVE Collecting'
    <2>1. UNCHANGED <<amount, settle, checkout, collected, foreign>>
      BY <1>3 DEF Refund, RefundRead, RefundClaim, RefundAnswers, RefundFinish, RefundCrash, provider
    <2>2. \/ UNCHANGED pay
          \/ refund[a].ref \in Refs /\ Move(refund[a].ref, {"REVIEW_REQUIRED"}, "REFUNDED")
          \/ refund[a].ref \in Refs /\ Move(refund[a].ref, {"REFUNDED"}, "REVIEW_REQUIRED")
      BY <1>3 DEF Refund, RefundRead, RefundClaim, RefundAnswers, RefundFinish, RefundCrash,
                  Shaped, CallsNameRefs
    <2>3. \A q \in Refs : pay'[q] = "PAID" <=> pay[q] = "PAID"
      BY <2>2, MoveKeepsPaid DEF PaymentStatus
    <2> QED
      BY <2>1, <2>3, <1>k
  <1>4. ASSUME NEW x \in Auditors, Audit(x) PROVE Collecting'
    BY <1>4, <1>k DEF Audit, AuditRead, AuditSum, AuditFinish, provider
  <1>5. ASSUME NEW p \in Refs, Donor(p) PROVE Collecting'
    <2>1. CASE UrlExpires(p)
      BY <2>1, <1>k DEF UrlExpires, calls, provider
    <2>2. CASE ~UrlExpires(p)
      <3>1. /\ UNCHANGED <<pay, amount, settle>> /\ checkout[p] = "open"
            /\ \A q \in Refs \ {p} : /\ checkout'[q] = checkout[q] /\ collected'[q] = collected[q]
                                     /\ q \in foreign' <=> q \in foreign
        BY <1>5, <2>2 DEF Donor, DonorPays, DonorFails, calls, Shaped, ShapeOK
      <3> QED
        BY <3>1 DEF Shaped, ShapeOK, CallsNameRefs
    <2> QED
      BY <2>1, <2>2
  <1>6. CASE ProfileUpdated
    BY <1>6, <1>k DEF ProfileUpdated, calls, provider
  <1>7. CASE UNCHANGED vars
    BY <1>7, <1>k DEF vars, calls, provider
  <1> QED
    BY <1>1, <1>2, <1>3, <1>4, <1>5, <1>6, <1>7 DEF Next

\* However settlements, refunds and reconciliations interleave, a PAID donation carries the amount
\* Chapa collected, in our currency: settlePayment's mismatch checks let nothing else through.
THEOREM RaisedFromChapa == Spec => []RaisedIsCollected
  <1>1. Init => Collecting
    BY DEF Init, Collecting, SuccessIsPaid, RaisedIsCollected, IdleSettle
  <1>2. Collecting => RaisedIsCollected
    BY DEF Collecting
  <1> QED
    BY ShapedInit, ShapedStep, CollectingStep, <1>1, <1>2, PTL DEF Spec

-----------------------------------------------------------------------------
(***************************************************************************)
(* Refunds                                                                 *)
(***************************************************************************)
Claimed == {"claimed", "ok", "error"}
Holds(a, p) == refund[a].ref = p /\ refund[a].pc \in Claimed

\* Whoever won the claim holds it alone, and nobody moves the payment while it is held.
OneClaim ==
    /\ \A a \in Refunders, p \in Refs : Holds(a, p) => pay[p] = "REFUNDED"
    /\ \A a, b \in Refunders, p \in Refs : Holds(a, p) /\ Holds(b, p) => a = b

\* Unless an answer gets lost: what was given back stays REFUNDED, and its holder knows.
ReturnedIsKnown ==
    \A p \in returned : /\ pay[p] = "REFUNDED"
                        /\ \A a \in Refunders : Holds(a, p) => refund[a].pc = "ok"

\* Unless a holder dies: a payment stays REFUNDED while it is held, and after it was given back.
RefundedIsHeld ==
    /\ \A p \in Refs : pay[p] = "REFUNDED" => p \in returned \/ \E a \in Refunders : Holds(a, p)
    /\ \A a \in Refunders : refund[a].pc = "ok" => refund[a].ref \in returned

\* Only a refund touches the REFUNDED payments, the refunds and the money given back.
LEMMA OnlyRefunds ==
  ASSUME Shaped, [Next]_vars, ~\E a \in Refunders : Refund(a)
  PROVE  /\ UNCHANGED <<refund, returned>>
         /\ \A p \in Refs : pay'[p] = "REFUNDED" <=> pay[p] = "REFUNDED"
  <1> USE DEF Shaped, ShapeOK, PaymentStatus
  <1>1. ASSUME NEW r \in Starters, Start(r)
        PROVE  /\ UNCHANGED <<refund, returned>>
               /\ \A p \in Refs : pay'[p] = "REFUNDED" <=> pay[p] = "REFUNDED"
    BY <1>1 DEF Start, StartCreate, StartRepeat, ReadCheckoutUrl, InitializeAnswers, StartFinish,
                StartCrash, Move, provider
  <1>2. ASSUME NEW s \in Settlers, Settle(s)
        PROVE  /\ UNCHANGED <<refund, returned>>
               /\ \A p \in Refs : pay'[p] = "REFUNDED" <=> pay[p] = "REFUNDED"
    <2>1. CASE SettleFinish(s)
      <3>1. UNCHANGED <<refund, returned>> /\ settle[s].mode \in {"check", "accept"}
        BY <2>1 DEF SettleFinish, provider, SettleState
      <3>2. RecordSettlement(settle[s].ref, settle[s].pc, settle[s].mode)
        BY <2>1 DEF SettleFinish
      <3>3. \A p \in Refs : pay'[p] = "REFUNDED" <=> pay[p] = "REFUNDED"
        BY <3>2 DEF RecordSettlement, RecordPaid, Move
      <3> QED
        BY <3>1, <3>3
    <2>2. CASE ~SettleFinish(s)
      BY <1>2, <2>2 DEF Settle, VerifyForPayer, HandleEvent, AcceptReview, BeginSettle,
                        VerifyAnswers, SettleGivesUp, provider
    <2> QED
      BY <2>1, <2>2
  <1>3. ASSUME NEW x \in Auditors, Audit(x) PROVE UNCHANGED <<pay, refund, returned>>
    BY <1>3 DEF Audit, AuditRead, AuditSum, AuditFinish, provider
  <1>4. ASSUME NEW p \in Refs, Donor(p) PROVE UNCHANGED <<pay, refund, returned>>
    BY <1>4 DEF Donor, DonorPays, DonorFails, UrlExpires, calls, provider
  <1>5. CASE ProfileUpdated
    BY <1>5 DEF ProfileUpdated, calls, provider
  <1>6. CASE UNCHANGED vars
    BY <1>6 DEF vars, calls, provider
  <1> QED
    BY <1>1, <1>2, <1>3, <1>4, <1>5, <1>6 DEF Next

\* What one refund step does: a read or a crash, a won or lost claim, an answer, or the end.
LEMMA RefundSteps ==
  ASSUME Shaped, NEW a \in Refunders, Refund(a)
  PROVE  LET p == refund[a].ref IN
         \/ /\ refund[a].pc = "idle" /\ UNCHANGED <<pay, returned>>
            /\ \E q \in Refs : refund' = [refund EXCEPT ![a] = [pc |-> "read", ref |-> q]]
         \/ /\ refund[a].pc = "read" \/ "refundCrash" \in Faults
            /\ refund' = [refund EXCEPT ![a] = IdleRefund]
            /\ UNCHANGED <<pay, returned>>
         \/ /\ p \in Refs /\ refund[a].pc = "read" /\ pay[p] = "REVIEW_REQUIRED"
            /\ pay' = [pay EXCEPT ![p] = "REFUNDED"]
            /\ refund' = [refund EXCEPT ![a].pc = "claimed"]
            /\ UNCHANGED returned
         \/ /\ p \in Refs /\ refund[a].pc = "claimed" /\ UNCHANGED pay
            /\ \/ /\ returned' = returned \cup {p}
                  /\ refund' = [refund EXCEPT ![a].pc = "ok"]
               \/ /\ returned' = returned \cup {p} /\ "refundReplyLost" \in Faults
                  /\ refund' = [refund EXCEPT ![a].pc = "error"]
               \/ /\ UNCHANGED returned
                  /\ refund' = [refund EXCEPT ![a].pc = "error"]
         \/ /\ refund[a].pc = "ok" /\ UNCHANGED <<pay, returned>>
            /\ refund' = [refund EXCEPT ![a] = IdleRefund]
         \/ /\ p \in Refs /\ refund[a].pc = "error"
            /\ pay' = IF pay[p] = "REFUNDED" THEN [pay EXCEPT ![p] = "REVIEW_REQUIRED"] ELSE pay
            /\ refund' = [refund EXCEPT ![a] = IdleRefund]
            /\ UNCHANGED returned
  <1> USE DEF Shaped, ShapeOK, CallsNameRefs, RefundState, provider, Move
  <1>1. CASE \E p \in Refs : RefundRead(a, p)
    BY <1>1 DEF RefundRead
  <1>2. CASE RefundClaim(a)
    BY <1>2 DEF RefundClaim
  <1>3. CASE RefundAnswers(a)
    BY <1>3 DEF RefundAnswers
  <1>4. CASE RefundFinish(a)
    BY <1>4 DEF RefundFinish
  <1>5. CASE RefundCrash(a)
    BY <1>5 DEF RefundCrash
  <1> QED
    BY <1>1, <1>2, <1>3, <1>4, <1>5 DEF Refund

LEMMA OneClaimStep == Shaped /\ OneClaim /\ [Next]_vars => OneClaim'
  <1> SUFFICES ASSUME Shaped, OneClaim, [Next]_vars PROVE OneClaim'
    OBVIOUS
  <1> USE DEF OneClaim, Holds, Claimed
  <1>1. CASE ~\E a \in Refunders : Refund(a)
    BY <1>1, OnlyRefunds
  <1>2. ASSUME NEW a \in Refunders, Refund(a) PROVE OneClaim'
    <2> DEFINE p == refund[a].ref
    <2> USE NoneAssumption DEF Shaped, ShapeOK, RefundState, IdleRefund
    <2>1. CASE /\ refund[a].pc = "idle" /\ UNCHANGED <<pay, returned>>
               /\ \E q \in Refs : refund' = [refund EXCEPT ![a] = [pc |-> "read", ref |-> q]]
      BY <2>1
    <2>2. CASE /\ refund[a].pc \in {"read", "ok"} \/ "refundCrash" \in Faults
               /\ refund' = [refund EXCEPT ![a] = IdleRefund]
               /\ UNCHANGED <<pay, returned>>
      BY <2>2
    <2>3. CASE /\ p \in Refs /\ refund[a].pc = "read" /\ pay[p] = "REVIEW_REQUIRED"
               /\ pay' = [pay EXCEPT ![p] = "REFUNDED"]
               /\ refund' = [refund EXCEPT ![a].pc = "claimed"]
               /\ UNCHANGED returned
      BY <2>3
    <2>4. CASE /\ p \in Refs /\ refund[a].pc = "claimed" /\ UNCHANGED pay
               /\ \/ /\ returned' = returned \cup {p}
                     /\ \E pc \in {"ok", "error"} : refund' = [refund EXCEPT ![a].pc = pc]
                  \/ UNCHANGED returned /\ refund' = [refund EXCEPT ![a].pc = "error"]
      <3>1. /\ \A b \in Refunders : refund'[b].ref = refund[b].ref
            /\ \A b \in Refunders \ {a} : refund'[b] = refund[b]
            /\ refund'[a].pc \in {"ok", "error"}
        BY <2>4
      <3>2. \A b \in Refunders, q \in Refs : Holds(b, q)' => Holds(b, q)
        BY <2>4, <3>1
      <3> QED
        BY <2>4, <3>2
    <2>5. CASE /\ p \in Refs /\ refund[a].pc = "error"
               /\ pay' = IF pay[p] = "REFUNDED" THEN [pay EXCEPT ![p] = "REVIEW_REQUIRED"] ELSE pay
               /\ refund' = [refund EXCEPT ![a] = IdleRefund]
               /\ UNCHANGED returned
      BY <2>5
    <2> HIDE DEF OneClaim, Holds, Shaped
    <2> QED
      BY <1>2, <2>1, <2>2, <2>3, <2>4, <2>5, RefundSteps
  <1> QED
    BY <1>1, <1>2

LEMMA ReturnedStep ==
  ASSUME "refundReplyLost" \notin Faults
  PROVE  Shaped /\ OneClaim /\ ReturnedIsKnown /\ [Next]_vars => ReturnedIsKnown'
  <1> SUFFICES ASSUME Shaped, OneClaim, ReturnedIsKnown, [Next]_vars PROVE ReturnedIsKnown'
    OBVIOUS
  <1> USE DEF OneClaim, ReturnedIsKnown, Holds, Claimed
  <1>1. CASE ~\E a \in Refunders : Refund(a)
    BY <1>1, OnlyRefunds DEF Shaped, ShapeOK
  <1>2. ASSUME NEW a \in Refunders, Refund(a) PROVE ReturnedIsKnown'
    BY <1>2, RefundSteps, NoneAssumption DEF Shaped, ShapeOK, RefundState, IdleRefund
  <1> QED
    BY <1>1, <1>2

LEMMA HeldStep ==
  ASSUME "refundCrash" \notin Faults
  PROVE  Shaped /\ OneClaim /\ RefundedIsHeld /\ [Next]_vars => RefundedIsHeld'
  <1> SUFFICES ASSUME Shaped, OneClaim, RefundedIsHeld, [Next]_vars PROVE RefundedIsHeld'
    OBVIOUS
  <1> USE DEF OneClaim, RefundedIsHeld, Holds, Claimed
  <1>1. CASE ~\E a \in Refunders : Refund(a)
    BY <1>1, OnlyRefunds DEF Shaped, ShapeOK
  <1>2. ASSUME NEW a \in Refunders, Refund(a) PROVE RefundedIsHeld'
    <2> DEFINE p == refund[a].ref
    <2> USE NoneAssumption DEF Shaped, ShapeOK, RefundState, IdleRefund
    <2>1. CASE /\ refund[a].pc = "idle" /\ UNCHANGED <<pay, returned>>
               /\ \E q \in Refs : refund' = [refund EXCEPT ![a] = [pc |-> "read", ref |-> q]]
      BY <2>1
    <2>2. CASE /\ refund[a].pc \in {"read", "ok"} \/ "refundCrash" \in Faults
               /\ refund' = [refund EXCEPT ![a] = IdleRefund]
               /\ UNCHANGED <<pay, returned>>
      BY <2>2
    <2>3. CASE /\ p \in Refs /\ refund[a].pc = "read" /\ pay[p] = "REVIEW_REQUIRED"
               /\ pay' = [pay EXCEPT ![p] = "REFUNDED"]
               /\ refund' = [refund EXCEPT ![a].pc = "claimed"]
               /\ UNCHANGED returned
      BY <2>3
    <2>4. CASE /\ p \in Refs /\ refund[a].pc = "claimed" /\ UNCHANGED pay
               /\ \/ /\ returned' = returned \cup {p}
                     /\ \E pc \in {"ok", "error"} : refund' = [refund EXCEPT ![a].pc = pc]
                  \/ UNCHANGED returned /\ refund' = [refund EXCEPT ![a].pc = "error"]
      <3>1. /\ \A b \in Refunders : refund'[b].ref = refund[b].ref
            /\ \A b \in Refunders \ {a} : refund'[b] = refund[b]
            /\ refund'[a].pc \in {"ok", "error"}
        BY <2>4
      <3>2. refund'[a].pc = "ok" => returned' = returned \cup {p}
        BY <2>4
      <3>3. \A b \in Refunders, q \in Refs : Holds(b, q) => Holds(b, q)'
        BY <2>4, <3>1
      <3>4. UNCHANGED pay /\ returned \subseteq returned'
        BY <2>4
      <3>5. \A b \in Refunders : refund'[b].pc = "ok" => refund'[b].ref \in returned'
        BY <3>1, <3>2, <3>4
      <3> HIDE DEF Holds
      <3> QED
        BY <3>3, <3>4, <3>5
    <2>5. CASE /\ p \in Refs /\ refund[a].pc = "error"
               /\ pay' = IF pay[p] = "REFUNDED" THEN [pay EXCEPT ![p] = "REVIEW_REQUIRED"] ELSE pay
               /\ refund' = [refund EXCEPT ![a] = IdleRefund]
               /\ UNCHANGED returned
      BY <2>5
    <2> HIDE DEF OneClaim, RefundedIsHeld, Holds, Shaped
    <2> QED
      BY <1>2, <2>1, <2>2, <2>3, <2>4, <2>5, RefundSteps
  <1> QED
    BY <1>1, <1>2

\* As long as Chapa's answer to a refund is not lost, money given back is never counted as raised,
\* however many admins accept and refund the payment at once (resolveReview's claim).
THEOREM RefundNeverRaised ==
  ASSUME "refundReplyLost" \notin Faults
  PROVE  Spec => []NotRefundedAndRaised
  <1>1. Init => OneClaim /\ ReturnedIsKnown
    BY DEF Init, OneClaim, ReturnedIsKnown, Holds, Claimed, IdleRefund
  <1>2. Shaped /\ OneClaim /\ ReturnedIsKnown /\ [Next]_vars => ReturnedIsKnown'
    BY ReturnedStep
  <1>3. Shaped /\ ReturnedIsKnown => NotRefundedAndRaised
    BY DEF ReturnedIsKnown, NotRefundedAndRaised
  <1> QED
    BY ShapedInit, ShapedStep, OneClaimStep, <1>1, <1>2, <1>3, PTL DEF Spec

\* As long as no process dies while it holds a claim, a payment that stays REFUNDED was given back.
THEOREM RefundedWasReturned ==
  ASSUME "refundCrash" \notin Faults
  PROVE  Spec => []RefundedMeansReturned
  <1>1. Init => OneClaim /\ RefundedIsHeld
    BY DEF Init, OneClaim, RefundedIsHeld, Holds, Claimed, IdleRefund
  <1>2. Shaped /\ OneClaim /\ RefundedIsHeld /\ [Next]_vars => RefundedIsHeld'
    BY HeldStep
  <1>3. RefundedIsHeld => RefundedMeansReturned
    BY DEF RefundedIsHeld, RefundedMeansReturned, Holds, Claimed
  <1> QED
    BY ShapedInit, ShapedStep, OneClaimStep, <1>1, <1>2, <1>3, PTL DEF Spec

-----------------------------------------------------------------------------
(***************************************************************************)
(* The donation code implements the ledger                                 *)
(***************************************************************************)
\* A reconciliation whose copy of updatedAt is current has summed what is PAID now: every
\* settlement that counts a donation writes the profile, too.
SumIsCurrent ==
    \A x \in Auditors : x \in fresh /\ audit[x] = "summed" => live[x] = PaidTotal

\* The sum depends on nothing but the PAID payments and their amounts.
LEMMA SameSum ==
  ASSUME UNCHANGED amount, \A p \in Refs : pay'[p] = "PAID" <=> pay[p] = "PAID"
  PROVE  PaidTotal' = PaidTotal
  <1>1. {p \in Refs : pay'[p] = "PAID"} = {p \in Refs : pay[p] = "PAID"}
    OBVIOUS
  <1> QED
    BY <1>1 DEF PaidTotal

\* What a step does to the ledger: a status moves within the uncounted ones, one donation is
\* counted (and the profile row written), or a reconciliation ends.
LEMMA LedgerSteps ==
  ASSUME Shaped, [Next]_vars
  PROVE  \/ UNCHANGED <<pay, amount, total>>
         \/ /\ UNCHANGED <<amount, total>>
            /\ \E p \in Refs :
                 \/ /\ pay[p] \in {"none", "REFUNDED"}
                    /\ \E to \in {"PENDING", "REVIEW_REQUIRED"} : pay' = [pay EXCEPT ![p] = to]
                 \/ /\ pay[p] \in {"PENDING", "REVIEW_REQUIRED"}
                    /\ \E to \in {"FAILED", "REFUNDED"} : pay' = [pay EXCEPT ![p] = to]
                 \/ /\ pay[p] = "PENDING"
                    /\ pay' = [pay EXCEPT ![p] = "REVIEW_REQUIRED"]
         \/ \E p \in Refs :
              /\ pay[p] \in {"PENDING", "REVIEW_REQUIRED"}
              /\ pay' = [pay EXCEPT ![p] = "PAID"]
              /\ amount' = [amount EXCEPT ![p] = collected[p]]
              /\ total' = total + collected[p]
              /\ fresh' = {}
         \/ /\ UNCHANGED <<pay, amount>>
            /\ \E x \in Auditors : /\ audit[x] = "summed" /\ x \in fresh
                                   /\ total' = live[x]
  <1> USE DEF Shaped, ShapeOK, CallsNameRefs, PaymentStatus
  <1>1. ASSUME NEW r \in Starters, Start(r)
        PROVE  /\ UNCHANGED <<amount, total>>
               /\ \/ UNCHANGED pay
                  \/ \E p \in Refs : /\ pay[p] = "none" /\ pay' = [pay EXCEPT ![p] = "PENDING"]
                  \/ \E p \in Refs : /\ pay[p] = "PENDING" /\ pay' = [pay EXCEPT ![p] = "FAILED"]
    BY <1>1 DEF Start, StartCreate, StartRepeat, ReadCheckoutUrl, InitializeAnswers, StartFinish,
                StartCrash, Move
  <1>2. ASSUME NEW s \in Settlers, Settle(s)
        PROVE  \/ UNCHANGED <<pay, amount, total>>
               \/ /\ UNCHANGED <<amount, total>>
                  /\ \E p \in Refs : /\ pay[p] = "PENDING"
                                     /\ \E to \in {"FAILED", "REVIEW_REQUIRED"} :
                                            pay' = [pay EXCEPT ![p] = to]
               \/ \E p \in Refs :
                    /\ pay[p] \in {"PENDING", "REVIEW_REQUIRED"}
                    /\ pay' = [pay EXCEPT ![p] = "PAID"]
                    /\ amount' = [amount EXCEPT ![p] = collected[p]]
                    /\ total' = total + collected[p]
                    /\ fresh' = {}
    <2>1. CASE SettleFinish(s)
      <3>1. settle[s].ref \in Refs /\ RecordSettlement(settle[s].ref, settle[s].pc, settle[s].mode)
        BY <2>1 DEF SettleFinish
      <3> QED
        BY <3>1 DEF RecordSettlement, RecordPaid, Move
    <2>2. CASE ~SettleFinish(s)
      BY <1>2, <2>2 DEF Settle, VerifyForPayer, HandleEvent, AcceptReview, BeginSettle,
                        VerifyAnswers, SettleGivesUp
    <2> QED
      BY <2>1, <2>2
  <1>3. ASSUME NEW a \in Refunders, Refund(a)
        PROVE  /\ UNCHANGED <<amount, total>>
               /\ \/ UNCHANGED pay
                  \/ \E p \in Refs : /\ pay[p] = "REVIEW_REQUIRED"
                                     /\ pay' = [pay EXCEPT ![p] = "REFUNDED"]
                  \/ \E p \in Refs : /\ pay[p] = "REFUNDED"
                                     /\ pay' = [pay EXCEPT ![p] = "REVIEW_REQUIRED"]
    BY <1>3 DEF Refund, RefundRead, RefundClaim, RefundAnswers, RefundFinish, RefundCrash, Move
  <1>4. ASSUME NEW x \in Auditors, Audit(x)
        PROVE  /\ UNCHANGED <<pay, amount>>
               /\ UNCHANGED total \/ (audit[x] = "summed" /\ x \in fresh /\ total' = live[x])
    BY <1>4 DEF Audit, AuditRead, AuditSum, AuditFinish
  <1>5. ASSUME NEW p \in Refs, Donor(p) PROVE UNCHANGED <<pay, amount, total>>
    BY <1>5 DEF Donor, DonorPays, DonorFails, UrlExpires
  <1>6. CASE ProfileUpdated
    BY <1>6 DEF ProfileUpdated
  <1>7. CASE UNCHANGED vars
    BY <1>7 DEF vars
  <1> HIDE DEF Shaped, ShapeOK, CallsNameRefs, PaymentStatus
  <1> QED
    BY <1>1, <1>2, <1>3, <1>4, <1>5, <1>6, <1>7, Zenon DEF Next

LEMMA SumStep == Shaped /\ SumIsCurrent /\ [Next]_vars => SumIsCurrent'
  <1> SUFFICES ASSUME Shaped, SumIsCurrent, [Next]_vars PROVE SumIsCurrent'
    OBVIOUS
  <1> USE DEF SumIsCurrent, Shaped, ShapeOK
  <1>1. CASE fresh' = {}
    BY <1>1
  <1>2. CASE fresh' # {}
    <2>1. PaidTotal' = PaidTotal
      <3>1. UNCHANGED amount /\ \A p \in Refs : pay'[p] = "PAID" <=> pay[p] = "PAID"
        BY <1>2, LedgerSteps
      <3> QED
        BY <3>1, SameSum
    <2>2. ASSUME NEW x \in Auditors, x \in fresh', audit'[x] = "summed"
          PROVE  \/ x \in fresh /\ audit[x] = "summed" /\ live'[x] = live[x]
                 \/ live'[x] = PaidTotal
      <3> USE DEF calls, audits, provider
      <3>1. ASSUME NEW r \in Starters, Start(r) PROVE UNCHANGED <<fresh, audit, live>>
        BY <3>1 DEF Start, StartCreate, StartRepeat, ReadCheckoutUrl, InitializeAnswers, StartFinish,
                    StartCrash
      <3>2. ASSUME NEW s \in Settlers, Settle(s)
            PROVE  (UNCHANGED fresh \/ fresh' = {}) /\ UNCHANGED <<audit, live>>
        <4>1. CASE SettleFinish(s)
          BY <4>1 DEF SettleFinish, RecordSettlement, RecordPaid
        <4>2. CASE ~SettleFinish(s)
          BY <3>2, <4>2 DEF Settle, VerifyForPayer, HandleEvent, AcceptReview, BeginSettle,
                            VerifyAnswers, SettleGivesUp
        <4> QED
          BY <4>1, <4>2
      <3>3. ASSUME NEW a \in Refunders, Refund(a) PROVE UNCHANGED <<fresh, audit, live>>
        BY <3>3 DEF Refund, RefundRead, RefundClaim, RefundAnswers, RefundFinish, RefundCrash
      <3>4. ASSUME NEW y \in Auditors, Audit(y)
            PROVE  \/ x \in fresh /\ audit[x] = "summed" /\ live'[x] = live[x]
                   \/ live'[x] = PaidTotal
        <4>1. CASE AuditRead(y)
          BY <2>2, <4>1 DEF AuditRead
        <4>2. CASE AuditSum(y)
          BY <2>2, <4>2 DEF AuditSum
        <4>3. CASE AuditFinish(y)
          BY <2>2, <4>3 DEF AuditFinish
        <4> QED
          BY <3>4, <4>1, <4>2, <4>3 DEF Audit
      <3>5. ASSUME NEW p \in Refs, Donor(p) PROVE UNCHANGED <<fresh, audit, live>>
        BY <3>5 DEF Donor, DonorPays, DonorFails, UrlExpires
      <3>6. CASE ProfileUpdated
        BY <1>2, <3>6 DEF ProfileUpdated
      <3>7. CASE UNCHANGED vars
        BY <2>2, <3>7 DEF vars
      <3> QED
        BY <1>2, <2>2, <3>1, <3>2, <3>3, <3>4, <3>5, <3>6, <3>7 DEF Next
    <2> QED
      BY <2>1, <2>2
  <1> QED
    BY <1>1, <1>2

\* The mapping: one status moves, one entry moves; what is counted is what is PAID.
LEMMA EntryMoves ==
  ASSUME Shaped, NEW p \in Refs, NEW to \in PaymentStatus, pay' = [pay EXCEPT ![p] = to]
  PROVE  Entry' = [Entry EXCEPT ![p] = CASE to = "PAID" -> "counted"
                                         [] to \in {"PENDING", "REVIEW_REQUIRED"} -> "open"
                                         [] to \in {"FAILED", "REFUNDED"} -> "closed"]
  BY DEF Entry, PaymentStatus, Shaped, ShapeOK

LEMMA EntryValue ==
  ASSUME Shaped
  PROVE  \A p \in Refs : /\ pay[p] = "none" => Entry[p] = "absent"
                         /\ pay[p] = "PAID" <=> Entry[p] = "counted"
                         /\ pay[p] \in {"PENDING", "REVIEW_REQUIRED"} => Entry[p] = "open"
                         /\ pay[p] \in {"FAILED", "REFUNDED"} => Entry[p] = "closed"
  BY DEF Entry, PaymentStatus, Shaped, ShapeOK

LEMMA LedgerStep ==
  ASSUME Shaped, Shaped', SumIsCurrent, [Next]_vars
  PROVE  [Ledger!Next]_(Ledger!ledger)
  <1>1. CASE UNCHANGED <<pay, amount, total>>
    BY <1>1 DEF Ledger!ledger, Entry
  <1>2. ASSUME NEW p \in Refs, UNCHANGED <<amount, total>>,
               pay[p] \in {"none", "REFUNDED"},
               NEW to \in {"PENDING", "REVIEW_REQUIRED"}, pay' = [pay EXCEPT ![p] = to]
        PROVE  Ledger!Next
    <2>1. Entry' = [Entry EXCEPT ![p] = "open"]
      BY <1>2, EntryMoves DEF PaymentStatus
    <2>2. Ledger!Track(p, {"absent", "closed"}, "open")
      BY <1>2, <2>1, EntryValue DEF Ledger!Track
    <2> QED
      BY <2>2 DEF Ledger!Next
  <1>3. ASSUME NEW p \in Refs, UNCHANGED <<amount, total>>,
               pay[p] \in {"PENDING", "REVIEW_REQUIRED"},
               NEW to \in {"FAILED", "REFUNDED"}, pay' = [pay EXCEPT ![p] = to]
        PROVE  Ledger!Next
    <2>1. Entry' = [Entry EXCEPT ![p] = "closed"]
      BY <1>3, EntryMoves DEF PaymentStatus
    <2>2. Ledger!Track(p, {"open"}, "closed")
      BY <1>3, <2>1, EntryValue DEF Ledger!Track
    <2> QED
      BY <2>2 DEF Ledger!Next
  <1>4. ASSUME NEW p \in Refs, UNCHANGED <<amount, total>>,
               pay[p] = "PENDING", pay' = [pay EXCEPT ![p] = "REVIEW_REQUIRED"]
        PROVE  UNCHANGED Ledger!ledger
    <2>1. Entry' = [Entry EXCEPT ![p] = "open"]
      BY <1>4, EntryMoves DEF PaymentStatus
    <2>2. Entry[p] = "open"
      BY <1>4, EntryValue
    <2>3. Entry' = Entry
      BY <2>1, <2>2 DEF Entry
    <2> QED
      BY <1>4, <2>3 DEF Ledger!ledger
  <1>5. ASSUME NEW p \in Refs, pay[p] \in {"PENDING", "REVIEW_REQUIRED"},
               pay' = [pay EXCEPT ![p] = "PAID"],
               amount' = [amount EXCEPT ![p] = collected[p]],
               total' = total + collected[p]
        PROVE  Ledger!Next
    <2>1. Entry' = [Entry EXCEPT ![p] = "counted"]
      BY <1>5, EntryMoves DEF PaymentStatus
    <2>2. /\ amount' \in [Refs -> Nat] /\ amount'[p] = collected[p]
          /\ \A q \in Refs \ {p} : amount'[q] = amount[q]
      BY <1>5 DEF Shaped, ShapeOK
    <2>3. Ledger!Count(p)
      BY <1>5, <2>1, <2>2, EntryValue DEF Ledger!Count
    <2> QED
      BY <2>3 DEF Ledger!Next
  <1>6. ASSUME UNCHANGED <<pay, amount>>, NEW x \in Auditors, audit[x] = "summed", x \in fresh,
               total' = live[x]
        PROVE  Ledger!Next
    <2>1. Ledger!Counted = {p \in Refs : pay[p] = "PAID"}
      BY EntryValue DEF Ledger!Counted
    <2>2. total' = SumOver(amount, Ledger!Counted)
      BY <1>6, <2>1 DEF SumIsCurrent, PaidTotal
    <2>3. Entry' = Entry
      BY <1>6 DEF Entry
    <2>4. Ledger!SumOver(amount, Ledger!Counted) = SumOver(amount, Ledger!Counted)
      BY DEF SumOver, Ledger!SumOver, MapThenSumSet, Ledger!MapThenSumSet, MapThenFoldSet,
             Ledger!MapThenFoldSet
    <2>5. Ledger!Correct
      BY <1>6, <2>2, <2>3, <2>4 DEF Ledger!Correct
    <2> QED
      BY <2>5 DEF Ledger!Next
  <1> QED
    BY <1>1, <1>2, <1>3, <1>4, <1>5, <1>6, LedgerSteps

\* The donation code implements DonationLedger: a donation is counted once and for good, totalRaised
\* moves by exactly what was counted, and autoCorrect never overwrites a concurrent settlement.
THEOREM DonationLedgerRefined == Spec => ImplementsLedger
  <1>1. Init => SumIsCurrent
    BY DEF Init, SumIsCurrent
  <1>2. Init => Ledger!Init
    <2> SUFFICES ASSUME Init PROVE Ledger!Init
      OBVIOUS
    <2>1. Entry = [p \in Refs |-> "absent"]
      BY DEF Init, Entry
    <2> QED
      BY <2>1, AmountAssumption DEF Init, Ledger!Init
  <1>3. Shaped /\ Shaped' /\ SumIsCurrent /\ [Next]_vars => [Ledger!Next]_(Ledger!ledger)
    BY LedgerStep
  <1> QED
    BY ShapedInit, ShapedStep, SumStep, <1>1, <1>2, <1>3, PTL DEF Spec, ImplementsLedger, Ledger!Spec

-----------------------------------------------------------------------------
(***************************************************************************)
(* Failed payments                                                         *)
(***************************************************************************)
Working(r, p) == start[r].ref = p /\ start[r].pc # "idle"
\* A call that may still open the checkout of p
MayOpen(r, p) == start[r].ref = p /\ start[r].pc \in {"begun", "called"}

OneStart == \A r, q \in Starters, p \in Refs : Working(r, p) /\ Working(q, p) => r = q

\* Until the call that created the row is answered, Chapa knows nothing of the tx_ref; so a clear
\* refusal means that there is no page.
CreatorFirst ==
    \A r \in Starters : start[r].role = "creator" /\ start[r].pc \in {"begun", "called", "rejected"}
        => checkout[start[r].ref] = "none"

NewIsUnknown ==
    \A p \in Refs : pay[p] = "none" => checkout[p] = "none" /\ \A r \in Starters : ~Working(r, p)

FailedIsOver ==
    \A p \in Refs : pay[p] = "FAILED" =>
        \/ checkout[p] = "failed"
        \/ checkout[p] = "none" /\ \A r \in Starters : ~MayOpen(r, p)

FailureIsFinal ==
    \A s \in Settlers : settle[s].pc = "failed" => checkout[settle[s].ref] = "failed"

Starting == OneStart /\ CreatorFirst /\ NewIsUnknown /\ FailedIsOver /\ FailureIsFinal

LEMMA StartingStart ==
  ASSUME Keyed = {} \/ \A r, q \in Starters : r = q,
         Shaped, Starting, NEW r \in Starters, Start(r)
  PROVE  Starting'
  <1> USE DEF Starting, OneStart, CreatorFirst, NewIsUnknown, FailedIsOver, FailureIsFinal, Working,
          MayOpen, Shaped, ShapeOK, StartState, provider
  <1>1. ASSUME NEW p \in Refs, StartCreate(r, p) PROVE Starting'
    <2>1. /\ pay[p] = "none" /\ pay' = [pay EXCEPT ![p] = "PENDING"]
          /\ start' = [start EXCEPT ![r] = [pc |-> "begun", ref |-> p, role |-> "creator"]]
          /\ UNCHANGED <<settle, checkout>>
      BY <1>1 DEF StartCreate
    <2>2. OneStart'
      BY <2>1
    <2>3. CreatorFirst'
      BY <2>1
    <2>4. NewIsUnknown'
      BY <2>1
    <2>5. FailedIsOver' /\ FailureIsFinal'
      BY <2>1
    <2> QED
      BY <2>2, <2>3, <2>4, <2>5
  <1>2. ASSUME NEW p \in Refs, StartRepeat(r, p) PROVE Starting'
    <2>1. /\ pay[p] = "PENDING" /\ UNCHANGED <<pay, settle, checkout>>
          /\ start' = [start EXCEPT ![r] = [pc |-> "begun", ref |-> p, role |-> "repeat"]]
      BY <1>2 DEF StartRepeat
    <2>2. OneStart'
      BY <1>2 DEF StartRepeat
    <2>3. CreatorFirst'
      BY <2>1
    <2>4. NewIsUnknown'
      BY <2>1
    <2>5. FailedIsOver' /\ FailureIsFinal'
      BY <2>1
    <2> QED
      BY <2>2, <2>3, <2>4, <2>5
  <1>3. ASSUME UNCHANGED <<pay, settle, checkout>>,
               \/ start' = [start EXCEPT ![r] = IdleStart]
               \/ start[r].pc = "begun" /\ start' = [start EXCEPT ![r].pc = "called"]
        PROVE  Starting'
    <2>1. \A q \in Starters, p \in Refs : /\ Working(q, p)' => Working(q, p)
                                          /\ MayOpen(q, p)' => MayOpen(q, p)
      BY <1>3, NoneAssumption DEF IdleStart
    <2>2. OneStart'
      BY <2>1
    <2>3. NewIsUnknown' /\ FailedIsOver' /\ FailureIsFinal'
      BY <1>3, <2>1
    <2>4. CreatorFirst'
      BY <1>3 DEF IdleStart
    <2> QED
      BY <2>2, <2>3, <2>4
  <1>4. CASE InitializeAnswers(r)
    <2> DEFINE p == start[r].ref
    <2>1. /\ UNCHANGED <<pay, settle>> /\ start[r].pc = "called"
          /\ \A q \in Starters : start'[q].ref = start[q].ref /\ start'[q].role = start[q].role
          /\ \A q \in Starters \ {r} : start'[q] = start[q]
          /\ start'[r].pc \in {"ok", "rejected", "uncertain"}
      BY <1>4 DEF InitializeAnswers
    <2>2. p \in Refs
      BY <2>1 DEF CallsNameRefs
    <2>3. \/ UNCHANGED checkout
          \/ /\ checkout[p] = "none" /\ checkout' = [checkout EXCEPT ![p] = "open"]
             /\ start'[r].pc # "rejected"
      BY <1>4 DEF InitializeAnswers
    <2>4. OneStart'
      BY <2>1
    <2>5. CreatorFirst'
      BY <2>1, <2>2, <2>3 DEF CallsNameRefs
    <2>6. NewIsUnknown'
      BY <2>1, <2>2, <2>3
    <2>7. FailedIsOver'
      BY <2>1, <2>2, <2>3
    <2>8. FailureIsFinal'
      BY <2>1, <2>2, <2>3 DEF CallsNameRefs
    <2> QED
      BY <2>4, <2>5, <2>6, <2>7, <2>8
  <1>5. CASE StartFinish(r)
    <2> DEFINE p == start[r].ref
    <2>1. /\ UNCHANGED <<settle, checkout>> /\ start' = [start EXCEPT ![r] = IdleStart]
          /\ p \in Refs /\ start[r].pc # "idle"
          /\ \/ UNCHANGED pay
             \/ /\ start[r].pc = "rejected" /\ start[r].role = "creator" /\ pay[p] = "PENDING"
                /\ pay' = [pay EXCEPT ![p] = "FAILED"]
      BY <1>5 DEF StartFinish, Move, CallsNameRefs
    <2>2. CASE UNCHANGED pay
      BY <1>3, <2>1, <2>2
    <2>3. CASE /\ start[r].pc = "rejected" /\ start[r].role = "creator" /\ pay[p] = "PENDING"
               /\ pay' = [pay EXCEPT ![p] = "FAILED"]
      <3>1. checkout[p] = "none" /\ \A q \in Starters \ {r} : ~Working(q, p)
        BY <2>1, <2>3
      <3>2. OneStart' /\ CreatorFirst' /\ FailureIsFinal'
        BY <2>1 DEF IdleStart
      <3>3. NewIsUnknown'
        BY <2>1, <2>3 DEF IdleStart
      <3>4. FailedIsOver'
        BY <2>1, <2>3, <3>1 DEF IdleStart
      <3> QED
        BY <3>2, <3>3, <3>4
    <2> QED
      BY <2>1, <2>2, <2>3
  <1>6. CASE ReadCheckoutUrl(r)
    BY <1>3, <1>6 DEF ReadCheckoutUrl
  <1>7. CASE StartCrash(r)
    BY <1>3, <1>7 DEF StartCrash
  <1> HIDE DEF Starting, Shaped
  <1> QED
    BY <1>1, <1>2, <1>4, <1>5, <1>6, <1>7 DEF Start

LEMMA StartingSettle ==
  ASSUME Shaped, Starting, NEW s \in Settlers, Settle(s)
  PROVE  Starting'
  <1> USE DEF Starting, OneStart, CreatorFirst, NewIsUnknown, FailedIsOver, FailureIsFinal, Working,
          MayOpen, Shaped, ShapeOK, SettleState, provider
  <1>1. CASE SettleFinish(s)
    <2> DEFINE p == settle[s].ref
    <2>1. /\ UNCHANGED <<start, checkout>> /\ settle' = [settle EXCEPT ![s] = IdleSettle]
          /\ p \in Refs /\ RecordSettlement(p, settle[s].pc, settle[s].mode)
      BY <1>1 DEF SettleFinish, CallsNameRefs
    <2>2. \/ settle[s].pc = "failed" /\ pay' = [pay EXCEPT ![p] = "FAILED"]
          \/ UNCHANGED pay
          \/ pay[p] # "none" /\ \E to \in {"PAID", "REVIEW_REQUIRED"} : pay' = [pay EXCEPT ![p] = to]
      BY <2>1 DEF RecordSettlement, RecordPaid, Move
    <2>3. FailureIsFinal' /\ OneStart' /\ CreatorFirst'
      BY <2>1 DEF IdleSettle
    <2>4. NewIsUnknown'
      BY <2>1, <2>2
    <2>5. FailedIsOver'
      BY <2>1, <2>2
    <2> QED
      BY <2>3, <2>4, <2>5
  <1>2. ASSUME UNCHANGED <<pay, start, checkout>>,
               \A t \in Settlers : settle'[t].pc = "failed" => checkout[settle'[t].ref] = "failed"
        PROVE  Starting'
    BY <1>2
  <1>3. CASE ~SettleFinish(s)
    <2>1. UNCHANGED <<pay, start, checkout>>
      BY <1>3 DEF Settle, VerifyForPayer, HandleEvent, AcceptReview, BeginSettle, VerifyAnswers,
                  SettleGivesUp
    <2>2. \A t \in Settlers : settle'[t].pc = "failed" => checkout[settle'[t].ref] = "failed"
      BY <1>3 DEF Settle, VerifyForPayer, HandleEvent, AcceptReview, BeginSettle, VerifyAnswers,
                  SettleGivesUp, IdleSettle
    <2> QED
      BY <1>2, <2>1, <2>2
  <1> QED
    BY <1>1, <1>3

LEMMA StartingStep ==
  ASSUME Keyed = {} \/ \A r, q \in Starters : r = q
  PROVE  Shaped /\ Starting /\ [Next]_vars => Starting'
  <1> SUFFICES ASSUME Shaped, Starting, [Next]_vars PROVE Starting'
    OBVIOUS
  <1> USE DEF Starting, OneStart, CreatorFirst, NewIsUnknown, FailedIsOver, FailureIsFinal, Working,
          MayOpen, Shaped, ShapeOK, PaymentStatus
  <1>1. ASSUME UNCHANGED <<start, settle, checkout>>,
               \A p \in Refs : pay'[p] \in {"none", "FAILED"} => pay'[p] = pay[p]
        PROVE  Starting'
    BY <1>1
  <1>2. ASSUME NEW a \in Refunders, Refund(a) PROVE Starting'
    <2>1. UNCHANGED <<start, settle, checkout>>
      BY <1>2 DEF Refund, RefundRead, RefundClaim, RefundAnswers, RefundFinish, RefundCrash, provider
    <2>2. \A p \in Refs : pay'[p] \in {"none", "FAILED"} => pay'[p] = pay[p]
      BY <1>2, RefundSteps
    <2> QED
      BY <1>1, <2>1, <2>2
  <1>3. ASSUME NEW x \in Auditors, Audit(x) PROVE Starting'
    BY <1>1, <1>3 DEF Audit, AuditRead, AuditSum, AuditFinish, provider
  <1>4. ASSUME NEW p \in Refs, Donor(p) PROVE Starting'
    <2>1. UNCHANGED <<pay, start, settle>>
      BY <1>4 DEF Donor, DonorPays, DonorFails, UrlExpires, calls
    <2>2. \A q \in Refs : checkout[q] \in {"none", "failed"} => checkout'[q] = checkout[q]
      BY <1>4 DEF Donor, DonorPays, DonorFails, UrlExpires, provider
    <2> QED
      BY <2>1, <2>2 DEF CallsNameRefs
  <1>5. CASE ProfileUpdated
    BY <1>1, <1>5 DEF ProfileUpdated, calls, provider
  <1>6. CASE UNCHANGED vars
    BY <1>1, <1>6 DEF vars, calls, provider
  <1> HIDE DEF Starting, Shaped
  <1> QED
    BY <1>2, <1>3, <1>4, <1>5, <1>6, StartingStart, StartingSettle DEF Next

\* Unless two calls work on one Idempotency-Key at once, a FAILED payment has no page a donor could
\* still pay, whatever crashes or gets lost in start and settlePayment.  (With two calls it may:
\* the run donation_keyed shows how.)
THEOREM FailedIsUnpayable ==
  ASSUME Keyed = {} \/ \A r, q \in Starters : r = q
  PROVE  Spec => []FailedHasNoCheckout
  <1>1. Init => Starting
    BY DEF Init, Starting, OneStart, CreatorFirst, NewIsUnknown, FailedIsOver, FailureIsFinal, Working,
           MayOpen, IdleStart, IdleSettle
  <1>2. Shaped /\ Starting /\ [Next]_vars => Starting'
    BY StartingStep
  <1>3. Starting => FailedHasNoCheckout
    BY DEF Starting, FailedIsOver, FailedHasNoCheckout
  <1> QED
    BY ShapedInit, ShapedStep, <1>1, <1>2, <1>3, PTL DEF Spec

-----------------------------------------------------------------------------
(***************************************************************************)
(* Types, the sums included                                                *)
(***************************************************************************)
Totals == total \in Nat /\ \A x \in Auditors : cached[x] \in Nat /\ live[x] \in Nat

LEMMA PaidTotalNat == ASSUME Shaped PROVE PaidTotal \in Nat
  <1> DEFINE Paid == {p \in Refs : pay[p] = "PAID"}
  <1>1. IsFiniteSet(Paid)
    BY FiniteAssumption, FS_Subset
  <1>2. \A p \in Paid : amount[p] \in Nat
    BY DEF Shaped, ShapeOK
  <1>3. SumOver(amount, Paid) \in Nat
    <2> HIDE DEF Paid
    <2> QED
      BY <1>1, <1>2, SumNat
  <1> QED
    BY <1>3 DEF PaidTotal

LEMMA TotalsStep == Shaped /\ Totals /\ [Next]_vars => Totals'
  <1> SUFFICES ASSUME Shaped, Totals, [Next]_vars PROVE Totals'
    OBVIOUS
  <1>1. total' \in Nat
    BY LedgerSteps DEF Totals, Shaped, ShapeOK
  <1>2. \A x \in Auditors : cached'[x] \in Nat /\ live'[x] \in Nat
    <2>1. CASE UNCHANGED <<cached, live>>
      BY <2>1 DEF Totals
    <2>2. ASSUME NEW y \in Auditors, Audit(y)
          PROVE  \A x \in Auditors : cached'[x] \in Nat /\ live'[x] \in Nat
      <3>1. CASE AuditRead(y)
        BY <3>1 DEF AuditRead, Totals, Shaped, ShapeOK
      <3>2. CASE AuditSum(y)
        <4>1. live' = [live EXCEPT ![y] = PaidTotal] /\ UNCHANGED cached
          BY <3>2 DEF AuditSum
        <4> QED
          BY <4>1, PaidTotalNat DEF Totals, Shaped, ShapeOK
      <3>3. CASE AuditFinish(y)
        BY <3>3, <2>1 DEF AuditFinish
      <3> QED
        BY <2>2, <3>1, <3>2, <3>3 DEF Audit
    <2>3. ASSUME NEW r \in Starters, Start(r) PROVE UNCHANGED <<cached, live>>
      BY <2>3 DEF Start, StartCreate, StartRepeat, ReadCheckoutUrl, InitializeAnswers, StartFinish,
                  StartCrash, audits
    <2>4. ASSUME NEW s \in Settlers, Settle(s) PROVE UNCHANGED <<cached, live>>
      BY <2>4 DEF Settle, VerifyForPayer, HandleEvent, AcceptReview, BeginSettle, VerifyAnswers,
                  SettleGivesUp, SettleFinish, audits
    <2>5. ASSUME NEW a \in Refunders, Refund(a) PROVE UNCHANGED <<cached, live>>
      BY <2>5 DEF Refund, RefundRead, RefundClaim, RefundAnswers, RefundFinish, RefundCrash, audits
    <2>6. ASSUME NEW p \in Refs, Donor(p) PROVE UNCHANGED <<cached, live>>
      BY <2>6 DEF Donor, DonorPays, DonorFails, UrlExpires, calls, audits
    <2>7. CASE ProfileUpdated \/ UNCHANGED vars
      BY <2>1, <2>7 DEF ProfileUpdated, vars, calls, audits
    <2> QED
      BY <2>1, <2>2, <2>3, <2>4, <2>5, <2>6, <2>7 DEF Next
  <1> QED
    BY <1>1, <1>2 DEF Totals

\* Types, the totals included: totalRaised and everything a reconciliation reads or writes is a sum
\* of collected amounts, never negative.
THEOREM DonationTyped == Spec => []TypeOK
  <1>1. Init => Totals
    BY AmountAssumption DEF Init, Totals
  <1>2. Shaped /\ Totals => TypeOK
    BY DEF Shaped, Totals, TypeOK
  <1> QED
    BY ShapedInit, ShapedStep, TotalsStep, <1>1, <1>2, PTL DEF Spec

-----------------------------------------------------------------------------
(***************************************************************************)
(* The total is exact                                                      *)
(***************************************************************************)
Exact == total = PaidTotal

LEMMA GrowsBy ==
  ASSUME NEW e, NEW f, NEW S, NEW T, NEW p \in T, S = T \ {p}, IsFiniteSet(T),
         \A q \in T : f[q] \in Nat, \A q \in S : f[q] = e[q]
  PROVE  SumOver(f, T) = f[p] + SumOver(e, S)
  <1>1. SumOver(f, T) = f[p] + SumOver(f, S)
    BY SumRemove
  <1>2. IsFiniteSet(S)
    BY FS_Subset
  <1>3. SumOver(f, S) = SumOver(e, S)
    BY <1>2, SumSame
  <1> QED
    BY <1>1, <1>3

LEMMA CountingAdds ==
  \A p \in Refs :
     /\ Shaped /\ pay[p] # "PAID" /\ pay' = [pay EXCEPT ![p] = "PAID"]
     /\ amount' = [amount EXCEPT ![p] = collected[p]]
     => PaidTotal' = PaidTotal + collected[p]
  <1> TAKE p \in Refs
  <1>1. HAVE /\ Shaped /\ pay[p] # "PAID" /\ pay' = [pay EXCEPT ![p] = "PAID"]
             /\ amount' = [amount EXCEPT ![p] = collected[p]]
  <1> DEFINE Old == {q \in Refs : pay[q] = "PAID"}
             New == {q \in Refs : pay'[q] = "PAID"}
  <1>2. Old = New \ {p} /\ p \in New /\ New \subseteq Refs
    BY <1>1 DEF Shaped, ShapeOK
  <1>3. (\A q \in New : amount'[q] \in Nat) /\ (\A q \in Old : amount'[q] = amount[q])
    BY <1>1 DEF Shaped, ShapeOK
  <1>4. amount'[p] = collected[p] /\ collected[p] \in Nat
    BY <1>1 DEF Shaped, ShapeOK
  <1>5. IsFiniteSet(New)
    BY <1>2, FiniteAssumption, FS_Subset
  <1>6. PaidTotal = SumOver(amount, Old) /\ PaidTotal' = SumOver(amount', New)
    BY DEF PaidTotal
  <1> HIDE DEF Old, New
  <1>7. SumOver(amount', New) = amount'[p] + SumOver(amount, Old)
    BY <1>2, <1>3, <1>5, GrowsBy
  <1>8. PaidTotal' = collected[p] + PaidTotal
    BY <1>4, <1>6, <1>7, Zenon
  <1> QED
    BY <1>1, <1>4, <1>8, PaidTotalNat

LEMMA ExactStep == Shaped /\ SumIsCurrent /\ Exact /\ [Next]_vars => Exact'
  <1> SUFFICES ASSUME Shaped, SumIsCurrent, Exact, [Next]_vars PROVE Exact'
    OBVIOUS
  <1>1. ASSUME UNCHANGED amount, \A p \in Refs : pay'[p] = "PAID" <=> pay[p] = "PAID",
               total' \in {total, PaidTotal}
        PROVE  Exact'
    BY <1>1, SameSum DEF Exact
  <1>2. ASSUME NEW p \in Refs, pay[p] \in {"PENDING", "REVIEW_REQUIRED"},
               pay' = [pay EXCEPT ![p] = "PAID"],
               amount' = [amount EXCEPT ![p] = collected[p]],
               total' = total + collected[p]
        PROVE  Exact'
    BY <1>2, CountingAdds DEF Exact
  <1>3. CASE \/ UNCHANGED <<pay, amount, total>>
             \/ /\ UNCHANGED <<amount, total>>
                /\ \E p \in Refs, to \in PaymentStatus \ {"PAID"} :
                      pay[p] # "PAID" /\ pay' = [pay EXCEPT ![p] = to]
    BY <1>1, <1>3 DEF Shaped, ShapeOK, PaymentStatus
  <1>4. ASSUME UNCHANGED <<pay, amount>>, NEW x \in Auditors, audit[x] = "summed", x \in fresh,
               total' = live[x]
        PROVE  Exact'
    BY <1>1, <1>4 DEF SumIsCurrent
  <1> QED
    BY <1>2, <1>3, <1>4, LedgerSteps DEF PaymentStatus

\* From a correct total, no interleaving of settlements, refunds and reconciliations ever makes
\* totalRaised differ from the sum of the PAID payments: autoCorrect has nothing to repair.
THEOREM TotalStaysExact ==
  ASSUME Drift = {0}
  PROVE  Spec => [](total = PaidTotal)
  <1>1. Init => SumIsCurrent /\ Exact
    <2> SUFFICES ASSUME Init PROVE SumIsCurrent /\ Exact
      OBVIOUS
    <2>1. {p \in Refs : pay[p] = "PAID"} = {}
      BY DEF Init
    <2>2. PaidTotal = 0
      BY <2>1, SumEmpty DEF PaidTotal
    <2>3. SumIsCurrent
      BY DEF Init, SumIsCurrent
    <2> QED
      BY <2>2, <2>3 DEF Init, Exact
  <1>2. Exact => total = PaidTotal
    BY DEF Exact
  <1> QED
    BY ShapedInit, ShapedStep, SumStep, ExactStep, <1>1, <1>2, PTL DEF Spec
=============================================================================
