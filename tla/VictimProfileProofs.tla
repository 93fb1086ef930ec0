------------------------ MODULE VictimProfileProofs ------------------------
(***************************************************************************)
(* The safety of publication, for any number of admins and any set of      *)
(* optional handlers.                                                      *)
(*                                                                         *)
(* PublishedIsReviewed is not inductive: publish looks at the gates, and   *)
(* that they stay up while the profile is approved has to be known.  The   *)
(* inductive invariant is Safe, the conjunction of TypeOK with             *)
(* ApprovedIsReviewed, PublishedIsApproved, ClosedTakesNoDonations,        *)
(* ChildReviewedByTwo and SeenByPrivacy.                                   *)
(***************************************************************************)
EXTENDS VictimProfile, TLAPS

\* An approved profile has every other gate.
ApprovedIsReviewed ==
    "isAdminApproved" \in on => getMissingApprovalGates(on) = {}

\* A published profile is approved.
PublishedIsApproved == "isPublished" \in on => "isAdminApproved" \in on

\* Privacy review has seen the text it stands for.
SeenByPrivacy == "isPrivacyReviewed" \in on => text = "seen"

\* The inductive invariant.
Safe ==
    /\ TypeOK
    /\ ApprovedIsReviewed
    /\ PublishedIsApproved
    /\ ClosedTakesNoDonations
    /\ ChildReviewedByTwo
    /\ SeenByPrivacy

\* deriveStatus only ever yields a status of the review pipeline.
LEMMA DeriveStatusInPipeline ==
    ASSUME NEW s PROVE deriveStatus(s) \in PIPELINE_STATUSES
  BY DEF deriveStatus, PIPELINE_STATUSES

\* A type-correct row, before anything exists, is safe.
LEMMA InitSafe == Init => Safe
  BY AdminsAssumption DEF Init, Safe, TypeOK, ApprovedIsReviewed, PublishedIsApproved,
     ClosedTakesNoDonations, ChildReviewedByTwo, SeenByPrivacy, ChildFlag, Statuses

\* Handlers of the creator keep the invariant.
LEMMA CreatorSafe == Safe /\ CreatorStep => Safe'
  <1> SUFFICES ASSUME Safe, CreatorStep PROVE Safe'
    OBVIOUS
  <1> USE DEF Safe, TypeOK, ApprovedIsReviewed, PublishedIsApproved, ClosedTakesNoDonations,
          ChildReviewedByTwo, SeenByPrivacy, getMissingApprovalGates, ChildSafetySatisfied,
          Statuses, Columns, SettableGates, ReviewGates, ChildFlag, PIPELINE_STATUSES,
          child, proposal, ops, Write, RowOnly, ClearChildReview
  <1>1. ASSUME NEW flag \in ChildFlag, Create(flag) PROVE Safe'
    BY <1>1 DEF Create
  <1>2. ASSUME NEW flag \in ChildFlag, UpdateMine(flag) PROVE Safe'
    BY <1>2, AdminsAssumption DEF UpdateMine, ResetGates, Mine
  <1>3. CASE WithdrawMine
    BY <1>3 DEF WithdrawMine
  <1>4. CASE ResubmitMine
    BY <1>4, DeriveStatusInPipeline DEF ResubmitMine
  <1> QED
    BY <1>1, <1>2, <1>3, <1>4 DEF CreatorStep

\* Handlers of the reviewers keep the invariant.
LEMMA ReviewSafe == ASSUME Safe, NEW a \in Admins, ReviewStep(a) PROVE Safe'
  <1> USE DEF Safe, TypeOK, ApprovedIsReviewed, PublishedIsApproved, ClosedTakesNoDonations,
          ChildReviewedByTwo, SeenByPrivacy, getMissingApprovalGates, ChildSafetySatisfied,
          Statuses, Columns, SettableGates, ReviewGates, ChildFlag, PIPELINE_STATUSES,
          child, proposal, ops, Write, RowOnly, ClearChildReview
  <1>1. CASE Claim(a)
    BY <1>1, AdminsAssumption DEF Claim
  <1>2. CASE Unclaim(a)
    BY <1>2, AdminsAssumption DEF Unclaim
  <1>3. ASSUME NEW gates \in SUBSET SettableGates, UpdateGates(a, gates) PROVE Safe'
    BY <1>3, AdminsAssumption, DeriveStatusInPipeline DEF UpdateGates
  <1>4. CASE Publish(a)
    BY <1>4, AdminsAssumption DEF Publish, MayPublish
  <1>5. CASE Unpublish(a)
    BY <1>5, AdminsAssumption DEF Unpublish
  <1>6. CASE Reject(a)
    BY <1>6, AdminsAssumption DEF Reject
  <1>7. CASE Resubmit(a)
    BY <1>7, AdminsAssumption, DeriveStatusInPipeline DEF Resubmit
  <1>8. CASE RequestChanges(a)
    BY <1>8, AdminsAssumption DEF RequestChanges
  <1>9. ASSUME NEW flag \in ChildFlag, Update(a, flag) PROVE Safe'
    BY <1>9, AdminsAssumption DEF Update, ResetGates
  <1> QED
    BY <1>1, <1>2, <1>3, <1>4, <1>5, <1>6, <1>7, <1>8, <1>9 DEF ReviewStep

\* Child-safety and consent handlers keep the invariant.
LEMMA SafetySafe == ASSUME Safe, NEW a \in Admins, SafetyStep(a) PROVE Safe'
  <1> USE DEF Safe, TypeOK, ApprovedIsReviewed, PublishedIsApproved, ClosedTakesNoDonations,
          ChildReviewedByTwo, SeenByPrivacy, getMissingApprovalGates, ChildSafetySatisfied,
          Statuses, Columns, SettableGates, ReviewGates, ChildFlag, PIPELINE_STATUSES,
          child, proposal, ops, Write, RowOnly, ClearChildReview
  <1>1. CASE ChildFirstConfirm(a)
    BY <1>1, AdminsAssumption DEF ChildFirstConfirm
  <1>2. CASE ChildSecondConfirm(a)
    BY <1>2, AdminsAssumption, DeriveStatusInPipeline DEF ChildSecondConfirm
  <1>3. CASE ChildReverse(a)
    BY <1>3, AdminsAssumption, DeriveStatusInPipeline DEF ChildReverse
  <1>4. CASE RevokeConsent(a)
    BY <1>4, AdminsAssumption, DeriveStatusInPipeline DEF RevokeConsent
  <1>5. CASE RecordConsent(a)
    BY <1>5, AdminsAssumption, DeriveStatusInPipeline DEF RecordConsent
  <1>6. ASSUME NEW flag \in ChildFlag, ProposeChildFlag(a, flag) PROVE Safe'
    BY <1>6, AdminsAssumption DEF ProposeChildFlag
  <1>7. CASE ConfirmChildFlag(a)
    <2>1. on' = (on \ {"involvesChild", "isChildSafetyReviewed", "isAdminApproved",
                       "isPublished", "isFeatured"}) \cup proposedFlag
      BY <1>7 DEF ConfirmChildFlag, WithChildFlag
    <2>2. status' \in PIPELINE_STATUSES \/ status' = status
      BY <1>7, DeriveStatusInPipeline DEF ConfirmChildFlag
    <2>3. /\ childFirst' = None /\ childSecond' = None
          /\ proposedBy' = None /\ proposedFlag' = {}
          /\ UNCHANGED <<claimedBy, text, bank, edit, bankEdit, anon>>
      BY <1>7 DEF ConfirmChildFlag
    <2> QED
      BY <2>1, <2>2, <2>3
  <1> QED
    BY <1>1, <1>2, <1>3, <1>4, <1>5, <1>6, <1>7 DEF SafetyStep

\* Takedown, donation, completion and deletion handlers keep the invariant.
LEMMA LifecycleSafe == ASSUME Safe, NEW a \in Admins, LifecycleStep(a) PROVE Safe'
  <1> USE DEF Safe, TypeOK, ApprovedIsReviewed, PublishedIsApproved, ClosedTakesNoDonations,
          ChildReviewedByTwo, SeenByPrivacy, getMissingApprovalGates, ChildSafetySatisfied,
          Statuses, Columns, SettableGates, ReviewGates, ChildFlag, PIPELINE_STATUSES,
          child, proposal, ops, Write, RowOnly, ClearChildReview
  <1>1. CASE Takedown(a)
    BY <1>1, AdminsAssumption DEF Takedown
  <1>2. CASE LiftTakedown(a)
    BY <1>2, AdminsAssumption DEF LiftTakedown
  <1>3. CASE PauseDonations(a)
    BY <1>3, AdminsAssumption DEF PauseDonations
  <1>4. CASE ResumeDonations(a)
    BY <1>4, AdminsAssumption DEF ResumeDonations
  <1>5. CASE Complete(a)
    BY <1>5, AdminsAssumption DEF Complete
  <1>6. CASE Reopen(a)
    <2>1. UNCHANGED <<claimedBy, childFirst, childSecond, proposedBy, proposedFlag, text, bank,
                      edit, bankEdit, anon>>
      BY <1>6 DEF Reopen
    <2>2. {"takedownAt", "deletedAt"} \cap on = {}
      BY <1>6 DEF Reopen
    <2>3. CASE MayPublish
      <3>1. status' = "PUBLISHED" /\ on' = (on \ {"donationsPaused"}) \cup {"isPublished"}
        BY <1>6, <2>3 DEF Reopen
      <3> QED
        BY <2>1, <2>2, <2>3, <3>1 DEF MayPublish
    <2>4. CASE ~MayPublish
      <3>1. status' = deriveStatus(on) /\ on' = on \ {"isPublished", "donationsPaused"}
        BY <1>6, <2>4 DEF Reopen
      <3>2. deriveStatus(on) \in PIPELINE_STATUSES
        BY DeriveStatusInPipeline
      <3> QED
        BY <2>1, <2>2, <3>1, <3>2
    <2> QED
      BY <2>3, <2>4
  <1>7. CASE Feature(a)
    BY <1>7, AdminsAssumption DEF Feature
  <1>8. CASE Unfeature(a)
    BY <1>8, AdminsAssumption DEF Unfeature
  <1>9. CASE SoftDelete(a)
    BY <1>9, AdminsAssumption DEF SoftDelete
  <1>10. CASE Restore(a)
    BY <1>10, AdminsAssumption DEF Restore
  <1>11. CASE Remove(a)
    BY <1>11, AdminsAssumption DEF Remove
  <1>12. ASSUME NEW hold \in SUBSET {"legalHold"}, SetLegalHold(a, hold) PROVE Safe'
    BY <1>12, AdminsAssumption DEF SetLegalHold
  <1> QED
    BY <1>1, <1>2, <1>3, <1>4, <1>5, <1>6, <1>7, <1>8, <1>9, <1>10, <1>11, <1>12 DEF LifecycleStep

\* The first writes of the handlers of several writes keep the invariant.
LEMMA MultiSafe == ASSUME Safe, NEW a \in Admins, MultiStep(a) PROVE Safe'
  <1> USE DEF Safe, TypeOK, ApprovedIsReviewed, PublishedIsApproved, ClosedTakesNoDonations,
          ChildReviewedByTwo, SeenByPrivacy, getMissingApprovalGates, ChildSafetySatisfied,
          Statuses, Columns, SettableGates, ReviewGates, ChildFlag, PIPELINE_STATUSES,
          child, proposal, ops, Write, RowOnly, ClearChildReview
  <1>1. CASE AdminEditText(a)
    BY <1>1, AdminsAssumption DEF AdminEditText
  <1>2. CASE BankEditProfile(a)
    BY <1>2, AdminsAssumption, DeriveStatusInPipeline DEF BankEditProfile
  <1>3. CASE VerifyBankDetails(a)
    BY <1>3, AdminsAssumption DEF VerifyBankDetails
  <1>4. CASE AnonymizeCheck(a)
    BY <1>4, AdminsAssumption DEF AnonymizeCheck
  <1> QED
    BY <1>1, <1>2, <1>3, <1>4 DEF MultiStep

\* Their later, unconditional writes keep it too.
LEMMA ContinueSafe == ASSUME Safe, Continue PROVE Safe'
  <1> USE DEF Safe, TypeOK, ApprovedIsReviewed, PublishedIsApproved, ClosedTakesNoDonations,
          ChildReviewedByTwo, SeenByPrivacy, getMissingApprovalGates, ChildSafetySatisfied,
          Statuses, Columns, SettableGates, ReviewGates, ChildFlag, PIPELINE_STATUSES,
          child, proposal, ops, Write, RowOnly, ClearChildReview
  <1>1. CASE AdminEditReread
    BY <1>1, AdminsAssumption, DeriveStatusInPipeline DEF AdminEditReread
  <1>2. CASE AdminEditStatus
    BY <1>2, AdminsAssumption DEF AdminEditStatus
  <1>3. CASE BankEditUpsert
    BY <1>3, AdminsAssumption DEF BankEditUpsert
  <1>4. CASE AnonymizeWrite
    BY <1>4, AdminsAssumption DEF AnonymizeWrite
  <1> QED
    BY <1>1, <1>2, <1>3, <1>4 DEF Continue

\* Every step keeps the invariant; so does the passing of a proposal's 72 hours.
LEMMA StepSafe == Safe /\ [Next]_vars => Safe'
  <1> SUFFICES ASSUME Safe, [Next]_vars PROVE Safe'
    OBVIOUS
  <1>1. CASE CreatorStep
    BY <1>1, CreatorSafe
  <1>2. CASE ProposalExpires
    BY <1>2 DEF ProposalExpires, Safe, TypeOK, ApprovedIsReviewed, PublishedIsApproved,
       ClosedTakesNoDonations, ChildReviewedByTwo, SeenByPrivacy, ChildFlag, child, ops
  <1>3. ASSUME NEW a \in Admins, ReviewStep(a) PROVE Safe'
    BY <1>3, ReviewSafe
  <1>4. ASSUME NEW a \in Admins, SafetyStep(a) PROVE Safe'
    BY <1>4, SafetySafe
  <1>5. ASSUME NEW a \in Admins, LifecycleStep(a) PROVE Safe'
    BY <1>5, LifecycleSafe
  <1>6. ASSUME NEW a \in Admins, MultiStep(a) PROVE Safe'
    BY <1>6, MultiSafe
  <1>7. CASE Continue
    BY <1>7, ContinueSafe
  <1>8. CASE UNCHANGED vars
    BY <1>8 DEF vars, child, proposal, ops, Safe, TypeOK, ApprovedIsReviewed,
       PublishedIsApproved, ClosedTakesNoDonations, ChildReviewedByTwo, SeenByPrivacy,
       getMissingApprovalGates, ChildSafetySatisfied
  <1> QED
    BY <1>1, <1>2, <1>3, <1>4, <1>5, <1>6, <1>7, <1>8 DEF Next

\* The inductive invariant holds in every reachable state.
LEMMA AlwaysSafe == Spec => []Safe
  BY InitSafe, StepSafe, PTL DEF Spec

\* Every column always holds a value of its type.
THEOREM ProfileTypeCorrect == Spec => []TypeOK
  <1>1. Safe => TypeOK
    BY DEF Safe
  <1> QED
    BY <1>1, AlwaysSafe, PTL

\* Whatever the admins do and in whatever order, a published profile is approved and passed
\* every review gate, the child-safety gate included when it involves a child.
THEOREM PublishedReviewed == Spec => []PublishedIsReviewed
  <1>1. Safe => PublishedIsReviewed
    BY DEF Safe, PublishedIsReviewed, PublishedIsApproved, ApprovedIsReviewed
  <1> QED
    BY <1>1, AlwaysSafe, PTL

\* A profile that is taken down, deleted or completed never takes donations.
THEOREM ClosedNoDonations == Spec => []ClosedTakesNoDonations
  <1>1. Safe => ClosedTakesNoDonations
    BY DEF Safe
  <1> QED
    BY <1>1, AlwaysSafe, PTL

\* The child-safety gate always rests on two different admins.
THEOREM ChildReviewByTwo == Spec => []ChildReviewedByTwo
  <1>1. Safe => ChildReviewedByTwo
    BY DEF Safe
  <1> QED
    BY <1>1, AlwaysSafe, PTL

\* No text is public that privacy review has not seen since it last changed.
THEOREM PublishedTextSeen == Spec => []PublishedTextWasSeen
  <1>1. Safe => PublishedTextWasSeen
    BY DEF Safe, PublishedTextWasSeen, SeenByPrivacy, PublishedIsApproved, ApprovedIsReviewed,
       getMissingApprovalGates
  <1> QED
    BY <1>1, AlwaysSafe, PTL
============================================================================
