--------------------------- MODULE VictimProfile ---------------------------
(***************************************************************************)
(* The life of one victim profile: review gates, publication, takedown,    *)
(* child safety, consent, completion, deletion and anonymisation.          *)
(*                                                                         *)
(* Every handler reads the row, checks it, and writes it back with         *)
(* conditionalUpdate, an UPDATE ... WHERE updatedAt = <what was read>.     *)
(* Such a handler takes effect at its write or not at all, so it is one    *)
(* action.  Three handlers also write without that condition, adminEdit    *)
(* (status), anonymize and updateBankDetails (the payout destination):     *)
(* these are split into the steps other requests can come between.         *)
(*                                                                         *)
(* `on' is the set of boolean and nullable-timestamp columns of the row    *)
(* that are true or set.  Text, media, reasons and dates are left out.     *)
(***************************************************************************)
EXTENDS FiniteSets

CONSTANTS
    Admins,       \* staff accounts
    SuperAdmins,  \* those with role SUPER_ADMIN
    Handlers,     \* optional handlers that are called in this instance
    None          \* "nobody"

ASSUME AdminsAssumption == SuperAdmins \subseteq Admins /\ None \notin Admins
ASSUME HandlersAssumption ==
    Handlers \subseteq {"adminEdit", "bankEdit", "anonymize", "claim", "childFlag", "feature",
                          "legalHold"}

VARIABLES
    status,        \* VictimProfileStatus, "none" while no row exists
    on,            \* columns that are true or set
    claimedBy,     \* claimedByUserId
    childFirst,    \* childSafetyFirstConfirmedByUserId
    childSecond,   \* history: who gave the second confirmation
    proposedBy,    \* childFlagProposedById, None once 72 hours have passed
    proposedFlag,  \* childFlagProposedValue
    text,          \* history: "unseen" once the text changed since the last privacy review
    bank,          \* the payout destination: none, unverified or verified
    edit,          \* progress of adminEdit
    bankEdit,      \* progress of updateBankDetails
    anon           \* progress of anonymize

child == <<childFirst, childSecond>>
proposal == <<proposedBy, proposedFlag>>
ops == <<edit, bankEdit, anon>>
vars == <<status, on, claimedBy, child, proposal, text, bank, ops>>

----------------------------------------------------------------------------
(* Constants of the source.                                                *)

PIPELINE_STATUSES ==
    {"PENDING", "UNDER_REVIEW", "VERIFIED", "CONSENT_PENDING", "APPROVED"}

Statuses == PIPELINE_STATUSES \cup
    {"PUBLISHED", "REJECTED", "UNPUBLISHED", "CHANGES_REQUESTED", "WITHDRAWN", "COMPLETED"}

CREATOR_EDITABLE_STATUSES == {"PENDING", "REJECTED", "CHANGES_REQUESTED"}
CREATOR_WITHDRAWABLE_STATUSES == PIPELINE_STATUSES \cup {"CHANGES_REQUESTED"}
CREATOR_RESUBMITTABLE_STATUSES == {"CHANGES_REQUESTED", "REJECTED"}
CHANGE_REQUESTABLE_STATUSES == PIPELINE_STATUSES
GATE_DRIVEN_STATUSES == PIPELINE_STATUSES \cup {"PUBLISHED"}
CLOSED_STATUSES == {"REJECTED", "WITHDRAWN", "COMPLETED"}

\* The gates the gates endpoint may set.
SettableGates ==
    {"isVerified", "isSafetyReviewed", "hasConsent", "isPrivacyReviewed", "isAdminApproved"}

\* A value of the child flag: set or not.
ChildFlag == SUBSET {"involvesChild"}

Columns == SettableGates \cup
    {"isChildSafetyReviewed", "involvesChild", "isPublished", "isFeatured", "donationsPaused",
     "takedownAt", "deletedAt", "legalHold", "anonymizedAt"}

ReviewGates == SettableGates \cup {"isChildSafetyReviewed"}

----------------------------------------------------------------------------
(* Helpers of VictimProfileCommonService.                                  *)

ChildSafetySatisfied(s) == "involvesChild" \in s => "isChildSafetyReviewed" \in s

\* The approval gates that do not hold, hasBankDetails aside.
getMissingApprovalGates(s) ==
    ({"isVerified", "isSafetyReviewed", "hasConsent", "isPrivacyReviewed"} \ s)
        \cup (IF ChildSafetySatisfied(s) THEN {} ELSE {"isChildSafetyReviewed"})

deriveStatus(s) ==
    IF "isVerified" \notin s THEN "PENDING"
    ELSE IF "isSafetyReviewed" \notin s \/ ~ChildSafetySatisfied(s) THEN "UNDER_REVIEW"
    ELSE IF "hasConsent" \notin s THEN "CONSENT_PENDING"
    ELSE IF "isPrivacyReviewed" \notin s THEN "UNDER_REVIEW"
    ELSE IF "isAdminApproved" \notin s THEN "VERIFIED"
    ELSE "APPROVED"

hasBankDetails == bank = "verified"

\* An admin may act on a profile nobody else has claimed; a super admin on any.
CanAccess(a) == a \in SuperAdmins \/ claimedBy \in {None, a}

Exists == status # "none"

\* getMineOr404: the creator still owns a row that is not deleted.
Mine == Exists /\ "deletedAt" \notin on /\ "anonymizedAt" \notin on

\* A profile the public site shows.
publicWhere ==
    /\ status = "PUBLISHED"
    /\ {"isPublished", "isVerified", "isSafetyReviewed", "hasConsent",
        "isPrivacyReviewed", "isAdminApproved"} \subseteq on
    /\ "deletedAt" \notin on

\* conditionalUpdate: the row as read is still the row, so write it.
Write(st, set, clear) ==
    /\ status' = st
    /\ on' = (on \ clear) \cup set

RowOnly == UNCHANGED <<claimedBy, child, proposal, text, bank, ops>>

ClearChildReview == childFirst' = None /\ childSecond' = None

----------------------------------------------------------------------------
(* The creator: create, updateMine, withdrawMine, resubmitMine.            *)

Create(flag) ==
    /\ status = "none"
    /\ status' = "PENDING"
    /\ on' = flag
    /\ text' = "unseen"
    /\ UNCHANGED <<claimedBy, child, proposal, bank, ops>>

\* Content changes: every gate falls.  flag is the child flag after the edit.
ResetGates(st, flag) ==
    /\ Write(st, flag, ReviewGates \cup {"isPublished", "involvesChild"})
    /\ ClearChildReview
    /\ text' = "unseen"
    /\ UNCHANGED <<claimedBy, proposal, bank, ops>>

UpdateMine(flag) ==
    /\ Mine
    /\ status \in CREATOR_EDITABLE_STATUSES
    /\ "involvesChild" \in on => "involvesChild" \in flag
    /\ ResetGates(status, flag)

WithdrawMine ==
    /\ Mine
    /\ "isPublished" \notin on
    /\ status \in CREATOR_WITHDRAWABLE_STATUSES
    /\ Write("WITHDRAWN", {}, {"isPublished", "isAdminApproved"})
    /\ claimedBy' = None
    /\ UNCHANGED <<child, proposal, text, bank, ops>>

\* Refused while an appeal is open; appeals are not part of this module.
ResubmitMine ==
    /\ Mine
    /\ status \in CREATOR_RESUBMITTABLE_STATUSES
    /\ Write(deriveStatus(on), {}, {"isPublished"})
    /\ RowOnly

----------------------------------------------------------------------------
(* Reviewers: claims, gates, publication.                                  *)

Claim(a) ==
    /\ "claim" \in Handlers
    /\ Exists
    /\ claimedBy = None
    /\ claimedBy' = a
    /\ UNCHANGED <<status, on, child, proposal, text, bank, ops>>

Unclaim(a) ==
    /\ Exists
    /\ claimedBy # None
    /\ CanAccess(a)
    /\ claimedBy' = None
    /\ UNCHANGED <<status, on, child, proposal, text, bank, ops>>

\* gates is what the five settable gates are after the request.
UpdateGates(a, gates) ==
    /\ Exists
    /\ CanAccess(a)
    /\ "isAdminApproved" \in gates =>
          /\ getMissingApprovalGates((on \ SettableGates) \cup gates) = {}
          /\ hasBankDetails
    /\ Write(deriveStatus((on \ SettableGates) \cup gates), gates,
             SettableGates \cup {"isPublished"})
    /\ text' = IF "isPrivacyReviewed" \in gates \ on THEN "seen" ELSE text
    /\ UNCHANGED <<claimedBy, child, proposal, bank, ops>>

MayPublish ==
    /\ getMissingApprovalGates(on) = {}
    /\ "isAdminApproved" \in on
    /\ hasBankDetails

Publish(a) ==
    /\ Exists
    /\ CanAccess(a)
    /\ MayPublish
    /\ Write("PUBLISHED", {"isPublished"}, {})
    /\ RowOnly

Unpublish(a) ==
    /\ Exists
    /\ CanAccess(a)
    /\ "isPublished" \in on
    /\ Write("UNPUBLISHED", {}, {"isPublished"})
    /\ RowOnly

Reject(a) ==
    /\ Exists
    /\ CanAccess(a)
    /\ "isPublished" \notin on
    /\ Write("REJECTED", {}, {"isPublished"})
    /\ RowOnly

Resubmit(a) ==
    /\ Exists
    /\ CanAccess(a)
    /\ status = "REJECTED"
    /\ Write(deriveStatus(on), {}, {"isPublished"})
    /\ RowOnly

RequestChanges(a) ==
    /\ Exists
    /\ CanAccess(a)
    /\ {"deletedAt", "isPublished"} \cap on = {}
    /\ status \in CHANGE_REQUESTABLE_STATUSES
    /\ Write("CHANGES_REQUESTED", {}, {"isAdminApproved", "isPublished"})
    /\ RowOnly

\* The admin update of the whole profile: like a new submission.
Update(a, flag) ==
    /\ Exists
    /\ CanAccess(a)
    /\ ResetGates("PENDING", flag)

----------------------------------------------------------------------------
(* Child safety and consent.                                               *)

ChildFirstConfirm(a) ==
    /\ Exists
    /\ CanAccess(a)
    /\ "involvesChild" \in on
    /\ childFirst = None
    /\ childFirst' = a
    /\ UNCHANGED <<status, on, claimedBy, childSecond, proposal, text, bank, ops>>

ChildSecondConfirm_Fault(a) ==
    /\ Exists
    /\ CanAccess(a)
    /\ "involvesChild" \in on
    /\ childFirst # None
    /\ Write(deriveStatus(on \cup {"isChildSafetyReviewed"}), {"isChildSafetyReviewed"}, {})
    /\ childSecond' = a
    /\ UNCHANGED <<claimedBy, childFirst, proposal, text, bank, ops>>

\* Any later confirmation by someone else: the status is derived, isPublished is left alone.
ChildSecondConfirm(a) ==
    /\ Exists
    /\ CanAccess(a)
    /\ "involvesChild" \in on
    /\ childFirst \notin {None, a}
    /\ Write(deriveStatus(on \cup {"isChildSafetyReviewed"}), {"isChildSafetyReviewed"}, {})
    /\ childSecond' = a
    /\ UNCHANGED <<claimedBy, childFirst, proposal, text, bank, ops>>

ChildReverse(a) ==
    /\ Exists
    /\ CanAccess(a)
    /\ "involvesChild" \in on
    /\ Write(deriveStatus(on \ {"isChildSafetyReviewed", "isAdminApproved"}), {},
             {"isChildSafetyReviewed", "isAdminApproved", "isPublished"})
    /\ ClearChildReview
    /\ UNCHANGED <<claimedBy, proposal, text, bank, ops>>

RevokeConsent_Fault(a) ==
    /\ Exists
    /\ CanAccess(a)
    /\ "hasConsent" \in on
    /\ Write(deriveStatus(on \ {"hasConsent", "isAdminApproved"}), {},
             {"hasConsent", "isAdminApproved"})
    /\ RowOnly

RevokeConsent(a) ==
    /\ Exists
    /\ CanAccess(a)
    /\ "hasConsent" \in on
    /\ Write(deriveStatus(on \ {"hasConsent", "isAdminApproved"}), {},
             {"hasConsent", "isAdminApproved", "isPublished"})
    /\ RowOnly

RecordConsent(a) ==
    /\ Exists
    /\ CanAccess(a)
    /\ "hasConsent" \notin on
    /\ Write(IF status \in PIPELINE_STATUSES THEN deriveStatus(on \cup {"hasConsent"}) ELSE status,
             {"hasConsent"}, {})
    /\ RowOnly

ProposeChildFlag(a, flag) ==
    /\ "childFlag" \in Handlers
    /\ Exists
    /\ CanAccess(a)
    /\ flag # on \cap {"involvesChild"}
    /\ proposedBy = None \/ proposedFlag # flag
    /\ proposedBy' = a
    /\ proposedFlag' = flag
    /\ UNCHANGED <<status, on, claimedBy, child, text, bank, ops>>

\* The proposal is past CHILD_FLAG_PROPOSAL_TTL_MS.
ProposalExpires ==
    /\ proposedBy # None
    /\ proposedBy' = None
    /\ proposedFlag' = {}
    /\ UNCHANGED <<status, on, claimedBy, child, text, bank, ops>>

\* The columns as they are after the flag changed: all child-safety state and approval are gone.
WithChildFlag(s, flag) ==
    (s \ {"involvesChild", "isChildSafetyReviewed", "isAdminApproved", "isPublished", "isFeatured"})
        \cup flag

ConfirmChildFlag(a) ==
    /\ Exists
    /\ CanAccess(a)
    /\ proposedBy \notin {None, a}
    /\ proposedFlag # on \cap {"involvesChild"}
    /\ on' = WithChildFlag(on, proposedFlag)
    /\ status' = IF status \in GATE_DRIVEN_STATUSES
                 THEN deriveStatus(WithChildFlag(on, proposedFlag)) ELSE status
    /\ ClearChildReview
    /\ proposedBy' = None
    /\ proposedFlag' = {}
    /\ UNCHANGED <<claimedBy, text, bank, ops>>

----------------------------------------------------------------------------
(* Takedown, donations, completion, featuring.                             *)

Takedown(a) ==
    /\ Exists
    /\ "takedownAt" \notin on
    /\ Write("UNPUBLISHED", {"donationsPaused", "takedownAt"},
             {"isPublished", "isAdminApproved", "isFeatured"})
    /\ RowOnly

LiftTakedown(a) ==
    /\ Exists
    /\ a \in SuperAdmins
    /\ "takedownAt" \in on
    /\ Write(status, {}, {"takedownAt"})
    /\ RowOnly

PauseDonations(a) ==
    /\ Exists
    /\ "donationsPaused" \notin on
    /\ Write(status, {"donationsPaused"}, {})
    /\ RowOnly

ResumeDonations_Fault(a) ==
    /\ Exists
    /\ "donationsPaused" \in on
    /\ {"takedownAt", "deletedAt"} \cap on = {}
    /\ Write(status, {}, {"donationsPaused"})
    /\ RowOnly

ResumeDonations(a) ==
    /\ Exists
    /\ "donationsPaused" \in on
    /\ {"takedownAt", "deletedAt"} \cap on = {}
    /\ status # "COMPLETED"
    /\ Write(status, {}, {"donationsPaused"})
    /\ RowOnly

\* isPublished stays set on a completed profile.
Complete(a) ==
    /\ Exists
    /\ CanAccess(a)
    /\ status = "PUBLISHED"
    /\ Write("COMPLETED", {"donationsPaused"}, {"isFeatured"})
    /\ RowOnly

Reopen(a) ==
    /\ Exists
    /\ CanAccess(a)
    /\ status = "COMPLETED"
    /\ {"takedownAt", "deletedAt"} \cap on = {}
    /\ IF MayPublish
       THEN Write("PUBLISHED", {"isPublished"}, {"donationsPaused"})
       ELSE Write(deriveStatus(on), {}, {"isPublished", "donationsPaused"})
    /\ RowOnly

Feature(a) ==
    /\ "feature" \in Handlers
    /\ status = "PUBLISHED"
    /\ "isPublished" \in on
    /\ "isFeatured" \notin on
    /\ Write(status, {"isFeatured"}, {})
    /\ RowOnly

Unfeature(a) ==
    /\ "isFeatured" \in on
    /\ Write(status, {}, {"isFeatured"})
    /\ RowOnly

----------------------------------------------------------------------------
(* Deletion and legal hold.  Each of softDelete, remove and anonymize      *)
(* refuses while money has not reached the victim, which may be at any     *)
(* time: a refusal is the handler not taking its step.                     *)

SoftDelete(a) ==
    /\ Exists
    /\ a \in SuperAdmins
    /\ {"deletedAt", "legalHold"} \cap on = {}
    /\ Write(IF status = "PUBLISHED" THEN "UNPUBLISHED" ELSE status,
             {"deletedAt", "donationsPaused"},
             {"isPublished", "isAdminApproved", "isFeatured"})
    /\ RowOnly

Restore(a) ==
    /\ Exists
    /\ a \in SuperAdmins
    /\ "deletedAt" \in on
    /\ "anonymizedAt" \notin on
    /\ Write(status, {}, {"deletedAt"})
    /\ RowOnly

SetLegalHold(a, hold) ==
    /\ "legalHold" \in Handlers
    /\ Exists
    /\ a \in SuperAdmins
    /\ hold # on \cap {"legalHold"}
    /\ Write(status, hold, {"legalHold"})
    /\ RowOnly

\* The row goes, its payout destination with it; later writes of handlers in flight fail.
Remove(a) ==
    /\ Exists
    /\ CanAccess(a)
    /\ status' = "none"
    /\ on' = {}
    /\ claimedBy' = None
    /\ ClearChildReview
    /\ proposedBy' = None
    /\ proposedFlag' = {}
    /\ text' = "seen"
    /\ bank' = "none"
    /\ edit' = "idle" /\ bankEdit' = "idle" /\ anon' = "idle"

----------------------------------------------------------------------------
(* Handlers of several writes.                                             *)

AdminEditText_Fault(a) ==
    /\ "adminEdit" \in Handlers
    /\ Exists
    /\ CanAccess(a)
    /\ edit = "idle"
    /\ "isPublished" \notin on
    /\ Write(status, {}, {"isAdminApproved"})
    /\ text' = "unseen"
    /\ edit' = "written"
    /\ UNCHANGED <<claimedBy, child, proposal, bank, bankEdit, anon>>

\* adminEdit: the text, with the condition.
AdminEditText(a) ==
    /\ "adminEdit" \in Handlers
    /\ Exists
    /\ CanAccess(a)
    /\ edit = "idle"
    /\ "isPublished" \notin on
    /\ Write(status, {}, {"isPrivacyReviewed", "isAdminApproved"})
    /\ text' = "unseen"
    /\ edit' = "written"
    /\ UNCHANGED <<claimedBy, child, proposal, bank, bankEdit, anon>>

AdminEditReread_Fault ==
    /\ edit = "written"
    /\ edit' = IF status \in PIPELINE_STATUSES
               THEN deriveStatus(on \ {"isPrivacyReviewed", "isAdminApproved"}) ELSE status
    /\ UNCHANGED <<status, on, claimedBy, child, proposal, text, bank, bankEdit, anon>>

\* ... the row is read again, and the status it should have worked out ...
AdminEditReread ==
    LET derived == deriveStatus(on \ {"isPrivacyReviewed", "isAdminApproved"})
    IN  /\ edit = "written"
        /\ edit' = IF status \in PIPELINE_STATUSES /\ derived # status THEN derived ELSE "idle"
        /\ UNCHANGED <<status, on, claimedBy, child, proposal, text, bank, bankEdit, anon>>

\* ... and written, whatever the row has become.
AdminEditStatus ==
    /\ edit \in PIPELINE_STATUSES
    /\ Write(edit, {}, {})
    /\ edit' = "idle"
    /\ UNCHANGED <<claimedBy, child, proposal, text, bank, bankEdit, anon>>

\* updateBankDetails: approval and publication fall with the condition ...
BankEditProfile(a) ==
    /\ "bankEdit" \in Handlers
    /\ Exists
    /\ CanAccess(a)
    /\ bankEdit = "idle"
    /\ Write(deriveStatus(on \ {"isAdminApproved"}), {},
             IF "isAdminApproved" \in on THEN {"isAdminApproved", "isPublished"} ELSE {})
    /\ bankEdit' = "upsert"
    /\ UNCHANGED <<claimedBy, child, proposal, text, bank, edit, anon>>

\* ... then the destination is written, unverified.
BankEditUpsert ==
    /\ bankEdit = "upsert"
    /\ bank' = "unverified"
    /\ bankEdit' = "idle"
    /\ UNCHANGED <<status, on, claimedBy, child, proposal, text, edit, anon>>

\* Who may verify (not the last editor) is left out here.
VerifyBankDetails(a) ==
    /\ Exists
    /\ CanAccess(a)
    /\ bank = "unverified"
    /\ bank' = "verified"
    /\ UNCHANGED <<status, on, claimedBy, child, proposal, text, ops>>

\* anonymize: the checks ...
AnonymizeCheck(a) ==
    /\ "anonymize" \in Handlers
    /\ Exists
    /\ a \in SuperAdmins
    /\ anon = "idle"
    /\ {"anonymizedAt", "legalHold"} \cap on = {}
    /\ status \in CLOSED_STATUSES \/ "deletedAt" \in on
    /\ anon' = "checked"
    /\ UNCHANGED <<status, on, claimedBy, child, proposal, text, bank, edit, bankEdit>>

\* ... and the transaction that blanks the row, without a condition.
AnonymizeWrite ==
    /\ anon = "checked"
    /\ Write(status, {"anonymizedAt"}, {"isPublished", "isAdminApproved", "isFeatured"})
    /\ bank' = "none"
    /\ anon' = "idle"
    /\ UNCHANGED <<claimedBy, child, proposal, text, edit, bankEdit>>

----------------------------------------------------------------------------
(* The specification.                                                      *)

Init ==
    /\ status = "none"
    /\ on = {}
    /\ claimedBy = None
    /\ childFirst = None
    /\ childSecond = None
    /\ proposedBy = None
    /\ proposedFlag = {}
    /\ text = "seen"
    /\ bank = "none"
    /\ edit = "idle"
    /\ bankEdit = "idle"
    /\ anon = "idle"

CreatorStep ==
    \/ \E flag \in ChildFlag : Create(flag) \/ UpdateMine(flag)
    \/ WithdrawMine
    \/ ResubmitMine

ReviewStep(a) ==
    \/ Claim(a) \/ Unclaim(a)
    \/ \E gates \in SUBSET SettableGates : UpdateGates(a, gates)
    \/ Publish(a) \/ Unpublish(a)
    \/ Reject(a) \/ Resubmit(a) \/ RequestChanges(a)
    \/ \E flag \in ChildFlag : Update(a, flag)

SafetyStep(a) ==
    \/ ChildFirstConfirm(a) \/ ChildSecondConfirm(a) \/ ChildReverse(a)
    \/ RevokeConsent(a) \/ RecordConsent(a)
    \/ \E flag \in ChildFlag : ProposeChildFlag(a, flag)
    \/ ConfirmChildFlag(a)

LifecycleStep(a) ==
    \/ Takedown(a) \/ LiftTakedown(a)
    \/ PauseDonations(a) \/ ResumeDonations(a)
    \/ Complete(a) \/ Reopen(a)
    \/ Feature(a) \/ Unfeature(a)
    \/ SoftDelete(a) \/ Restore(a) \/ Remove(a)
    \/ \E hold \in SUBSET {"legalHold"} : SetLegalHold(a, hold)

MultiStep(a) ==
    \/ AdminEditText(a)
    \/ BankEditProfile(a) \/ VerifyBankDetails(a)
    \/ AnonymizeCheck(a)

Continue == AdminEditReread \/ AdminEditStatus \/ BankEditUpsert \/ AnonymizeWrite

Next ==
    \/ CreatorStep
    \/ ProposalExpires
    \/ \E a \in Admins : ReviewStep(a) \/ SafetyStep(a) \/ LifecycleStep(a) \/ MultiStep(a)
    \/ Continue

Spec == Init /\ [][Next]_vars

----------------------------------------------------------------------------
(* Properties.                                                             *)

\* Every column holds a value of its type.
TypeOK ==
    /\ status \in Statuses \cup {"none"}
    /\ on \subseteq Columns
    /\ claimedBy \in Admins \cup {None}
    /\ childFirst \in Admins \cup {None}
    /\ childSecond \in Admins \cup {None}
    /\ proposedBy \in Admins \cup {None}
    /\ proposedFlag \in ChildFlag
    /\ text \in {"seen", "unseen"}
    /\ bank \in {"none", "unverified", "verified"}
    /\ edit \in {"idle", "written"} \cup PIPELINE_STATUSES
    /\ bankEdit \in {"idle", "upsert"}
    /\ anon \in {"idle", "checked"}

\* A published profile passed every gate and is approved.  publicWhere does not ask for the
\* child-safety gate again, so this is what keeps an unreviewed child off the public site.
PublishedIsReviewed ==
    "isPublished" \in on => "isAdminApproved" \in on /\ getMissingApprovalGates(on) = {}

\* While a profile is taken down, deleted or completed its donations are paused, whichever
\* handlers (reopen, resume-donations, lift-takedown, restore) run in whichever order.
ClosedTakesNoDonations ==
    {"takedownAt", "deletedAt"} \cap on # {} \/ status = "COMPLETED" => "donationsPaused" \in on

\* The child-safety gate stands only on confirmations by two different admins.
ChildReviewedByTwo ==
    "isChildSafetyReviewed" \in on =>
        childFirst # None /\ childSecond # None /\ childFirst # childSecond

\* No text is public that privacy review has not seen since it last changed.
PublishedTextWasSeen == "isPublished" \in on => text = "seen"

\* What the comment in takedown says: the public does not see the profile until the takedown
\* is lifted.
TakedownHidesProfile == "takedownAt" \in on => ~publicWhere
============================================================================
