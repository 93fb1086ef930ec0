---------------------------- MODULE MCWorkflows -----------------------------
(***************************************************************************)
(* The content workflows for TLC: reports, missing persons, information    *)
(* submissions and posts.  They share no state, so a behaviour picks one   *)
(* of the small configurations below and stays in it; the variables of     *)
(* the others keep the value None.  Two requests are in flight where a     *)
(* race matters, one where a property is about a sequence of calls.        *)
(***************************************************************************)
EXTENDS Naturals

CONSTANT None

VARIABLES kind, seen, reads, job, appeal, flags,
  status, assignee, mergedInto, mergeRow, givenTo,
  sens, owner, shelf, supers, grant, marks, desk,
  filed, pending, draft, info, side, media, evidence, req, told,
  row, flagged, confirmed,
  tip, question, appealed, trace, caseState, claimants,
  post

Two == {"a", "b"}

RCase  == INSTANCE ReportCase WITH Reports <- {1}, Requests <- Two, Supers <- {"b"}
RMerge == INSTANCE ReportCase WITH Reports <- {1, 2, 3}, Requests <- {"q"}, Supers <- {}
RGrant == INSTANCE ReportAccess WITH Reports <- {1}, Admins <- Two, Rows <- {1, 2, 3}, Jobs <- {"j"}
RList  == INSTANCE ReportAccess WITH Reports <- {1, 2}, Admins <- Two, Rows <- {1}, Jobs <- {"j"}
RFile  == INSTANCE ReportFiling WITH Slots <- {1, 2, 3}, Keys <- {"k1", "k2"}, Requests <- Two, Files <- {"f1", "f2"}, MaxPending <- 2
MRace  == INSTANCE MissingPerson WITH Cases <- {1}, Requests <- Two, Keys <- {"k"}, Media <- {"m"}, Appeals <- {"a1", "a2"}, MAX_PENDING <- 2
MDesk  == INSTANCE MissingPerson WITH Cases <- {1}, Requests <- {"a"}, Keys <- {"k"}, Media <- {"m1", "m2"}, Appeals <- {"a1"}, MAX_PENDING <- 2
MSeq   == INSTANCE MissingPerson WITH Cases <- {1, 2}, Requests <- {"a"}, Keys <- {"k"}, Media <- {"m"}, Appeals <- {"a1"}, MAX_PENDING <- 2
MFile  == INSTANCE MissingPerson WITH Cases <- {1, 2}, Requests <- Two, Keys <- {"k"}, Media <- {"m"}, Appeals <- {"a1"}, MAX_PENDING <- 2
TRace  == INSTANCE InformationSubmission WITH Tips <- {1}, Requests <- Two, Keys <- {"k"}, Media <- {"m"}, Questions <- {"x"}, MaxPending <- 2, MaxOpenQuestions <- 1
TSeq   == INSTANCE InformationSubmission WITH Tips <- {1, 2}, Requests <- {"a"}, Keys <- {"k"}, Media <- {"m"}, Questions <- {"x", "y"}, MaxPending <- 2, MaxOpenQuestions <- 1
TTalk  == INSTANCE InformationSubmission WITH Tips <- {1}, Requests <- {"a"}, Keys <- {"k"}, Media <- {"m"}, Questions <- {"x", "y"}, MaxPending <- 2, MaxOpenQuestions <- 1
TFile  == INSTANCE InformationSubmission WITH Tips <- {1, 2}, Requests <- Two, Keys <- {"k"}, Media <- {"m"}, Questions <- {"x"}, MaxPending <- 2, MaxOpenQuestions <- 1
PRace  == INSTANCE Post WITH Posts <- {1}, Requests <- Two, Appeals <- {}, Media <- {"m"}, MaxPending <- 1
PTalk  == INSTANCE Post WITH Posts <- {1}, Requests <- Two, Appeals <- {"x", "y"}, Media <- {}, MaxPending <- 1

NoCase   == status = None /\ assignee = None /\ mergedInto = None /\ mergeRow = None /\ givenTo = None
NoAccess == sens = None /\ owner = None /\ shelf = None /\ supers = None /\ grant = None /\ marks = None /\ desk = None
NoFiling == filed = None /\ pending = None /\ draft = None /\ info = None /\ side = None /\ media = None
            /\ evidence = None /\ req = None /\ told = None
NoMP     == row = None /\ flagged = None /\ confirmed = None
NoTip    == tip = None /\ question = None /\ appealed = None /\ trace = None /\ caseState = None /\ claimants = None
NoPost   == post = None

caseRest   == <<status, assignee, mergedInto, mergeRow, givenTo>>
accessRest == <<sens, owner, shelf, supers, grant, marks, desk>>
filingRest == <<filed, pending, draft, info, side, media, evidence, req, told>>
mpRest     == <<row, flagged, confirmed>>
tipRest    == <<tip, question, appealed, trace, caseState, claimants>>

Init ==
  \/ /\ NoAccess /\ NoFiling /\ NoMP /\ NoTip /\ NoPost /\ reads = None /\ job = None /\ appeal = None
     /\ \/ kind = "work"  /\ RCase!CaseInit({"PENDING"})
        \/ kind = "life"  /\ RCase!CaseInit({"PENDING", "CLOSED"})
        \/ kind = "merge" /\ RMerge!CaseInit({"RECEIVED", "none"})
  \/ /\ NoCase /\ NoFiling /\ NoMP /\ NoTip /\ NoPost /\ seen = None /\ appeal = None /\ flags = None
     /\ \/ kind = "grants" /\ RGrant!AccessInit
        \/ kind \in {"inbox", "marks", "export"} /\ RList!AccessInit
  \/ /\ NoCase /\ NoAccess /\ NoMP /\ NoTip /\ NoPost /\ seen = None /\ reads = None /\ job = None /\ appeal = None /\ flags = None
     /\ kind \in {"create", "desk", "person", "evidence"} /\ RFile!FilingInit
  \/ /\ NoCase /\ NoAccess /\ NoFiling /\ NoTip /\ NoPost /\ flags = None
     /\ \/ kind = "mpReview" /\ MRace!MPInit({MRace!Filed("PENDING", "WOMAN"), MRace!Filed("UNDER_REVIEW", "CHILD")})
        \/ kind = "mpDesk"   /\ MDesk!MPInit({MDesk!Filed("PENDING", "WOMAN"), MDesk!Filed("APPROVED", "WOMAN")})
        \/ kind = "mpModeration" /\ MSeq!MPInit({MSeq!Filed("PENDING", "WOMAN"), MSeq!NoRow})
        \/ kind = "mpFiling" /\ MFile!MPInit({MFile!NoRow})
        \/ kind = "mpInbox"  /\ MSeq!MPInit({MSeq!Filed("PENDING", "WOMAN")})
  \/ /\ NoCase /\ NoAccess /\ NoFiling /\ NoMP /\ NoPost /\ appeal = None /\ flags = None
     /\ \/ kind = "tipRace" /\ TRace!TipInit({TRace!FiledTip("PENDING"), TRace!FiledTip("UNDER_REVIEW")})
        \/ kind = "tipAnswer" /\ TRace!TipInit({TRace!FiledTip("PENDING")})
        \/ kind \in {"tipWork", "tipShow"} /\ TSeq!TipInit({TSeq!FiledTip("PENDING")})
        \/ kind = "tipTalk" /\ TTalk!TipInit({TTalk!FiledTip("PENDING")})
        \/ kind = "tipFile" /\ TFile!TipInit({TFile!NoTip})
  \/ /\ NoCase /\ NoAccess /\ NoFiling /\ NoMP /\ NoTip /\ job = None
     /\ \/ kind = "postReview" /\ PRace!PostInit({"DRAFT"})
        \/ kind = "postShow"   /\ PRace!PostInit({"none"})
        \/ kind = "postAppeal" /\ PTalk!PostInit({"PENDING", "APPROVED"})

CaseStep ==
  /\ \/ kind = "work"  /\ RCase!WorkNext
     \/ kind = "life"  /\ RCase!LifeNext
     \/ kind = "merge" /\ RMerge!MergeNext
  /\ UNCHANGED <<accessRest, filingRest, mpRest, tipRest, post, reads, job, appeal>>
AccessStep ==
  /\ \/ kind = "grants" /\ RGrant!GrantNext
     \/ kind = "inbox"  /\ RList!InboxNext
     \/ kind = "marks"  /\ RList!MarksNext
     \/ kind = "export" /\ RList!ExportNext
  /\ UNCHANGED <<caseRest, filingRest, mpRest, tipRest, post, seen, appeal, flags>>
FilingStep ==
  /\ \/ kind = "create"   /\ RFile!CreateNext
     \/ kind = "desk"     /\ RFile!DeskNext
     \/ kind = "person"   /\ RFile!PersonNext
     \/ kind = "evidence" /\ RFile!EvidenceNext
  /\ UNCHANGED <<caseRest, accessRest, mpRest, tipRest, post, seen, reads, job, appeal, flags>>
MissingPersonStep ==
  /\ \/ kind = "mpReview" /\ MRace!ReviewNext
     \/ kind = "mpDesk"   /\ MDesk!DeskNext
     \/ kind = "mpModeration" /\ MSeq!ModerationNext
     \/ kind = "mpFiling" /\ MFile!FilingNext
     \/ kind = "mpInbox"  /\ MSeq!InboxNext
  /\ UNCHANGED <<caseRest, accessRest, filingRest, tipRest, post, flags>>
TipStep ==
  /\ \/ kind = "tipRace"   /\ TRace!WorkNext
     \/ kind = "tipAnswer" /\ TRace!TalkNext
     \/ kind = "tipWork"   /\ TSeq!WorkNext
     \/ kind = "tipTalk"   /\ TTalk!TalkNext
     \/ kind = "tipFile"   /\ TFile!FileNext
     \/ kind = "tipShow"   /\ TSeq!ShowNext
  /\ UNCHANGED <<caseRest, accessRest, filingRest, mpRest, post, appeal, flags>>
PostStep ==
  /\ \/ kind = "postReview" /\ PRace!ReviewNext
     \/ kind = "postAppeal" /\ PTalk!AppealNext
     \/ kind = "postShow"   /\ PRace!ShowNext
  /\ UNCHANGED <<caseRest, accessRest, filingRest, mpRest, tipRest, job>>

Next == UNCHANGED kind /\ (CaseStep \/ AccessStep \/ FilingStep \/ MissingPersonStep \/ TipStep \/ PostStep)

vars == <<kind, seen, reads, job, appeal, flags, caseRest, accessRest, filingRest, mpRest, tipRest, post>>
Spec == Init /\ [][Next]_vars

\* Every workflow keeps its rows well formed (the modules' own type invariants).
WorkflowsTypeOK ==
  CASE kind \in {"work", "life"} -> RCase!CaseTypeOK
    [] kind = "merge" -> RMerge!CaseTypeOK
    [] kind = "grants" -> RGrant!AccessTypeOK
    [] kind \in {"inbox", "marks", "export"} -> RList!AccessTypeOK
    [] kind \in {"create", "desk", "person", "evidence"} -> RFile!FilingTypeOK
    [] kind = "mpReview" -> MRace!MPTypeOK
    [] kind = "mpDesk" -> MDesk!MPTypeOK
    [] kind \in {"mpModeration", "mpInbox"} -> MSeq!MPTypeOK
    [] kind = "mpFiling" -> MFile!MPTypeOK
    [] kind \in {"tipRace", "tipAnswer"} -> TRace!TipTypeOK
    [] kind \in {"tipWork", "tipShow"} -> TSeq!TipTypeOK
    [] kind = "tipTalk" -> TTalk!TipTypeOK
    [] kind = "tipFile" -> TFile!TipTypeOK
    [] kind \in {"postReview", "postShow"} -> PRace!PostTypeOK
    [] OTHER -> PTalk!PostTypeOK

\* The rows are well formed and work lands in one place: the queue hands a report to one
\* admin, however many ask for the next one (queueNext), of two reviewers who claim a tip at
\* once one gets it (claim), and the target of a merge is never itself merged (merge).
WorkflowsConsistent ==
  /\ WorkflowsTypeOK
  /\ kind = "work" => RCase!QueueGivesOnce
  /\ kind = "merge" => RMerge!MergeDepthOne
  /\ kind = "tipRace" => TRace!OneClaimant
\* Submissions that are retried, sent twice at once or synced later store one row per
\* idempotency key: reports, cases and tips; a submitted draft is one report.
SubmittedOnce ==
  /\ kind \in {"create", "desk"} => RFile!OneReportPerKey /\ RFile!DraftBecomesReport
  /\ kind = "mpFiling" => MFile!OneCasePerKey
  /\ kind = "tipFile" => TFile!OneTipPerKey
\* The lists, counts, figures and exports built on a component's shared filter each follow it:
\* none made with visibilityWhere or statsWhere shows a restricted report to an admin without
\* access, none made with ADMIN_BASE_WHERE a removed or merged case, none made with deletedAt:
\* null a removed tip; an anonymized tip names its informant in no table; the unread counter of
\* the posts is the length of their list.  The admin endpoints without such a filter
\* (findAllForAdmin, findAssignedToMe, findStalePending, getStats and others, named in the
\* modules) show those rows and are not claimed to follow it.
FilteredListsFollowRules ==
  /\ kind \in {"inbox", "marks", "export"} => RList!ListingsHideRestricted
  /\ kind = "mpInbox" => MSeq!AdminListsHideRemoved
  /\ kind = "tipShow" => TSeq!RemovedTipHidden
  /\ kind = "tipTalk" => TTalk!AnonymizedLeavesNoTrace
  /\ kind = "postShow" => PRace!UnreadCountMatches
\* A missing person is shown only by the decisions that allow it: no sequence of calls
\* publishes a case whose takedown has not been lifted, and a child's case is approved by two
\* distinct admins (ensureChildSafetySatisfied).
CasesShownByDecision ==
  /\ [](kind = "mpModeration" => MSeq!TakenDownStaysDown)
  /\ [][kind = "mpReview" => MRace!TwoAdminsApproveChild]_vars
\* What was decided stands against handlers that read before the decision: a CLOSED or REJECTED
\* report leaves its state only by the reporter's urgent flag or its own merge (applyTransition,
\* flagUrgent, merge), revokeAccess leaves no other active row of the same grant, the first
\* answer to a question stays (respond), a post's status follows the transition map, and the
\* first decision on its appeal stands (decideAppeal).
DecisionsStand ==
  [][/\ kind \in {"work", "life"} => RCase!TerminalStep
     /\ kind = "merge" => RMerge!TerminalStep
     /\ kind = "grants" => RGrant!RevokeStep
     /\ kind = "tipAnswer" => TRace!AnswerStays
     /\ kind = "postReview" => PRace!FollowsTransitionMap
     /\ kind = "postAppeal" => PTalk!FollowsTransitionMap /\ PTalk!DecisionStays]_vars
=============================================================================
