---------------------------- MODULE ReportFiling ----------------------------
(***************************************************************************)
(* core/report: report-submission (create, drafts, the offline sync), the  *)
(* reporter's further requests (report-reporter), the information requests *)
(* and messages (report-communication) and the evidence of one report.     *)
(* A request reads, and later writes what it decided; the process or the   *)
(* client may give up between the two (Dropped).                           *)
(***************************************************************************)
EXTENDS Naturals, FiniteSets

CONSTANTS Slots, Keys, Requests, Files, None, MaxPending   \* report ids; idempotency keys; media files

VARIABLES
  filed,    \* idempotency key of each report created; "free" if the id is unused
  pending,  \* reports still PENDING
  draft,    \* the reporter's draft: none, open, gone
  info,     \* reportInformationRequest of the report: status
  side,     \* reopen request, feedback, erasure request, reveal, anonymous, received, closed, hold, answered
  media,    \* files listed on the report
  evidence, \* reportEvidence rows of the report: file -> state
  req,      \* what each request has read
  told      \* history: keys whose report the reporter was given

filingVars == <<filed, pending, draft, info, side, media, evidence, req, told>>
DraftKey == "draft"
NoReq == [op |-> "idle", key |-> None, info |-> None, side |-> {}, media |-> {}]

FilingInit ==
  /\ filed = [s \in Slots |-> "free"]
  /\ pending = {} /\ draft = "none" /\ info = "none" /\ told = {}
  /\ side \in {{}, {"anonymous"}} /\ media = {} /\ evidence = [f \in Files |-> "none"]
  /\ req = [q \in Requests |-> NoReq]

Idle(q) == req[q] = NoReq
Begin(q, v) == Idle(q) /\ req' = [req EXCEPT ![q] = v]
Done(q) == req' = [req EXCEPT ![q] = NoReq]
Dropped(q) == ~Idle(q) /\ Done(q) /\ UNCHANGED <<filed, pending, draft, info, side, media, evidence, told>>

-----------------------------------------------------------------------------
(* Creation. *)

Filed(k) == \E s \in Slots : filed[s] = k
enforceMaxPendingReports == Cardinality(pending) < MaxPending
KeepRest == UNCHANGED <<info, side, media, evidence>>

\* The key is looked up, then the limits, before the media are validated.
CreateRead(q, k) ==
  /\ ~Filed(k) /\ enforceMaxPendingReports
  /\ Begin(q, [NoReq EXCEPT !.op = "create", !.key = k])
  /\ UNCHANGED <<filed, pending, draft, told>> /\ KeepRest
CreateFound(q, k) ==
  /\ Idle(q) /\ Filed(k) /\ told' = told \cup {k}
  /\ UNCHANGED <<filed, pending, draft, req>> /\ KeepRest

Insert(q, s, k) == filed[s] = "free" /\ filed' = [filed EXCEPT ![s] = k] /\ pending' = pending \cup {s}
\* The unique (user, key) index: the loser of a race is given the winner's report.
InsertOrWinner_Fault(q, k) == \E s \in Slots : Insert(q, s, k)
InsertOrWinner(q, k) == IF Filed(k) THEN UNCHANGED <<filed, pending>> ELSE \E s \in Slots : Insert(q, s, k)

create(q) ==
  /\ req[q].op = "create" /\ InsertOrWinner(q, req[q].key)
  /\ told' = told \cup {req[q].key} /\ Done(q) /\ UNCHANGED draft /\ KeepRest

\* An item of the offline batch: no limits, its client id is the key.
SyncRead(q, k) ==
  /\ ~Filed(k) /\ Begin(q, [NoReq EXCEPT !.op = "sync", !.key = k])
  /\ UNCHANGED <<filed, pending, draft, told>> /\ KeepRest
syncReports(q) ==
  /\ req[q].op = "sync" /\ InsertOrWinner(q, req[q].key)
  /\ told' = told \cup {req[q].key} /\ Done(q) /\ UNCHANGED draft /\ KeepRest

withdraw(q, s) ==
  /\ Idle(q) /\ s \in pending /\ pending' = pending \ {s}
  /\ UNCHANGED <<filed, draft, told, req>> /\ KeepRest

-----------------------------------------------------------------------------
(* Drafts. *)

SetDraft(v) == draft' = v /\ UNCHANGED <<filed, pending, told, req>> /\ KeepRest
saveDraft(q) == Idle(q) /\ draft = "none" /\ SetDraft("open")
updateDraft(q) == Idle(q) /\ draft = "open" /\ SetDraft("open")
deleteDraft(q) == Idle(q) /\ draft = "open" /\ SetDraft("deleted")

\* The draft is created as a report under its own key, and deleted afterwards.
SubmitDraftRead(q) ==
  /\ draft = "open" /\ (Filed(DraftKey) \/ enforceMaxPendingReports)
  /\ Begin(q, [NoReq EXCEPT !.op = "draft"])
  /\ UNCHANGED <<filed, pending, draft, told>> /\ KeepRest
SubmitDraftCreate_Fault(q) ==
  /\ req[q].op = "draft" /\ draft' = "gone"
  /\ req' = [req EXCEPT ![q].op = "draftInsert"]
  /\ UNCHANGED <<filed, pending, told>> /\ KeepRest
SubmitDraftCreate(q) ==
  /\ req[q].op = "draft" /\ InsertOrWinner(q, DraftKey)
  /\ req' = [req EXCEPT ![q].op = "draftDelete"]
  /\ UNCHANGED <<draft, told>> /\ KeepRest
submitDraft(q) ==
  /\ req[q].op = "draftDelete"
  /\ draft' = IF draft = "open" THEN "gone" ELSE draft
  /\ told' = told \cup {DraftKey} /\ Done(q)
  /\ UNCHANGED <<filed, pending>> /\ KeepRest

-----------------------------------------------------------------------------
(* Information requests: every handler reads the request and updates it by id. *)

Look(q, op) ==
  /\ Begin(q, [NoReq EXCEPT !.op = op, !.info = info, !.side = side, !.media = media])
  /\ UNCHANGED <<filed, pending, draft, info, side, media, evidence, told>>
Saw(q, op) == req[q].op = op
SetInfo(q, v) == info' = v /\ Done(q) /\ UNCHANGED <<filed, pending, draft, side, media, evidence, told>>

requestMoreInformation(q) == Saw(q, "look") /\ req[q].info # "PENDING" /\ SetInfo(q, "PENDING")
respondToInformationRequest(q) ==
  /\ Saw(q, "look") /\ req[q].info = "PENDING"
  /\ info' = "RESPONDED" /\ side' = side \cup {"answered"} /\ Done(q)
  /\ UNCHANGED <<filed, pending, draft, media, evidence, told>>
cancelInformationRequest(q) == Saw(q, "look") /\ req[q].info = "PENDING" /\ SetInfo(q, "CANCELLED")
remindInformationRequest(q) == Saw(q, "look") /\ req[q].info = "PENDING" /\ SetInfo(q, info)
extendInformationRequest(q) == Saw(q, "look") /\ req[q].info = "PENDING" /\ SetInfo(q, info)
reviewInformationResponse(q, v) ==
  Saw(q, "look") /\ req[q].info = "RESPONDED" /\ v \in {"ACCEPTED", "PENDING"} /\ SetInfo(q, v)

-----------------------------------------------------------------------------
(* The reporter's other requests, and the reporter's name.                  *)

SetSide(q, v) == side' = v /\ Done(q) /\ UNCHANGED <<filed, pending, draft, info, media, evidence, told>>
requestReopen(q) == Saw(q, "look") /\ "closed" \in req[q].side /\ "reopen" \notin req[q].side /\ SetSide(q, side \cup {"reopen"})
\* One row per report: the unique index refuses the second.
submitFeedback(q) == Saw(q, "look") /\ "closed" \in req[q].side /\ "feedback" \notin side /\ SetSide(q, side \cup {"feedback"})
requestErasure(q) ==
  Saw(q, "look") /\ req[q].side \cap {"hold", "erasure"} = {} /\ SetSide(q, side \cup {"erasure"})
\* Anonymity may be given up any time, and taken back only if nobody looked.
changeAnonymity(q) ==
  /\ Saw(q, "look")
  /\ IF "anonymous" \in req[q].side THEN SetSide(q, side \ {"anonymous"})
     ELSE "revealed" \notin req[q].side /\ SetSide(q, side \cup {"anonymous"})
\* The reveal row first, the name afterwards.
RevealRecord(q) ==
  /\ Saw(q, "look") /\ side' = side \cup {"revealed"} /\ req' = [req EXCEPT ![q].op = "reveal"]
  /\ UNCHANGED <<filed, pending, draft, info, media, evidence, told>>
revealReporter(q) == Saw(q, "reveal") /\ SetSide(q, side \cup {"named"})
Receive(q) == Saw(q, "look") /\ SetSide(q, side \cup {"received"})
Close(q) == Saw(q, "look") /\ SetSide(q, side \cup {"closed"})
setLegalHold(q) == Saw(q, "look") /\ SetSide(q, IF "hold" \in req[q].side THEN side \ {"hold"} ELSE side \cup {"hold"})

-----------------------------------------------------------------------------
(* Evidence: the rows are written one by one, the list of files as a whole. *)

SetMedia(q, m) == media' = m /\ Done(q) /\ UNCHANGED <<filed, pending, draft, info, side, told>>
addEvidence(q, f) ==
  /\ Saw(q, "look") /\ "closed" \notin req[q].side /\ f \notin req[q].media /\ evidence[f] = "none"
  /\ evidence' = [evidence EXCEPT ![f] = "kept"] /\ SetMedia(q, req[q].media \cup {f})
removeEvidence(q, f) ==
  /\ Saw(q, "look") /\ "hold" \notin req[q].side /\ evidence[f] \in {"kept", "redacted"}
  /\ evidence' = [evidence EXCEPT ![f] = "removed"] /\ SetMedia(q, req[q].media \ {f})
redactEvidence(q, f) ==
  /\ Saw(q, "look") /\ evidence[f] \in {"kept", "redacted"}
  /\ evidence' = [evidence EXCEPT ![f] = "redacted"] /\ SetMedia(q, media)
\* Editing a PENDING report replaces its list of files.
update(q, f) ==
  /\ Saw(q, "look") /\ req[q].side \cap {"received", "closed"} = {}
  /\ SetMedia(q, (req[q].media \ {f}) \cup ({f} \ req[q].media)) /\ UNCHANGED evidence

-----------------------------------------------------------------------------
CreateNext == \E q \in Requests :
  \/ \E k \in Keys : CreateRead(q, k) \/ CreateFound(q, k) \/ SyncRead(q, k)
  \/ create(q) \/ syncReports(q) \/ Dropped(q) \/ \E s \in Slots : withdraw(q, s)
  \/ saveDraft(q) \/ updateDraft(q) \/ deleteDraft(q) \/ SubmitDraftRead(q) \/ SubmitDraftCreate(q) \/ submitDraft(q)

DeskNext == \E q \in Requests :
  \/ Look(q, "look") \/ Dropped(q)
  \/ requestMoreInformation(q) \/ respondToInformationRequest(q) \/ cancelInformationRequest(q)
  \/ remindInformationRequest(q) \/ extendInformationRequest(q)
  \/ \E v \in {"ACCEPTED", "PENDING"} : reviewInformationResponse(q, v)

PersonNext == \E q \in Requests :
  \/ Look(q, "look") \/ Dropped(q)
  \/ requestReopen(q) \/ submitFeedback(q) \/ requestErasure(q) \/ changeAnonymity(q)
  \/ RevealRecord(q) \/ revealReporter(q) \/ Close(q)

EvidenceNext == \E q \in Requests :
  \/ Look(q, "look") \/ Dropped(q) \/ setLegalHold(q) \/ Receive(q) \/ Close(q)
  \/ \E f \in Files : addEvidence(q, f) \/ removeEvidence(q, f) \/ redactEvidence(q, f) \/ update(q, f)

FilingNext == CreateNext \/ DeskNext \/ PersonNext \/ EvidenceNext
FilingSpec == FilingInit /\ [][FilingNext]_filingVars

-----------------------------------------------------------------------------
FilingTypeOK ==
  /\ filed \in [Slots -> Keys \cup {"free", DraftKey}]
  /\ pending \subseteq Slots
  /\ draft \in {"none", "open", "deleted", "gone"}
  /\ info \in {"none", "PENDING", "RESPONDED", "CANCELLED", "ACCEPTED"}
  /\ side \subseteq {"reopen", "feedback", "erasure", "anonymous", "revealed", "named", "received", "closed", "hold", "answered"}
  /\ media \subseteq Files
  /\ evidence \in [Files -> {"none", "kept", "redacted", "removed"}]

\* A report sent twice under one key (a retry, two tabs, the offline sync and the form,
\* a draft submitted again after a crash) is one report, whatever the lookups saw.
OneReportPerKey == \A s, t \in Slots : s # t /\ filed[s] = filed[t] => filed[s] = "free"

\* A draft is deleted by submitDraft only once its report exists, so a crash in between
\* loses neither.
DraftBecomesReport == draft = "gone" => Filed(DraftKey)
=============================================================================
