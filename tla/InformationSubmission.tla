----------------------- MODULE InformationSubmission ------------------------
(***************************************************************************)
(* core/information-submission: tips about a missing person.  A tip is     *)
(* filed, claimed or assigned, questioned, reviewed or closed as a         *)
(* duplicate, appealed, anonymised.  Requests load the tip first (Load)    *)
(* and write afterwards; claim, respond and the appeal are the only writes *)
(* that name the state they expect.                                        *)
(***************************************************************************)
EXTENDS Naturals, FiniteSets

CONSTANTS Tips, Requests, Keys, Media, Questions, MaxPending, MaxOpenQuestions, None

VARIABLES
  tip,       \* information_submission rows
  seen,      \* the row each request has loaded
  question,  \* information_question rows: the tip and the request that answered
  appealed,  \* tips with an information_appeal row
  trace,     \* tables that still hold the informant's id for the tip
  reads,     \* information_admin_read
  caseState, \* status of the missing person's case
  job,       \* one export job
  claimants  \* history: admins told they claimed the tip since it was last free

tipVars == <<tip, seen, question, appealed, trace, reads, caseState, job, claimants>>

OPEN_STATUSES == {"PENDING", "UNDER_REVIEW"}
TERMINAL_STATUSES == {"REVIEWED", "REJECTED"}
ALLOWED_STATUS_TRANSITIONS ==
  [s \in OPEN_STATUSES \cup TERMINAL_STATUSES |-> IF s = "PENDING" THEN {"UNDER_REVIEW"} ELSE {}]

NoTip == [status |-> "none", owner |-> None, assignee |-> None, marks |-> {}, duplicateOf |-> None, media |-> {}, key |-> None, priority |-> 1]
FiledTip(st) == [NoTip EXCEPT !.status = st, !.owner = "informant"]
NotSeen == [tip |-> None, row |-> NoTip, op |-> "none"]
NoJob == [state |-> "none", file |-> {}]

TipInit(Start) ==
  /\ tip \in [Tips -> Start]
  /\ seen = [q \in Requests |-> NotSeen]
  /\ question = [k \in Questions |-> [tip |-> None, by |-> None]]
  /\ appealed = {} /\ reads = {} /\ caseState = "APPROVED" /\ job = NoJob
  /\ trace = [t \in Tips |-> {}]
  /\ claimants = [t \in Tips |-> {}]

Present(t) == tip[t].status # "none"
Load(q, t) ==
  /\ seen[q] = NotSeen /\ Present(t)
  /\ seen' = [seen EXCEPT ![q] = [tip |-> t, row |-> tip[t], op |-> "loaded"]]
  /\ UNCHANGED <<tip, question, appealed, trace, reads, caseState, job, claimants>>
Was(q) == seen[q].row
Loaded(q, t) == seen[q].tip = t /\ seen[q].op = "loaded"
findLiveOrThrow(q, t) == Loaded(q, t) /\ "deleted" \notin Was(q).marks
findOwnedOrThrow(q, t) == findLiveOrThrow(q, t) /\ Was(q).owner # None
assertNotLockedByOther(q) == Was(q).assignee \in {None, q}
assertNoLegalHold(q) == "hold" \notin Was(q).marks
Respond(q) == seen' = [seen EXCEPT ![q] = NotSeen]
Refused(q) == seen[q] # NotSeen /\ Respond(q) /\ UNCHANGED <<tip, question, appealed, trace, reads, caseState, job, claimants>>

Write(q, t, v) ==
  Present(t) /\ tip' = [tip EXCEPT ![t] = v] /\ Respond(q) /\ UNCHANGED <<question, appealed, trace, reads, caseState, job, claimants>>
Freed(q, t, v) ==
  /\ Present(t) /\ tip' = [tip EXCEPT ![t] = v] /\ claimants' = [claimants EXCEPT ![t] = {}]
  /\ Respond(q) /\ UNCHANGED <<question, appealed, trace, reads, caseState, job>>
markUnreadForAdmins(t) == reads' = {r \in reads : r[1] # t}
Leaves(t, tables) == trace' = [trace EXCEPT ![t] = @ \cup tables]

-----------------------------------------------------------------------------
(* Workflow and review. *)

\* The update asks for a free, live tip; the loser is told "already_claimed".
TakeTip(q, t) ==
  /\ tip' = [tip EXCEPT ![t].assignee = q] /\ claimants' = [claimants EXCEPT ![t] = @ \cup {q}]
  /\ Respond(q) /\ UNCHANGED <<question, appealed, trace, reads, caseState, job>>
claim_Fault(q, t) == findLiveOrThrow(q, t) /\ Was(q).status \in OPEN_STATUSES /\ Was(q).assignee = None /\ Present(t) /\ TakeTip(q, t)
claim(q, t) ==
  findLiveOrThrow(q, t) /\ Was(q).status \in OPEN_STATUSES /\ Present(t) /\ tip[t].assignee = None /\ "deleted" \notin tip[t].marks /\ TakeTip(q, t)
unclaim(q, t) == findLiveOrThrow(q, t) /\ Was(q).assignee = q /\ Freed(q, t, [tip[t] EXCEPT !.assignee = None])
assignInternal(q, t, a) ==
  findLiveOrThrow(q, t) /\ Was(q).status \in OPEN_STATUSES /\ Was(q).assignee # a /\ Freed(q, t, [tip[t] EXCEPT !.assignee = a])
bulkAssign(q, a) == \E t \in Tips : assignInternal(q, t, a)
unassign(q, t) == findLiveOrThrow(q, t) /\ Was(q).assignee # None /\ Freed(q, t, [tip[t] EXCEPT !.assignee = None])

setPriority(q, t, p) == findLiveOrThrow(q, t) /\ Was(q).priority # p /\ Write(q, t, [tip[t] EXCEPT !.priority = p])
setCredibility(q, t) == findLiveOrThrow(q, t) /\ Write(q, t, tip[t])
\* The higher of the requested priority and the one that was loaded; unread for everybody.
escalate(q, t, p) ==
  /\ findLiveOrThrow(q, t) /\ Present(t)
  /\ tip' = [tip EXCEPT ![t].priority = IF p > Was(q).priority THEN p ELSE Was(q).priority]
  /\ markUnreadForAdmins(t) /\ Respond(q) /\ UNCHANGED <<question, appealed, trace, caseState, job, claimants>>

\* Neither the deletion nor the assignee is asked, and the write names only the id.
updateStatus(q, t, to) == Loaded(q, t) /\ to \in ALLOWED_STATUS_TRANSITIONS[Was(q).status] /\ Write(q, t, [tip[t] EXCEPT !.status = to])
review(q, t, to) ==
  /\ Loaded(q, t) /\ Was(q).status = "UNDER_REVIEW" /\ (to = "REVIEWED" => Was(q).owner # None)
  /\ Write(q, t, [tip[t] EXCEPT !.status = to])
\* The bulk calls check the live tip and its assignee first; review loads it again.
reviewOne(q, t) ==
  /\ findLiveOrThrow(q, t) /\ assertNotLockedByOther(q) /\ Present(t)
  /\ seen' = [seen EXCEPT ![q].row = tip[t]]
  /\ UNCHANGED <<tip, question, appealed, trace, reads, caseState, job, claimants>>
bulkReview(q, to) == \E t \in Tips : assertNotLockedByOther(q) /\ review(q, t, to)
bulkReject(q) == bulkReview(q, "REJECTED")

\* A target that is itself a duplicate is replaced by its own original.
RootOf(o) == IF tip[o].duplicateOf # None THEN tip[o].duplicateOf ELSE o
closeWithResolution_Fault(q, t, v) ==
  /\ findLiveOrThrow(q, t) /\ assertNotLockedByOther(q) /\ Was(q).status \in OPEN_STATUSES
  /\ Write(q, t, [v EXCEPT !.status = IF v.duplicateOf = None THEN "ALREADY_KNOWN" ELSE "DUPLICATE"])
closeWithResolution(q, t, v) ==
  /\ findLiveOrThrow(q, t) /\ assertNotLockedByOther(q) /\ Was(q).status \in OPEN_STATUSES
  /\ Write(q, t, [v EXCEPT !.status = "REJECTED"])
markDuplicate(q, t, o) ==
  o # t /\ Present(o) /\ "deleted" \notin tip[o].marks /\ closeWithResolution(q, t, [tip[t] EXCEPT !.duplicateOf = RootOf(o)])
markAlreadyKnown(q, t) == closeWithResolution(q, t, [tip[t] EXCEPT !.marks = @ \cup {"known"}])
getTransitions(t) == IF "deleted" \in tip[t].marks \/ tip[t].status \notin OPEN_STATUSES THEN {} ELSE ALLOWED_STATUS_TRANSITIONS[tip[t].status] \cup {"REJECTED"}

-----------------------------------------------------------------------------
(* The conversation with the informant. *)

OpenQuestions(t) == {k \in Questions : question[k].tip = t /\ question[k].by = None}
requestInformation(q, t, k) ==
  /\ findOwnedOrThrow(q, t) /\ assertNotLockedByOther(q) /\ question[k].tip = None
  /\ Cardinality(OpenQuestions(t)) < MaxOpenQuestions
  /\ question' = [question EXCEPT ![k].tip = t]
  /\ Respond(q) /\ UNCHANGED <<tip, appealed, trace, reads, caseState, job, claimants>>
messageInformant(q, t) == findOwnedOrThrow(q, t) /\ assertNotLockedByOther(q) /\ Write(q, t, tip[t])
\* The open question is looked up first, then claimed by its missing answer.
FindQuestion(q, t, k) ==
  /\ findOwnedOrThrow(q, t) /\ k \in OpenQuestions(t)
  /\ seen' = [seen EXCEPT ![q].op = k] /\ UNCHANGED <<tip, question, appealed, trace, reads, caseState, job, claimants>>
AnswerQuestion(q, k) ==
  /\ seen[q].op = k /\ Present(seen[q].tip)
  /\ question' = [question EXCEPT ![k].by = q]
  /\ Leaves(seen[q].tip, {"timeline"}) /\ markUnreadForAdmins(seen[q].tip)
  /\ Respond(q) /\ UNCHANGED <<tip, appealed, caseState, job, claimants>>
respond_Fault(q, k) == AnswerQuestion(q, k)
respond(q, k) == question[k].by = None /\ AnswerQuestion(q, k)

\* The media lists are written back as they were loaded, plus the new files.
addEvidence(q, t, m) ==
  /\ findOwnedOrThrow(q, t) /\ Was(q).status \in OPEN_STATUSES /\ m \notin Was(q).media /\ Present(t)
  /\ tip' = [tip EXCEPT ![t].media = Was(q).media \cup {m}]
  /\ Leaves(t, {"timeline", "revision"}) /\ markUnreadForAdmins(t)
  /\ Respond(q) /\ UNCHANGED <<question, appealed, caseState, job, claimants>>
detachMedia(q, t, m) == m \in Was(q).media /\ tip' = [tip EXCEPT ![t].media = Was(q).media \ {m}]
removeOwnMedia(q, t, m) ==
  /\ findOwnedOrThrow(q, t) /\ Was(q).status = "PENDING" /\ assertNoLegalHold(q) /\ Present(t) /\ detachMedia(q, t, m)
  /\ Leaves(t, {"revision"}) /\ Respond(q) /\ UNCHANGED <<question, appealed, reads, caseState, job, claimants>>
removeMediaByAdmin(q, t, m) ==
  /\ findLiveOrThrow(q, t) /\ assertNoLegalHold(q) /\ assertNotLockedByOther(q) /\ Present(t) /\ detachMedia(q, t, m)
  /\ Respond(q) /\ UNCHANGED <<question, appealed, trace, reads, caseState, job, claimants>>
redactMedia(q, t, m) == findLiveOrThrow(q, t) /\ m \in Was(q).media /\ Write(q, t, [tip[t] EXCEPT !.marks = @ \cup {"redacting"}])

\* submissionId is unique in information_appeal.
appealRejection(q, t) ==
  /\ findOwnedOrThrow(q, t) /\ Was(q).status = "REJECTED" /\ t \notin appealed /\ Present(t)
  /\ appealed' = appealed \cup {t} /\ Leaves(t, {"appeal", "timeline"}) /\ markUnreadForAdmins(t)
  /\ Respond(q) /\ UNCHANGED <<tip, question, caseState, job, claimants>>
revealInformant(q, t) ==
  /\ findOwnedOrThrow(q, t) /\ Leaves(t, {"identity"})
  /\ Respond(q) /\ UNCHANGED <<tip, question, appealed, reads, caseState, job, claimants>>

Forget(t, tables) == trace' = [trace EXCEPT ![t] = @ \ tables]
AnonymizeWith(q, t, tables) ==
  /\ findOwnedOrThrow(q, t) /\ Was(q).status \in TERMINAL_STATUSES /\ assertNoLegalHold(q) /\ Present(t)
  /\ Forget(t, tables)
  /\ tip' = [tip EXCEPT ![t].owner = None, ![t].key = None]
  /\ Respond(q) /\ UNCHANGED <<question, appealed, reads, caseState, job, claimants>>
anonymize_Fault(q, t) == AnonymizeWith(q, t, {"appeal", "timeline", "identity"})
anonymize(q, t) == AnonymizeWith(q, t, {"appeal", "timeline", "revision", "identity"})
setLegalHold(q, t) ==
  Loaded(q, t) /\ Write(q, t, [tip[t] EXCEPT !.marks = IF "hold" \in Was(q).marks THEN @ \ {"hold"} ELSE @ \cup {"hold"}])
removeByAdmin(q, t) == findLiveOrThrow(q, t) /\ assertNoLegalHold(q) /\ Write(q, t, [tip[t] EXCEPT !.marks = @ \cup {"deleted"}])
restore(q, t) == Loaded(q, t) /\ "deleted" \in Was(q).marks /\ Write(q, t, [tip[t] EXCEPT !.marks = @ \ {"deleted"}])

-----------------------------------------------------------------------------
(* Filing. *)

enforceMaxPending == Cardinality({t \in Tips : tip[t].status \in OPEN_STATUSES}) < MaxPending
KeyTaken(k) == k # None /\ \E t \in Tips : tip[t].key = k
CreateRead(q, k) ==
  /\ seen[q] = NotSeen /\ ~KeyTaken(k) /\ caseState = "APPROVED" /\ enforceMaxPending
  /\ seen' = [seen EXCEPT ![q] = [tip |-> None, row |-> [NoTip EXCEPT !.key = k], op |-> "create"]]
  /\ UNCHANGED <<tip, question, appealed, trace, reads, caseState, job, claimants>>
\* The unique index on (user, key) refuses the second insert, which is answered with an error.
create_Fault(q, t) ==
  /\ seen[q].op = "create" /\ ~Present(t)
  /\ tip' = [tip EXCEPT ![t] = [FiledTip("PENDING") EXCEPT !.key = Was(q).key]]
  /\ Respond(q) /\ UNCHANGED <<question, appealed, trace, reads, caseState, job, claimants>>
create(q, t) ==
  /\ seen[q].op = "create" /\ ~Present(t) /\ ~KeyTaken(Was(q).key)
  /\ tip' = [tip EXCEPT ![t] = [FiledTip("PENDING") EXCEPT !.key = Was(q).key]]
  /\ Respond(q) /\ UNCHANGED <<question, appealed, trace, reads, caseState, job, claimants>>
update(q, t, ms) == Loaded(q, t) /\ Was(q).owner # None /\ Was(q).status = "PENDING" /\ Write(q, t, [tip[t] EXCEPT !.media = ms])
\* Deletes the row, whatever became of it since it was loaded as PENDING.
remove(q, t) == Loaded(q, t) /\ Was(q).owner # None /\ Was(q).status = "PENDING" /\ Freed(q, t, NoTip)
CaseCloses == caseState = "APPROVED" /\ caseState' = "FOUND" /\ UNCHANGED <<tip, seen, question, appealed, trace, reads, job, claimants>>

-----------------------------------------------------------------------------
(* What is shown. *)

Live == {t \in Tips : Present(t) /\ "deleted" \notin tip[t].marks}
findForMissingPersonUncached == {t \in Live : tip[t].status = "REVIEWED"}
getPublicMediaDownloadUrl(t, m) == t \in findForMissingPersonUncached /\ m \in tip[t].media
findMine == {t \in Live : tip[t].owner # None}
findMineForMissingPerson == findMine
countMyUnreadUpdates == findMine
getMySummary == findMine

unreadWhere(a) == {t \in Live : <<t, a>> \notin reads}
findUnread(a) == unreadWhere(a)
countUnread(a) == unreadWhere(a)
countUnreadByStatus(a) == unreadWhere(a)
countUnreadByCase(a) == unreadWhere(a)
getReadCounts(a) == Live
listByCase == Live
findByCase == Live
listByInformant == findMine
listRepeatRejections == {t \in findMine : tip[t].status = "REJECTED"}
findByInformant == findMine
getInformantSummary == findMine
findAllForAdmin == Live
findStalePending == {t \in Live : tip[t].status \in OPEN_STATUSES}
findRelated(t) == Live \ {t}
searchForAdmin == Live
getFacets == Live
exportWhere_Fault == {t \in Tips : Present(t)}
exportWhere == Live
buildExportCsv == exportWhere
statsWhere == Live
statsSql == Live
getStats == Live
getStatsTimeline == statsSql
getStatsByStatus == statsWhere
getStatsByCase == statsWhere
getStatsReviewTime == statsSql
getStatsBacklog == statsSql
getStatsAging == {t \in statsWhere : tip[t].status \in OPEN_STATUSES}
getStatsUsefulness == statsWhere
getStatsOverview == statsWhere
ShownToAdmins(a) ==
  findUnread(a) \cup countUnread(a) \cup countUnreadByStatus(a) \cup countUnreadByCase(a) \cup getReadCounts(a)
  \cup listByCase \cup findByCase \cup listByInformant \cup listRepeatRejections \cup findByInformant
  \cup getInformantSummary \cup findAllForAdmin \cup findStalePending \cup searchForAdmin \cup getFacets
  \cup buildExportCsv \cup getStats \cup getStatsTimeline \cup getStatsByStatus \cup getStatsByCase
  \cup getStatsReviewTime \cup getStatsBacklog \cup getStatsAging \cup getStatsUsefulness \cup getStatsOverview
ShownToOthers == findForMissingPersonUncached \cup findMineForMissingPerson \cup countMyUnreadUpdates \cup getMySummary
\* Reachable by id even when deleted.
findOneForAdmin(t) == Present(t)
getHistory(t) == Present(t)
listTrash == {t \in Tips : "deleted" \in tip[t].marks}

SetReads(rs) == reads' = rs /\ UNCHANGED <<tip, seen, question, appealed, trace, caseState, job, claimants>>
markRead(a, t) == t \in Live /\ SetReads(reads \cup {<<t, a>>})
markUnread(a, t) == t \in Live /\ SetReads(reads \ {<<t, a>>})
bulkMarkRead(a, ids) == SetReads(reads \cup ((ids \cap Live) \X {a}))
bulkMarkUnread(a, ids) == SetReads(reads \ (ids \X {a}))
markAllRead(a) == SetReads(reads \cup (unreadWhere(a) \X {a}))
markCaseUnread(a) == SetReads({r \in reads : r[2] # a})

SetJob(v) == job' = v /\ UNCHANGED <<tip, seen, question, appealed, trace, reads, caseState, claimants>>
\* A job of the last thirty minutes that is still QUEUED or RUNNING blocks another.
startExportJob == job.state \notin {"QUEUED", "RUNNING"} /\ SetJob([state |-> "QUEUED", file |-> {}])
RunExport == job.state = "QUEUED" /\ SetJob([job EXCEPT !.state = "RUNNING"])
runExportJob == job.state = "RUNNING" /\ (SetJob([state |-> "COMPLETED", file |-> buildExportCsv]) \/ SetJob([job EXCEPT !.state = "FAILED"]))
\* Polling times out a job that is stuck and expires one that is old.
getExportJob ==
  \/ job.state = "RUNNING" /\ SetJob([job EXCEPT !.state = "FAILED"])
  \/ job.state = "COMPLETED" /\ SetJob([state |-> "EXPIRED", file |-> {}])
getExportJobDownloadUrl == job.state = "COMPLETED"

-----------------------------------------------------------------------------
WorkNext ==
  \/ \E q \in Requests, t \in Tips :
       \/ Load(q, t) \/ claim(q, t) \/ unclaim(q, t) \/ unassign(q, t) \/ reviewOne(q, t) \/ markAlreadyKnown(q, t)
       \/ updateStatus(q, t, "UNDER_REVIEW") \/ review(q, t, "REVIEWED") \/ setCredibility(q, t)
       \/ \E p \in 1..2 : setPriority(q, t, p) \/ escalate(q, t, p)
       \/ \E o \in Tips : markDuplicate(q, t, o)
  \/ \E q, a \in Requests : bulkAssign(q, a)
  \/ \E q \in Requests : bulkReject(q) \/ Refused(q)

TalkNext ==
  \/ \E q \in Requests, t \in Tips :
       \/ Load(q, t) \/ appealRejection(q, t) \/ revealInformant(q, t) \/ anonymize(q, t) \/ messageInformant(q, t)
       \/ updateStatus(q, t, "UNDER_REVIEW") \/ review(q, t, "REJECTED")
       \/ \E k \in Questions : requestInformation(q, t, k) \/ FindQuestion(q, t, k)
       \/ \E m \in Media :
            addEvidence(q, t, m) \/ removeOwnMedia(q, t, m) \/ removeMediaByAdmin(q, t, m) \/ redactMedia(q, t, m)
  \/ \E q \in Requests, k \in Questions : respond(q, k)
  \/ \E q \in Requests : Refused(q)

FileNext ==
  \/ \E q \in Requests, k \in Keys \cup {None} : CreateRead(q, k)
  \/ \E q \in Requests, t \in Tips : create(q, t) \/ Load(q, t) \/ remove(q, t) \/ \E ms \in SUBSET Media : update(q, t, ms)
  \/ \E q \in Requests : Refused(q)
  \/ CaseCloses

ShowNext ==
  \/ \E a \in Requests, t \in Tips :
       \/ markRead(a, t) \/ markUnread(a, t) \/ Load(a, t) \/ removeByAdmin(a, t) \/ restore(a, t) \/ setLegalHold(a, t)
  \/ \E a \in Requests, ids \in SUBSET Tips : bulkMarkRead(a, ids) \/ bulkMarkUnread(a, ids)
  \/ \E a \in Requests : markAllRead(a) \/ markCaseUnread(a) \/ Refused(a)
  \/ startExportJob \/ RunExport \/ runExportJob \/ getExportJob

FiledTips == {NoTip} \cup {FiledTip(st) : st \in OPEN_STATUSES \cup TERMINAL_STATUSES}
TipNext == WorkNext \/ TalkNext \/ FileNext \/ ShowNext
TipSpec == TipInit(FiledTips) /\ [][TipNext]_tipVars

-----------------------------------------------------------------------------
TipTypeOK ==
  /\ \A t \in Tips : tip[t].status \in OPEN_STATUSES \cup TERMINAL_STATUSES \cup {"none"} /\ tip[t].duplicateOf \in Tips \cup {None}
  /\ \A q \in Requests : seen[q].op \in {"none", "loaded", "create"} \cup Questions
  /\ appealed \subseteq Tips /\ reads \subseteq Tips \X Requests

\* Two reviewers who claim the same tip at the same time: one of them gets it.
OneClaimant == \A t \in Tips : Cardinality(claimants[t]) <= 1

\* The informant's two devices may answer the same question; the first answer stays.
AnswerStays == \A k \in Questions : question[k].by # None => question'[k] = question[k]

\* When no other request is in flight, anonymize leaves the informant's id in no table of
\* the tip, whatever was asked, answered, added, appealed or revealed before.
AnonymizedLeavesNoTrace == \A t \in Tips : Present(t) /\ tip[t].owner = None => trace[t] = {}

\* A concurrent or retried create with the same key never stores a second tip.
OneTipPerKey == \A t, u \in Tips : tip[t].key = tip[u].key /\ tip[t].key # None => t = u

\* A removed tip is in no list, figure or export that filters on deletedAt, the public ones
\* included.  Not so the trash, findOne, the decisions of getStatsByAdmin and the pending appeals.
RemovedTipHidden == \A t \in Tips, a \in Requests : "deleted" \in tip[t].marks => t \notin ShownToAdmins(a) \cup ShownToOthers
=============================================================================
