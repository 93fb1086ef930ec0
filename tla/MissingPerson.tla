--------------------------- MODULE MissingPerson ----------------------------
(***************************************************************************)
(* core/missing-person: filing, review, moderation, admin operations and   *)
(* listings of missing person cases.  A handler loads the row (Load), then *)
(* decides and writes in a later step; only the writes that name a status  *)
(* or a mark in their where clause are safe against what happened since.   *)
(***************************************************************************)
EXTENDS Naturals, FiniteSets

CONSTANTS Cases, Requests, Keys, Media, Appeals, MAX_PENDING, None

VARIABLES
  row,       \* missing_person rows
  seen,      \* the row each request has loaded, and its id
  appeal,    \* missing_person_appeal rows: case, state
  flagged,   \* open flags: pairs of case and reporter
  reads,     \* read states: pairs of case and admin
  job,       \* the state and content of one export job
  confirmed  \* history: admins who confirmed the child's safety

mpVars == <<row, seen, appeal, flagged, reads, job, confirmed>>

ALLOWED_TRANSITIONS == [
  PENDING |-> {"UNDER_REVIEW", "CANCELLED", "EXPIRED"},
  UNDER_REVIEW |-> {"MORE_INFORMATION_REQUESTED", "APPROVED", "REJECTED", "CANCELLED", "EXPIRED"},
  MORE_INFORMATION_REQUESTED |-> {"CANCELLED", "EXPIRED"},
  APPROVED |-> {"FOUND", "EXPIRED"},
  REJECTED |-> {}, FOUND |-> {}, EXPIRED |-> {}, CANCELLED |-> {}]
Statuses == DOMAIN ALLOWED_TRANSITIONS
TERMINAL_STATUSES == {"REJECTED", "FOUND", "EXPIRED", "CANCELLED"}
EDITABLE_STATUSES == {"PENDING", "MORE_INFORMATION_REQUESTED"}

NoRow == [status |-> "none", type |-> "WOMAN", first |-> None, claim |-> None, assignee |-> None,
          marks |-> {}, prev |-> None, proposer |-> None, proposed |-> None, media |-> {}, key |-> None]
Marks == {"deleted", "hold", "takedown", "merged", "found", "renewed", "suspended", "revised", "updated", "redacting", "ownerSaw"}
NotSeen == [case |-> None, row |-> NoRow, op |-> "none"]
NoJob == [state |-> "none", content |-> {}]

Filed(st, t) == [NoRow EXCEPT !.status = st, !.type = t]

MPInit(Start) ==
  /\ row \in [Cases -> Start]
  /\ seen = [q \in Requests |-> NotSeen]
  /\ appeal = [a \in Appeals |-> [case |-> None, state |-> "none"]]
  /\ flagged = {} /\ reads = {} /\ job = NoJob
  /\ confirmed = [c \in Cases |-> {}]

Present(c) == row[c].status # "none"
Load(q, c) ==
  /\ seen[q] = NotSeen /\ Present(c)
  /\ seen' = [seen EXCEPT ![q] = [case |-> c, row |-> row[c], op |-> "loaded"]]
  /\ UNCHANGED <<row, appeal, flagged, reads, job, confirmed>>
loadCase(q, c) == seen[q].case = c /\ seen[q].op = "loaded"
Was(q) == seen[q].row
loadOwnCase(q, c) == loadCase(q, c) /\ "deleted" \notin Was(q).marks
Mark(r, m) == [r EXCEPT !.marks = @ \cup {m}]
Respond(q) == seen' = [seen EXCEPT ![q] = NotSeen]
Refused(q) == seen[q] # NotSeen /\ Respond(q) /\ UNCHANGED <<row, appeal, flagged, reads, job, confirmed>>

Claims(q, c) == row[c].status = Was(q).status
Write(q, c, v) == Present(c) /\ row' = [row EXCEPT ![c] = v] /\ Respond(q) /\ UNCHANGED <<appeal, flagged, reads, job, confirmed>>
assertNotClaimedByOther(q) == Was(q).claim \in {None, q}

-----------------------------------------------------------------------------
(* Review. *)

claimMissingPerson(q, c) == loadCase(q, c) /\ assertNotClaimedByOther(q) /\ Write(q, c, [row[c] EXCEPT !.claim = q])
unclaimMissingPerson(q, c) == loadCase(q, c) /\ assertNotClaimedByOther(q) /\ Write(q, c, [row[c] EXCEPT !.claim = None])

MayMove(q, c, to) ==
  /\ seen[q].case = c /\ seen[q].op \in {"loaded", to}
  /\ assertNotClaimedByOther(q) /\ to \in ALLOWED_TRANSITIONS[Was(q).status]
NeedsSafety(q, to) == to = "APPROVED" /\ Was(q).type = "CHILD"

\* The first confirmation is a write of its own; the second admin's request approves.
FirstConfirmation(q, c) ==
  /\ MayMove(q, c, "APPROVED") /\ NeedsSafety(q, "APPROVED") /\ Was(q).first = None /\ Present(c)
  /\ row' = [row EXCEPT ![c].first = q]
  /\ confirmed' = [confirmed EXCEPT ![c] = @ \cup {q}]
  /\ Respond(q) /\ UNCHANGED <<appeal, flagged, reads, job>>
ensureChildSafetySatisfied_Fault(q) == Was(q).first # None
ensureChildSafetySatisfied(q) == Was(q).first \notin {None, q}

updateStatus(q, c, to) ==
  /\ MayMove(q, c, to) /\ Claims(q, c)
  /\ NeedsSafety(q, to) => ensureChildSafetySatisfied(q)
  /\ row' = [row EXCEPT ![c].status = to, ![c].claim = None]
  /\ confirmed' = IF NeedsSafety(q, to) THEN [confirmed EXCEPT ![c] = @ \cup {q}] ELSE confirmed
  /\ Respond(q) /\ UNCHANGED <<appeal, flagged, reads, job>>

\* Any active admin may be assigned; the claim is not asked.
assign(q, c, a) == loadCase(q, c) /\ Write(q, c, [row[c] EXCEPT !.assignee = a])
unassign(q, c) == loadCase(q, c) /\ Was(q).assignee # None /\ Write(q, c, [row[c] EXCEPT !.assignee = None])
bulkAssign(q, a) == \E c \in Cases : assign(q, c, a)

\* The bulk calls check the row they load, then updateStatus loads it again.
Again(q, c, to) ==
  /\ Present(c) /\ seen' = [seen EXCEPT ![q] = [case |-> c, row |-> row[c], op |-> to]]
  /\ UNCHANGED <<row, appeal, flagged, reads, job, confirmed>>
Available(q) == Was(q).marks \cap {"deleted", "merged"} = {}
bulkApprove(q, c) == loadCase(q, c) /\ Was(q).type # "CHILD" /\ Available(q) /\ Again(q, c, "APPROVED")
bulkReject(q, c) == loadCase(q, c) /\ Available(q) /\ Again(q, c, "REJECTED")
bulkExpire(q, c) == loadCase(q, c) /\ "hold" \notin Was(q).marks /\ Again(q, c, "EXPIRED")
moveToUnderReview(q, c) ==
  /\ seen[q].case = c /\ seen[q].op \in {"APPROVED", "REJECTED"} /\ Was(q).status = "PENDING"
  /\ assertNotClaimedByOther(q) /\ Claims(q, c)
  /\ row' = [row EXCEPT ![c].status = "UNDER_REVIEW", ![c].claim = None]
  /\ seen' = [seen EXCEPT ![q].row = row'[c]]
  /\ UNCHANGED <<appeal, flagged, reads, job, confirmed>>

listFoundClaims == {c \in Cases : row[c].status = "APPROVED" /\ "found" \in row[c].marks /\ row[c].marks \cap {"deleted", "merged"} = {}}
\* Confirming runs updateStatus first and clears the report in a second write.
verifyFound(q, c) ==
  /\ loadCase(q, c) /\ "found" \in Was(q).marks
  /\ \/ /\ Was(q).status = "APPROVED" /\ assertNotClaimedByOther(q) /\ Claims(q, c)
        /\ Write(q, c, [row[c] EXCEPT !.status = "FOUND", !.claim = None, !.marks = @ \ {"found"}])
     \/ Write(q, c, [row[c] EXCEPT !.marks = @ \ {"found"}])

reopen_Fault(q, c) ==
  /\ loadCase(q, c) /\ Was(q).marks \cap {"deleted", "merged"} = {} /\ Was(q).status \in {"EXPIRED", "CANCELLED", "FOUND"}
  /\ Claims(q, c)
  /\ Write(q, c, [row[c] EXCEPT !.status = IF Was(q).status = "CANCELLED" THEN "UNDER_REVIEW" ELSE "APPROVED", !.marks = @ \ {"found"}])
reopen(q, c) ==
  /\ loadCase(q, c) /\ Was(q).marks \cap {"deleted", "merged", "takedown"} = {} /\ Was(q).status \in {"EXPIRED", "CANCELLED", "FOUND"}
  /\ Claims(q, c)
  /\ Write(q, c, [row[c] EXCEPT !.status = IF Was(q).status = "CANCELLED" THEN "UNDER_REVIEW" ELSE "APPROVED", !.marks = @ \ {"found"}])
getTransitions(c) == ALLOWED_TRANSITIONS[row[c].status]

-----------------------------------------------------------------------------
(* The owner. *)

\* Written by id alone: what review did since the load is overwritten.
update(q, c, t, ms) ==
  /\ loadCase(q, c) /\ Was(q).status \in EDITABLE_STATUSES
  /\ Write(q, c, [row[c] EXCEPT !.type = t, !.media = ms,
                    !.status = IF Was(q).status = "MORE_INFORMATION_REQUESTED" THEN "PENDING" ELSE @])
remove(q, c) == loadCase(q, c) /\ Was(q).status = "PENDING" /\ Write(q, c, NoRow)
reportFoundByOwner(q, c) ==
  /\ loadOwnCase(q, c) /\ Was(q).status = "APPROVED" /\ "found" \notin Was(q).marks
  /\ Write(q, c, Mark(row[c], "found"))
AppealsOf(c) == {a \in Appeals : appeal[a].case = c}
\* No unique index: two requests may both find no open appeal (AppealCheck).
AppealCheck(q, c) ==
  /\ loadOwnCase(q, c) /\ Was(q).status = "REJECTED"
  /\ \A a \in AppealsOf(c) : appeal[a].state \notin {"PENDING", "DECLINED"}
  /\ seen' = [seen EXCEPT ![q].op = "appeal"] /\ UNCHANGED <<row, appeal, flagged, reads, job, confirmed>>
appealRejection(q, a) ==
  /\ seen[q].op = "appeal" /\ appeal[a].state = "none" /\ Present(seen[q].case)
  /\ appeal' = [appeal EXCEPT ![a] = [case |-> seen[q].case, state |-> "PENDING"]]
  /\ Respond(q) /\ UNCHANGED <<row, flagged, reads, job, confirmed>>

applyRenewal(q, c) == loadOwnCase(q, c) /\ Was(q).status = "APPROVED" /\ Write(q, c, Mark(row[c], "renewed"))
createCaseUpdate(q, c) == loadCase(q, c) /\ Was(q).status = "APPROVED" /\ Write(q, c, Mark(row[c], "updated"))
markMineSeen(q, c) == loadOwnCase(q, c) /\ Write(q, c, Mark(row[c], "ownerSaw"))

-----------------------------------------------------------------------------
(* Moderation. *)

flag(u, c) ==
  /\ Present(c) /\ row[c].status = "APPROVED" /\ <<c, u>> \notin flagged
  /\ flagged' = flagged \cup {<<c, u>>} /\ UNCHANGED <<row, seen, appeal, reads, job, confirmed>>
Hidden(r) == [r EXCEPT !.status = "CANCELLED", !.marks = @ \cup {"takedown"}, !.claim = None]
hideCase(q, c) == row[c].status = "APPROVED" /\ row' = [row EXCEPT ![c] = Hidden(@)]
takedown(q, c) ==
  loadCase(q, c) /\ Was(q).status = "APPROVED" /\ hideCase(q, c) /\ Respond(q) /\ UNCHANGED <<appeal, flagged, reads, job, confirmed>>
\* HIDE_CASE closes every open flag of the case, the other actions only the one.
resolveFlag(q, c, u) ==
  /\ loadCase(q, c) /\ <<c, u>> \in flagged
  /\ \/ /\ IF Was(q).status = "APPROVED" THEN hideCase(q, c) ELSE UNCHANGED row
        /\ flagged' = {f \in flagged : f[1] # c}
     \/ flagged' = flagged \ {<<c, u>>} /\ UNCHANGED row
  /\ Respond(q) /\ UNCHANGED <<appeal, reads, job, confirmed>>
liftTakedown(q, c) ==
  /\ loadCase(q, c) /\ "takedown" \in Was(q).marks /\ "deleted" \notin Was(q).marks
  /\ row[c].status = "CANCELLED" /\ "takedown" \in row[c].marks
  /\ Write(q, c, [row[c] EXCEPT !.status = "APPROVED", !.marks = @ \ {"takedown"}])

\* The appeal is claimed; the case follows if it is still REJECTED.
decideAppeal(a, decision) ==
  /\ appeal[a].state = "PENDING" /\ Present(appeal[a].case)
  /\ appeal' = [appeal EXCEPT ![a].state = decision]
  /\ row' = IF decision = "ACCEPTED" /\ row[appeal[a].case].status = "REJECTED"
            THEN [row EXCEPT ![appeal[a].case].status = "UNDER_REVIEW"] ELSE row
  /\ UNCHANGED <<seen, flagged, reads, job, confirmed>>
handleUserSuspended ==
  /\ row' = [c \in Cases |-> IF Present(c) /\ row[c].status \notin TERMINAL_STATUSES
                             THEN Mark(row[c], "suspended") ELSE row[c]]
  /\ UNCHANGED <<seen, appeal, flagged, reads, job, confirmed>>

-----------------------------------------------------------------------------
(* Admin operations. *)

removeByAdmin(q, c) ==
  /\ loadCase(q, c) /\ Was(q).marks \cap {"deleted", "hold"} = {} /\ "deleted" \notin row[c].marks
  /\ Write(q, c, [row[c] EXCEPT !.marks = @ \cup {"deleted"}, !.claim = None, !.prev = Was(q).status,
                    !.status = IF Was(q).status \in TERMINAL_STATUSES THEN @ ELSE "CANCELLED"])
CanRestoreStatus(r) == r.status = "CANCELLED" /\ "takedown" \notin r.marks /\ r.prev \notin TERMINAL_STATUSES \cup {None}
restore(q, c) ==
  /\ loadCase(q, c) /\ "deleted" \in Was(q).marks
  /\ Write(q, c, [row[c] EXCEPT !.marks = @ \ {"deleted"}, !.prev = None,
                    !.status = IF CanRestoreStatus(Was(q)) THEN Was(q).prev ELSE @])
setLegalHold(q, c) ==
  loadCase(q, c) /\ Write(q, c, [row[c] EXCEPT !.marks = IF "hold" \in Was(q).marks THEN @ \ {"hold"} ELSE @ \cup {"hold"}])
editByAdmin(q, c) ==
  /\ loadOwnCase(q, c) /\ Was(q).status \in {"PENDING", "UNDER_REVIEW", "MORE_INFORMATION_REQUESTED"} /\ assertNotClaimedByOther(q)
  /\ Write(q, c, Mark(row[c], "revised"))

\* The second, distinct admin applies the proposal and drops the first safety confirmation.
correctChildFlag(q, c, t) ==
  /\ loadCase(q, c) /\ Was(q).type # t
  /\ ~(Was(q).proposed = t /\ Was(q).proposer = q)
  /\ \/ /\ Was(q).proposed = t /\ Was(q).proposer # None
        /\ Write(q, c, [row[c] EXCEPT !.type = t, !.proposed = None, !.proposer = None, !.first = None])
     \/ /\ Was(q).proposed # t
        /\ Write(q, c, [row[c] EXCEPT !.proposed = t, !.proposer = q])

\* Both rows are loaded; the transaction names them by id only.
\* Both cases are read and checked before the transaction that retires the duplicate d.
MergeChecks(q, c, d) ==
  /\ loadCase(q, d) /\ c # d /\ Present(c)
  /\ row[c].marks \cap {"deleted", "merged"} = {} /\ Was(q).marks \cap {"deleted", "merged", "hold"} = {}
  /\ seen' = [seen EXCEPT ![q].op = "merge"] /\ UNCHANGED <<row, appeal, flagged, reads, job, confirmed>>
merge(q, d) ==
  /\ seen[q].case = d /\ seen[q].op = "merge"
  /\ Write(q, d, [row[d] EXCEPT !.status = "CANCELLED", !.marks = @ \cup {"merged"}, !.claim = None])

removeMediaKey(q, c, m) ==
  /\ loadCase(q, c) /\ m \in Was(q).media /\ "hold" \notin Was(q).marks
  /\ Write(q, c, [row[c] EXCEPT !.media = Was(q).media \ {m}])
redactMedia(q, c, m) == loadCase(q, c) /\ m \in Was(q).media /\ "hold" \notin Was(q).marks /\ Write(q, c, Mark(row[c], "redacting"))

-----------------------------------------------------------------------------
(* Filing. *)

enforceMaxPending == Cardinality({c \in Cases : row[c].status = "PENDING"}) < MAX_PENDING
KeyTaken(k) == k # None /\ \E c \in Cases : Present(c) /\ row[c].key = k
\* The key lookup and the limits come before the insert.
CreateRead(q, k) ==
  /\ seen[q] = NotSeen /\ ~KeyTaken(k) /\ enforceMaxPending
  /\ seen' = [seen EXCEPT ![q] = [case |-> None, row |-> [NoRow EXCEPT !.key = k], op |-> "create"]]
  /\ UNCHANGED <<row, appeal, flagged, reads, job, confirmed>>
\* The unique index on (user, key) refuses the second insert; the winner is returned.
createWithIdempotencyRaceHandling_Fault(q, c) == ~Present(c)
createWithIdempotencyRaceHandling(q, c) == ~Present(c) /\ ~KeyTaken(Was(q).key)
create(q, c, t) ==
  /\ seen[q].op = "create" /\ createWithIdempotencyRaceHandling(q, c)
  /\ row' = [row EXCEPT ![c] = [Filed("PENDING", t) EXCEPT !.key = Was(q).key]]
  /\ Respond(q) /\ UNCHANGED <<appeal, flagged, reads, job, confirmed>>
createByAdmin(c, t) ==
  /\ ~Present(c) /\ row' = [row EXCEPT ![c] = Filed(IF t = "CHILD" THEN "UNDER_REVIEW" ELSE "APPROVED", t)]
  /\ UNCHANGED <<seen, appeal, flagged, reads, job, confirmed>>
duplicateAsDraft(c) == IF Present(c) THEN [NoRow EXCEPT !.type = row[c].type] ELSE NoRow

-----------------------------------------------------------------------------
(* What the public and the admins are shown. *)

Public == {c \in Cases : row[c].status = "APPROVED"}
findOne(c) == c \in Public
findAllUncached == Public
search == Public
findRecent == Public
listPublicUpdates(c) == IF c \in Public THEN row[c].marks \cap {"updated"} ELSE {}
getPublicMediaDownloadUrl(c, m) == c \in Public /\ m \in row[c].media
loadApprovedPublic(c) == c \in Public
getPublicStats == [active |-> Cardinality(Public), found |-> Cardinality({c \in Cases : row[c].status = "FOUND"})]

ADMIN_BASE_WHERE == {c \in Cases : Present(c) /\ row[c].marks \cap {"deleted", "merged"} = {}}
Unread(a) == {c \in ADMIN_BASE_WHERE : <<c, a>> \notin reads}
findUnread(a) == Unread(a)
countUnread(a) == Unread(a)
countUnreadByStatus(a) == UNION {{c \in Unread(a) : row[c].status = st} : st \in Statuses}
countUnreadByArea(a) == Unread(a)
getReadCounts(a) == ADMIN_BASE_WHERE
listByOwner(a) == ADMIN_BASE_WHERE
findByOwner(a) == ADMIN_BASE_WHERE
getOwnerSummary(a) == ADMIN_BASE_WHERE
Inbox(a) ==
  findUnread(a) \cup countUnread(a) \cup countUnreadByStatus(a) \cup countUnreadByArea(a) \cup getReadCounts(a)
  \cup listByOwner(a) \cup findByOwner(a) \cup getOwnerSummary(a)

searchForAdmin == ADMIN_BASE_WHERE
getFacets == ADMIN_BASE_WHERE
exportWhere_Fault == {c \in Cases : Present(c) /\ "deleted" \notin row[c].marks}
exportWhere == ADMIN_BASE_WHERE
listDuplicates == {c \in ADMIN_BASE_WHERE : \E d \in ADMIN_BASE_WHERE : c # d /\ row[c].type = row[d].type}
statsWhereSql == ADMIN_BASE_WHERE
WithStatus(ss) == {c \in statsWhereSql : row[c].status \in ss}
getStatsTimeline == statsWhereSql
getStatsByStatus == statsWhereSql
getStatsByArea == statsWhereSql
getStatsByDemographics == statsWhereSql
getStatsResolutionTime == WithStatus({"FOUND"})
getStatsFoundRate == statsWhereSql
getStatsReviewTime == statsWhereSql
getStatsBacklog == statsWhereSql
getStatsTips == statsWhereSql
getStatsByAdmin == statsWhereSql
getStatsAging == WithStatus({"PENDING", "UNDER_REVIEW", "MORE_INFORMATION_REQUESTED"})
getStatsOverview ==
  getStatsByStatus \cup getStatsAging \cup getStatsReviewTime \cup getStatsResolutionTime \cup getStatsTips
  \cup getStatsTimeline \cup listFoundClaims
Figures ==
  searchForAdmin \cup getFacets \cup listDuplicates \cup getStatsTimeline \cup getStatsByStatus \cup getStatsByArea
  \cup getStatsByDemographics \cup getStatsResolutionTime \cup getStatsFoundRate \cup getStatsReviewTime
  \cup getStatsBacklog \cup getStatsAging \cup getStatsTips \cup getStatsByAdmin \cup getStatsOverview \cup exportWhere

\* Older or special lists: deleted and merged cases are part of them.
listTrash == {c \in Cases : "deleted" \in row[c].marks}
findStalePending == {c \in Cases : Present(c) /\ row[c].status \notin TERMINAL_STATUSES}
listRepeatRejections == {c \in Cases : row[c].status = "REJECTED"}
findAllForAdmin == {c \in Cases : Present(c)}
findOneForAdmin(c) == Present(c)
getHistory(c) == Present(c)
getStats == {c \in Cases : Present(c)}

SetReads(rs) == reads' = rs /\ UNCHANGED <<row, seen, appeal, flagged, job, confirmed>>
markRead(a, c) == Present(c) /\ SetReads(reads \cup {<<c, a>>})
markUnread(a, c) == Present(c) /\ SetReads(reads \ {<<c, a>>})
bulkMarkRead(a, ids) == SetReads(reads \cup {<<c, a>> : c \in {d \in ids : Present(d)}})
bulkMarkUnread(a, ids) == SetReads(reads \ {<<c, a>> : c \in ids})
markAllRead(a) == SetReads(reads \cup {<<c, a>> : c \in Unread(a)})
markOwnerRead(a) == SetReads(reads \cup {<<c, a>> : c \in ADMIN_BASE_WHERE})
markOwnerUnread(a) == SetReads({f \in reads : f[2] # a})

SetJob(v) == job' = v /\ UNCHANGED <<row, seen, appeal, flagged, reads, confirmed>>
startExportJob == job.state = "none" /\ SetJob([state |-> "QUEUED", content |-> {}])
RunExport == job.state = "QUEUED" /\ SetJob([job EXCEPT !.state = "RUNNING"])
runExportJob == job.state = "RUNNING" /\ (SetJob([state |-> "COMPLETED", content |-> exportWhere]) \/ SetJob([job EXCEPT !.state = "FAILED"]))
\* Reading a job after its expiry date drops the content; the state stays.
loadExportJob == job.state = "COMPLETED" /\ SetJob([job EXCEPT !.content = {}])
getExportJobDownloadUrl == job.state = "COMPLETED" /\ job.content # {}

-----------------------------------------------------------------------------
Types == {"CHILD", "WOMAN"}

ReviewNext ==
  \/ \E q \in Requests, c \in Cases :
       \/ Load(q, c) \/ FirstConfirmation(q, c) \/ bulkApprove(q, c) \/ bulkReject(q, c)
       \/ moveToUnderReview(q, c) \/ claimMissingPerson(q, c) \/ unclaimMissingPerson(q, c)
       \/ \E to \in {"UNDER_REVIEW", "APPROVED", "REJECTED"} : updateStatus(q, c, to)
       \/ \E t \in Types : correctChildFlag(q, c, t)
  \/ \E q \in Requests : Refused(q)

DeskNext ==
  \/ \E q \in Requests, c \in Cases :
       \/ Load(q, c) \/ verifyFound(q, c) \/ reportFoundByOwner(q, c) \/ remove(q, c) \/ applyRenewal(q, c)
       \/ createCaseUpdate(q, c) \/ unassign(q, c) \/ setLegalHold(q, c)
       \/ bulkExpire(q, c) \/ updateStatus(q, c, "EXPIRED") \/ editByAdmin(q, c) \/ markMineSeen(q, c)
       \/ updateStatus(q, c, "UNDER_REVIEW") \/ updateStatus(q, c, "MORE_INFORMATION_REQUESTED")
       \/ \E t \in Types, ms \in SUBSET Media : update(q, c, t, ms)
       \/ \E m \in Media : removeMediaKey(q, c, m) \/ redactMedia(q, c, m)
  \/ \E q, a \in Requests : bulkAssign(q, a)
  \/ \E q \in Requests : Refused(q)

ModerationNext ==
  \/ \E q \in Requests, c \in Cases :
       \/ Load(q, c) \/ takedown(q, c) \/ liftTakedown(q, c) \/ removeByAdmin(q, c) \/ restore(q, c)
       \/ reopen(q, c) \/ setLegalHold(q, c) \/ AppealCheck(q, c)
       \/ \E to \in {"UNDER_REVIEW", "APPROVED", "REJECTED", "EXPIRED", "FOUND", "CANCELLED"} : updateStatus(q, c, to)
       \/ \E u \in Requests : flag(u, c) \/ resolveFlag(q, c, u)
       \/ merge(q, c) \/ \E d \in Cases : MergeChecks(q, d, c)
  \/ \E q \in Requests, a \in Appeals : appealRejection(q, a)
  \/ \E a \in Appeals, d \in {"ACCEPTED", "DECLINED"} : decideAppeal(a, d)
  \/ \E q \in Requests : Refused(q)
  \/ handleUserSuspended

FilingNext ==
  \/ \E q \in Requests, k \in Keys \cup {None} : CreateRead(q, k)
  \/ \E q \in Requests, c \in Cases, t \in Types : create(q, c, t) \/ createByAdmin(c, t)
  \/ \E q \in Requests, c \in Cases : Load(q, c) \/ remove(q, c)
  \/ \E q \in Requests : Refused(q)

InboxNext ==
  \/ \E a \in Requests, c \in Cases : markRead(a, c) \/ markUnread(a, c) \/ Load(a, c) \/ removeByAdmin(a, c) \/ restore(a, c)
  \/ \E a \in Requests, d \in Cases : merge(a, d) \/ \E c \in Cases : MergeChecks(a, c, d)
  \/ \E a \in Requests, ids \in SUBSET Cases : bulkMarkRead(a, ids) \/ bulkMarkUnread(a, ids)
  \/ \E a \in Requests : markAllRead(a) \/ markOwnerRead(a) \/ markOwnerUnread(a) \/ Refused(a)
  \/ startExportJob \/ RunExport \/ runExportJob \/ loadExportJob

FiledRows == {NoRow} \cup {Filed(st, t) : st \in Statuses, t \in Types}
MPNext == ReviewNext \/ DeskNext \/ ModerationNext \/ FilingNext \/ InboxNext
MPSpec == MPInit(FiledRows) /\ [][MPNext]_mpVars
\* Review, and the owner's and the admins' other work on a case that is not removed.
ReviewSpec == MPInit(FiledRows) /\ [][ReviewNext \/ DeskNext]_mpVars

-----------------------------------------------------------------------------
MPTypeOK ==
  /\ \A c \in Cases : row[c].status \in Statuses \cup {"none"} /\ row[c].marks \subseteq Marks /\ row[c].type \in Types
  /\ \A q \in Requests : seen[q].op \in {"none", "loaded", "appeal", "create", "merge", "APPROVED", "REJECTED", "EXPIRED"}
  /\ \A a \in Appeals : appeal[a].state \in {"none", "PENDING", "ACCEPTED", "DECLINED"}
  /\ flagged \cup reads \subseteq Cases \X Requests

\* However the requests of two admins interleave, with each other, with a correction of the
\* child flag or with an edit, no review approves a case it read as a child's without the
\* confirmations of two different admins.
TwoAdminsApproveChild ==
  \A c \in Cases : row[c].status = "UNDER_REVIEW" /\ row'[c].status = "APPROVED" =>
    \A q \in Requests : seen[q].case = c /\ seen'[q] = NotSeen /\ seen[q].row.type = "CHILD" => Cardinality(confirmed'[c]) >= 2

\* Whatever else is called on a case that moderation took down (remove, restore, reopen,
\* merge, appeals, expiry), it is not public before liftTakedown.
TakenDownStaysDown == \A c \in Cases : "takedown" \in row[c].marks => row[c].status = "CANCELLED"

\* A retried or concurrent create with the same key never makes a second case.
OneCasePerKey == \A c, d \in Cases : row[c].key = row[d].key /\ row[c].key # None => c = d

\* A deleted or merged case is in no inbox, search, facet, figure or export that is built on
\* ADMIN_BASE_WHERE.  The older endpoints and the trash are not: findAllForAdmin,
\* findStalePending, listRepeatRejections, getStats and listTrash show such cases.
AdminListsHideRemoved ==
  \A c \in Cases, a \in Requests : row[c].marks \cap {"deleted", "merged"} # {} => c \notin Inbox(a) \cup Figures
=============================================================================
