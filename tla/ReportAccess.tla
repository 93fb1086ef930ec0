---------------------------- MODULE ReportAccess ----------------------------
(***************************************************************************)
(* core/report: who sees which report.  Sensitivity and access grants      *)
(* (report-access), the inbox and its read marks (report-inbox), search,   *)
(* map and statistics, the case desk's lists (report-case-management) and  *)
(* the export jobs (report-export).  A listing is the set of reports it    *)
(* can return before the query's own filters; paging, grouping and sorting *)
(* of that set are left out.                                               *)
(***************************************************************************)
EXTENDS Naturals, FiniteSets

CONSTANTS Reports, Admins, Rows, Jobs, None   \* Rows: ids of access grants

VARIABLES
  sens,      \* STANDARD or RESTRICTED
  owner,     \* assignedToId
  shelf,     \* facts of a report: deleted, archived, closed, flagged
  supers,    \* admins with SUPER_ADMIN
  grant,     \* reportAccessGrant rows
  reads,     \* reportAdminRead rows: admin -> reports
  marks,     \* watchers, tags and follow-ups an admin left: admin -> reports
  job,       \* reportExportJob rows
  desk       \* what each admin's request has read

accessVars == <<sens, owner, shelf, supers, grant, reads, marks, job, desk>>

NoGrant == [report |-> None, admin |-> None, state |-> "free"]
NoJob   == [by |-> None, status |-> "free", file |-> {}]
NoDesk  == [op |-> "idle", to |-> None, reports |-> {}]

AccessInit ==
  /\ sens = [r \in Reports |-> "STANDARD"]
  /\ owner = [r \in Reports |-> None]
  /\ shelf = [r \in Reports |-> {}]
  /\ supers \in {{a} : a \in Admins}
  /\ grant = [g \in Rows |-> NoGrant]
  /\ reads = [a \in Admins |-> {}]
  /\ marks = [a \in Admins |-> {}]
  /\ job = [j \in Jobs |-> NoJob]
  /\ desk = [a \in Admins |-> NoDesk]

-----------------------------------------------------------------------------
activeGrantWhere(a, r) == \E g \in Rows : grant[g] = [report |-> r, admin |-> a, state |-> "active"]
visibilityWhere(a) ==
  {r \in Reports : a \in supers \/ sens[r] = "STANDARD" \/ owner[r] = a \/ activeGrantWhere(a, r)}
Live == {r \in Reports : "deleted" \notin shelf[r]}
loadForAdmin(a, r) == r \in Live \cap visibilityWhere(a)
assertAdminCanAccessReport(a, r) == a \in supers \/ owner[r] \in {None, a}
loadForAdminWrite(a, r) == loadForAdmin(a, r) /\ assertAdminCanAccessReport(a, r)

pagedReports_Fault(a, where) == where
pagedReports(a, where) == where \cap visibilityWhere(a)
inboxWhere == {r \in Live : "archived" \notin shelf[r]}
unreadFilter(a) == Reports \ reads[a]
statsWhere(a) == Live \cap visibilityWhere(a)
statsFilterSql(a) == Live \cap visibilityWhere(a)

(* Inbox. *)
listUnread(a) == pagedReports(a, inboxWhere \cap unreadFilter(a))
countUnread(a) == inboxWhere \cap unreadFilter(a) \cap visibilityWhere(a)
countUnreadByStatus(a) == inboxWhere \cap unreadFilter(a) \cap visibilityWhere(a)
countUnreadByCategory(a) == inboxWhere \cap unreadFilter(a) \cap visibilityWhere(a)
getCounts(a) == inboxWhere \cap visibilityWhere(a)
buildUserRows(a) == Live \cap visibilityWhere(a)
getUserReports(a) == pagedReports(a, Live)
getUserSummary(a) == Live \cap visibilityWhere(a)
getUserTimeline(a) == Live \cap visibilityWhere(a)
Inbox(a) == listUnread(a) \cup countUnread(a) \cup countUnreadByStatus(a) \cup countUnreadByCategory(a) \cup getCounts(a)
            \cup buildUserRows(a) \cup getUserReports(a) \cup getUserSummary(a) \cup getUserTimeline(a)

(* Search, map and statistics. *)
searchReports(a) == pagedReports(a, Live)
findByReference(a) == Live \cap visibilityWhere(a)
countBy(a) == statsFilterSql(a)
getFacets(a) == countBy(a)
getMapPins(a) == statsWhere(a)
findNearby(a) == Live \cap visibilityWhere(a)
getHotspots(a) == statsFilterSql(a)
getStatsTimeline(a) == statsFilterSql(a)
periodMetrics(a) == statsFilterSql(a)
getStatsByHour(a) == statsFilterSql(a)
getStatsResolutionTime(a) == {r \in statsFilterSql(a) : "closed" \in shelf[r]}
getStatsBacklog(a) == statsFilterSql(a)
getStatsByAdmin(a) == {r \in statsFilterSql(a) : owner[r] # None}
getStatsOverview(a) == statsFilterSql(a) \cup countBy(a)
getStatsAging(a) == {r \in statsFilterSql(a) : "closed" \notin shelf[r]}
getStatsSla(a) == statsFilterSql(a)
getStatsFeedback(a) == statsFilterSql(a)
getStatsReopened(a) == statsFilterSql(a)
getStatsEscalations(a) == statsFilterSql(a)
getStatsSpam(a) == {r \in statsFilterSql(a) : "flagged" \in shelf[r]}
getStatsByTag(a) == statsFilterSql(a)
getStatsAssignment(a) == statsFilterSql(a)
Figures(a) == searchReports(a) \cup findByReference(a) \cup getFacets(a) \cup getMapPins(a) \cup findNearby(a) \cup getHotspots(a)
  \cup getStatsTimeline(a) \cup periodMetrics(a) \cup getStatsByHour(a) \cup getStatsResolutionTime(a) \cup getStatsBacklog(a)
  \cup getStatsByAdmin(a) \cup getStatsOverview(a) \cup getStatsAging(a) \cup getStatsSla(a) \cup getStatsFeedback(a)
  \cup getStatsReopened(a) \cup getStatsEscalations(a) \cup getStatsSpam(a) \cup getStatsByTag(a) \cup getStatsAssignment(a)

(* The case desk. *)
listEscalated(a) == pagedReports(a, Live)
listArchived(a) == pagedReports(a, {r \in Live : "archived" \in shelf[r]})
listTrash(a) == pagedReports(a, Reports \ Live)
listSpam(a) == pagedReports(a, {r \in Live : "flagged" \in shelf[r]})
listSlaBreaching(a) == pagedReports(a, {r \in inboxWhere : "closed" \notin shelf[r]})
listFollowUps(a) == marks[a] \cap Live \cap visibilityWhere(a)
listWatching(a) == pagedReports(a, Live \cap marks[a])
listPendingInformationRequests(a) == Live \cap visibilityWhere(a)
Desk(a) == listEscalated(a) \cup listArchived(a) \cup listTrash(a) \cup listSpam(a) \cup listSlaBreaching(a)
           \cup listFollowUps(a) \cup listWatching(a) \cup listPendingInformationRequests(a)

\* The older admin endpoints know neither deletion nor visibility: they show every admin the
\* restricted and the deleted reports too, and are outside ListingsHideRestricted.
findAllForAdmin == Reports
findAssignedToMe(a) == {r \in Reports : owner[r] = a}
findStalePending == {r \in Reports : "closed" \notin shelf[r] /\ owner[r] = None}
getStats == Reports
findOneForAdmin(r) == r \in Reports
getHistory(r) == r \in Reports

-----------------------------------------------------------------------------
(* Access. *)

updateSensitivity(a, r, level) ==
  /\ loadForAdminWrite(a, r) /\ sens[r] # level
  /\ sens' = [sens EXCEPT ![r] = level]
  /\ UNCHANGED <<owner, shelf, supers, grant, reads, marks, job, desk>>

GrantRead(a, r, to) ==
  /\ desk[a] = NoDesk /\ loadForAdmin(a, r) /\ ~activeGrantWhere(to, r)
  /\ desk' = [desk EXCEPT ![a] = [op |-> "grant", to |-> to, reports |-> {r}]]
  /\ UNCHANGED <<sens, owner, shelf, supers, grant, reads, marks, job>>
\* No unique index: two grants read together make two rows.
grantAccess(a, g) ==
  /\ desk[a].op = "grant" /\ grant[g] = NoGrant
  /\ grant' = [grant EXCEPT ![g] = [report |-> CHOOSE r \in desk[a].reports : TRUE, admin |-> desk[a].to, state |-> "active"]]
  /\ desk' = [desk EXCEPT ![a] = NoDesk]
  /\ UNCHANGED <<sens, owner, shelf, supers, reads, marks, job>>
GrantExpires(g) ==
  /\ grant[g].state = "active"
  /\ grant' = [grant EXCEPT ![g].state = "expired"]
  /\ UNCHANGED <<sens, owner, shelf, supers, reads, marks, job, desk>>

Unrevoked(r, from) == {g \in Rows : grant[g].report = r /\ grant[g].admin = from /\ grant[g].state \in {"active", "expired"}}
Revoke(gs) ==
  /\ gs # {}
  /\ grant' = [g \in Rows |-> IF g \in gs THEN [grant[g] EXCEPT !.state = "revoked"] ELSE grant[g]]
  /\ UNCHANGED <<sens, owner, shelf, supers, reads, marks, job, desk>>
revokeAccess_Fault(a, r, from) == loadForAdmin(a, r) /\ \E g \in Unrevoked(r, from) : Revoke({g})
revokeAccess(a, r, from) == loadForAdmin(a, r) /\ Revoke(Unrevoked(r, from))

\* Assignment, deletion, archiving and closing of the case (module ReportCase), and a change of role.
Reassign(r, a) == owner' = [owner EXCEPT ![r] = a] /\ UNCHANGED <<sens, shelf, supers, grant, reads, marks, job, desk>>
Shelve(r, f) ==
  /\ shelf' = [shelf EXCEPT ![r] = IF f \in @ THEN @ \ {f} ELSE @ \cup {f}]
  /\ UNCHANGED <<sens, owner, supers, grant, reads, marks, job, desk>>
ChangeRole(a) ==
  /\ supers' = IF a \in supers THEN supers \ {a} ELSE supers \cup {a}
  /\ UNCHANGED <<sens, owner, shelf, grant, reads, marks, job, desk>>

-----------------------------------------------------------------------------
(* Read marks and marks of the desk. *)

SetReads(a, rs) == reads' = [reads EXCEPT ![a] = rs] /\ UNCHANGED <<sens, owner, shelf, supers, grant, marks, job>>
markRead(a, r) == loadForAdmin(a, r) /\ SetReads(a, reads[a] \cup {r}) /\ UNCHANGED desk
markUnread(a, r) == loadForAdmin(a, r) /\ SetReads(a, reads[a] \ {r}) /\ UNCHANGED desk
bulkMarkUnread(a, ids) == SetReads(a, reads[a] \ (ids \cap statsWhere(a))) /\ UNCHANGED desk
markUserReportsUnread(a) == SetReads(a, reads[a] \ statsWhere(a)) /\ UNCHANGED desk
\* The visible ids are selected first and marked afterwards.
ReadSelect(a, rs) ==
  /\ desk[a] = NoDesk
  /\ desk' = [desk EXCEPT ![a] = [op |-> "read", to |-> None, reports |-> rs]]
  /\ UNCHANGED <<sens, owner, shelf, supers, grant, reads, marks, job>>
bulkMarkRead(a, ids) == ReadSelect(a, ids \cap statsWhere(a))
readAll(a) == ReadSelect(a, countUnread(a))
markUserReportsRead(a) == ReadSelect(a, statsWhere(a) \ reads[a])
markManyRead(a) == desk[a].op = "read" /\ SetReads(a, reads[a] \cup desk[a].reports) /\ desk' = [desk EXCEPT ![a] = NoDesk]

SetMarks(a, rs) == marks' = [marks EXCEPT ![a] = rs] /\ UNCHANGED <<sens, owner, shelf, supers, grant, reads, job, desk>>
watch(a, r) == loadForAdmin(a, r) /\ SetMarks(a, marks[a] \cup {r})
unwatch(a, r) == SetMarks(a, marks[a] \ {r})
addTags(a, r) == loadForAdmin(a, r) /\ SetMarks(a, marks[a] \cup {r})
removeTag(a, r) == loadForAdmin(a, r) /\ r \in marks[a] /\ SetMarks(a, marks[a] \ {r})
bulkTag(a, ids) == SetMarks(a, marks[a] \cup (ids \cap statsWhere(a)))
createFollowUp(a, r) == loadForAdmin(a, r) /\ SetMarks(a, marks[a] \cup {r})

-----------------------------------------------------------------------------
(* Export jobs. *)

SetJob(j, v) == job' = [job EXCEPT ![j] = v] /\ UNCHANGED <<sens, owner, shelf, supers, grant, reads, marks, desk>>
startExportJob(a, j) == job[j] = NoJob /\ SetJob(j, [NoJob EXCEPT !.by = a, !.status = "QUEUED"])
RunExport(j) == job[j].status = "QUEUED" /\ SetJob(j, [job[j] EXCEPT !.status = "RUNNING"])
\* The requester's roles are read again now, not those of the time the job was started.
buildCsv(a) == statsWhere(a)
runExportJob(j) == job[j].status = "RUNNING" /\ SetJob(j, [job[j] EXCEPT !.status = "COMPLETED", !.file = buildCsv(job[j].by)])
ExportFails(j) == job[j].status = "RUNNING" /\ SetJob(j, [job[j] EXCEPT !.status = "FAILED"])
expireExportJobs(j) == job[j].status = "COMPLETED" /\ SetJob(j, [job[j] EXCEPT !.status = "EXPIRED", !.file = {}])
getExportDownload(a, j) == job[j].by = a /\ job[j].status = "COMPLETED"
\* A download after the expiry date marks the job; the file waits for the sweep.
DownloadExpired(a, j) == getExportDownload(a, j) /\ SetJob(j, [job[j] EXCEPT !.status = "EXPIRED"])

-----------------------------------------------------------------------------
GrantNext ==
  \/ \E a, b \in Admins, r \in Reports : GrantRead(a, r, b) \/ revokeAccess(a, r, b)
  \/ \E a \in Admins, g \in Rows : grantAccess(a, g) \/ GrantExpires(g)
  \/ \E a \in Admins, r \in Reports, l \in {"STANDARD", "RESTRICTED"} : updateSensitivity(a, r, l)
  \/ \E a \in Admins \cup {None}, r \in Reports : Reassign(r, a)
  \/ \E r \in Reports : Shelve(r, "deleted")
  \/ \E a \in Admins : ChangeRole(a)

InboxNext ==
  \/ \E a \in Admins, r \in Reports : markRead(a, r) \/ markUnread(a, r) \/ updateSensitivity(a, r, "RESTRICTED")
  \/ \E a \in Admins, ids \in SUBSET Reports : bulkMarkRead(a, ids) \/ bulkMarkUnread(a, ids)
  \/ \E a \in Admins : readAll(a) \/ markUserReportsRead(a) \/ markUserReportsUnread(a) \/ markManyRead(a)
  \/ \E r \in Reports : Shelve(r, "archived")

MarksNext ==
  \/ \E a \in Admins, r \in Reports :
       \/ watch(a, r) \/ unwatch(a, r) \/ addTags(a, r) \/ removeTag(a, r) \/ createFollowUp(a, r)
       \/ updateSensitivity(a, r, "RESTRICTED")
  \/ \E a \in Admins, ids \in SUBSET Reports : bulkTag(a, ids)
  \/ \E r \in Reports, f \in {"deleted", "archived"} : Shelve(r, f)

ExportNext ==
  \/ \E a \in Admins, j \in Jobs : startExportJob(a, j) \/ DownloadExpired(a, j)
  \/ \E j \in Jobs : RunExport(j) \/ runExportJob(j) \/ ExportFails(j) \/ expireExportJobs(j)
  \/ \E a \in Admins, r \in Reports : updateSensitivity(a, r, "RESTRICTED")
  \/ \E a \in Admins : ChangeRole(a)
  \/ \E r \in Reports, f \in {"deleted", "closed", "flagged"} : Shelve(r, f)

AccessNext == GrantNext \/ InboxNext \/ MarksNext \/ ExportNext
AccessSpec == AccessInit /\ [][AccessNext]_accessVars

-----------------------------------------------------------------------------
AccessTypeOK ==
  /\ sens \in [Reports -> {"STANDARD", "RESTRICTED"}]
  /\ owner \in [Reports -> Admins \cup {None}]
  /\ shelf \in [Reports -> SUBSET {"deleted", "archived", "closed", "flagged"}]
  /\ supers \subseteq Admins
  /\ \A g \in Rows : grant[g].state \in {"free", "active", "expired", "revoked"}
  /\ \A j \in Jobs : job[j].status \in {"free", "QUEUED", "RUNNING", "COMPLETED", "FAILED", "EXPIRED"}

\* In the inbox, desk lists, search, map and statistics that use visibilityWhere, a RESTRICTED
\* report is shown to no admin it is neither assigned nor currently granted to, and no export
\* made as them has it, however grants, roles, owners and rows change.  The older endpoints
\* (findAllForAdmin, findStalePending, getStats, findOneForAdmin, getHistory) ask for neither.
ListingsHideRestricted ==
  \A a \in Admins \ supers, r \in Reports :
    r \in Inbox(a) \cup Figures(a) \cup Desk(a) \cup buildCsv(a) =>
      \/ sens[r] = "STANDARD" \/ owner[r] = a
      \/ \E g \in Rows : grant[g].report = r /\ grant[g].admin = a /\ grant[g].state = "active"

\* Two admins who grant the same access together leave two rows; one revokeAccess ends
\* the access all the same.
RevokeStep ==
  \A g \in Rows : grant[g].state # "revoked" /\ grant'[g].state = "revoked" =>
    \A h \in Rows : grant'[h].report = grant[g].report /\ grant'[h].admin = grant[g].admin => grant'[h].state = "revoked"
=============================================================================
