----------------------------- MODULE AuditViews ------------------------------
(***************************************************************************)
(* misc/audit-log: what the readers of the audit log are shown, the saved  *)
(* filters they share, the exports they take, and the alert rules the      *)
(* worker evaluates.  A row keeps who did it, to whom, in which area and   *)
(* with which outcome; a view is the set of what it shows of each row.     *)
(* Paging and dates are left out: a view is every row its conditions match.*)
(***************************************************************************)
EXTENDS Naturals, FiniteSets, FiniteSetsExt

CONSTANTS
  Rows,               \* ids of audit rows
  Users, Admins,      \* Admins: the users with an admin role
  Areas,              \* "Payment", "Role", "Report", "login", ...
  Filters, Workers, Jobs,
  Threshold, MAX_SAVED_FILTERS_PER_USER, None

VARIABLES
  log,        \* log[i]: an audit row or NoRow
  super,      \* the admins that are SUPER_ADMIN
  saved,      \* audit_saved_filter with its shares
  alert,      \* one audit_alert rule
  eval,       \* the evaluation each worker is in the middle of
  fired,      \* claims of the rule since its cooldown last ended
  trigger,    \* its latest trigger
  job,        \* misc_export_job
  due,        \* what a request has read and not yet returned
  logged,     \* reads that have an audit row
  delivered   \* reads whose content has reached the reader

viewVars == <<log, super, saved, alert, eval, fired, trigger, job, due, logged, delivered>>

NoRow    == [user |-> None, target |-> None, area |-> None, outcome |-> None, ip |-> None, anonymized |-> "no", held |-> "no"]
NoFilter == [owner |-> None, ip |-> "no", all |-> "no", shares |-> {}]
NoAlert  == [enabled |-> "none", last |-> "never"]
NoJob    == [by |-> None, status |-> "none", alive |-> "no", age |-> "fresh", columns |-> {}]

ViewsInit ==
  /\ log = [i \in Rows |-> NoRow] /\ super \in SUBSET Admins /\ saved = [f \in Filters |-> NoFilter]
  /\ alert = NoAlert /\ eval = [w \in Workers |-> "idle"] /\ fired = 0 /\ trigger = "none"
  /\ job = [j \in Jobs |-> NoJob] /\ due = {} /\ logged = {} /\ delivered = {}

logVars    == <<log, super>>
alertVars  == <<alert, eval, fired, trigger>>
accessVars == <<job, due, logged, delivered>>
Outcomes   == {"SUCCESS", "DENIED", "FAILURE"}
Written    == {i \in Rows : log[i] # NoRow}
isSuperAdmin(v) == v \in super

-----------------------------------------------------------------------------
(* Rows and what a reader sees of them. *)

write(i, u, t, area, outcome) ==
  /\ log[i] = NoRow /\ \A k \in Rows : k < i => log[k] # NoRow
  /\ log' = [log EXCEPT ![i] = [NoRow EXCEPT !.user = u, !.target = t, !.area = area, !.outcome = outcome, !.ip = "ip"]]
  /\ UNCHANGED <<super, saved, alertVars, accessVars>>
SetHold(i, h) ==
  /\ log[i] # NoRow /\ log[i].held # h /\ log' = [log EXCEPT ![i].held = h]
  /\ UNCHANGED <<super, saved, alertVars, accessVars>>
\* Blanks the personal fields of the rows the user performed and stamps them; held rows are skipped.
anonymizeUser(u) ==
  /\ log' = [i \in Rows |-> IF log[i].user = u /\ log[i].held = "no" /\ log[i].anonymized = "no"
                            THEN [log[i] EXCEPT !.ip = None, !.anonymized = "yes"] ELSE log[i]]
  /\ UNCHANGED <<super, saved, alertVars, accessVars>>
ChangeRole(a) ==
  /\ super' = IF a \in super THEN super \ {a} ELSE super \cup {a}
  /\ UNCHANGED <<log, saved, alertVars, accessVars>>

\* The redaction is in the select; the joined user name is hidden on anonymized rows.
selectFor(v, i) == IF isSuperAdmin(v) THEN log[i].ip ELSE None
present_Fault(i) == log[i].user
present(i) == IF log[i].anonymized = "yes" THEN None ELSE log[i].user
Shown(v, i) == [row |-> i, name |-> present(i), ip |-> selectFor(v, i)]
paginate(v, S) == {Shown(v, i) : i \in S}

Where(P(_)) == {i \in Written : P(log[i])}
Denied(r) == r.outcome \in {"DENIED", "FAILURE"}
securityWhere == Where(LAMBDA r : Denied(r) \/ r.area = "login")
sensitiveWhere == Where(LAMBDA r : r.area = "Report")
\* A filter on the address is refused to anyone but a SUPER_ADMIN.
buildWhere(v, ip) == IF ip = "yes" /\ ~isSuperAdmin(v) THEN {} ELSE Written

findAll(v) == paginate(v, buildWhere(v, "no"))
findSecurityEvents(v) == paginate(v, buildWhere(v, "no") \cap securityWhere)
findByEntity(v, area) == paginate(v, Where(LAMBDA r : r.area = area))
findByUser(v, u, as) ==
  paginate(v, Where(LAMBDA r : (as # "target" /\ r.user = u) \/ (as # "actor" /\ r.target = u)))
scopedList(v, S) == paginate(v, buildWhere(v, "no") \cap S)
findSensitiveAccess(v) == scopedList(v, sensitiveWhere)
findPrivilegedActions(v) == scopedList(v, Where(LAMBDA r : r.area = "Role"))
findMoneyActions(v) == scopedList(v, Where(LAMBDA r : r.area = "Payment"))
findDenied(v) == scopedList(v, Where(Denied))
\* A user's own rows, and the failed sign-ins against the account; no address for anyone.
selfWhere(u) == Where(LAMBDA r : r.user = u \/ (r.target = u /\ r.area = "login"))
selfPage(S) == {[row |-> i, name |-> None, ip |-> None] : i \in S}
findMyActivity(u) == selfPage(selfWhere(u))
findMySecurityEvents(u) == selfPage(selfWhere(u) \cap securityWhere)

-----------------------------------------------------------------------------
(* Counts. *)

statsWhere == Written
statsByOutcome == [o \in Outcomes |-> Cardinality({i \in statsWhere : log[i].outcome = o})]
statsByEntity == [a \in Areas |-> Cardinality({i \in statsWhere : log[i].area = a})]
statsDenied_Fault == [a \in Areas |-> Cardinality({i \in statsWhere : log[i].outcome = "DENIED" /\ log[i].area = a})]
statsDenied == [a \in Areas |-> Cardinality({i \in statsWhere : Denied(log[i]) /\ log[i].area = a})]
statsOverview == [total |-> Cardinality(statsWhere), deniedOrFailed |-> statsByOutcome["DENIED"] + statsByOutcome["FAILURE"]]
getStats == [total |-> Cardinality(Written), byOutcome |-> statsByOutcome, byEntity |-> statsByEntity]

\* The views that join the actor's name to a count.
Kept == {i \in Written : log[i].anonymized = "no"}
getTopActors == {log[i].user : i \in Kept}
OverviewActors == {log[i].user : i \in Kept}
summarizeEntity(area) == {log[i].user : i \in {j \in Written : log[j].area = area}}
summarizeUser(u) == {u}
statsSensitiveAccess == {log[i].user : i \in sensitiveWhere}

-----------------------------------------------------------------------------
(* Saved filters. *)

Mine(v) == {f \in Filters : saved[f].owner = v}
SaveFilter(f, row) == saved' = [saved EXCEPT ![f] = row] /\ UNCHANGED <<logVars, alertVars, accessVars>>
createSavedFilter(v, f, ip) ==
  /\ saved[f] = NoFilter /\ Cardinality(Mine(v)) < MAX_SAVED_FILTERS_PER_USER
  /\ SaveFilter(f, [NoFilter EXCEPT !.owner = v, !.ip = ip])
updateSavedFilter(v, f, ip) == f \in Mine(v) /\ SaveFilter(f, [saved[f] EXCEPT !.ip = ip])
deleteSavedFilter(v, f) == f \in Mine(v) /\ SaveFilter(f, NoFilter)
\* With nobody named it is shared with every admin.
shareSavedFilter(v, f, S) ==
  /\ f \in Mine(v)
  /\ SaveFilter(f, IF S = {} THEN [saved[f] EXCEPT !.all = "yes"] ELSE [saved[f] EXCEPT !.shares = @ \cup (S \ {v})])
\* Naming people takes away their own share; only naming nobody ends the sharing with all.
unshareSavedFilter(v, f, S) ==
  /\ f \in Mine(v)
  /\ SaveFilter(f, IF S = {} THEN [saved[f] EXCEPT !.all = "no", !.shares = {}] ELSE [saved[f] EXCEPT !.shares = @ \ S])
accessibleFilter(v) == {f \in Filters : saved[f] # NoFilter /\ (saved[f].owner = v \/ saved[f].all = "yes" \/ v \in saved[f].shares)}
\* The filter is run with the caller's level, not its owner's.
runSavedFilter_Fault(v, f) == paginate(saved[f].owner, buildWhere(saved[f].owner, saved[f].ip))
runSavedFilter(v, f) == paginate(v, buildWhere(v, saved[f].ip))

-----------------------------------------------------------------------------
(* Reads that are audited before they are answered, and exports. *)

Read(v, what) == [by |-> v, what |-> what]
\* findOne, exportCsv, listAllExports: the content is read, the audit row written, the answer sent.
StartRead(v, what) ==
  /\ Read(v, what) \notin due \cup delivered /\ due' = due \cup {Read(v, what)}
  /\ UNCHANGED <<logVars, saved, alertVars, job, logged, delivered>>
\* A failing audit write fails the read.
findOne_Fault(v) ==
  LET r == Read(v, "row") IN
  /\ r \in due /\ due' = due \ {r}
  /\ logged' \in {logged, logged \cup {r}} /\ delivered' = delivered \cup {r}
  /\ UNCHANGED <<logVars, saved, alertVars, job>>
AnswerAudited(r) ==
  /\ r \in due /\ due' = due \ {r}
  /\ \/ logged' = logged \cup {r} /\ delivered' = delivered \cup {r}
     \/ UNCHANGED <<logged, delivered>>
  /\ UNCHANGED <<logVars, saved, alertVars, job>>
findOne(v) == AnswerAudited(Read(v, "row"))
exportCsv(v) == AnswerAudited(Read(v, "csv"))
listAllExports(v) == AnswerAudited(Read(v, "exports"))

auditExportColumns(v) == IF isSuperAdmin(v) THEN {"what", "name", "ip"} ELSE {"what", "name"}
SetJob(j, r) == job' = [job EXCEPT ![j] = r] /\ UNCHANGED <<logVars, saved, alertVars, due>>
startExportJob(v, j) ==
  /\ job[j] = NoJob /\ logged' = logged \cup {Read(v, "start")} /\ delivered' = delivered
  /\ SetJob(j, [NoJob EXCEPT !.by = v, !.status = "QUEUED", !.alive = "yes", !.columns = auditExportColumns(v)])
execute(j) ==
  /\ job[j].status = "QUEUED" /\ job[j].alive = "yes"
  /\ SetJob(j, [job[j] EXCEPT !.status = "RUNNING", !.age = "fresh"]) /\ UNCHANGED <<logged, delivered>>
\* Parts are uploaded before the row says COMPLETED; both ends write by id, whatever the row says.
FinishExport(j, s) ==
  /\ job[j].alive = "yes" /\ job[j].status # "QUEUED"
  /\ SetJob(j, [job[j] EXCEPT !.status = s, !.alive = "no", !.age = "fresh"]) /\ UNCHANGED <<logged, delivered>>
ExportDies(j) == job[j].alive = "yes" /\ SetJob(j, [job[j] EXCEPT !.alive = "no"]) /\ UNCHANGED <<logged, delivered>>
ExportAges(j) ==
  /\ job[j].status \in {"QUEUED", "RUNNING", "COMPLETED"} /\ job[j].age = "fresh"
  /\ SetJob(j, [job[j] EXCEPT !.age = "old"]) /\ UNCHANGED <<logged, delivered>>
\* The row as a caller gets it: a stale job is failed, an old file expires.
Presented(r) ==
  IF r.age = "fresh" THEN r
  ELSE [r EXCEPT !.status = CASE r.status \in {"RUNNING", "QUEUED"} -> "FAILED" [] r.status = "COMPLETED" -> "EXPIRED" [] OTHER -> r.status]
getExportJob(v, j) ==
  /\ job[j].by = v /\ SetJob(j, Presented(job[j])) /\ UNCHANGED <<logged, delivered>>
\* The links are made, then audited, then returned.
downloadExportJob(v, j) ==
  /\ job[j].by = v /\ Presented(job[j]).status = "COMPLETED"
  /\ SetJob(j, job[j]) /\ logged' = logged \cup {Read(v, j)} /\ delivered' = delivered \cup {Read(v, j)}

-----------------------------------------------------------------------------
(* Alert rules. *)

SetAlert(r) == alert' = r /\ UNCHANGED <<logVars, saved, accessVars, eval, fired, trigger>>
createAlert == alert.enabled = "none" /\ SetAlert([NoAlert EXCEPT !.enabled = "yes"])
deleteAlert == alert.enabled \in {"yes", "no"} /\ SetAlert([alert EXCEPT !.enabled = "deleted"])
setAlertEnabled(e) == alert.enabled \in {"yes", "no"} \ {e} /\ SetAlert([alert EXCEPT !.enabled = e])
\* The cooldown of the last trigger is over.
Cooldown ==
  /\ alert.last = "recent" /\ alert' = [alert EXCEPT !.last = "old"] /\ fired' = 0
  /\ UNCHANGED <<logVars, saved, accessVars, eval, trigger>>
alertWhere == Where(Denied)
evaluateAlerts(w) ==
  /\ eval[w] = "idle" /\ alert.enabled = "yes" /\ alert.last # "recent" /\ Cardinality(alertWhere) >= Threshold
  /\ eval' = [eval EXCEPT ![w] = "claim"] /\ UNCHANGED <<logVars, saved, accessVars, alert, fired, trigger>>
ClaimAlert_Fault(w) ==
  /\ eval[w] = "claim" /\ alert.enabled = "yes"
  /\ alert' = [alert EXCEPT !.last = "recent"] /\ fired' = fired + 1 /\ eval' = [eval EXCEPT ![w] = "trigger"]
  /\ UNCHANGED <<logVars, saved, accessVars, trigger>>
ClaimAlert(w) ==
  /\ eval[w] = "claim"
  /\ IF alert.enabled = "yes" /\ alert.last # "recent"
     THEN alert' = [alert EXCEPT !.last = "recent"] /\ fired' = fired + 1 /\ eval' = [eval EXCEPT ![w] = "trigger"]
     ELSE UNCHANGED <<alert, fired>> /\ eval' = [eval EXCEPT ![w] = "idle"]
  /\ UNCHANGED <<logVars, saved, accessVars, trigger>>
CreateTrigger(w) ==
  /\ eval[w] = "trigger" /\ trigger' = (IF alert.enabled = "deleted" THEN trigger ELSE "new") /\ eval' = [eval EXCEPT ![w] = "idle"]
  /\ UNCHANGED <<logVars, saved, accessVars, alert, fired>>
WorkerDies(w) ==
  /\ eval[w] # "idle" /\ eval' = [eval EXCEPT ![w] = "idle"]
  /\ UNCHANGED <<logVars, saved, accessVars, alert, fired, trigger>>
acknowledgeTrigger ==
  /\ trigger = "new" /\ trigger' = "acknowledged" /\ UNCHANGED <<logVars, saved, accessVars, alert, eval, fired>>

-----------------------------------------------------------------------------
RowStep ==
  \/ \E i \in Rows, u \in Users, t \in Users \cup {None}, a \in Areas, o \in Outcomes : write(i, u, t, a, o)
  \/ \E i \in Rows, h \in {"yes", "no"} : SetHold(i, h)
  \/ \E u \in Users : anonymizeUser(u)
  \/ \E a \in Admins : ChangeRole(a)
FilterStep ==
  \/ \E v \in Admins, f \in Filters, ip \in {"yes", "no"} : createSavedFilter(v, f, ip) \/ updateSavedFilter(v, f, ip)
  \/ \E v \in Admins, f \in Filters : deleteSavedFilter(v, f)
  \/ \E v \in Admins, f \in Filters, S \in SUBSET Admins : shareSavedFilter(v, f, S) \/ unshareSavedFilter(v, f, S)
ViewNext == RowStep
ShareNext == FilterStep \/ \E a \in Admins : ChangeRole(a)
             \/ write(1, CHOOSE u \in Users : TRUE, None, "Role", "SUCCESS")
ReadNext ==
  \/ \E v \in Admins, what \in {"row", "csv", "exports"} : StartRead(v, what)
  \/ \E v \in Admins : findOne(v) \/ exportCsv(v) \/ listAllExports(v)
  \/ \E v \in Admins, j \in Jobs : startExportJob(v, j) \/ getExportJob(v, j) \/ downloadExportJob(v, j)
  \/ \E j \in Jobs : execute(j) \/ ExportDies(j) \/ ExportAges(j) \/ \E s \in {"COMPLETED", "FAILED"} : FinishExport(j, s)
AlertNext ==
  \/ createAlert \/ deleteAlert \/ Cooldown \/ acknowledgeTrigger \/ \E e \in {"yes", "no"} : setAlertEnabled(e)
  \/ \E w \in Workers : evaluateAlerts(w) \/ ClaimAlert(w) \/ CreateTrigger(w) \/ WorkerDies(w)
  \/ \E i \in Rows : write(i, CHOOSE u \in Users : TRUE, None, "Role", "DENIED")

ViewsNext == ViewNext \/ ShareNext \/ ReadNext \/ AlertNext
ViewsSpec == ViewsInit /\ [][ViewsNext]_viewVars

-----------------------------------------------------------------------------
(* Properties. *)

ViewsTypeOK ==
  /\ super \subseteq Admins /\ \A i \in Rows : log[i].anonymized \in {"yes", "no"} /\ log[i].ip \in {"ip", None}
  /\ \A f \in Filters : saved[f].owner \in Admins \cup {None} /\ saved[f].shares \subseteq Admins
  /\ alert.enabled \in {"none", "yes", "no", "deleted"} /\ alert.last \in {"never", "recent", "old"}
  /\ \A w \in Workers : eval[w] \in {"idle", "claim", "trigger"}
  /\ \A j \in Jobs : job[j].status \in {"none", "QUEUED", "RUNNING", "COMPLETED", "FAILED", "EXPIRED"}

RowViews(v) ==
  findAll(v) \cup findSecurityEvents(v) \cup findSensitiveAccess(v) \cup findPrivilegedActions(v) \cup findMoneyActions(v)
  \cup findDenied(v) \cup UNION {findByEntity(v, a) : a \in Areas}
  \cup UNION {findByUser(v, u, as) : u \in Users, as \in {"actor", "target", "both"}}
SelfViews(u) == findMyActivity(u) \cup findMySecurityEvents(u)

\* Once a user's rows are anonymized no list shows the name, and no ranking of actors is fed by
\* them, whoever reads and whatever was held and released in between.
AnonymizedRowsNameless ==
  /\ \A v \in Admins : \A s \in RowViews(v) : log[s.row].anonymized = "yes" => s.name = None
  /\ \A u \in getTopActors \cup OverviewActors : \E i \in Written : log[i].user = u /\ log[i].anonymized = "no"

\* An admin who is not a SUPER_ADMIN learns no address: neither from a row nor by running a
\* shared filter that selects by address, and a user not from the own activity list.
AddressForSuperOnly ==
  /\ \A v \in Admins \ super :
       /\ \A s \in RowViews(v) : s.ip = None
       /\ \A f \in accessibleFilter(v) :
            /\ \A s \in runSavedFilter(v, f) : s.ip = None
            /\ saved[f].ip = "yes" => runSavedFilter(v, f) = {}
  /\ \A u \in Users : \A s \in SelfViews(u) : s.ip = None

\* The dashboard's count of denied and failed events is the number of rows its list shows.
DashboardAgrees ==
  \A v \in Admins :
    /\ statsOverview.deniedOrFailed = Cardinality(findDenied(v))
    /\ statsOverview.deniedOrFailed = MapThenSumSet(LAMBDA a : statsDenied[a], Areas)
    /\ statsOverview.total = getStats.total /\ Cardinality(findAll(v)) = getStats.total

\* Nothing reaches a reader without an audit row naming that reader and that content, also
\* when the audit write fails.
NoUnloggedRead == delivered \subseteq logged

\* Several workers evaluate the rules at once; a rule fires at most once in its cooldown.
AlertOncePerCooldown == fired <= 1
=============================================================================
