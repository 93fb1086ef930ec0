----------------------------- MODULE ReportCase -----------------------------
(***************************************************************************)
(* core/report: report-workflow, report-lifecycle, report-access (legal    *)
(* hold) and the reporter's urgent flag and withdrawal.  Every handler     *)
(* loads the report, decides on what it loaded, and writes later: Load is  *)
(* that read, seen[q] the row request q decided on, and each handler an    *)
(* action on it.  Writes that name the status they expect (updateMany      *)
(* where status) are Claims; the others overwrite whatever is there.       *)
(***************************************************************************)
EXTENDS Naturals, FiniteSets

CONSTANTS
  Reports, Requests, None,   \* requests double as the ids of their admins
  Supers                     \* those of super admins

VARIABLES
  status, assignee, mergedInto,
  flags,     \* archived, deleted, spam (any integrityFlag), hold, urgent
  mergeRow,  \* newest reportMerge of the report not yet undone
  seen,      \* what each request has loaded
  givenTo    \* history: admins queueNext handed the report to since it was last free

caseVars == <<status, assignee, mergedInto, flags, mergeRow, seen, givenTo>>

ALLOWED_STATUS_TRANSITIONS == [
  PENDING |-> {"RECEIVED", "REJECTED"},
  RECEIVED |-> {"UNDER_REVIEW", "REJECTED"},
  UNDER_REVIEW |-> {"ASSIGNED", "ESCALATED", "UNABLE_TO_VERIFY", "REJECTED"},
  ASSIGNED |-> {"IN_PROGRESS", "ESCALATED"},
  IN_PROGRESS |-> {"ESCALATED", "CLOSED", "UNABLE_TO_VERIFY"},
  ESCALATED |-> {"IN_PROGRESS", "CLOSED"},
  UNABLE_TO_VERIFY |-> {"CLOSED", "UNDER_REVIEW"},
  CLOSED |-> {}, REJECTED |-> {}]
TERMINAL_STATUSES == {"CLOSED", "REJECTED"}
Statuses == DOMAIN ALLOWED_STATUS_TRANSITIONS
Flags == {"archived", "deleted", "spam", "hold", "urgent"}

NoMerge == [target |-> None, before |-> None, children |-> {}]
NotSeen == [report |-> None, status |-> None, assignee |-> None, flags |-> {}, other |-> None, children |-> {}]

CaseInit(Start) ==
  /\ status \in [Reports -> Start]
  /\ assignee = [r \in Reports |-> None]
  /\ mergedInto = [r \in Reports |-> None]
  /\ flags = [r \in Reports |-> {}]
  /\ mergeRow = [r \in Reports |-> NoMerge]
  /\ seen = [q \in Requests |-> NotSeen]
  /\ givenTo = [r \in Reports |-> {}]

Present(r) == status[r] # "none"
loadForAdmin(q, r) == Present(r) /\ "deleted" \notin flags[r]
\* Of a report assigned to somebody else an admin may write nothing; a super admin may.
assertAdminCanAccessReport(q) == q \in Supers \/ seen[q].assignee \in {None, q}

Load(q, r) ==
  /\ seen[q] = NotSeen /\ Present(r)
  /\ seen' = [seen EXCEPT ![q] = [NotSeen EXCEPT !.report = r, !.status = status[r], !.assignee = assignee[r], !.flags = flags[r]]]
  /\ UNCHANGED <<status, assignee, mergedInto, flags, mergeRow, givenTo>>

Loaded(q, r) == seen[q].report = r /\ seen[q].other = None
LoadedLive(q, r) == Loaded(q, r) /\ "deleted" \notin seen[q].flags
LoadedForWrite(q, r) == LoadedLive(q, r) /\ assertAdminCanAccessReport(q)
Respond(q) == seen' = [seen EXCEPT ![q] = NotSeen]
May(q, to) == to \in ALLOWED_STATUS_TRANSITIONS[seen[q].status]
Claims(q, r) == status[r] = seen[q].status
SetStatus(r, to) == status' = [status EXCEPT ![r] = to]
SetFlags(r, plus, minus) == flags' = [flags EXCEPT ![r] = (@ \ minus) \cup plus]
OnlyFlags(q) == Respond(q) /\ UNCHANGED <<status, assignee, mergedInto, mergeRow, givenTo>>
OnlyStatus(q) == Respond(q) /\ UNCHANGED <<assignee, mergedInto, flags, mergeRow, givenTo>>

\* A refusal, a conflict or an unchanged value: the request ends without a write.
Refused(q) == seen[q] # NotSeen /\ Respond(q) /\ UNCHANGED <<status, assignee, mergedInto, flags, mergeRow, givenTo>>

-----------------------------------------------------------------------------
(* Workflow. *)

\* bulkUpdateStatus runs it for every id.  A deleted report is not excluded.
updateStatus_Fault(q, r, to) ==
  Loaded(q, r) /\ assertAdminCanAccessReport(q) /\ May(q, to) /\ SetStatus(r, to) /\ OnlyStatus(q)
updateStatus(q, r, to) ==
  Loaded(q, r) /\ assertAdminCanAccessReport(q) /\ May(q, to) /\ Claims(q, r) /\ SetStatus(r, to) /\ OnlyStatus(q)
bulkUpdateStatus(q, to) == \E r \in Reports : updateStatus(q, r, to)

AutoAssign(q) == May(q, "ASSIGNED")
\* Any admin is a valid assignee; only the automatic step to ASSIGNED is conditional.
assign(q, r, a) ==
  /\ Loaded(q, r)
  /\ AutoAssign(q) => Claims(q, r)
  /\ assignee' = [assignee EXCEPT ![r] = a]
  /\ givenTo' = [givenTo EXCEPT ![r] = {}]
  /\ status' = IF AutoAssign(q) THEN [status EXCEPT ![r] = "ASSIGNED"] ELSE status
  /\ Respond(q) /\ UNCHANGED <<mergedInto, flags, mergeRow>>
bulkAssign(q, a) == \E r \in Reports : assign(q, r, a)

unassign(q, r) ==
  /\ Loaded(q, r)
  /\ assignee' = [assignee EXCEPT ![r] = None]
  /\ givenTo' = [givenTo EXCEPT ![r] = {}]
  /\ Respond(q) /\ UNCHANGED <<status, mergedInto, flags, mergeRow>>
bulkUnassign(q) == \E r \in Reports : unassign(q, r)

escalate(q, r) ==
  Loaded(q, r) /\ assertAdminCanAccessReport(q) /\ May(q, "ESCALATED") /\ Claims(q, r) /\ SetStatus(r, "ESCALATED") /\ OnlyStatus(q)

\* Status and history row in one transaction, on the status that was loaded.
applyTransition(q, r, to) == Claims(q, r) /\ SetStatus(r, to)

resolve(q, r) == LoadedForWrite(q, r) /\ May(q, "CLOSED") /\ applyTransition(q, r, "CLOSED") /\ OnlyStatus(q)
deEscalate(q, r) ==
  LoadedForWrite(q, r) /\ seen[q].status = "ESCALATED" /\ applyTransition(q, r, "IN_PROGRESS") /\ OnlyStatus(q)

Queued(q) == seen[q].assignee = None /\ seen[q].flags \cap {"deleted", "archived"} = {} /\ seen[q].status \notin TERMINAL_STATUSES
TakeNext(q, r) ==
  /\ assignee' = [assignee EXCEPT ![r] = q]
  /\ givenTo' = [givenTo EXCEPT ![r] = @ \cup {q}]
  /\ status' = IF AutoAssign(q) THEN [status EXCEPT ![r] = "ASSIGNED"] ELSE status
  /\ Respond(q) /\ UNCHANGED <<mergedInto, flags, mergeRow>>
queueNext_Fault(q, r) == Loaded(q, r) /\ Queued(q) /\ Claims(q, r) /\ TakeNext(q, r)
queueNext(q, r) == Loaded(q, r) /\ Queued(q) /\ Claims(q, r) /\ assignee[r] = None /\ TakeNext(q, r)
\* The claim failed: the next candidate is looked up, five times at most.
QueueRetry(q, r) ==
  /\ Loaded(q, r) /\ Queued(q) /\ (assignee[r] # None \/ status[r] # seen[q].status)
  /\ Respond(q) /\ UNCHANGED <<status, assignee, mergedInto, flags, mergeRow, givenTo>>

-----------------------------------------------------------------------------
(* The reporter. *)

withdraw(q, r) ==
  Loaded(q, r) /\ seen[q].status = "PENDING" /\ status[r] = "PENDING" /\ SetStatus(r, "REJECTED") /\ OnlyStatus(q)

\* One transaction, but on the report's id alone.
flagUrgent(q, r) ==
  /\ Loaded(q, r) /\ seen[q].status \notin TERMINAL_STATUSES /\ "urgent" \notin seen[q].flags
  /\ SetFlags(r, {"urgent"}, {})
  /\ status' = IF seen[q].status = "ESCALATED" THEN status ELSE [status EXCEPT ![r] = "ESCALATED"]
  /\ Respond(q) /\ UNCHANGED <<assignee, mergedInto, mergeRow, givenTo>>

-----------------------------------------------------------------------------
(* Lifecycle. *)

archive(q, r) ==
  /\ LoadedForWrite(q, r) /\ "archived" \notin seen[q].flags /\ seen[q].status \in TERMINAL_STATUSES
  /\ SetFlags(r, {"archived"}, {}) /\ OnlyFlags(q)
unarchive(q, r) == LoadedForWrite(q, r) /\ "archived" \in seen[q].flags /\ SetFlags(r, {}, {"archived"}) /\ OnlyFlags(q)
softDelete(q, r) == LoadedLive(q, r) /\ "hold" \notin seen[q].flags /\ SetFlags(r, {"deleted"}, {}) /\ OnlyFlags(q)
restore(q, r) == Loaded(q, r) /\ "deleted" \in seen[q].flags /\ SetFlags(r, {}, {"deleted"}) /\ OnlyFlags(q)
setLegalHold(q, r) ==
  /\ LoadedLive(q, r)
  /\ flags' = [flags EXCEPT ![r] = IF "hold" \in seen[q].flags THEN @ \ {"hold"} ELSE @ \cup {"hold"}]
  /\ OnlyFlags(q)

\* Rejects the report where the table allows it, else only flags it.
markSpam(q, r) ==
  /\ LoadedForWrite(q, r) /\ "spam" \notin seen[q].flags
  /\ SetFlags(r, {"spam"}, {})
  /\ IF May(q, "REJECTED") THEN applyTransition(q, r, "REJECTED") ELSE UNCHANGED status
  /\ Respond(q) /\ UNCHANGED <<assignee, mergedInto, mergeRow, givenTo>>
markFalse(q, r) == LoadedForWrite(q, r) /\ "spam" \notin seen[q].flags /\ SetFlags(r, {"spam"}, {}) /\ OnlyFlags(q)
unmark(q, r) == LoadedForWrite(q, r) /\ "spam" \in seen[q].flags /\ SetFlags(r, {}, {"spam"}) /\ OnlyFlags(q)

-----------------------------------------------------------------------------
(* Merging.  Both reports and the children of the source are read first.   *)

ChildrenOf(r) == {c \in Reports : mergedInto[c] = r}

MergeLoad(q, r, t) ==
  /\ LoadedForWrite(q, r) /\ r # t /\ loadForAdmin(q, t)
  /\ mergedInto[r] = None /\ mergedInto[t] = None
  /\ seen' = [seen EXCEPT ![q].other = t, ![q].children = ChildrenOf(r)]
  /\ UNCHANGED <<status, assignee, mergedInto, flags, mergeRow, givenTo>>

merge_Fault(q, r, t) ==
  /\ seen[q].report = r /\ seen[q].other = t
  /\ mergedInto' = [mergedInto EXCEPT ![r] = t]
  /\ mergeRow' = [mergeRow EXCEPT ![r] = [target |-> t, children |-> seen[q].children,
                    before |-> IF seen[q].status \in TERMINAL_STATUSES THEN None ELSE seen[q].status]]
  /\ status' = IF seen[q].status \in TERMINAL_STATUSES THEN status ELSE [status EXCEPT ![r] = "CLOSED"]
  /\ Respond(q) /\ UNCHANGED <<assignee, flags, givenTo>>
merge(q, r, t) ==
  /\ seen[q].report = r /\ seen[q].other = t
  /\ mergedInto' = [c \in Reports |-> IF c = r \/ (seen[q].children # {} /\ mergedInto[c] = r) THEN t ELSE mergedInto[c]]
  /\ mergeRow' = [mergeRow EXCEPT ![r] = [target |-> t, children |-> seen[q].children,
                    before |-> IF seen[q].status \in TERMINAL_STATUSES THEN None ELSE seen[q].status]]
  /\ status' = IF seen[q].status \in TERMINAL_STATUSES THEN status ELSE [status EXCEPT ![r] = "CLOSED"]
  /\ Respond(q) /\ UNCHANGED <<assignee, flags, givenTo>>

\* The status before the merge comes back, and the children that are still where the merge put them.
unmerge(q, r) ==
  /\ LoadedForWrite(q, r) /\ mergeRow[r] # NoMerge
  /\ LET m == mergeRow[r] IN
       /\ mergedInto' = [c \in Reports |-> IF c = r THEN None
                           ELSE IF c \in m.children /\ mergedInto[c] = m.target THEN r ELSE mergedInto[c]]
       /\ status' = IF m.before = None THEN status ELSE [status EXCEPT ![r] = m.before]
  /\ mergeRow' = [mergeRow EXCEPT ![r] = NoMerge]
  /\ Respond(q) /\ UNCHANGED <<assignee, flags, givenTo>>

\* The child starts as a PENDING report of its own.
split(q, r, c) ==
  /\ LoadedForWrite(q, r) /\ status[c] = "none"
  /\ SetStatus(c, "PENDING") /\ OnlyStatus(q)

\* Suspected duplicates: live, unmerged, open reports, pairwise.
listDuplicates ==
  {p \in SUBSET Reports : Cardinality(p) = 2 /\ \A r \in p :
     Present(r) /\ "deleted" \notin flags[r] /\ mergedInto[r] = None /\ status[r] \notin TERMINAL_STATUSES}

-----------------------------------------------------------------------------
WorkNext == \E q \in Requests, r \in Reports :
  \/ Load(q, r) \/ Refused(q)
  \/ \E to \in Statuses : updateStatus(q, r, to)
  \/ \E to \in Statuses : bulkUpdateStatus(q, to)
  \/ assign(q, r, q) \/ unassign(q, r) \/ escalate(q, r) \/ deEscalate(q, r) \/ resolve(q, r)
  \/ bulkAssign(q, q) \/ bulkUnassign(q)
  \/ queueNext(q, r) \/ QueueRetry(q, r) \/ withdraw(q, r) \/ flagUrgent(q, r)

LifeNext == \E q \in Requests, r \in Reports :
  \/ Load(q, r) \/ Refused(q)
  \/ archive(q, r) \/ unarchive(q, r) \/ softDelete(q, r) \/ restore(q, r) \/ setLegalHold(q, r)
  \/ markSpam(q, r) \/ markFalse(q, r) \/ unmark(q, r) \/ withdraw(q, r)
  \/ \E to \in TERMINAL_STATUSES : updateStatus(q, r, to)

MergeNext == \E q \in Requests, r \in Reports :
  \/ Load(q, r) \/ Refused(q) \/ unmerge(q, r) \/ softDelete(q, r)
  \/ \E t \in Reports : MergeLoad(q, r, t) \/ merge(q, r, t) \/ split(q, r, t)
  \/ \E to \in TERMINAL_STATUSES : updateStatus(q, r, to)

CaseNext == WorkNext \/ LifeNext \/ MergeNext
CaseSpec == CaseInit(Statuses \cup {"none"}) /\ [][CaseNext]_caseVars
\* Without merges.
DeskSpec == CaseInit(Statuses \cup {"none"}) /\ [][WorkNext \/ LifeNext]_caseVars

-----------------------------------------------------------------------------
CaseTypeOK ==
  /\ status \in [Reports -> Statuses \cup {"none"}]
  /\ assignee \in [Reports -> Requests \cup {None}]
  /\ mergedInto \in [Reports -> Reports \cup {None}]
  /\ flags \in [Reports -> SUBSET Flags]
  /\ givenTo \in [Reports -> SUBSET Requests]
  /\ \A q \in Requests : seen[q].report \in Reports \cup {None}

\* queueNext promises each waiting report to one admin: until somebody reassigns or
\* releases it, no second admin is handed the same report, however their reads interleave.
QueueGivesOnce == \A r \in Reports : Cardinality(givenTo[r]) <= 1

\* A closed or rejected report changes status only when the reporter's urgent flag or a
\* merge (or its undoing) reaches it: every other transition claims the status it was
\* decided on, so a decision on a stale status is refused.
TerminalStep ==
  \A r \in Reports : status[r] \in TERMINAL_STATUSES /\ status'[r] # status[r] =>
    \/ status'[r] = "ESCALATED" /\ "urgent" \in flags'[r]
    \/ mergedInto'[r] # mergedInto[r]

\* With one admin at work, following mergedInto once always reaches a report that is
\* not merged itself: merge repoints the children of the report it merges away.
MergeDepthOne == \A r \in Reports : mergedInto[r] # None => mergedInto[mergedInto[r]] = None
=============================================================================
