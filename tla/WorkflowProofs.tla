--------------------------- MODULE WorkflowProofs ---------------------------
(***************************************************************************)
(* The content workflows (reports, missing persons, tips, posts and the    *)
(* moderation of profiles) and the background jobs that serve them (the    *)
(* lock of a timer, the scan of uploads), for any number of rows, requests *)
(* and admins.  They share no state, and each section is about one of      *)
(* them.                                                                   *)
(*                                                                         *)
(* Most handlers load a row, decide, and write later.  A write that names  *)
(* what it was decided on (a status, a null column, a unique key) keeps    *)
(* its property against any number of requests in flight.  A write by id   *)
(* does not: where a property rests on one, the theorem assumes one        *)
(* request at a time (\A p, q \in Requests : p = q) and says what a        *)
(* sequence of calls keeps.  The other hypotheses say that None, the null  *)
(* of the tables, is none of the things it stands for the absence of.      *)
(***************************************************************************)
EXTENDS CronLock, MediaScan, FiniteSetTheorems, TLAPS

CONSTANTS Reports, Requests, Supers, None, Slots, Keys, Files, MaxPending, Cases, Media, Appeals, MAX_PENDING,
  Tips, Questions, MaxOpenQuestions, Posts, Admins, Rows, Jobs, Flags, PROFILE_MAX_APPEALS

VARIABLES status, assignee, mergedInto, flags, mergeRow, seen, givenTo,
  filed, pending, draft, info, side, media, evidence, req, told,
  row, appeal, flagged, reads, job, confirmed,
  tip, question, appealed, trace, caseState, claimants,
  post, sens, owner, shelf, supers, grant, marks, desk, prof, flag, call, reviewed

Case == INSTANCE ReportCase
Filing == INSTANCE ReportFiling
Missing == INSTANCE MissingPerson
Info == INSTANCE InformationSubmission
Posting == INSTANCE Post
Access == INSTANCE ReportAccess
Moderation == INSTANCE ProfileModeration

LEMMA AtMostOne ==
  ASSUME NEW S, \A x, y \in S : x = y
  PROVE  Cardinality(S) <= 1
  <1>1. CASE S = {}
    BY <1>1, FS_EmptySet
  <1>2. CASE S # {}
    <2>1. PICK x \in S : TRUE
      BY <1>2
    <2>2. S = {x}
      BY <2>1
    <2> QED
      BY <2>2, FS_Singleton
  <1> QED
    BY <1>1, <1>2

LEMMA CaseCardinality == ASSUME NEW S PROVE Case!Cardinality(S) = Cardinality(S)
  BY DEF Cardinality, Case!Cardinality, Case!IsFiniteSet, IsFiniteSet

-----------------------------------------------------------------------------
(***************************************************************************)
(* Reports at work.  A status that is written with a claim is written on   *)
(* the status the transition was decided on, and no transition leaves      *)
(* CLOSED or REJECTED.                                                     *)
(***************************************************************************)
\* Every write of the status of r that is not the reporter's flag or a merge.
LEMMA ClaimedWrite ==
  ASSUME DOMAIN status = Reports, NEW q, NEW r \in Reports, NEW to, Case!May(q, to), Case!Claims(q, r), Case!SetStatus(r, to)
  PROVE  \A s \in Reports : status[s] \in Case!TERMINAL_STATUSES => status'[s] = status[s]
  BY DEF Case!May, Case!Claims, Case!SetStatus, Case!TERMINAL_STATUSES, Case!ALLOWED_STATUS_TRANSITIONS

CaseRows == DOMAIN status = Reports /\ DOMAIN flags = Reports

LEMMA DeskStep ==
  ASSUME CaseRows, [Case!WorkNext \/ Case!LifeNext]_(Case!caseVars)
  PROVE  CaseRows' /\ Case!TerminalStep
  <1> DEFINE Goal == CaseRows' /\ Case!TerminalStep
  <1> SUFFICES Goal
    OBVIOUS
  <1>1. ASSUME UNCHANGED status, DOMAIN flags' = Reports PROVE Goal
    BY <1>1 DEF CaseRows, Case!TerminalStep
  <1>2. ASSUME NEW q \in Requests, NEW r \in Reports, NEW to, Case!May(q, to), Case!Claims(q, r), Case!SetStatus(r, to),
               DOMAIN flags' = Reports
        PROVE  Goal
    BY <1>2, ClaimedWrite DEF CaseRows, Case!TerminalStep, Case!SetStatus
  <1>3. ASSUME NEW q \in Requests, NEW r \in Reports, NEW to, status[r] \notin Case!TERMINAL_STATUSES, Case!SetStatus(r, to),
               DOMAIN flags' = Reports
        PROVE  Goal
    BY <1>3 DEF CaseRows, Case!TerminalStep, Case!SetStatus
  <1>4. ASSUME NEW q \in Requests, NEW r \in Reports, Case!Load(q, r) \/ Case!Refused(q) PROVE Goal
    BY <1>1, <1>4 DEF Case!Load, Case!Refused, CaseRows
  <1>5. ASSUME NEW q \in Requests, NEW r \in Reports, NEW to, Case!updateStatus(q, r, to) PROVE Goal
    BY <1>2, <1>5 DEF Case!updateStatus, Case!OnlyStatus, CaseRows
  <1>6. ASSUME NEW q \in Requests, NEW r \in Reports, Case!assign(q, r, q) PROVE Goal
    BY <1>1, <1>2, <1>6 DEF Case!assign, Case!AutoAssign, Case!SetStatus, CaseRows
  <1>7. ASSUME NEW q \in Requests, NEW r \in Reports, Case!unassign(q, r) \/ Case!QueueRetry(q, r) PROVE Goal
    BY <1>1, <1>7 DEF Case!unassign, Case!QueueRetry, CaseRows
  <1>8. ASSUME NEW q \in Requests, NEW r \in Reports, Case!escalate(q, r) PROVE Goal
    BY <1>2, <1>8 DEF Case!escalate, Case!OnlyStatus, CaseRows
  <1>9. ASSUME NEW q \in Requests, NEW r \in Reports, Case!deEscalate(q, r) PROVE Goal
    BY <1>3, <1>9 DEF Case!deEscalate, Case!applyTransition, Case!Claims, Case!OnlyStatus, CaseRows, Case!TERMINAL_STATUSES
  <1>10. ASSUME NEW q \in Requests, NEW r \in Reports, Case!resolve(q, r) PROVE Goal
    BY <1>2, <1>10 DEF Case!resolve, Case!applyTransition, Case!OnlyStatus, CaseRows
  <1>11. ASSUME NEW q \in Requests, NEW r \in Reports, Case!queueNext(q, r) PROVE Goal
    BY <1>1, <1>2, <1>11 DEF Case!queueNext, Case!TakeNext, Case!AutoAssign, Case!SetStatus, CaseRows
  <1>12. ASSUME NEW q \in Requests, NEW r \in Reports, Case!withdraw(q, r) PROVE Goal
    BY <1>3, <1>12 DEF Case!withdraw, Case!OnlyStatus, CaseRows, Case!TERMINAL_STATUSES
  <1>13. ASSUME NEW q \in Requests, NEW r \in Reports, Case!flagUrgent(q, r) PROVE Goal
    BY <1>13 DEF Case!flagUrgent, Case!SetFlags, CaseRows, Case!TerminalStep
  <1>14. ASSUME NEW q \in Requests, NEW r \in Reports,
                \/ Case!archive(q, r) \/ Case!unarchive(q, r) \/ Case!softDelete(q, r) \/ Case!restore(q, r)
                \/ Case!setLegalHold(q, r) \/ Case!markFalse(q, r) \/ Case!unmark(q, r)
         PROVE  Goal
    BY <1>1, <1>14 DEF Case!archive, Case!unarchive, Case!softDelete, Case!restore, Case!setLegalHold, Case!markFalse,
       Case!unmark, Case!SetFlags, Case!OnlyFlags, CaseRows
  <1>15. ASSUME NEW q \in Requests, NEW r \in Reports, Case!markSpam(q, r) PROVE Goal
    BY <1>1, <1>2, <1>15 DEF Case!markSpam, Case!SetFlags, Case!applyTransition, CaseRows
  <1>16. CASE UNCHANGED Case!caseVars
    BY <1>1, <1>16 DEF Case!caseVars, CaseRows
  <1> HIDE DEF Goal
  <1>17. CASE Case!WorkNext
    BY <1>17, <1>4, <1>5, <1>6, <1>7, <1>8, <1>9, <1>10, <1>11, <1>12, <1>13
       DEF Case!WorkNext, Case!bulkUpdateStatus, Case!bulkAssign, Case!bulkUnassign
  <1>18. CASE Case!LifeNext
    BY <1>18, <1>4, <1>5, <1>12, <1>14, <1>15 DEF Case!LifeNext
  <1> QED
    BY <1>16, <1>17, <1>18

\* Any number of admins and the reporter work on a report at once (status changes, assignment,
\* escalation, withdrawal, spam marks, archive, deletion): CLOSED and REJECTED are left only by
\* the urgent flag, which is written without a condition (flagUrgent).
THEOREM DecisionsClaimed == Case!DeskSpec => [][Case!TerminalStep]_(Case!caseVars)
  <1>1. Case!CaseInit(Case!Statuses \cup {"none"}) => CaseRows
    BY DEF Case!CaseInit, CaseRows
  <1>2. CaseRows /\ [Case!WorkNext \/ Case!LifeNext]_(Case!caseVars) => CaseRows' /\ Case!TerminalStep
    BY DeskStep
  <1> QED
    BY <1>1, <1>2, PTL DEF Case!DeskSpec

(***************************************************************************)
(* The queue.  queueNext takes a report that is free when it writes, and   *)
(* a free report has been handed to nobody.                                *)
(***************************************************************************)
HandedOut ==
  /\ DOMAIN assignee = Reports /\ DOMAIN givenTo = Reports
  /\ \A r \in Reports : assignee[r] = None => givenTo[r] = {}
  /\ \A r \in Reports : \A a, b \in givenTo[r] : a = b

LEMMA HandedOutStep ==
  ASSUME None \notin Requests
  PROVE  HandedOut /\ [Case!CaseNext]_(Case!caseVars) => HandedOut'
  <1> SUFFICES ASSUME HandedOut, [Case!CaseNext]_(Case!caseVars) PROVE HandedOut'
    OBVIOUS
  <1> USE DEF HandedOut
  <1>1. ASSUME UNCHANGED <<assignee, givenTo>> PROVE HandedOut'
    BY <1>1
  <1>2. ASSUME NEW q \in Requests, NEW r \in Reports, Case!assign(q, r, q) PROVE HandedOut'
    BY <1>2 DEF Case!assign
  <1>3. ASSUME NEW q \in Requests, NEW r \in Reports, Case!unassign(q, r) PROVE HandedOut'
    BY <1>3 DEF Case!unassign
  <1>4. ASSUME NEW q \in Requests, NEW r \in Reports, Case!queueNext(q, r) PROVE HandedOut'
    BY <1>4 DEF Case!queueNext, Case!TakeNext
  <1>5. ASSUME NEW q \in Requests, NEW r \in Reports, NEW to, Case!updateStatus(q, r, to) PROVE HandedOut'
    BY <1>1, <1>5 DEF Case!updateStatus, Case!OnlyStatus
  <1>6. ASSUME NEW q \in Requests, NEW r \in Reports,
               \/ Case!Load(q, r) \/ Case!Refused(q) \/ Case!escalate(q, r) \/ Case!deEscalate(q, r) \/ Case!resolve(q, r)
               \/ Case!QueueRetry(q, r) \/ Case!withdraw(q, r) \/ Case!flagUrgent(q, r)
        PROVE  HandedOut'
    BY <1>1, <1>6 DEF Case!Load, Case!Refused, Case!escalate, Case!deEscalate, Case!resolve, Case!QueueRetry, Case!withdraw,
       Case!flagUrgent, Case!OnlyStatus
  <1>7. ASSUME NEW q \in Requests, NEW r \in Reports,
               \/ Case!archive(q, r) \/ Case!unarchive(q, r) \/ Case!softDelete(q, r) \/ Case!restore(q, r)
               \/ Case!setLegalHold(q, r) \/ Case!markSpam(q, r) \/ Case!markFalse(q, r) \/ Case!unmark(q, r)
        PROVE  HandedOut'
    BY <1>1, <1>7 DEF Case!archive, Case!unarchive, Case!softDelete, Case!restore, Case!setLegalHold, Case!markSpam,
       Case!markFalse, Case!unmark, Case!OnlyFlags
  <1>8. ASSUME NEW q \in Requests, NEW r \in Reports, NEW t \in Reports,
               Case!MergeLoad(q, r, t) \/ Case!merge(q, r, t) \/ Case!split(q, r, t) \/ Case!unmerge(q, r)
        PROVE  HandedOut'
    BY <1>1, <1>8 DEF Case!MergeLoad, Case!merge, Case!split, Case!unmerge, Case!OnlyStatus
  <1>9. CASE UNCHANGED Case!caseVars
    BY <1>1, <1>9 DEF Case!caseVars
  <1> HIDE DEF HandedOut
  <1>10. CASE Case!WorkNext
    BY <1>10, <1>2, <1>3, <1>4, <1>5, <1>6
       DEF Case!WorkNext, Case!bulkUpdateStatus, Case!bulkAssign, Case!bulkUnassign
  <1>11. CASE Case!LifeNext
    BY <1>11, <1>5, <1>6, <1>7 DEF Case!LifeNext
  <1>12. CASE Case!MergeNext
    BY <1>12, <1>5, <1>6, <1>7, <1>8 DEF Case!MergeNext
  <1> QED
    BY <1>9, <1>10, <1>11, <1>12 DEF Case!CaseNext

\* However many admins ask for the next report at once, and whatever else is done to the reports,
\* queueNext hands a report to one of them until it is reassigned or released.
THEOREM QueueGivesToOne ==
  ASSUME None \notin Requests
  PROVE  Case!CaseSpec => []Case!QueueGivesOnce
  <1>1. Case!CaseInit(Case!Statuses \cup {"none"}) => HandedOut
    BY DEF Case!CaseInit, HandedOut
  <1>2. HandedOut => Case!QueueGivesOnce
    BY AtMostOne, CaseCardinality DEF HandedOut, Case!QueueGivesOnce
  <1> QED
    BY <1>1, <1>2, HandedOutStep, PTL DEF Case!CaseSpec

(***************************************************************************)
(* Merges, one request at a time.  Between the reads of a merge and its    *)
(* writes nothing has moved, so both reports are still roots and the       *)
(* children that were read are all there are.                              *)
(***************************************************************************)
SeenFields == {"report", "status", "assignee", "flags", "other", "children"}

MergesFlat ==
  /\ mergedInto \in [Reports -> Reports \cup {None}]
  /\ DOMAIN mergeRow = Reports
  /\ \A r \in Reports : mergeRow[r] # Case!NoMerge => mergeRow[r].target \in Reports /\ mergedInto[r] # None
  /\ DOMAIN seen = Requests /\ \A q \in Requests : DOMAIN seen[q] = SeenFields
  /\ \A q \in Requests : seen[q].other # None =>
       /\ seen[q].report \in Reports /\ seen[q].other \in Reports /\ seen[q].report # seen[q].other
       /\ mergedInto[seen[q].report] = None /\ mergedInto[seen[q].other] = None
       /\ seen[q].children = Case!ChildrenOf(seen[q].report)
  /\ Case!MergeDepthOne

LEMMA MergesFlatStep ==
  ASSUME None \notin Reports, \A p, q \in Requests : p = q
  PROVE  MergesFlat /\ [Case!CaseNext]_(Case!caseVars) => MergesFlat'
  <1> SUFFICES ASSUME MergesFlat, [Case!CaseNext]_(Case!caseVars) PROVE MergesFlat'
    OBVIOUS
  <1> USE DEF MergesFlat, SeenFields, Case!MergeDepthOne, Case!ChildrenOf, Case!NotSeen
  <1>1. ASSUME NEW q \in Requests, UNCHANGED <<mergedInto, mergeRow>>, Case!Respond(q) PROVE MergesFlat'
    BY <1>1 DEF Case!Respond
  <1>2. ASSUME NEW q \in Requests, NEW r \in Reports, Case!Load(q, r) PROVE MergesFlat'
    BY <1>2 DEF Case!Load
  <1>3. ASSUME NEW q \in Requests, NEW r \in Reports, NEW t \in Reports, Case!MergeLoad(q, r, t) PROVE MergesFlat'
    <2>1. /\ r # t /\ mergedInto[r] = None /\ mergedInto[t] = None /\ UNCHANGED <<mergedInto, mergeRow>>
          /\ seen[q].report = r
          /\ seen' = [seen EXCEPT ![q].other = t, ![q].children = Case!ChildrenOf(r)]
      BY <1>3 DEF Case!MergeLoad, Case!LoadedForWrite, Case!LoadedLive, Case!Loaded
    <2> QED
      BY <2>1
  <1>4. ASSUME NEW q \in Requests, NEW r \in Reports, NEW t \in Reports, Case!merge(q, r, t) PROVE MergesFlat'
    <2>1. /\ seen[q].report = r /\ seen[q].other = t /\ r # t
          /\ mergedInto[r] = None /\ mergedInto[t] = None /\ seen[q].children = Case!ChildrenOf(r)
      BY <1>4 DEF Case!merge
    <2>2. mergedInto' = [c \in Reports |-> IF c = r \/ mergedInto[c] = r THEN t ELSE mergedInto[c]]
      BY <1>4, <2>1 DEF Case!merge
    <2>3. mergedInto' \in [Reports -> Reports \cup {None}] /\ Case!MergeDepthOne'
      BY <2>1, <2>2
    <2>4. /\ DOMAIN mergeRow' = Reports /\ mergeRow'[r].target = t
          /\ \A c \in Reports \ {r} : mergeRow'[c] = mergeRow[c]
          /\ seen' = [seen EXCEPT ![q] = Case!NotSeen]
      BY <1>4 DEF Case!merge, Case!Respond
    <2>5. \A x \in Reports : mergedInto'[x] = None => x # r /\ mergedInto[x] = None
      BY <2>2
    <2>6. ASSUME NEW x \in Reports, mergeRow'[x] # Case!NoMerge
          PROVE  mergeRow'[x].target \in Reports /\ mergedInto'[x] # None
      BY <2>4, <2>5, <2>6
    <2> QED
      BY <2>3, <2>4, <2>6
  <1>5. ASSUME NEW q \in Requests, NEW r \in Reports, Case!unmerge(q, r) PROVE MergesFlat'
    <2> DEFINE m == mergeRow[r]
    <2>1. /\ m # Case!NoMerge
          /\ mergedInto' = [c \in Reports |-> IF c = r THEN None
                              ELSE IF c \in m.children /\ mergedInto[c] = m.target THEN r ELSE mergedInto[c]]
          /\ mergeRow' = [mergeRow EXCEPT ![r] = Case!NoMerge]
          /\ seen' = [seen EXCEPT ![q] = Case!NotSeen]
      BY <1>5 DEF Case!unmerge, Case!Respond
    <2>2. mergedInto' \in [Reports -> Reports \cup {None}] /\ Case!MergeDepthOne'
      BY <2>1
    <2>3. ASSUME NEW x \in Reports, mergeRow'[x] # Case!NoMerge
          PROVE  mergeRow'[x].target \in Reports /\ mergedInto'[x] # None
      <3>1. x # r /\ mergeRow'[x] = mergeRow[x]
        BY <2>1, <2>3
      <3>2. mergeRow[x].target \in Reports /\ mergedInto[x] # None
        BY <2>3, <3>1
      <3>3. mergedInto'[x] \in {r, mergedInto[x]}
        BY <2>1, <3>1
      <3> QED
        BY <3>1, <3>2, <3>3
    <2>4. DOMAIN mergeRow' = Reports
      BY <2>1
    <2> QED
      BY <2>1, <2>2, <2>3, <2>4
  <1>6. ASSUME NEW q \in Requests, NEW r \in Reports, NEW to, Case!updateStatus(q, r, to) PROVE MergesFlat'
    BY <1>1, <1>6 DEF Case!updateStatus, Case!OnlyStatus
  <1>7. ASSUME NEW q \in Requests, NEW r \in Reports,
               \/ Case!Refused(q) \/ Case!escalate(q, r) \/ Case!deEscalate(q, r) \/ Case!resolve(q, r)
               \/ Case!QueueRetry(q, r) \/ Case!withdraw(q, r) \/ Case!flagUrgent(q, r) \/ Case!assign(q, r, q)
               \/ Case!unassign(q, r) \/ Case!queueNext(q, r)
        PROVE  MergesFlat'
    BY <1>1, <1>7 DEF Case!Refused, Case!escalate, Case!deEscalate, Case!resolve, Case!QueueRetry, Case!withdraw,
       Case!flagUrgent, Case!OnlyStatus, Case!assign, Case!unassign, Case!queueNext, Case!TakeNext
  <1>8. ASSUME NEW q \in Requests, NEW r \in Reports,
               \/ Case!archive(q, r) \/ Case!unarchive(q, r) \/ Case!softDelete(q, r) \/ Case!restore(q, r)
               \/ Case!setLegalHold(q, r) \/ Case!markSpam(q, r) \/ Case!markFalse(q, r) \/ Case!unmark(q, r)
        PROVE  MergesFlat'
    BY <1>1, <1>8 DEF Case!archive, Case!unarchive, Case!softDelete, Case!restore, Case!setLegalHold, Case!markSpam,
       Case!markFalse, Case!unmark, Case!OnlyFlags
  <1>9. ASSUME NEW q \in Requests, NEW r \in Reports, NEW c \in Reports, Case!split(q, r, c) PROVE MergesFlat'
    BY <1>1, <1>9 DEF Case!split, Case!OnlyStatus
  <1>10. CASE UNCHANGED Case!caseVars
    BY <1>10 DEF Case!caseVars
  <1> HIDE DEF MergesFlat
  <1>11. CASE Case!WorkNext
    BY <1>11, <1>2, <1>6, <1>7 DEF Case!WorkNext, Case!bulkUpdateStatus, Case!bulkAssign, Case!bulkUnassign
  <1>12. CASE Case!LifeNext
    BY <1>12, <1>2, <1>6, <1>7, <1>8 DEF Case!LifeNext
  <1>13. CASE Case!MergeNext
    BY <1>13, <1>2, <1>3, <1>4, <1>5, <1>6, <1>7, <1>8, <1>9 DEF Case!MergeNext
  <1> QED
    BY <1>10, <1>11, <1>12, <1>13 DEF Case!CaseNext

\* With one request at a time, no sequence of merges, undone merges, splits and other work makes
\* a chain of merged reports: mergedInto leads to a report that is not merged itself (merge
\* repoints the children, unmerge takes back those it moved).
THEOREM MergesStayFlat ==
  ASSUME None \notin Reports, \A p, q \in Requests : p = q
  PROVE  Case!CaseSpec => []Case!MergeDepthOne
  <1>1. Case!CaseInit(Case!Statuses \cup {"none"}) => MergesFlat
    BY DEF Case!CaseInit, MergesFlat, SeenFields, Case!NotSeen, Case!MergeDepthOne
  <1>2. MergesFlat => Case!MergeDepthOne
    BY DEF MergesFlat
  <1> QED
    BY <1>1, <1>2, MergesFlatStep, PTL DEF Case!CaseSpec

\* A merge and its undoing write the status of the report they move, and of no other.
LEMMA MergeWritesOwn ==
  ASSUME None \notin Reports, CaseRows, MergesFlat, Case!MergeNext
  PROVE  CaseRows' /\ Case!TerminalStep
  <1> DEFINE Goal == CaseRows' /\ Case!TerminalStep
  <1> SUFFICES Goal
    OBVIOUS
  <1>1. ASSUME NEW r \in Reports, DOMAIN status' = Reports, mergedInto'[r] # mergedInto[r], UNCHANGED flags,
               \A s \in Reports \ {r} : status'[s] = status[s]
        PROVE  Goal
    BY <1>1 DEF CaseRows, Case!TerminalStep
  <1>2. ASSUME NEW q \in Requests, NEW r \in Reports, NEW t \in Reports, Case!merge(q, r, t) PROVE Goal
    <2>1. mergedInto[r] = None /\ mergedInto'[r] = t /\ t # None
      BY <1>2 DEF Case!merge, MergesFlat
    <2>2. DOMAIN status' = Reports /\ UNCHANGED flags /\ \A s \in Reports \ {r} : status'[s] = status[s]
      BY <1>2 DEF Case!merge, CaseRows
    <2> QED
      BY <1>1, <2>1, <2>2
  <1>3. ASSUME NEW q \in Requests, NEW r \in Reports, Case!unmerge(q, r) PROVE Goal
    <2>1. mergedInto[r] # None /\ mergedInto'[r] = None
      BY <1>3 DEF Case!unmerge, MergesFlat
    <2>2. DOMAIN status' = Reports /\ UNCHANGED flags /\ \A s \in Reports \ {r} : status'[s] = status[s]
      BY <1>3 DEF Case!unmerge, CaseRows
    <2> QED
      BY <1>1, <2>1, <2>2
  <1>4. ASSUME NEW q \in Requests, NEW r \in Reports, NEW c \in Reports, Case!split(q, r, c) PROVE Goal
    BY <1>4 DEF Case!split, Case!SetStatus, Case!OnlyStatus, CaseRows, Case!TerminalStep, Case!TERMINAL_STATUSES
  <1>5. ASSUME NEW q \in Requests, NEW r \in Reports, NEW t \in Reports, Case!MergeLoad(q, r, t) PROVE Goal
    BY <1>5 DEF Case!MergeLoad, CaseRows, Case!TerminalStep
  <1>6. ASSUME NEW q \in Requests, NEW r \in Reports, NEW to \in Case!TERMINAL_STATUSES,
               \/ Case!Load(q, r) \/ Case!Refused(q) \/ Case!softDelete(q, r) \/ Case!updateStatus(q, r, to)
        PROVE  Goal
    <2>1. Case!LifeNext
      BY <1>6 DEF Case!LifeNext
    <2> QED
      BY <2>1, DeskStep
  <1>7. "CLOSED" \in Case!TERMINAL_STATUSES
    BY DEF Case!TERMINAL_STATUSES
  <1> HIDE DEF Goal
  <1> QED
    BY <1>2, <1>3, <1>4, <1>5, <1>6, <1>7 DEF Case!MergeNext

\* With one request at a time and every handler of the reports, merges included, CLOSED and
\* REJECTED are left only by the urgent flag, or by a merge or its undoing of that very report:
\* unmerge gives the old status back to a report that was merged, and to no other.
THEOREM DecisionsSurviveMerges ==
  ASSUME None \notin Reports, \A p, q \in Requests : p = q
  PROVE  Case!CaseSpec => [][Case!TerminalStep]_(Case!caseVars)
  <1>1. Case!CaseInit(Case!Statuses \cup {"none"}) => CaseRows /\ MergesFlat
    BY DEF Case!CaseInit, CaseRows, MergesFlat, SeenFields, Case!NotSeen, Case!MergeDepthOne
  <1>2. CaseRows /\ MergesFlat /\ [Case!CaseNext]_(Case!caseVars) => (CaseRows /\ MergesFlat)' /\ Case!TerminalStep
    BY DeskStep, MergeWritesOwn, MergesFlatStep DEF Case!CaseNext
  <1> QED
    BY <1>1, <1>2, PTL DEF Case!CaseSpec

-----------------------------------------------------------------------------
(***************************************************************************)
(* Filing.  The unique index makes the insert and the check of its key one *)
(* step; the draft goes only in a step that follows its own insert, and a  *)
(* stored report never goes.                                               *)
(***************************************************************************)
FiledOnce ==
  /\ DOMAIN filed = Slots /\ DOMAIN req = Requests
  /\ \A q \in Requests : DOMAIN req[q] = {"op", "key", "info", "side", "media"}
  /\ Filing!OneReportPerKey /\ Filing!DraftBecomesReport
  /\ \A q \in Requests : req[q].op = "draftDelete" => Filing!Filed(Filing!DraftKey)

LEMMA FiledOnceStep == FiledOnce /\ [Filing!FilingNext]_(Filing!filingVars) => FiledOnce'
  <1> SUFFICES ASSUME FiledOnce, [Filing!FilingNext]_(Filing!filingVars) PROVE FiledOnce'
    OBVIOUS
  <1> USE DEF FiledOnce, Filing!OneReportPerKey, Filing!DraftBecomesReport, Filing!Filed, Filing!DraftKey, Filing!NoReq
  <1>1. ASSUME UNCHANGED <<filed, draft, req>> PROVE FiledOnce'
    BY <1>1
  <1>2. ASSUME NEW q \in Requests, Filing!Done(q), UNCHANGED <<filed, draft>> PROVE FiledOnce'
    BY <1>2 DEF Filing!Done
  <1>3. ASSUME NEW q \in Requests, NEW v, Filing!Begin(q, v), DOMAIN v = {"op", "key", "info", "side", "media"},
               v.op # "draftDelete", UNCHANGED <<filed, draft>>
        PROVE  FiledOnce'
    BY <1>3 DEF Filing!Begin
  <1>4. ASSUME NEW q \in Requests, NEW k \in Keys, Filing!CreateRead(q, k) \/ Filing!SyncRead(q, k) PROVE FiledOnce'
    <2>1. \E op \in {"create", "sync"} : Filing!Begin(q, [Filing!NoReq EXCEPT !.op = op, !.key = k]) /\ UNCHANGED <<filed, draft>>
      BY <1>4 DEF Filing!CreateRead, Filing!SyncRead
    <2> QED
      BY <2>1, <1>3
  <1>5. ASSUME NEW q \in Requests, NEW k \in Keys, Filing!CreateFound(q, k) PROVE FiledOnce'
    BY <1>1, <1>5 DEF Filing!CreateFound
  <1>6. ASSUME NEW q \in Requests, Filing!create(q) \/ Filing!syncReports(q) PROVE FiledOnce'
    BY <1>6 DEF Filing!create, Filing!syncReports, Filing!InsertOrWinner, Filing!Insert, Filing!Done
  <1>7. ASSUME NEW q \in Requests, Filing!Dropped(q) PROVE FiledOnce'
    BY <1>2, <1>7 DEF Filing!Dropped
  <1>8. ASSUME NEW q \in Requests, NEW s \in Slots, Filing!withdraw(q, s) PROVE FiledOnce'
    BY <1>1, <1>8 DEF Filing!withdraw
  <1>9. ASSUME NEW q \in Requests, Filing!saveDraft(q) \/ Filing!updateDraft(q) \/ Filing!deleteDraft(q) PROVE FiledOnce'
    BY <1>9 DEF Filing!saveDraft, Filing!updateDraft, Filing!deleteDraft, Filing!SetDraft
  <1>10. ASSUME NEW q \in Requests, Filing!SubmitDraftRead(q) PROVE FiledOnce'
    BY <1>3, <1>10 DEF Filing!SubmitDraftRead
  <1>11. ASSUME NEW q \in Requests, Filing!SubmitDraftCreate(q) PROVE FiledOnce'
    BY <1>11 DEF Filing!SubmitDraftCreate, Filing!InsertOrWinner, Filing!Insert
  <1>12. ASSUME NEW q \in Requests, Filing!submitDraft(q) PROVE FiledOnce'
    BY <1>12 DEF Filing!submitDraft, Filing!Done
  <1>13. ASSUME NEW q \in Requests, Filing!Look(q, "look") PROVE FiledOnce'
    BY <1>3, <1>13 DEF Filing!Look
  <1>14. ASSUME NEW q \in Requests,
                \/ Filing!requestMoreInformation(q) \/ Filing!respondToInformationRequest(q) \/ Filing!cancelInformationRequest(q)
                \/ Filing!remindInformationRequest(q) \/ Filing!extendInformationRequest(q)
                \/ \E v \in {"ACCEPTED", "PENDING"} : Filing!reviewInformationResponse(q, v)
         PROVE  FiledOnce'
    BY <1>2, <1>14 DEF Filing!requestMoreInformation, Filing!respondToInformationRequest, Filing!cancelInformationRequest,
       Filing!remindInformationRequest, Filing!extendInformationRequest, Filing!reviewInformationResponse, Filing!SetInfo
  <1>15. ASSUME NEW q \in Requests,
                \/ Filing!requestReopen(q) \/ Filing!submitFeedback(q) \/ Filing!requestErasure(q) \/ Filing!changeAnonymity(q)
                \/ Filing!revealReporter(q) \/ Filing!Close(q) \/ Filing!setLegalHold(q) \/ Filing!Receive(q)
         PROVE  FiledOnce'
    BY <1>2, <1>15 DEF Filing!requestReopen, Filing!submitFeedback, Filing!requestErasure, Filing!changeAnonymity,
       Filing!revealReporter, Filing!Close, Filing!setLegalHold, Filing!Receive, Filing!SetSide
  <1>16. ASSUME NEW q \in Requests, Filing!RevealRecord(q) PROVE FiledOnce'
    BY <1>16 DEF Filing!RevealRecord
  <1>17. ASSUME NEW q \in Requests, NEW f \in Files,
                Filing!addEvidence(q, f) \/ Filing!removeEvidence(q, f) \/ Filing!redactEvidence(q, f) \/ Filing!update(q, f)
         PROVE  FiledOnce'
    BY <1>2, <1>17 DEF Filing!addEvidence, Filing!removeEvidence, Filing!redactEvidence, Filing!update, Filing!SetMedia
  <1>18. CASE UNCHANGED Filing!filingVars
    BY <1>1, <1>18 DEF Filing!filingVars
  <1> HIDE DEF FiledOnce
  <1>19. CASE Filing!CreateNext
    BY <1>19, <1>4, <1>5, <1>6, <1>7, <1>8, <1>9, <1>10, <1>11, <1>12 DEF Filing!CreateNext
  <1>20. CASE Filing!DeskNext
    BY <1>20, <1>7, <1>13, <1>14 DEF Filing!DeskNext
  <1>21. CASE Filing!PersonNext
    BY <1>21, <1>7, <1>13, <1>15, <1>16 DEF Filing!PersonNext
  <1>22. CASE Filing!EvidenceNext
    BY <1>22, <1>7, <1>13, <1>15, <1>17 DEF Filing!EvidenceNext
  <1> QED
    BY <1>18, <1>19, <1>20, <1>21, <1>22 DEF Filing!FilingNext

\* Retries, parallel sends, the offline sync and a draft submitted again after a crash store one
\* report per idempotency key, and a draft that submitDraft deleted is a stored report.
THEOREM ReportsFiledOnce == Filing!FilingSpec => [](Filing!OneReportPerKey /\ Filing!DraftBecomesReport)
  <1>1. Filing!FilingInit => FiledOnce
    BY DEF Filing!FilingInit, FiledOnce, Filing!OneReportPerKey, Filing!DraftBecomesReport, Filing!NoReq
  <1>2. FiledOnce => Filing!OneReportPerKey /\ Filing!DraftBecomesReport
    BY DEF FiledOnce
  <1> QED
    BY <1>1, <1>2, FiledOnceStep, PTL DEF Filing!FilingSpec

-----------------------------------------------------------------------------
(***************************************************************************)
(* Missing persons, the rows: what a request holds is a copy of a row that *)
(* was there, and no write other than the owner's removal makes a row      *)
(* disappear or changes its key.                                           *)
(***************************************************************************)
RowFields == {"status", "type", "first", "claim", "assignee", "marks", "prev", "proposer", "proposed", "media", "key"}
NoCaseYet == {"none", "create"}

CaseRow(r) == DOMAIN r = RowFields /\ r.status # "none" /\ (r.prev = None \/ r.prev # "none")

KeysUnique ==
  /\ DOMAIN row = Cases /\ DOMAIN seen = Requests
  /\ \A c \in Cases : CaseRow(row[c]) \/ row[c] = Missing!NoRow
  /\ \A q \in Requests : DOMAIN seen[q] = {"case", "row", "op"}
  /\ \A q \in Requests : seen[q].op \notin NoCaseYet => CaseRow(seen[q].row)
  /\ Missing!OneCasePerKey

\* The row of c, which is there, is written and keeps its key; no other row is.
Edited(c) ==
  /\ Missing!Present(c) /\ DOMAIN row' = Cases
  /\ \A d \in Cases : d # c => row'[d] = row[d]
  /\ CaseRow(row'[c]) /\ row'[c].key = row[c].key

\* A write of the row of c, which is there.
LEMMA WriteIsEdit ==
  ASSUME KeysUnique, NEW c \in Cases, NEW v, Missing!Present(c), row' = [row EXCEPT ![c] = v],
         CaseRow(row[c]) => CaseRow(v) /\ v.key = row[c].key
  PROVE  Edited(c)
  <1>1. CaseRow(row[c])
    BY DEF KeysUnique, Missing!Present, Missing!NoRow
  <1> QED
    BY <1>1 DEF Edited, KeysUnique

LEMMA EditKeepsKeys ==
  ASSUME KeysUnique, NEW c \in Cases, Edited(c)
  PROVE  /\ DOMAIN row' = Cases
         /\ \A d \in Cases : CaseRow(row'[d]) \/ row'[d] = Missing!NoRow
         /\ Missing!OneCasePerKey'
  BY DEF KeysUnique, Edited, Missing!OneCasePerKey

LEMMA KeysUniqueStep ==
  KeysUnique /\ [Missing!MPNext]_(Missing!mpVars) => KeysUnique'
  <1> SUFFICES ASSUME KeysUnique, [Missing!MPNext]_(Missing!mpVars) PROVE KeysUnique'
    OBVIOUS
  <1>0. /\ \A c \in Cases : Missing!Present(c) => CaseRow(row[c])
        /\ \A q \in Requests : seen[q].op \notin NoCaseYet => CaseRow(Missing!Was(q))
    BY DEF KeysUnique, Missing!Present, Missing!NoRow, Missing!Was
  <1>1. ASSUME UNCHANGED <<row, seen>> PROVE KeysUnique'
    BY <1>1 DEF KeysUnique, Missing!OneCasePerKey
  <1>2. ASSUME NEW q \in Requests, UNCHANGED row, Missing!Respond(q) PROVE KeysUnique'
    BY <1>2 DEF KeysUnique, Missing!OneCasePerKey, Missing!Respond, Missing!NotSeen, NoCaseYet
  <1>3. ASSUME NEW q \in Requests, NEW c \in Cases, Edited(c), Missing!Respond(q) PROVE KeysUnique'
    BY <1>3, EditKeepsKeys DEF KeysUnique, Missing!Respond, Missing!NotSeen, NoCaseYet
  <1>4. ASSUME NEW q \in Requests, NEW c \in Cases, NEW op, CaseRow(row[c]), UNCHANGED row,
               seen' = [seen EXCEPT ![q] = [case |-> c, row |-> row[c], op |-> op]]
        PROVE  KeysUnique'
    BY <1>4 DEF KeysUnique, Missing!OneCasePerKey
  <1>5. ASSUME NEW q \in Requests, NEW op, CaseRow(seen[q].row), UNCHANGED row, seen' = [seen EXCEPT ![q].op = op]
        PROVE  KeysUnique'
    BY <1>5 DEF KeysUnique, Missing!OneCasePerKey
  <1>6. ASSUME NEW q \in Requests, NEW c \in Cases, NEW v, Missing!Write(q, c, v),
               CaseRow(row[c]) => CaseRow(v) /\ v.key = row[c].key
        PROVE  KeysUnique'
    BY <1>6, <1>3, WriteIsEdit DEF Missing!Write
  <1>7. ASSUME NEW q \in Requests, NEW c \in Cases, Missing!Load(q, c) PROVE KeysUnique'
    BY <1>0, <1>4, <1>7 DEF Missing!Load
  <1>8. ASSUME NEW q \in Requests, Missing!Refused(q) PROVE KeysUnique'
    BY <1>2, <1>8 DEF Missing!Refused
  \* Review.
  <1>9. ASSUME NEW q \in Requests, NEW c \in Cases, Missing!claimMissingPerson(q, c) \/ Missing!unclaimMissingPerson(q, c)
        PROVE  KeysUnique'
    BY <1>6, <1>9 DEF Missing!claimMissingPerson, Missing!unclaimMissingPerson, CaseRow, RowFields
  <1>10. ASSUME NEW q \in Requests, NEW c \in Cases, Missing!FirstConfirmation(q, c) PROVE KeysUnique'
    <2>1. Edited(c)
      BY <1>0, <1>10 DEF Missing!FirstConfirmation, Edited, CaseRow, RowFields, KeysUnique
    <2> QED
      BY <1>3, <1>10, <2>1 DEF Missing!FirstConfirmation
  <1>11. ASSUME NEW q \in Requests, NEW c \in Cases, NEW to \in Missing!Statuses, Missing!updateStatus(q, c, to)
         PROVE  KeysUnique'
    <2>1. CaseRow(Missing!Was(q)) /\ to # "none"
      BY <1>0, <1>11 DEF Missing!updateStatus, Missing!MayMove, NoCaseYet, Missing!Statuses, Missing!ALLOWED_TRANSITIONS
    <2>2. Missing!Present(c)
      BY <1>11, <2>1 DEF Missing!updateStatus, Missing!Claims, Missing!Present, CaseRow
    <2>3. Edited(c)
      BY <1>0, <1>11, <2>1, <2>2 DEF Missing!updateStatus, Edited, CaseRow, RowFields, KeysUnique
    <2> QED
      BY <1>3, <1>11, <2>3 DEF Missing!updateStatus
  <1>12. ASSUME NEW q \in Requests, NEW c \in Cases,
                Missing!bulkApprove(q, c) \/ Missing!bulkReject(q, c) \/ Missing!bulkExpire(q, c)
         PROVE  KeysUnique'
    BY <1>0, <1>4, <1>12 DEF Missing!bulkApprove, Missing!bulkReject, Missing!bulkExpire, Missing!Again
  <1>13. ASSUME NEW q \in Requests, NEW c \in Cases, Missing!moveToUnderReview(q, c) PROVE KeysUnique'
    <2>1. Missing!Present(c)
      BY <1>13 DEF Missing!moveToUnderReview, Missing!Claims, Missing!Present
    <2>2. Edited(c)
      BY <1>0, <1>13, <2>1 DEF Missing!moveToUnderReview, Edited, CaseRow, RowFields, KeysUnique
    <2>3. seen' = [seen EXCEPT ![q].row = row'[c]] /\ CaseRow(row'[c])
      BY <1>13, <2>2 DEF Missing!moveToUnderReview, Edited
    <2> QED
      BY <2>2, <2>3, EditKeepsKeys DEF KeysUnique
  <1>14. ASSUME NEW q \in Requests, NEW c \in Cases, NEW t \in Missing!Types, Missing!correctChildFlag(q, c, t)
         PROVE  KeysUnique'
    BY <1>6, <1>14 DEF Missing!correctChildFlag, CaseRow, RowFields
  \* The desk.
  <1>15. ASSUME NEW q \in Requests, NEW c \in Cases, Missing!verifyFound(q, c) PROVE KeysUnique'
    BY <1>6, <1>15 DEF Missing!verifyFound, CaseRow, RowFields
  <1>16. ASSUME NEW q \in Requests, NEW c \in Cases,
                \/ Missing!reportFoundByOwner(q, c) \/ Missing!applyRenewal(q, c) \/ Missing!createCaseUpdate(q, c)
                \/ Missing!markMineSeen(q, c) \/ Missing!editByAdmin(q, c)
         PROVE  KeysUnique'
    <2>1. PICK m : Missing!Write(q, c, Missing!Mark(row[c], m))
      BY <1>16 DEF Missing!reportFoundByOwner, Missing!applyRenewal, Missing!createCaseUpdate, Missing!markMineSeen,
         Missing!editByAdmin
    <2> QED
      BY <1>6, <2>1 DEF Missing!Mark, CaseRow, RowFields
  <1>17. ASSUME NEW q \in Requests, NEW c \in Cases, Missing!unassign(q, c) PROVE KeysUnique'
    BY <1>6, <1>17 DEF Missing!unassign, CaseRow, RowFields
  <1>18. ASSUME NEW q \in Requests, NEW c \in Cases, Missing!setLegalHold(q, c) PROVE KeysUnique'
    BY <1>6, <1>18 DEF Missing!setLegalHold, CaseRow, RowFields
  <1>19. ASSUME NEW q \in Requests, NEW c \in Cases, Missing!remove(q, c) PROVE KeysUnique'
    <2>1. row' = [row EXCEPT ![c] = Missing!NoRow] /\ Missing!Respond(q)
      BY <1>19 DEF Missing!remove, Missing!Write
    <2>2. Missing!OneCasePerKey'
      BY <2>1 DEF KeysUnique, Missing!OneCasePerKey, Missing!NoRow
    <2> QED
      BY <2>1, <2>2 DEF KeysUnique, Missing!Respond, Missing!NotSeen, NoCaseYet
  <1>20. ASSUME NEW q \in Requests, NEW c \in Cases, NEW t \in Missing!Types, NEW ms \in SUBSET Media, Missing!update(q, c, t, ms)
         PROVE  KeysUnique'
    BY <1>6, <1>20 DEF Missing!update, CaseRow, RowFields
  <1>21. ASSUME NEW q \in Requests, NEW c \in Cases, NEW m \in Media, Missing!removeMediaKey(q, c, m) \/ Missing!redactMedia(q, c, m)
         PROVE  KeysUnique'
    BY <1>6, <1>21 DEF Missing!removeMediaKey, Missing!redactMedia, Missing!Mark, CaseRow, RowFields
  <1>22. ASSUME NEW q \in Requests, NEW a \in Requests, Missing!bulkAssign(q, a) PROVE KeysUnique'
    <2>1. PICK c \in Cases : Missing!assign(q, c, a)
      BY <1>22 DEF Missing!bulkAssign
    <2> QED
      BY <1>6, <2>1 DEF Missing!assign, CaseRow, RowFields
  \* Moderation.
  <1>23. ASSUME NEW q \in Requests, NEW c \in Cases, Missing!hideCase(q, c), Missing!Respond(q) PROVE KeysUnique'
    <2>1. Missing!Present(c) /\ row' = [row EXCEPT ![c] = Missing!Hidden(row[c])]
      BY <1>23 DEF Missing!hideCase, Missing!Present, KeysUnique
    <2>2. Edited(c)
      BY <2>1, WriteIsEdit DEF Missing!Hidden, CaseRow, RowFields
    <2> QED
      BY <1>3, <1>23, <2>2
  <1>24. ASSUME NEW q \in Requests, NEW c \in Cases, Missing!takedown(q, c) PROVE KeysUnique'
    BY <1>23, <1>24 DEF Missing!takedown
  <1>25. ASSUME NEW q \in Requests, NEW c \in Cases, NEW u \in Requests, Missing!resolveFlag(q, c, u) PROVE KeysUnique'
    BY <1>2, <1>23, <1>25 DEF Missing!resolveFlag
  <1>26. ASSUME NEW q \in Requests, NEW c \in Cases, Missing!liftTakedown(q, c) PROVE KeysUnique'
    BY <1>6, <1>26 DEF Missing!liftTakedown, CaseRow, RowFields
  <1>27. ASSUME NEW q \in Requests, NEW c \in Cases, Missing!removeByAdmin(q, c) PROVE KeysUnique'
    <2>1. CaseRow(Missing!Was(q))
      BY <1>0, <1>27 DEF Missing!removeByAdmin, Missing!loadCase, NoCaseYet
    <2> QED
      BY <1>6, <1>27, <2>1 DEF Missing!removeByAdmin, CaseRow, RowFields
  <1>28. ASSUME NEW q \in Requests, NEW c \in Cases, Missing!restore(q, c) PROVE KeysUnique'
    <2>1. CaseRow(Missing!Was(q))
      BY <1>0, <1>28 DEF Missing!restore, Missing!loadCase, NoCaseYet
    <2>2. Missing!CanRestoreStatus(Missing!Was(q)) => Missing!Was(q).prev # "none"
      BY <2>1 DEF Missing!CanRestoreStatus, CaseRow
    <2> QED
      BY <1>6, <1>28, <2>2 DEF Missing!restore, CaseRow, RowFields
  <1>29. ASSUME NEW q \in Requests, NEW c \in Cases, Missing!reopen(q, c) PROVE KeysUnique'
    BY <1>6, <1>29 DEF Missing!reopen, CaseRow, RowFields
  <1>30. ASSUME NEW q \in Requests, NEW c \in Cases, NEW d \in Cases, Missing!AppealCheck(q, c) \/ Missing!MergeChecks(q, d, c)
         PROVE  KeysUnique'
    BY <1>0, <1>5, <1>30 DEF Missing!AppealCheck, Missing!MergeChecks, Missing!loadOwnCase, Missing!loadCase, NoCaseYet, Missing!Was
  <1>31. ASSUME NEW q \in Requests, NEW c \in Cases, Missing!merge(q, c) PROVE KeysUnique'
    BY <1>6, <1>31 DEF Missing!merge, CaseRow, RowFields
  <1>32. ASSUME NEW q \in Requests, NEW a \in Appeals, Missing!appealRejection(q, a) PROVE KeysUnique'
    BY <1>2, <1>32 DEF Missing!appealRejection
  <1>33. ASSUME NEW a \in Appeals, NEW d, Missing!decideAppeal(a, d) PROVE KeysUnique'
    <2> DEFINE c == appeal[a].case
    <2>1. seen' = seen /\ Missing!Present(c)
      BY <1>33 DEF Missing!decideAppeal
    <2>2. CASE row' = row
      BY <1>1, <2>1, <2>2
    <2>3. CASE row' = [row EXCEPT ![c].status = "UNDER_REVIEW"] /\ c \in Cases
      <3>1. Edited(c)
        BY <1>0, <2>1, <2>3 DEF Edited, CaseRow, RowFields, KeysUnique
      <3> QED
        BY <2>1, <2>3, <3>1, EditKeepsKeys DEF KeysUnique
    <2>4. CASE row' = [row EXCEPT ![c].status = "UNDER_REVIEW"] /\ c \notin Cases
      <3>1. DOMAIN row' = Cases /\ \A e \in Cases : row'[e] = row[e]
        BY <2>4 DEF KeysUnique
      <3> QED
        BY <2>1, <3>1 DEF KeysUnique, Missing!OneCasePerKey
    <2> QED
      BY <1>33, <2>2, <2>3, <2>4 DEF Missing!decideAppeal
  <1>34. CASE Missing!handleUserSuspended
    <2>1. /\ DOMAIN row' = Cases /\ seen' = seen
          /\ \A c \in Cases : row'[c] = row[c] \/ (Missing!Present(c) /\ row'[c] = Missing!Mark(row[c], "suspended"))
      BY <1>34 DEF Missing!handleUserSuspended
    <2>2. \A c \in Cases : row'[c].key = row[c].key /\ (CaseRow(row'[c]) \/ row'[c] = Missing!NoRow)
      BY <1>0, <2>1 DEF Missing!Mark, CaseRow, RowFields, KeysUnique
    <2> QED
      BY <2>1, <2>2 DEF KeysUnique, Missing!OneCasePerKey
  <1>35. ASSUME NEW u \in Requests, NEW c \in Cases, Missing!flag(u, c) PROVE KeysUnique'
    BY <1>1, <1>35 DEF Missing!flag
  \* Filing.
  <1>36. ASSUME NEW q \in Requests, NEW k \in Keys \cup {None}, Missing!CreateRead(q, k) PROVE KeysUnique'
    BY <1>36 DEF Missing!CreateRead, KeysUnique, NoCaseYet, Missing!OneCasePerKey
  <1>37. ASSUME NEW c \in Cases, NEW v, row' = [row EXCEPT ![c] = v], CaseRow(v),
                v.key = None \/ (\A d \in Cases : Missing!Present(d) => row[d].key # v.key)
         PROVE  Missing!OneCasePerKey' /\ DOMAIN row' = Cases /\ (\A d \in Cases : CaseRow(row'[d]) \/ row'[d] = Missing!NoRow)
    <2>1. \A d \in Cases : ~Missing!Present(d) => row[d].key = None
      BY DEF KeysUnique, CaseRow, Missing!Present, Missing!NoRow
    <2>2. \A d \in Cases : d # c => row'[d] = row[d]
      BY <1>37 DEF KeysUnique
    <2>3. row'[c] = v
      BY <1>37 DEF KeysUnique
    <2>4. Missing!OneCasePerKey'
      BY <1>37, <2>1, <2>2, <2>3 DEF KeysUnique, Missing!OneCasePerKey
    <2> QED
      BY <1>37, <2>2, <2>3, <2>4 DEF KeysUnique
  <1>38. ASSUME NEW q \in Requests, NEW c \in Cases, NEW t \in Missing!Types, Missing!create(q, c, t) PROVE KeysUnique'
    <2> DEFINE v == [Missing!Filed("PENDING", t) EXCEPT !.key = Missing!Was(q).key]
    <2>1. row' = [row EXCEPT ![c] = v] /\ Missing!Respond(q) /\ ~Missing!KeyTaken(Missing!Was(q).key)
      BY <1>38 DEF Missing!create, Missing!createWithIdempotencyRaceHandling
    <2>2. CaseRow(v) /\ v.key = Missing!Was(q).key
      BY DEF Missing!Filed, Missing!NoRow, CaseRow, RowFields
    <2>3. v.key = None \/ (\A d \in Cases : Missing!Present(d) => row[d].key # v.key)
      BY <2>1, <2>2 DEF Missing!KeyTaken
    <2> HIDE DEF v
    <2>4. Missing!OneCasePerKey' /\ DOMAIN row' = Cases /\ (\A d \in Cases : CaseRow(row'[d]) \/ row'[d] = Missing!NoRow)
      BY <1>37, <2>1, <2>2, <2>3
    <2> QED
      BY <2>1, <2>4 DEF KeysUnique, Missing!Respond, Missing!NotSeen, NoCaseYet
  <1>39. ASSUME NEW c \in Cases, NEW t \in Missing!Types, Missing!createByAdmin(c, t) PROVE KeysUnique'
    <2> DEFINE v == Missing!Filed(IF t = "CHILD" THEN "UNDER_REVIEW" ELSE "APPROVED", t)
    <2>1. row' = [row EXCEPT ![c] = v] /\ seen' = seen
      BY <1>39 DEF Missing!createByAdmin
    <2>2. CaseRow(v) /\ v.key = None
      BY DEF Missing!Filed, Missing!NoRow, CaseRow, RowFields
    <2> HIDE DEF v
    <2>3. Missing!OneCasePerKey' /\ DOMAIN row' = Cases /\ (\A d \in Cases : CaseRow(row'[d]) \/ row'[d] = Missing!NoRow)
      BY <1>37, <2>1, <2>2
    <2> QED
      BY <2>1, <2>3 DEF KeysUnique
  \* Read marks and exports.
  <1>40. ASSUME \/ \E a \in Requests, c \in Cases : Missing!markRead(a, c) \/ Missing!markUnread(a, c)
                \/ \E a \in Requests, ids \in SUBSET Cases : Missing!bulkMarkRead(a, ids) \/ Missing!bulkMarkUnread(a, ids)
                \/ \E a \in Requests : Missing!markAllRead(a) \/ Missing!markOwnerRead(a) \/ Missing!markOwnerUnread(a)
                \/ Missing!startExportJob \/ Missing!RunExport \/ Missing!runExportJob \/ Missing!loadExportJob
         PROVE  UNCHANGED <<row, seen>>
    BY <1>40 DEF Missing!markRead, Missing!markUnread, Missing!bulkMarkRead, Missing!bulkMarkUnread, Missing!markAllRead,
       Missing!markOwnerRead, Missing!markOwnerUnread, Missing!SetReads, Missing!startExportJob, Missing!RunExport,
       Missing!runExportJob, Missing!loadExportJob, Missing!SetJob
  <1>41. CASE UNCHANGED Missing!mpVars
    BY <1>1, <1>41 DEF Missing!mpVars
  <1>42. \A to \in {"UNDER_REVIEW", "APPROVED", "REJECTED", "EXPIRED", "FOUND", "CANCELLED", "MORE_INFORMATION_REQUESTED"} :
           to \in Missing!Statuses
    BY DEF Missing!Statuses, Missing!ALLOWED_TRANSITIONS
  <1>43. CASE Missing!ReviewNext
    BY <1>43, <1>7, <1>8, <1>9, <1>10, <1>11, <1>12, <1>13, <1>14, <1>42 DEF Missing!ReviewNext
  <1>44. CASE Missing!DeskNext
    BY <1>44, <1>7, <1>8, <1>11, <1>12, <1>15, <1>16, <1>17, <1>18, <1>19, <1>20, <1>21, <1>22, <1>42 DEF Missing!DeskNext
  <1>45. CASE Missing!ModerationNext
    BY <1>45, <1>7, <1>8, <1>11, <1>18, <1>24, <1>25, <1>26, <1>27, <1>28, <1>29, <1>30, <1>31, <1>32, <1>33, <1>34, <1>35, <1>42
       DEF Missing!ModerationNext
  <1>46. CASE Missing!FilingNext
    BY <1>46, <1>7, <1>8, <1>19, <1>36, <1>38, <1>39 DEF Missing!FilingNext
  <1>47. CASE Missing!InboxNext
    <2>1. CASE UNCHANGED <<row, seen>>
      BY <1>1, <2>1
    <2> QED
      BY <1>47, <2>1, <1>7, <1>8, <1>27, <1>28, <1>30, <1>31, <1>40 DEF Missing!InboxNext
  <1> QED
    BY <1>41, <1>43, <1>44, <1>45, <1>46, <1>47 DEF Missing!MPNext

LEMMA KeysUniqueInit == Missing!MPInit(Missing!FiledRows) => KeysUnique
  <1>1. \A r \in Missing!FiledRows : (CaseRow(r) \/ r = Missing!NoRow) /\ r.key = None
    <2>1. "none" \notin Missing!Statuses
      BY DEF Missing!Statuses, Missing!ALLOWED_TRANSITIONS
    <2>2. ASSUME NEW st \in Missing!Statuses, NEW t PROVE CaseRow(Missing!Filed(st, t)) /\ Missing!Filed(st, t).key = None
      BY <2>1 DEF Missing!Filed, Missing!NoRow, CaseRow, RowFields
    <2>3. Missing!NoRow.key = None
      BY DEF Missing!NoRow
    <2> QED
      BY <2>2, <2>3 DEF Missing!FiledRows
  <1> QED
    BY <1>1 DEF Missing!MPInit, Missing!NotSeen, KeysUnique, NoCaseYet, Missing!OneCasePerKey

\* A retried or concurrent submission with the same key never makes a second case (create),
\* whatever else is called on the cases meanwhile.
THEOREM OneCaseForAKey == Missing!MPSpec => []Missing!OneCasePerKey
  <1>1. KeysUnique => Missing!OneCasePerKey
    BY DEF KeysUnique
  <1> QED
    BY <1>1, KeysUniqueInit, KeysUniqueStep, PTL DEF Missing!MPSpec

-----------------------------------------------------------------------------
(***************************************************************************)
(* Missing persons, two admins.  The first confirmation in a row, and in   *)
(* every copy a request holds, is one that was made: no write of the desk  *)
(* takes a confirmation from anywhere but the admin who makes it.          *)
(***************************************************************************)
FirstWasMade ==
  /\ DOMAIN confirmed = Cases /\ \A c \in Cases : IsFiniteSet(confirmed[c])
  /\ \A c \in Cases : row[c].first = None \/ row[c].first \in confirmed[c]
  /\ \A q \in Requests : seen[q].op \notin NoCaseYet =>
       /\ seen[q].case \in Cases
       /\ seen[q].row.first = None \/ seen[q].row.first \in confirmed[seen[q].case]

\* A second confirmation by someone else makes two.
LEMMA TwoConfirmed ==
  ASSUME NEW S, IsFiniteSet(S), NEW x \in S, NEW y, x # y
  PROVE  Missing!Cardinality(S \cup {y}) >= 2
  <1>1. \A T : Missing!Cardinality(T) = Cardinality(T)
    BY DEF Cardinality, Missing!Cardinality, Missing!IsFiniteSet, IsFiniteSet
  <1>2. IsFiniteSet(S \cup {y}) /\ {x, y} \subseteq S \cup {y}
    BY FS_AddElement
  <1>3. Cardinality({x, y}) = 2
    <2>1. IsFiniteSet({x}) /\ Cardinality({x}) = 1 /\ {x} \cup {y} = {x, y} /\ y \notin {x}
      BY FS_Singleton
    <2> QED
      BY <2>1, FS_AddElement
  <1>4. Cardinality({x, y}) <= Cardinality(S \cup {y}) /\ Cardinality(S \cup {y}) \in Nat
    BY <1>2, FS_Subset, FS_CardinalityType
  <1> QED
    BY <1>1, <1>3, <1>4

LEMMA TwoAdminsStep ==
  ASSUME None \notin Cases, KeysUnique, KeysUnique', FirstWasMade, [Missing!ReviewNext \/ Missing!DeskNext]_(Missing!mpVars)
  PROVE  FirstWasMade' /\ Missing!TwoAdminsApproveChild
  <1> DEFINE Goal == FirstWasMade' /\ Missing!TwoAdminsApproveChild
  <1> SUFFICES Goal
    OBVIOUS
  <1>0. /\ DOMAIN row = Cases /\ DOMAIN row' = Cases /\ DOMAIN seen = Requests /\ DOMAIN seen' = Requests
        /\ \A c \in Cases : Missing!Present(c) => CaseRow(row[c])
        /\ \A q \in Requests : DOMAIN seen[q] = {"case", "row", "op"}
    BY DEF KeysUnique, Missing!Present, Missing!NoRow
  \* A step that approves nothing and confirms nothing.
  <1>1. ASSUME confirmed' = confirmed, \A c \in Cases : row[c].status = "UNDER_REVIEW" => row'[c].status # "APPROVED",
               \A c \in Cases : row'[c].first = row[c].first \/ row'[c].first = None,
               \A q \in Requests : seen'[q].op \notin NoCaseYet =>
                 /\ seen'[q].case \in Cases
                 /\ seen'[q].row.first = None \/ seen'[q].row.first \in confirmed[seen'[q].case]
        PROVE  Goal
    BY <1>1 DEF FirstWasMade, Missing!TwoAdminsApproveChild
  <1>2. ASSUME NEW q \in Requests, NEW v, seen' = [seen EXCEPT ![q] = v],
               v.op \notin NoCaseYet => v.case \in Cases /\ (v.row.first = None \/ v.row.first \in confirmed[v.case])
        PROVE  \A p \in Requests : seen'[p].op \notin NoCaseYet =>
                 /\ seen'[p].case \in Cases
                 /\ seen'[p].row.first = None \/ seen'[p].row.first \in confirmed[seen'[p].case]
    BY <1>0, <1>2 DEF FirstWasMade
  <1>3. ASSUME NEW q \in Requests, Missing!Respond(q)
        PROVE  \A p \in Requests : seen'[p].op \notin NoCaseYet =>
                 /\ seen'[p].case \in Cases
                 /\ seen'[p].row.first = None \/ seen'[p].row.first \in confirmed[seen'[p].case]
    BY <1>0, <1>3 DEF FirstWasMade, Missing!Respond, Missing!NotSeen, NoCaseYet
  <1>4. ASSUME NEW q \in Requests, NEW c \in Cases, NEW v, Missing!Write(q, c, v),
               CaseRow(row[c]) => /\ v.first = row[c].first \/ v.first = None
                                  /\ row[c].status = "UNDER_REVIEW" => v.status # "APPROVED"
        PROVE  Goal
    <2>1. confirmed' = confirmed /\ row' = [row EXCEPT ![c] = v] /\ Missing!Respond(q) /\ CaseRow(row[c])
      BY <1>0, <1>4 DEF Missing!Write
    <2>2. \A d \in Cases : row[d].status = "UNDER_REVIEW" => row'[d].status # "APPROVED"
      BY <1>0, <1>4, <2>1
    <2>3. \A d \in Cases : row'[d].first = row[d].first \/ row'[d].first = None
      BY <1>0, <1>4, <2>1
    <2> QED
      BY <1>1, <1>3, <2>1, <2>2, <2>3
  <1>5. ASSUME NEW q \in Requests, Missing!Refused(q) PROVE Goal
    BY <1>1, <1>3, <1>5 DEF Missing!Refused
  <1>6. ASSUME NEW q \in Requests, NEW c \in Cases, NEW op, UNCHANGED <<row, confirmed>>,
               seen' = [seen EXCEPT ![q] = [case |-> c, row |-> row[c], op |-> op]]
        PROVE  Goal
    <2>1. row[c].first = None \/ row[c].first \in confirmed[c]
      BY DEF FirstWasMade
    <2> QED
      BY <1>1, <1>2, <1>6, <2>1
  <1>7. ASSUME NEW q \in Requests, NEW c \in Cases, Missing!Load(q, c) PROVE Goal
    BY <1>6, <1>7 DEF Missing!Load
  <1>8. ASSUME NEW q \in Requests, NEW c \in Cases,
               Missing!bulkApprove(q, c) \/ Missing!bulkReject(q, c) \/ Missing!bulkExpire(q, c)
        PROVE  Goal
    BY <1>6, <1>8 DEF Missing!bulkApprove, Missing!bulkReject, Missing!bulkExpire, Missing!Again
  <1>9. ASSUME NEW q \in Requests, NEW c \in Cases, Missing!FirstConfirmation(q, c) PROVE Goal
    <2>1. /\ row' = [row EXCEPT ![c] = [row[c] EXCEPT !.first = q]] /\ CaseRow(row[c])
          /\ confirmed' = [confirmed EXCEPT ![c] = confirmed[c] \cup {q}] /\ Missing!Respond(q)
      BY <1>0, <1>9 DEF Missing!FirstConfirmation
    <2>2. row'[c].first = q /\ row'[c].status = row[c].status
      BY <1>0, <2>1 DEF CaseRow, RowFields
    <2>3. \A d \in Cases : IsFiniteSet(confirmed'[d]) /\ confirmed[d] \subseteq confirmed'[d]
      BY <2>1, FS_AddElement DEF FirstWasMade
    <2>4. DOMAIN confirmed' = Cases /\ q \in confirmed'[c]
      BY <2>1 DEF FirstWasMade
    <2>5. \A d \in Cases : d # c => row'[d] = row[d]
      BY <1>0, <2>1
    <2>6. \A d \in Cases : row'[d].first = None \/ row'[d].first \in confirmed'[d]
      BY <2>2, <2>3, <2>4, <2>5 DEF FirstWasMade
    <2>7. FirstWasMade'
      BY <1>3, <2>1, <2>3, <2>4, <2>6 DEF FirstWasMade
    <2>8. \A d \in Cases : row'[d].status = row[d].status
      BY <2>2, <2>5
    <2> QED
      BY <2>7, <2>8 DEF Missing!TwoAdminsApproveChild
  <1>10. ASSUME NEW q \in Requests, NEW c \in Cases, NEW to \in Missing!Statuses, Missing!updateStatus(q, c, to) PROVE Goal
    <2>1. /\ row' = [row EXCEPT ![c] = [[row[c] EXCEPT !.status = to] EXCEPT !.claim = None]] /\ Missing!Respond(q)
          /\ Missing!MayMove(q, c, to) /\ Missing!Claims(q, c)
      BY <1>0, <1>10 DEF Missing!updateStatus
    <2>2. seen[q].op \notin NoCaseYet /\ seen[q].case = c /\ CaseRow(Missing!Was(q))
      BY <1>10, <2>1 DEF Missing!MayMove, NoCaseYet, KeysUnique, Missing!Was, Missing!Statuses, Missing!ALLOWED_TRANSITIONS
    <2>3. CaseRow(row[c])
      BY <1>0, <2>1, <2>2 DEF Missing!Claims, Missing!Present, CaseRow
    <2>4. row'[c].first = row[c].first /\ row'[c].status = to
      BY <1>0, <2>1, <2>3 DEF CaseRow, RowFields
    <2>5. \A d \in Cases : d # c => row'[d] = row[d]
      BY <1>0, <2>1
    <2>6. \A p \in Requests : seen[p].case = c /\ seen'[p] = Missing!NotSeen => p = q
      BY <1>0, <2>1 DEF Missing!Respond, Missing!NotSeen
    <2>7. CASE ~Missing!NeedsSafety(q, to)
      <3>1. confirmed' = confirmed
        BY <1>10, <2>7 DEF Missing!updateStatus
      <3>2. FirstWasMade'
        BY <1>3, <2>1, <2>4, <2>5, <3>1 DEF FirstWasMade
      <3>3. to = "APPROVED" => seen[q].row.type # "CHILD"
        BY <2>7 DEF Missing!NeedsSafety, Missing!Was
      <3> QED
        BY <2>4, <2>5, <2>6, <3>2, <3>3 DEF Missing!TwoAdminsApproveChild
    <2>8. CASE Missing!NeedsSafety(q, to)
      <3>1. confirmed' = [confirmed EXCEPT ![c] = confirmed[c] \cup {q}] /\ Missing!ensureChildSafetySatisfied(q)
        BY <1>10, <2>8 DEF Missing!updateStatus
      <3>2. seen[q].row.first # q /\ seen[q].row.first \in confirmed[c]
        BY <2>2, <3>1 DEF Missing!ensureChildSafetySatisfied, Missing!Was, FirstWasMade
      <3>3. Missing!Cardinality(confirmed'[c]) >= 2
        BY <3>1, <3>2, TwoConfirmed DEF FirstWasMade
      <3>4. \A d \in Cases : IsFiniteSet(confirmed'[d]) /\ confirmed[d] \subseteq confirmed'[d]
        BY <3>1, FS_AddElement DEF FirstWasMade
      <3>5. DOMAIN confirmed' = Cases
        BY <3>1 DEF FirstWasMade
      <3>6. FirstWasMade'
        BY <1>3, <2>1, <2>4, <2>5, <3>4, <3>5 DEF FirstWasMade
      <3> QED
        BY <2>5, <3>3, <3>6 DEF Missing!TwoAdminsApproveChild
    <2> QED
      BY <2>7, <2>8
  <1>11. ASSUME NEW q \in Requests, NEW c \in Cases, Missing!moveToUnderReview(q, c) PROVE Goal
    <2>1. /\ row' = [row EXCEPT ![c] = [[row[c] EXCEPT !.status = "UNDER_REVIEW"] EXCEPT !.claim = None]]
          /\ seen' = [seen EXCEPT ![q] = [seen[q] EXCEPT !.row = row'[c]]] /\ confirmed' = confirmed
          /\ seen[q].case = c /\ Missing!Present(c)
      BY <1>0, <1>11 DEF Missing!moveToUnderReview, Missing!Claims, Missing!Present
    <2>2. row'[c].first = row[c].first /\ row'[c].status = "UNDER_REVIEW"
      BY <1>0, <2>1 DEF CaseRow, RowFields
    <2>3. \A d \in Cases : d # c => row'[d] = row[d]
      BY <1>0, <2>1
    <2>4. row'[c].first = None \/ row'[c].first \in confirmed[c]
      BY <2>2 DEF FirstWasMade
    <2> DEFINE v == [seen[q] EXCEPT !.row = row'[c]]
    <2>5. v.case = c /\ v.row = row'[c]
      BY <1>0, <2>1
    <2> HIDE DEF v
    <2> QED
      BY <1>1, <1>2, <2>1, <2>2, <2>3, <2>4, <2>5 DEF v
  \* Writes by id, whose value keeps the status or moves it to another one.
  <1>12. ASSUME NEW q \in Requests, NEW c \in Cases, Missing!claimMissingPerson(q, c) \/ Missing!unclaimMissingPerson(q, c)
         PROVE  Goal
    BY <1>4, <1>12 DEF Missing!claimMissingPerson, Missing!unclaimMissingPerson, CaseRow, RowFields
  <1>13. ASSUME NEW q \in Requests, NEW c \in Cases, NEW t \in Missing!Types, Missing!correctChildFlag(q, c, t) PROVE Goal
    BY <1>4, <1>13 DEF Missing!correctChildFlag, CaseRow, RowFields
  <1>14. ASSUME NEW q \in Requests, NEW c \in Cases, Missing!verifyFound(q, c) PROVE Goal
    BY <1>4, <1>14 DEF Missing!verifyFound, CaseRow, RowFields
  <1>15. ASSUME NEW q \in Requests, NEW c \in Cases,
                \/ Missing!reportFoundByOwner(q, c) \/ Missing!applyRenewal(q, c) \/ Missing!createCaseUpdate(q, c)
                \/ Missing!markMineSeen(q, c) \/ Missing!editByAdmin(q, c)
         PROVE  Goal
    <2>1. PICK m : Missing!Write(q, c, Missing!Mark(row[c], m))
      BY <1>15 DEF Missing!reportFoundByOwner, Missing!applyRenewal, Missing!createCaseUpdate, Missing!markMineSeen,
         Missing!editByAdmin
    <2> QED
      BY <1>4, <2>1 DEF Missing!Mark, CaseRow, RowFields
  <1>16. ASSUME NEW q \in Requests, NEW c \in Cases, Missing!unassign(q, c) \/ Missing!setLegalHold(q, c) PROVE Goal
    BY <1>4, <1>16 DEF Missing!unassign, Missing!setLegalHold, CaseRow, RowFields
  <1>17. ASSUME NEW q \in Requests, NEW c \in Cases, Missing!remove(q, c) PROVE Goal
    BY <1>4, <1>17 DEF Missing!remove, Missing!NoRow
  <1>18. ASSUME NEW q \in Requests, NEW c \in Cases, NEW t \in Missing!Types, NEW ms \in SUBSET Media, Missing!update(q, c, t, ms)
         PROVE  Goal
    BY <1>4, <1>18 DEF Missing!update, CaseRow, RowFields
  <1>19. ASSUME NEW q \in Requests, NEW c \in Cases, NEW m \in Media, Missing!removeMediaKey(q, c, m) \/ Missing!redactMedia(q, c, m)
         PROVE  Goal
    BY <1>4, <1>19 DEF Missing!removeMediaKey, Missing!redactMedia, Missing!Mark, CaseRow, RowFields
  <1>20. ASSUME NEW q \in Requests, NEW a \in Requests, Missing!bulkAssign(q, a) PROVE Goal
    <2>1. PICK c \in Cases : Missing!assign(q, c, a)
      BY <1>20 DEF Missing!bulkAssign
    <2> QED
      BY <1>4, <2>1 DEF Missing!assign, CaseRow, RowFields
  <1>21. CASE UNCHANGED Missing!mpVars
    BY <1>1, <1>21 DEF Missing!mpVars, FirstWasMade
  <1>22. \A to \in {"UNDER_REVIEW", "APPROVED", "REJECTED", "EXPIRED", "MORE_INFORMATION_REQUESTED"} : to \in Missing!Statuses
    BY DEF Missing!Statuses, Missing!ALLOWED_TRANSITIONS
  <1> HIDE DEF Goal
  <1>23. CASE Missing!ReviewNext
    BY <1>23, <1>5, <1>7, <1>8, <1>9, <1>10, <1>11, <1>12, <1>13, <1>22 DEF Missing!ReviewNext
  <1>24. CASE Missing!DeskNext
    BY <1>24, <1>5, <1>7, <1>8, <1>10, <1>14, <1>15, <1>16, <1>17, <1>18, <1>19, <1>20, <1>22 DEF Missing!DeskNext
  <1> QED
    BY <1>21, <1>23, <1>24

\* However the requests of any number of admins interleave, with each other, with a correction
\* of the child flag or with an edit, no review approves a case it read as a child's without
\* the confirmations of two different admins (ensureChildSafetySatisfied, approve).
THEOREM ChildNeedsTwoAdmins ==
  ASSUME None \notin Cases
  PROVE  Missing!ReviewSpec => [][Missing!TwoAdminsApproveChild]_(Missing!mpVars)
  <1>1. Missing!MPInit(Missing!FiledRows) => KeysUnique
    BY KeysUniqueInit
  <1>2. Missing!MPInit(Missing!FiledRows) => FirstWasMade
    <2>1. \A r \in Missing!FiledRows : r.first = None
      <3>1. Missing!NoRow.first = None
        BY DEF Missing!NoRow
      <3>2. ASSUME NEW st, NEW t PROVE Missing!Filed(st, t).first = None
        BY DEF Missing!Filed, Missing!NoRow
      <3> QED
        BY <3>1, <3>2 DEF Missing!FiledRows
    <2> QED
      BY <2>1, FS_EmptySet DEF Missing!MPInit, Missing!NotSeen, FirstWasMade, NoCaseYet
  <1>3. KeysUnique /\ [Missing!ReviewNext \/ Missing!DeskNext]_(Missing!mpVars) => KeysUnique'
    BY KeysUniqueStep DEF Missing!MPNext
  <1>4. KeysUnique /\ KeysUnique' /\ FirstWasMade /\ [Missing!ReviewNext \/ Missing!DeskNext]_(Missing!mpVars)
        => FirstWasMade' /\ [Missing!TwoAdminsApproveChild]_(Missing!mpVars)
    BY TwoAdminsStep
  <1> QED
    BY <1>1, <1>2, <1>3, <1>4, PTL DEF Missing!ReviewSpec

-----------------------------------------------------------------------------
(***************************************************************************)
(* Missing persons, the takedown.  The writes by id decide on a copy: with *)
(* another request in between, an edit or a restore can overwrite a        *)
(* takedown it never saw.  What holds is that no sequence of requests      *)
(* does, with the steps that are not requests (an appeal's decision, a     *)
(* suspension, a flag) anywhere: the copy still agrees with the row on the *)
(* takedown, and on the status but for an accepted appeal.                 *)
(***************************************************************************)
SameTakedown(r, s) ==
  /\ ("takedown" \in r.marks) <=> ("takedown" \in s.marks)
  /\ r.status = s.status \/ (r.status = "REJECTED" /\ s.status = "UNDER_REVIEW")

CopyIsFresh ==
  \A q \in Requests : seen[q].op \notin NoCaseYet =>
    seen[q].case \in Cases /\ Missing!Present(seen[q].case) /\ SameTakedown(seen[q].row, row[seen[q].case])

TakenDown == CopyIsFresh /\ Missing!TakenDownStaysDown

LEMMA TakenDownStep ==
  ASSUME \A p, q \in Requests : p = q, KeysUnique, KeysUnique', TakenDown, [Missing!MPNext]_(Missing!mpVars)
  PROVE  TakenDown'
  <1>0. /\ DOMAIN row = Cases /\ DOMAIN row' = Cases /\ DOMAIN seen = Requests /\ DOMAIN seen' = Requests
        /\ \A c \in Cases : Missing!Present(c) => CaseRow(row[c])
        /\ \A q \in Requests : DOMAIN seen[q] = {"case", "row", "op"}
        /\ \A c \in Cases : "takedown" \in row[c].marks => row[c].status = "CANCELLED"
    BY DEF KeysUnique, Missing!Present, Missing!NoRow, TakenDown, Missing!TakenDownStaysDown
  <1>1. ASSUME UNCHANGED <<row, seen>> PROVE TakenDown'
    BY <1>1 DEF TakenDown, CopyIsFresh, Missing!TakenDownStaysDown, Missing!Present
  \* After the answer no request is in flight.
  <1>2. ASSUME NEW q \in Requests, Missing!Respond(q) PROVE CopyIsFresh'
    <2>1. \A p \in Requests : seen'[p].op = "none"
      BY <1>0, <1>2 DEF Missing!Respond, Missing!NotSeen
    <2> QED
      BY <2>1 DEF CopyIsFresh, NoCaseYet
  <1>3. ASSUME NEW q \in Requests, UNCHANGED row, Missing!Respond(q) PROVE TakenDown'
    BY <1>2, <1>3 DEF TakenDown, Missing!TakenDownStaysDown
  <1>4. ASSUME NEW q \in Requests, NEW c \in Cases, NEW v, row' = [row EXCEPT ![c] = v], Missing!Respond(q),
               "takedown" \in v.marks => v.status = "CANCELLED"
        PROVE  TakenDown'
    <2>1. \A d \in Cases : row'[d] = IF d = c THEN v ELSE row[d]
      BY <1>0, <1>4
    <2> QED
      BY <1>0, <1>2, <1>4, <2>1 DEF TakenDown, Missing!TakenDownStaysDown
  <1>5. ASSUME NEW q \in Requests, NEW c \in Cases, NEW v, Missing!Write(q, c, v),
               CaseRow(row[c]) => ("takedown" \in v.marks => v.status = "CANCELLED")
        PROVE  TakenDown'
    BY <1>0, <1>4, <1>5 DEF Missing!Write
  \* The row that was loaded, as it is now.
  <1>6. ASSUME NEW q \in Requests, NEW c \in Cases, Missing!loadCase(q, c)
        PROVE  SameTakedown(Missing!Was(q), row[c]) /\ Missing!Present(c)
    BY <1>6 DEF Missing!loadCase, TakenDown, CopyIsFresh, Missing!Was, NoCaseYet
  <1>7. ASSUME NEW q \in Requests, NEW v, UNCHANGED row, seen' = [seen EXCEPT ![q] = v],
               v.case \in Cases /\ Missing!Present(v.case) /\ SameTakedown(v.row, row[v.case])
        PROVE  TakenDown'
    <2>1. \A p \in Requests : seen'[p] = v
      BY <1>0, <1>7
    <2>2. CopyIsFresh'
      BY <1>7, <2>1 DEF CopyIsFresh, Missing!Present
    <2> QED
      BY <1>7, <2>2 DEF TakenDown, Missing!TakenDownStaysDown
  <1>8. ASSUME NEW q \in Requests, NEW c \in Cases, NEW op, Missing!Present(c), UNCHANGED row,
               seen' = [seen EXCEPT ![q] = [case |-> c, row |-> row[c], op |-> op]]
        PROVE  TakenDown'
    <2> DEFINE v == [case |-> c, row |-> row[c], op |-> op]
    <2>1. v.case = c /\ v.row = row[c] /\ SameTakedown(row[c], row[c])
      BY DEF SameTakedown
    <2> HIDE DEF v
    <2> QED
      BY <1>7, <1>8, <2>1 DEF v
  <1>9. ASSUME NEW q \in Requests, NEW c \in Cases, Missing!Load(q, c) PROVE TakenDown'
    BY <1>8, <1>9 DEF Missing!Load
  <1>10. ASSUME NEW q \in Requests, Missing!Refused(q) PROVE TakenDown'
    BY <1>3, <1>10 DEF Missing!Refused
  \* Review.
  <1>11. ASSUME NEW q \in Requests, NEW c \in Cases, Missing!claimMissingPerson(q, c) \/ Missing!unclaimMissingPerson(q, c)
         PROVE  TakenDown'
    BY <1>0, <1>5, <1>11 DEF Missing!claimMissingPerson, Missing!unclaimMissingPerson, CaseRow, RowFields
  <1>12. ASSUME NEW q \in Requests, NEW c \in Cases, Missing!FirstConfirmation(q, c) PROVE TakenDown'
    <2>1. row' = [row EXCEPT ![c] = [row[c] EXCEPT !.first = q]] /\ Missing!Respond(q) /\ CaseRow(row[c])
      BY <1>0, <1>12 DEF Missing!FirstConfirmation
    <2> QED
      BY <1>0, <1>4, <2>1 DEF CaseRow, RowFields
  <1>13. ASSUME NEW q \in Requests, NEW c \in Cases, NEW to \in Missing!Statuses, Missing!updateStatus(q, c, to)
         PROVE  TakenDown'
    <2>1. /\ row' = [row EXCEPT ![c] = [[row[c] EXCEPT !.status = to] EXCEPT !.claim = None]] /\ Missing!Respond(q)
          /\ row[c].status = Missing!Was(q).status /\ to \in Missing!ALLOWED_TRANSITIONS[Missing!Was(q).status]
          /\ seen[q].case = c /\ seen[q].op \in {"loaded", to}
      BY <1>0, <1>13 DEF Missing!updateStatus, Missing!MayMove, Missing!Claims
    <2>2. CaseRow(Missing!Was(q))
      BY <2>1 DEF KeysUnique, NoCaseYet, Missing!Was, Missing!Statuses, Missing!ALLOWED_TRANSITIONS
    <2>3. CaseRow(row[c])
      BY <1>0, <2>1, <2>2 DEF CaseRow, Missing!Present
    <2>4. row[c].status # "CANCELLED"
      BY <2>1 DEF Missing!ALLOWED_TRANSITIONS
    <2>5. "takedown" \notin row[c].marks
      BY <1>0, <2>4
    <2> QED
      BY <1>4, <2>1, <2>3, <2>5 DEF CaseRow, RowFields
  <1>14. ASSUME NEW q \in Requests, NEW c \in Cases,
                Missing!bulkApprove(q, c) \/ Missing!bulkReject(q, c) \/ Missing!bulkExpire(q, c)
         PROVE  TakenDown'
    BY <1>8, <1>14 DEF Missing!bulkApprove, Missing!bulkReject, Missing!bulkExpire, Missing!Again
  <1>15. ASSUME NEW q \in Requests, NEW c \in Cases, Missing!moveToUnderReview(q, c) PROVE TakenDown'
    <2>1. /\ row' = [row EXCEPT ![c] = [[row[c] EXCEPT !.status = "UNDER_REVIEW"] EXCEPT !.claim = None]]
          /\ seen' = [seen EXCEPT ![q] = [seen[q] EXCEPT !.row = row'[c]]]
          /\ seen[q].case = c /\ row[c].status = "PENDING" /\ Missing!Present(c)
      BY <1>0, <1>15 DEF Missing!moveToUnderReview, Missing!Claims, Missing!Present
    <2>2. row'[c].status = "UNDER_REVIEW" /\ row'[c].marks = row[c].marks
      BY <1>0, <2>1 DEF CaseRow, RowFields
    <2>3. "takedown" \notin row'[c].marks
      BY <1>0, <2>1, <2>2
    <2>4. \A d \in Cases : d # c => row'[d] = row[d]
      BY <1>0, <2>1
    <2>5. \A p \in Requests : seen'[p].case = c /\ seen'[p].row = row'[c]
      BY <1>0, <2>1
    <2>6. CopyIsFresh'
      BY <2>2, <2>5 DEF CopyIsFresh, SameTakedown, Missing!Present
    <2> QED
      BY <1>0, <2>3, <2>4, <2>6 DEF TakenDown, Missing!TakenDownStaysDown
  <1>16. ASSUME NEW q \in Requests, NEW c \in Cases, NEW t \in Missing!Types, Missing!correctChildFlag(q, c, t)
         PROVE  TakenDown'
    BY <1>0, <1>5, <1>16 DEF Missing!correctChildFlag, CaseRow, RowFields
  \* The desk.
  <1>17. ASSUME NEW q \in Requests, NEW c \in Cases, Missing!verifyFound(q, c) PROVE TakenDown'
    <2>1. CASE Missing!Write(q, c, [row[c] EXCEPT !.marks = @ \ {"found"}])
      BY <1>0, <1>5, <2>1 DEF CaseRow, RowFields
    <2>2. CASE /\ Missing!Was(q).status = "APPROVED" /\ Missing!Claims(q, c)
               /\ Missing!Write(q, c, [row[c] EXCEPT !.status = "FOUND", !.claim = None, !.marks = @ \ {"found"}])
      <3>1. "takedown" \notin row[c].marks
        BY <1>0, <2>2 DEF Missing!Claims
      <3> QED
        BY <1>5, <2>2, <3>1 DEF CaseRow, RowFields
    <2> QED
      BY <1>17, <2>1, <2>2 DEF Missing!verifyFound
  <1>18. ASSUME NEW q \in Requests, NEW c \in Cases,
                \/ Missing!reportFoundByOwner(q, c) \/ Missing!applyRenewal(q, c) \/ Missing!createCaseUpdate(q, c)
                \/ Missing!markMineSeen(q, c) \/ Missing!editByAdmin(q, c)
         PROVE  TakenDown'
    <2>1. PICK m \in {"found", "renewed", "updated", "ownerSaw", "revised"} : Missing!Write(q, c, Missing!Mark(row[c], m))
      BY <1>18 DEF Missing!reportFoundByOwner, Missing!applyRenewal, Missing!createCaseUpdate, Missing!markMineSeen,
         Missing!editByAdmin
    <2> QED
      BY <1>0, <1>5, <2>1 DEF Missing!Mark, CaseRow, RowFields
  <1>19. ASSUME NEW q \in Requests, NEW c \in Cases, Missing!unassign(q, c) PROVE TakenDown'
    BY <1>0, <1>5, <1>19 DEF Missing!unassign, CaseRow, RowFields
  <1>20. ASSUME NEW q \in Requests, NEW c \in Cases, Missing!setLegalHold(q, c) PROVE TakenDown'
    BY <1>0, <1>5, <1>20 DEF Missing!setLegalHold, CaseRow, RowFields
  <1>21. ASSUME NEW q \in Requests, NEW c \in Cases, Missing!remove(q, c) PROVE TakenDown'
    BY <1>5, <1>21 DEF Missing!remove, Missing!NoRow
  <1>22. ASSUME NEW q \in Requests, NEW c \in Cases, NEW t \in Missing!Types, NEW ms \in SUBSET Media, Missing!update(q, c, t, ms)
         PROVE  TakenDown'
    <2>1. "takedown" \notin row[c].marks
      BY <1>0, <1>6, <1>22 DEF Missing!update, Missing!EDITABLE_STATUSES, SameTakedown
    <2> QED
      BY <1>5, <1>22, <2>1 DEF Missing!update, CaseRow, RowFields
  <1>23. ASSUME NEW q \in Requests, NEW c \in Cases, NEW m \in Media, Missing!removeMediaKey(q, c, m) \/ Missing!redactMedia(q, c, m)
         PROVE  TakenDown'
    BY <1>0, <1>5, <1>23 DEF Missing!removeMediaKey, Missing!redactMedia, Missing!Mark, CaseRow, RowFields
  <1>24. ASSUME NEW q \in Requests, NEW a \in Requests, Missing!bulkAssign(q, a) PROVE TakenDown'
    <2>1. PICK c \in Cases : Missing!assign(q, c, a)
      BY <1>24 DEF Missing!bulkAssign
    <2> QED
      BY <1>0, <1>5, <2>1 DEF Missing!assign, CaseRow, RowFields
  \* Moderation.
  <1>25. ASSUME NEW q \in Requests, NEW c \in Cases, Missing!hideCase(q, c), Missing!Respond(q) PROVE TakenDown'
    <2>1. CaseRow(row[c]) /\ row' = [row EXCEPT ![c] = Missing!Hidden(row[c])]
      BY <1>0, <1>25 DEF Missing!hideCase, Missing!Present
    <2>2. Missing!Hidden(row[c]).status = "CANCELLED"
      BY <2>1 DEF Missing!Hidden, CaseRow, RowFields
    <2> QED
      BY <1>4, <1>25, <2>1, <2>2
  <1>26. ASSUME NEW q \in Requests, NEW c \in Cases, Missing!takedown(q, c) PROVE TakenDown'
    BY <1>25, <1>26 DEF Missing!takedown
  <1>27. ASSUME NEW q \in Requests, NEW c \in Cases, NEW u \in Requests, Missing!resolveFlag(q, c, u) PROVE TakenDown'
    BY <1>3, <1>25, <1>27 DEF Missing!resolveFlag
  <1>28. ASSUME NEW q \in Requests, NEW c \in Cases, Missing!liftTakedown(q, c) PROVE TakenDown'
    BY <1>5, <1>28 DEF Missing!liftTakedown, CaseRow, RowFields
  <1>29. ASSUME NEW q \in Requests, NEW c \in Cases, Missing!removeByAdmin(q, c) PROVE TakenDown'
    BY <1>0, <1>5, <1>29 DEF Missing!removeByAdmin, CaseRow, RowFields
  <1>30. ASSUME NEW q \in Requests, NEW c \in Cases, Missing!restore(q, c) PROVE TakenDown'
    <2>1. Missing!CanRestoreStatus(Missing!Was(q)) => "takedown" \notin row[c].marks
      BY <1>6, <1>30 DEF Missing!restore, Missing!CanRestoreStatus, SameTakedown
    <2> QED
      BY <1>0, <1>5, <1>30, <2>1 DEF Missing!restore, CaseRow, RowFields
  <1>31. ASSUME NEW q \in Requests, NEW c \in Cases, Missing!reopen(q, c) PROVE TakenDown'
    <2>1. "takedown" \notin row[c].marks
      BY <1>6, <1>31 DEF Missing!reopen, SameTakedown
    <2> QED
      BY <1>5, <1>31, <2>1 DEF Missing!reopen, CaseRow, RowFields
  <1>32. ASSUME NEW q \in Requests, NEW c \in Cases, NEW d \in Cases, Missing!AppealCheck(q, c) \/ Missing!MergeChecks(q, d, c)
         PROVE  TakenDown'
    <2>1. PICK op \in {"appeal", "merge"} : seen' = [seen EXCEPT ![q] = [seen[q] EXCEPT !.op = op]]
      BY <1>0, <1>32 DEF Missing!AppealCheck, Missing!MergeChecks
    <2>2. Missing!loadCase(q, c) /\ UNCHANGED row
      BY <1>32 DEF Missing!AppealCheck, Missing!MergeChecks, Missing!loadOwnCase
    <2>3. seen[q].case = c /\ SameTakedown(seen[q].row, row[c]) /\ Missing!Present(c)
      BY <1>6, <2>2 DEF Missing!loadCase, Missing!Was
    <2> DEFINE v == [seen[q] EXCEPT !.op = op]
    <2>4. v.case = c /\ v.row = seen[q].row
      BY <1>0, <2>3
    <2> HIDE DEF v
    <2> QED
      BY <1>7, <2>1, <2>2, <2>3, <2>4 DEF v
  <1>33. ASSUME NEW q \in Requests, NEW c \in Cases, Missing!merge(q, c) PROVE TakenDown'
    BY <1>5, <1>33 DEF Missing!merge, CaseRow, RowFields
  <1>34. ASSUME NEW q \in Requests, NEW a \in Appeals, Missing!appealRejection(q, a) PROVE TakenDown'
    BY <1>3, <1>34 DEF Missing!appealRejection
  \* The steps that are no request's: the copies stay as they are.
  <1>35. ASSUME seen' = seen,
                \A c \in Cases : Missing!Present(c) =>
                  /\ row'[c].status # "none"
                  /\ ("takedown" \in row'[c].marks) <=> ("takedown" \in row[c].marks)
                  /\ row'[c].status = row[c].status \/ (row[c].status = "REJECTED" /\ row'[c].status = "UNDER_REVIEW"),
                \A c \in Cases : ~Missing!Present(c) => ("takedown" \in row'[c].marks => row'[c].status = "CANCELLED")
         PROVE  TakenDown'
    <2>1. CopyIsFresh'
      BY <1>35 DEF TakenDown, CopyIsFresh, SameTakedown, Missing!Present
    <2> QED
      BY <1>0, <1>35, <2>1 DEF TakenDown, Missing!TakenDownStaysDown
  <1>36. ASSUME NEW a \in Appeals, NEW d, Missing!decideAppeal(a, d) PROVE TakenDown'
    <2>1. seen' = seen
      BY <1>36 DEF Missing!decideAppeal
    <2>2. CASE row' = row
      BY <1>1, <2>1, <2>2
    <2>3. CASE row[appeal[a].case].status = "REJECTED" /\ row' = [row EXCEPT ![appeal[a].case].status = "UNDER_REVIEW"]
      <3>1. \A c \in Cases : c # appeal[a].case => row'[c] = row[c]
        BY <1>0, <2>3
      <3>2. ASSUME appeal[a].case \in Cases
            PROVE  row'[appeal[a].case].status = "UNDER_REVIEW" /\ row'[appeal[a].case].marks = row[appeal[a].case].marks
        BY <1>0, <2>3, <3>2 DEF CaseRow, RowFields, Missing!Present
      <3> QED
        BY <1>0, <1>35, <2>1, <2>3, <3>1, <3>2 DEF Missing!Present
    <2> QED
      BY <1>36, <2>2, <2>3 DEF Missing!decideAppeal
  <1>37. CASE Missing!handleUserSuspended
    <2>1. seen' = seen /\ \A c \in Cases : row'[c] = row[c] \/ (Missing!Present(c) /\ row'[c] = Missing!Mark(row[c], "suspended"))
      BY <1>37 DEF Missing!handleUserSuspended
    <2>2. \A c \in Cases : row'[c].status = row[c].status /\ (("takedown" \in row'[c].marks) <=> ("takedown" \in row[c].marks))
      BY <1>0, <2>1 DEF Missing!Mark, CaseRow, RowFields
    <2> QED
      BY <1>0, <1>35, <2>1, <2>2 DEF Missing!Present
  <1>38. ASSUME NEW u \in Requests, NEW c \in Cases, Missing!flag(u, c) PROVE TakenDown'
    BY <1>1, <1>38 DEF Missing!flag
  \* Filing.
  <1>39. ASSUME NEW q \in Requests, NEW k \in Keys \cup {None}, Missing!CreateRead(q, k) PROVE TakenDown'
    <2>1. UNCHANGED row /\ \A p \in Requests : seen'[p].op = "create"
      BY <1>0, <1>39 DEF Missing!CreateRead
    <2> QED
      BY <2>1 DEF TakenDown, CopyIsFresh, NoCaseYet, Missing!TakenDownStaysDown
  <1>40. ASSUME NEW q \in Requests, NEW c \in Cases, NEW t \in Missing!Types, Missing!create(q, c, t) PROVE TakenDown'
    BY <1>4, <1>40 DEF Missing!create, Missing!Filed, Missing!NoRow
  <1>41. ASSUME NEW c \in Cases, NEW t \in Missing!Types, Missing!createByAdmin(c, t) PROVE TakenDown'
    <2> DEFINE v == Missing!Filed(IF t = "CHILD" THEN "UNDER_REVIEW" ELSE "APPROVED", t)
    <2>1. row' = [row EXCEPT ![c] = v] /\ seen' = seen /\ ~Missing!Present(c)
      BY <1>41 DEF Missing!createByAdmin
    <2>2. "takedown" \notin v.marks
      BY DEF Missing!Filed, Missing!NoRow
    <2>3. \A d \in Cases : row'[d] = IF d = c THEN v ELSE row[d]
      BY <1>0, <2>1
    <2> HIDE DEF v
    <2> QED
      BY <1>0, <1>35, <2>1, <2>2, <2>3 DEF Missing!Present
  \* Read marks and exports.
  <1>42. ASSUME \/ \E a \in Requests, c \in Cases : Missing!markRead(a, c) \/ Missing!markUnread(a, c)
                \/ \E a \in Requests, ids \in SUBSET Cases : Missing!bulkMarkRead(a, ids) \/ Missing!bulkMarkUnread(a, ids)
                \/ \E a \in Requests : Missing!markAllRead(a) \/ Missing!markOwnerRead(a) \/ Missing!markOwnerUnread(a)
                \/ Missing!startExportJob \/ Missing!RunExport \/ Missing!runExportJob \/ Missing!loadExportJob
         PROVE  TakenDown'
    <2>1. UNCHANGED <<row, seen>>
      BY <1>42 DEF Missing!markRead, Missing!markUnread, Missing!bulkMarkRead, Missing!bulkMarkUnread, Missing!markAllRead,
         Missing!markOwnerRead, Missing!markOwnerUnread, Missing!SetReads, Missing!startExportJob, Missing!RunExport,
         Missing!runExportJob, Missing!loadExportJob, Missing!SetJob
    <2> QED
      BY <1>1, <2>1
  <1>43. CASE UNCHANGED Missing!mpVars
    BY <1>1, <1>43 DEF Missing!mpVars
  <1>44. \A to \in {"UNDER_REVIEW", "APPROVED", "REJECTED", "EXPIRED", "FOUND", "CANCELLED", "MORE_INFORMATION_REQUESTED"} :
           to \in Missing!Statuses
    BY DEF Missing!Statuses, Missing!ALLOWED_TRANSITIONS
  <1>45. CASE Missing!ReviewNext
    BY <1>45, <1>9, <1>10, <1>11, <1>12, <1>13, <1>14, <1>15, <1>16, <1>44 DEF Missing!ReviewNext
  <1>46. CASE Missing!DeskNext
    BY <1>46, <1>9, <1>10, <1>13, <1>14, <1>17, <1>18, <1>19, <1>20, <1>21, <1>22, <1>23, <1>24, <1>44 DEF Missing!DeskNext
  <1>47. CASE Missing!ModerationNext
    BY <1>47, <1>9, <1>10, <1>13, <1>20, <1>26, <1>27, <1>28, <1>29, <1>30, <1>31, <1>32, <1>33, <1>34, <1>36, <1>37, <1>38, <1>44
       DEF Missing!ModerationNext
  <1>48. CASE Missing!FilingNext
    BY <1>48, <1>9, <1>10, <1>21, <1>39, <1>40, <1>41 DEF Missing!FilingNext
  <1>49. CASE Missing!InboxNext
    BY <1>49, <1>9, <1>10, <1>29, <1>30, <1>32, <1>33, <1>42 DEF Missing!InboxNext
  <1> QED
    BY <1>43, <1>45, <1>46, <1>47, <1>48, <1>49 DEF Missing!MPNext

\* Whatever else is called on a case that moderation took down (remove, restore, reopen, merge,
\* appeals, expiry, edits), one request after the other, it is not public before liftTakedown.
THEOREM TakedownHolds ==
  ASSUME \A p, q \in Requests : p = q
  PROVE  Missing!MPSpec => []Missing!TakenDownStaysDown
  <1>1. Missing!MPInit(Missing!FiledRows) => TakenDown
    <2>1. \A r \in Missing!FiledRows : "takedown" \notin r.marks
      <3>1. ASSUME NEW st, NEW t PROVE "takedown" \notin Missing!Filed(st, t).marks
        BY DEF Missing!Filed, Missing!NoRow
      <3>2. "takedown" \notin Missing!NoRow.marks
        BY DEF Missing!NoRow
      <3> QED
        BY <3>1, <3>2 DEF Missing!FiledRows
    <2> QED
      BY <2>1 DEF Missing!MPInit, Missing!NotSeen, TakenDown, CopyIsFresh, Missing!TakenDownStaysDown, NoCaseYet
  <1>2. KeysUnique /\ KeysUnique' /\ TakenDown /\ [Missing!MPNext]_(Missing!mpVars) => TakenDown'
    BY TakenDownStep
  <1>3. TakenDown => Missing!TakenDownStaysDown
    BY DEF TakenDown
  <1> QED
    BY <1>1, <1>2, <1>3, KeysUniqueInit, KeysUniqueStep, PTL DEF Missing!MPSpec

-----------------------------------------------------------------------------
(***************************************************************************)
(* Information submissions.  A tip that nobody holds has no claimant, an   *)
(* answered question was asked, and a question a request has looked up     *)
(* was asked too.                                                          *)
(***************************************************************************)
TipFields == {"status", "owner", "assignee", "marks", "duplicateOf", "media", "key", "priority"}

TipsKept ==
  /\ DOMAIN tip = Tips /\ DOMAIN seen = Requests /\ DOMAIN question = Questions /\ DOMAIN claimants = Tips
  /\ \A t \in Tips : DOMAIN tip[t] = TipFields
  /\ \A q \in Requests : DOMAIN seen[q] = {"tip", "row", "op"}
  /\ \A k \in Questions : DOMAIN question[k] = {"tip", "by"}
  /\ Info!OneTipPerKey
  /\ \A t \in Tips : (tip[t].assignee = None \/ tip[t].status = "none") => claimants[t] = {}
  /\ \A t \in Tips : \A x, y \in claimants[t] : x = y
  /\ \A k \in Questions : question[k].by # None => question[k].tip # None
  /\ \A q \in Requests : seen[q].op \in Questions => question[seen[q].op].tip # None

LEMMA TipsKeptStep ==
  ASSUME None \notin Requests, None \notin Tips, Questions \cap {"none", "loaded", "create"} = {},
         TipsKept, [Info!TipNext]_(Info!tipVars)
  PROVE  TipsKept' /\ Info!AnswerStays
  <1> DEFINE Goal == TipsKept' /\ Info!AnswerStays
  <1> SUFFICES Goal
    OBVIOUS
  <1>1. ASSUME UNCHANGED <<tip, seen, question, claimants>> PROVE Goal
    BY <1>1 DEF TipsKept, Info!AnswerStays, Info!OneTipPerKey
  \* A copy, or nothing, in the place of what a request has loaded.
  <1>2. ASSUME NEW q \in Requests, NEW v, UNCHANGED <<tip, question, claimants>>, seen' = [seen EXCEPT ![q] = v],
               DOMAIN v = {"tip", "row", "op"}, v.op \in Questions => question[v.op].tip # None
        PROVE  Goal
    BY <1>2 DEF TipsKept, Info!AnswerStays, Info!OneTipPerKey
  <1>3. ASSUME NEW q \in Requests, Info!Respond(q), UNCHANGED <<tip, question, claimants>> PROVE Goal
    <2>1. DOMAIN Info!NotSeen = {"tip", "row", "op"} /\ Info!NotSeen.op = "none"
      BY DEF Info!NotSeen
    <2> QED
      BY <1>2, <1>3, <2>1 DEF Info!Respond
  \* The questions are as before and the request is answered.
  <1>4. ASSUME NEW q \in Requests, Info!Respond(q), UNCHANGED question
        PROVE  /\ DOMAIN seen' = Requests
               /\ \A p \in Requests : DOMAIN seen'[p] = {"tip", "row", "op"}
               /\ \A p \in Requests : seen'[p].op \in Questions => question'[seen'[p].op].tip # None
               /\ Info!AnswerStays
    BY <1>4 DEF TipsKept, Info!Respond, Info!NotSeen, Info!AnswerStays
  \* A write of a tip that is there; it may free the tip or drop its key.
  <1>5. ASSUME NEW q \in Requests, NEW t \in Tips, NEW v, Info!Respond(q), UNCHANGED question, tip' = [tip EXCEPT ![t] = v],
               DOMAIN tip[t] = TipFields => DOMAIN v = TipFields /\ v.key \in {tip[t].key, None},
               \/ claimants' = [claimants EXCEPT ![t] = {}]
               \/ /\ UNCHANGED claimants
                  /\ DOMAIN tip[t] = TipFields => v.assignee = tip[t].assignee
                  /\ DOMAIN tip[t] = TipFields => v.status # "none"
        PROVE  Goal
    <2>1. DOMAIN tip[t] = TipFields
      BY DEF TipsKept
    <2>2. DOMAIN tip' = Tips /\ tip'[t] = v /\ \A u \in Tips : u # t => tip'[u] = tip[u]
      BY <1>5 DEF TipsKept
    <2>3. \A u \in Tips : DOMAIN tip'[u] = TipFields
      BY <1>5, <2>1, <2>2 DEF TipsKept
    <2>4. Info!OneTipPerKey'
      BY <1>5, <2>1, <2>2 DEF TipsKept, Info!OneTipPerKey
    <2>5. DOMAIN claimants' = Tips /\ \A u \in Tips : u # t => claimants'[u] = claimants[u]
      BY <1>5 DEF TipsKept
    <2>6. claimants'[t] = {} \/ (claimants'[t] = claimants[t] /\ v.assignee = tip[t].assignee /\ v.status # "none")
      BY <1>5, <2>1 DEF TipsKept
    <2>7. \A u \in Tips : (tip'[u].assignee = None \/ tip'[u].status = "none") => claimants'[u] = {}
      BY <2>2, <2>5, <2>6 DEF TipsKept
    <2>8. \A u \in Tips : \A x, y \in claimants'[u] : x = y
      BY <2>5, <2>6 DEF TipsKept
    <2> QED
      BY <1>4, <1>5, <2>2, <2>3, <2>4, <2>5, <2>7, <2>8 DEF TipsKept
  <1>6. ASSUME NEW q \in Requests, NEW t \in Tips, NEW v, Info!Write(q, t, v),
               DOMAIN tip[t] = TipFields /\ tip[t].status # "none" =>
                 DOMAIN v = TipFields /\ v.key = tip[t].key /\ v.assignee = tip[t].assignee /\ v.status # "none"
        PROVE  Goal
    BY <1>5, <1>6 DEF Info!Write, Info!Present
  <1>7. ASSUME NEW q \in Requests, NEW t \in Tips, NEW v, Info!Freed(q, t, v),
               DOMAIN tip[t] = TipFields => DOMAIN v = TipFields /\ v.key \in {tip[t].key, None}
        PROVE  Goal
    BY <1>5, <1>7 DEF Info!Freed
  <1>8. ASSUME NEW q \in Requests, NEW t \in Tips, Info!Load(q, t) PROVE Goal
    <2> DEFINE v == [tip |-> t, row |-> tip[t], op |-> "loaded"]
    <2>1. DOMAIN v = {"tip", "row", "op"} /\ v.op = "loaded"
      OBVIOUS
    <2>2. seen' = [seen EXCEPT ![q] = v] /\ UNCHANGED <<tip, question, claimants>>
      BY <1>8 DEF Info!Load
    <2> HIDE DEF v
    <2> QED
      BY <1>2, <2>1, <2>2
  <1>9. ASSUME NEW q \in Requests, Info!Refused(q) PROVE Goal
    BY <1>3, <1>9 DEF Info!Refused
  \* Workflow and review.
  <1>10. ASSUME NEW q \in Requests, NEW t \in Tips, Info!claim(q, t) PROVE Goal
    <2>1. /\ tip' = [tip EXCEPT ![t] = [tip[t] EXCEPT !.assignee = q]] /\ Info!Respond(q) /\ UNCHANGED question
          /\ claimants' = [claimants EXCEPT ![t] = claimants[t] \cup {q}] /\ tip[t].assignee = None /\ tip[t].status # "none"
      BY <1>10 DEF Info!claim, Info!TakeTip, Info!Present, TipsKept
    <2>2. claimants'[t] = {q} /\ DOMAIN claimants' = Tips /\ \A u \in Tips : u # t => claimants'[u] = claimants[u]
      BY <2>1 DEF TipsKept
    <2>3. DOMAIN tip' = Tips /\ \A u \in Tips : u # t => tip'[u] = tip[u]
      BY <2>1 DEF TipsKept
    <2>4. DOMAIN tip'[t] = TipFields /\ tip'[t].key = tip[t].key /\ tip'[t].assignee = q /\ tip'[t].status # "none"
      BY <2>1 DEF TipsKept, TipFields
    <2>5. \A u \in Tips : DOMAIN tip'[u] = TipFields
      BY <2>3, <2>4 DEF TipsKept
    <2>6. Info!OneTipPerKey'
      BY <2>3, <2>4 DEF TipsKept, Info!OneTipPerKey
    <2>7. \A u \in Tips : (tip'[u].assignee = None \/ tip'[u].status = "none") => claimants'[u] = {}
      BY <2>2, <2>3, <2>4 DEF TipsKept
    <2>8. \A u \in Tips : \A x, y \in claimants'[u] : x = y
      BY <2>2 DEF TipsKept
    <2> QED
      BY <1>4, <2>1, <2>2, <2>3, <2>5, <2>6, <2>7, <2>8 DEF TipsKept
  <1>11. ASSUME NEW q \in Requests, NEW t \in Tips, Info!unclaim(q, t) \/ Info!unassign(q, t) PROVE Goal
    BY <1>7, <1>11 DEF Info!unclaim, Info!unassign, TipFields
  <1>12. ASSUME NEW q \in Requests, NEW a \in Requests, Info!bulkAssign(q, a) PROVE Goal
    <2>1. PICK t \in Tips : Info!assignInternal(q, t, a)
      BY <1>12 DEF Info!bulkAssign
    <2> QED
      BY <1>7, <2>1 DEF Info!assignInternal, TipFields
  <1>13. ASSUME NEW q \in Requests, NEW t \in Tips, NEW p, Info!setPriority(q, t, p) \/ Info!setCredibility(q, t) PROVE Goal
    BY <1>6, <1>13 DEF Info!setPriority, Info!setCredibility, TipFields
  <1>14. ASSUME NEW q \in Requests, NEW t \in Tips, NEW p, Info!escalate(q, t, p) PROVE Goal
    <2> DEFINE x == IF p > Info!Was(q).priority THEN p ELSE Info!Was(q).priority
    <2>1. /\ tip' = [tip EXCEPT ![t] = [tip[t] EXCEPT !.priority = x]] /\ tip[t].status # "none"
          /\ Info!Respond(q) /\ UNCHANGED <<question, claimants>>
      BY <1>14 DEF Info!escalate, Info!Present, TipsKept
    <2> HIDE DEF x
    <2> QED
      BY <1>5, <2>1 DEF TipFields
  <1>15. ASSUME NEW q \in Requests, NEW t \in Tips, NEW to \in {"UNDER_REVIEW", "REVIEWED", "REJECTED"},
                Info!updateStatus(q, t, to) \/ Info!review(q, t, to)
         PROVE  Goal
    BY <1>6, <1>15 DEF Info!updateStatus, Info!review, TipFields
  <1>16. ASSUME NEW q \in Requests, Info!bulkReject(q) PROVE Goal
    BY <1>15, <1>16 DEF Info!bulkReject, Info!bulkReview
  <1>17. ASSUME NEW q \in Requests, NEW t \in Tips, Info!reviewOne(q, t) PROVE Goal
    <2> DEFINE v == [seen[q] EXCEPT !.row = tip[t]]
    <2>1. seen' = [seen EXCEPT ![q] = v] /\ UNCHANGED <<tip, question, claimants>> /\ seen[q].op = "loaded"
      BY <1>17 DEF Info!reviewOne, TipsKept, Info!findLiveOrThrow, Info!Loaded
    <2>2. DOMAIN v = {"tip", "row", "op"} /\ v.op = "loaded"
      BY <2>1 DEF TipsKept
    <2> HIDE DEF v
    <2> QED
      BY <1>2, <2>1, <2>2
  <1>18. ASSUME NEW q \in Requests, NEW t \in Tips, NEW v, Info!closeWithResolution(q, t, v),
                DOMAIN tip[t] = TipFields => DOMAIN v = TipFields /\ v.key = tip[t].key /\ v.assignee = tip[t].assignee
         PROVE  Goal
    BY <1>6, <1>18 DEF Info!closeWithResolution, TipFields
  <1>19. ASSUME NEW q \in Requests, NEW t \in Tips, NEW o \in Tips, Info!markDuplicate(q, t, o) \/ Info!markAlreadyKnown(q, t)
         PROVE  Goal
    BY <1>18, <1>19 DEF Info!markDuplicate, Info!markAlreadyKnown, TipFields
  \* The conversation.
  <1>20. ASSUME NEW q \in Requests, NEW t \in Tips, NEW k \in Questions, Info!requestInformation(q, t, k) PROVE Goal
    <2>1. /\ question' = [question EXCEPT ![k] = [question[k] EXCEPT !.tip = t]] /\ question[k].tip = None
          /\ Info!Respond(q) /\ UNCHANGED <<tip, claimants>>
      BY <1>20 DEF Info!requestInformation, TipsKept
    <2>2. DOMAIN question' = Questions /\ \A j \in Questions : j # k => question'[j] = question[j]
      BY <2>1 DEF TipsKept
    <2>3. DOMAIN question'[k] = {"tip", "by"} /\ question'[k].tip = t /\ question[k].by = None
      BY <2>1 DEF TipsKept
    <2>4. Info!AnswerStays
      BY <2>2, <2>3 DEF Info!AnswerStays
    <2>5. \A j \in Questions : question[j].tip # None => question'[j].tip # None
      BY <2>2, <2>3
    <2>6. /\ DOMAIN seen' = Requests /\ \A p \in Requests : DOMAIN seen'[p] = {"tip", "row", "op"}
          /\ \A p \in Requests : seen'[p].op \in Questions => question'[seen'[p].op].tip # None
      BY <2>1, <2>5 DEF TipsKept, Info!Respond, Info!NotSeen
    <2>7. \A j \in Questions : DOMAIN question'[j] = {"tip", "by"} /\ (question'[j].by # None => question'[j].tip # None)
      BY <2>2, <2>3 DEF TipsKept
    <2> QED
      BY <2>1, <2>2, <2>4, <2>6, <2>7 DEF TipsKept, Info!OneTipPerKey
  <1>21. ASSUME NEW q \in Requests, NEW t \in Tips, Info!messageInformant(q, t) PROVE Goal
    BY <1>6, <1>21 DEF Info!messageInformant
  <1>22. ASSUME NEW q \in Requests, NEW t \in Tips, NEW k \in Questions, Info!FindQuestion(q, t, k) PROVE Goal
    <2> DEFINE v == [seen[q] EXCEPT !.op = k]
    <2>1. seen' = [seen EXCEPT ![q] = v] /\ UNCHANGED <<tip, question, claimants>> /\ question[k].tip # None
      BY <1>22 DEF Info!FindQuestion, Info!OpenQuestions, TipsKept
    <2>2. DOMAIN v = {"tip", "row", "op"} /\ v.op = k
      BY DEF TipsKept
    <2> HIDE DEF v
    <2> QED
      BY <1>2, <2>1, <2>2
  <1>23. ASSUME NEW q \in Requests, NEW k \in Questions, Info!respond(q, k) PROVE Goal
    <2>1. /\ question' = [question EXCEPT ![k] = [question[k] EXCEPT !.by = q]] /\ question[k].by = None /\ seen[q].op = k
          /\ Info!Respond(q) /\ UNCHANGED <<tip, claimants>>
      BY <1>23 DEF Info!respond, Info!AnswerQuestion, TipsKept
    <2>2. DOMAIN question' = Questions /\ \A j \in Questions : j # k => question'[j] = question[j]
      BY <2>1 DEF TipsKept
    <2>3. DOMAIN question'[k] = {"tip", "by"} /\ question'[k].tip = question[k].tip /\ question[k].tip # None
      BY <2>1 DEF TipsKept
    <2>4. Info!AnswerStays
      BY <2>1, <2>2 DEF Info!AnswerStays
    <2>5. \A j \in Questions : question'[j].tip = question[j].tip
      BY <2>2, <2>3
    <2>6. /\ DOMAIN seen' = Requests /\ \A p \in Requests : DOMAIN seen'[p] = {"tip", "row", "op"}
          /\ \A p \in Requests : seen'[p].op \in Questions => question'[seen'[p].op].tip # None
      BY <2>1, <2>5 DEF TipsKept, Info!Respond, Info!NotSeen
    <2>7. \A j \in Questions : DOMAIN question'[j] = {"tip", "by"} /\ (question'[j].by # None => question'[j].tip # None)
      BY <2>2, <2>3 DEF TipsKept
    <2> QED
      BY <2>1, <2>2, <2>4, <2>6, <2>7 DEF TipsKept, Info!OneTipPerKey
  <1>24. ASSUME NEW q \in Requests, NEW t \in Tips, NEW ms, tip' = [tip EXCEPT ![t].media = ms], tip[t].status # "none",
                Info!Respond(q), UNCHANGED <<question, claimants>>
         PROVE  Goal
    <2>1. tip' = [tip EXCEPT ![t] = [tip[t] EXCEPT !.media = ms]]
      BY <1>24 DEF TipsKept
    <2> QED
      BY <1>5, <1>24, <2>1 DEF TipFields
  <1>25. ASSUME NEW q \in Requests, NEW t \in Tips, NEW m \in Media,
                Info!addEvidence(q, t, m) \/ Info!removeOwnMedia(q, t, m) \/ Info!removeMediaByAdmin(q, t, m)
         PROVE  Goal
    BY <1>24, <1>25 DEF Info!addEvidence, Info!removeOwnMedia, Info!removeMediaByAdmin, Info!detachMedia, Info!Present
  <1>26. ASSUME NEW q \in Requests, NEW t \in Tips, NEW m \in Media, Info!redactMedia(q, t, m) PROVE Goal
    BY <1>6, <1>26 DEF Info!redactMedia, TipFields
  <1>27. ASSUME NEW q \in Requests, NEW t \in Tips, Info!appealRejection(q, t) \/ Info!revealInformant(q, t) PROVE Goal
    BY <1>3, <1>27 DEF Info!appealRejection, Info!revealInformant
  <1>28. ASSUME NEW q \in Requests, NEW t \in Tips, Info!anonymize(q, t) PROVE Goal
    <2>1. /\ tip' = [tip EXCEPT ![t] = [[tip[t] EXCEPT !.owner = None] EXCEPT !.key = None]] /\ tip[t].status # "none"
          /\ Info!Respond(q) /\ UNCHANGED <<question, claimants>>
      BY <1>28 DEF Info!anonymize, Info!AnonymizeWith, Info!Present, TipsKept
    <2> QED
      BY <1>5, <2>1 DEF TipFields
  \* Filing.
  <1>29. ASSUME NEW q \in Requests, NEW k, Info!CreateRead(q, k) PROVE Goal
    <2> DEFINE v == [tip |-> None, row |-> [Info!NoTip EXCEPT !.key = k], op |-> "create"]
    <2>1. DOMAIN v = {"tip", "row", "op"} /\ v.op = "create"
      OBVIOUS
    <2>2. seen' = [seen EXCEPT ![q] = v] /\ UNCHANGED <<tip, question, claimants>>
      BY <1>29 DEF Info!CreateRead
    <2> HIDE DEF v
    <2> QED
      BY <1>2, <2>1, <2>2
  <1>30. ASSUME NEW q \in Requests, NEW t \in Tips, Info!create(q, t) PROVE Goal
    <2> DEFINE v == [Info!FiledTip("PENDING") EXCEPT !.key = Info!Was(q).key]
    <2>1. /\ tip' = [tip EXCEPT ![t] = v] /\ Info!Respond(q) /\ UNCHANGED <<question, claimants>> /\ tip[t].status = "none"
          /\ ~Info!KeyTaken(Info!Was(q).key)
      BY <1>30 DEF Info!create, Info!Present
    <2>2. DOMAIN v = TipFields /\ v.key = Info!Was(q).key
      BY DEF Info!FiledTip, Info!NoTip, TipFields
    <2> HIDE DEF v
    <2>3. DOMAIN tip' = Tips /\ tip'[t] = v /\ \A u \in Tips : u # t => tip'[u] = tip[u]
      BY <2>1 DEF TipsKept
    <2>4. v.key # None => \A u \in Tips : tip[u].key # v.key
      BY <2>1, <2>2 DEF Info!KeyTaken
    <2>5. Info!OneTipPerKey'
      BY <2>3, <2>4 DEF TipsKept, Info!OneTipPerKey
    <2>6. \A u \in Tips : (tip'[u].assignee = None \/ tip'[u].status = "none") => claimants'[u] = {}
      BY <2>1, <2>3 DEF TipsKept
    <2>7. \A u \in Tips : DOMAIN tip'[u] = TipFields
      BY <2>2, <2>3 DEF TipsKept
    <2> QED
      BY <1>4, <2>1, <2>3, <2>5, <2>6, <2>7 DEF TipsKept
  <1>31. ASSUME NEW q \in Requests, NEW t \in Tips, NEW ms, Info!update(q, t, ms) PROVE Goal
    BY <1>6, <1>31 DEF Info!update, TipFields
  <1>32. ASSUME NEW q \in Requests, NEW t \in Tips, Info!remove(q, t) PROVE Goal
    BY <1>7, <1>32 DEF Info!remove, Info!NoTip, TipFields
  <1>33. ASSUME NEW q \in Requests, NEW t \in Tips, Info!setLegalHold(q, t) \/ Info!removeByAdmin(q, t) \/ Info!restore(q, t)
         PROVE  Goal
    BY <1>6, <1>33 DEF Info!setLegalHold, Info!removeByAdmin, Info!restore, TipFields
  \* Read marks, exports and the case.
  <1>34. ASSUME \/ \E a \in Requests, t \in Tips : Info!markRead(a, t) \/ Info!markUnread(a, t)
                \/ \E a \in Requests, ids \in SUBSET Tips : Info!bulkMarkRead(a, ids) \/ Info!bulkMarkUnread(a, ids)
                \/ \E a \in Requests : Info!markAllRead(a) \/ Info!markCaseUnread(a)
                \/ Info!startExportJob \/ Info!RunExport \/ Info!runExportJob \/ Info!getExportJob \/ Info!CaseCloses
         PROVE  Goal
    <2>1. UNCHANGED <<tip, seen, question, claimants>>
      BY <1>34 DEF Info!markRead, Info!markUnread, Info!bulkMarkRead, Info!bulkMarkUnread, Info!markAllRead,
         Info!markCaseUnread, Info!SetReads, Info!startExportJob, Info!RunExport, Info!runExportJob, Info!getExportJob,
         Info!SetJob, Info!CaseCloses
    <2> QED
      BY <1>1, <2>1
  <1>35. CASE UNCHANGED Info!tipVars
    BY <1>1, <1>35 DEF Info!tipVars
  <1> HIDE DEF Goal
  <1>36. CASE Info!WorkNext
    BY <1>36, <1>8, <1>9, <1>10, <1>11, <1>12, <1>13, <1>14, <1>15, <1>16, <1>17, <1>19 DEF Info!WorkNext
  <1>37. CASE Info!TalkNext
    BY <1>37, <1>8, <1>9, <1>15, <1>20, <1>21, <1>22, <1>23, <1>25, <1>26, <1>27, <1>28 DEF Info!TalkNext
  <1>38. CASE Info!FileNext
    BY <1>38, <1>8, <1>9, <1>29, <1>30, <1>31, <1>32, <1>34 DEF Info!FileNext
  <1>39. CASE Info!ShowNext
    BY <1>39, <1>8, <1>9, <1>33, <1>34 DEF Info!ShowNext
  <1> QED
    BY <1>35, <1>36, <1>37, <1>38, <1>39 DEF Info!TipNext

LEMMA TipsKeptInit ==
  ASSUME Questions \cap {"none", "loaded", "create"} = {}
  PROVE  Info!TipInit(Info!FiledTips) => TipsKept
  <1>1. \A r \in Info!FiledTips : DOMAIN r = TipFields /\ r.key = None
    <2>1. ASSUME NEW st PROVE DOMAIN Info!FiledTip(st) = TipFields /\ Info!FiledTip(st).key = None
      BY DEF Info!FiledTip, Info!NoTip, TipFields
    <2>2. DOMAIN Info!NoTip = TipFields /\ Info!NoTip.key = None
      BY DEF Info!NoTip, TipFields
    <2> QED
      BY <2>1, <2>2 DEF Info!FiledTips
  <1> QED
    BY <1>1 DEF Info!TipInit, TipsKept, Info!NotSeen, Info!OneTipPerKey

\* A concurrent or retried submission with the same key never stores a second tip (create), and
\* of the reviewers who claim a tip at once, however many they are, one gets it (claim).
THEOREM TipsStoredAndClaimedOnce ==
  ASSUME None \notin Requests, None \notin Tips, Questions \cap {"none", "loaded", "create"} = {}
  PROVE  Info!TipSpec => [](Info!OneTipPerKey /\ Info!OneClaimant)
  <1>1. TipsKept => Info!OneTipPerKey /\ Info!OneClaimant
    <2>1. \A S : Info!Cardinality(S) = Cardinality(S)
      BY DEF Cardinality, Info!Cardinality, Info!IsFiniteSet, IsFiniteSet
    <2> QED
      BY <2>1, AtMostOne DEF TipsKept, Info!OneClaimant
  <1>2. TipsKept /\ [Info!TipNext]_(Info!tipVars) => TipsKept'
    BY TipsKeptStep
  <1> QED
    BY <1>1, <1>2, TipsKeptInit, PTL DEF Info!TipSpec

\* Whichever of the informant's devices answer a question, the first answer stays (respond).
THEOREM FirstAnswerStays ==
  ASSUME None \notin Requests, None \notin Tips, Questions \cap {"none", "loaded", "create"} = {}
  PROVE  Info!TipSpec => [][Info!AnswerStays]_(Info!tipVars)
  <1>1. TipsKept /\ [Info!TipNext]_(Info!tipVars) => TipsKept' /\ [Info!AnswerStays]_(Info!tipVars)
    BY TipsKeptStep
  <1> QED
    BY <1>1, TipsKeptInit, PTL DEF Info!TipSpec

-----------------------------------------------------------------------------
(***************************************************************************)
(* The informant's traces.  What leaves a trace asks that the informant is *)
(* still named in the copy it holds; one request at a time, the copy names *)
(* whom the row names.                                                     *)
(***************************************************************************)
Tables == {"appeal", "timeline", "revision", "identity"}

Forgotten ==
  /\ DOMAIN trace = Tips /\ (\A t \in Tips : trace[t] \subseteq Tables) /\ Info!AnonymizedLeavesNoTrace
  /\ \A q \in Requests : seen[q].op \notin NoCaseYet =>
       /\ seen[q].tip \in Tips /\ Info!Present(seen[q].tip)
       /\ tip[seen[q].tip].owner = seen[q].row.owner
       /\ seen[q].op \in Questions => seen[q].row.owner # None

LEMMA ForgottenStep ==
  ASSUME \A p, q \in Requests : p = q, Questions \cap {"none", "loaded", "create"} = {}, None # "informant",
         TipsKept, TipsKept', Forgotten, [Info!TipNext]_(Info!tipVars)
  PROVE  Forgotten'
  <1>0. /\ DOMAIN tip = Tips /\ DOMAIN tip' = Tips /\ DOMAIN seen = Requests /\ DOMAIN seen' = Requests
        /\ DOMAIN trace = Tips /\ \A t \in Tips : trace[t] \subseteq Tables
        /\ \A t \in Tips : DOMAIN tip[t] = TipFields
        /\ \A q \in Requests : DOMAIN seen[q] = {"tip", "row", "op"}
        /\ \A t \in Tips : tip[t].status # "none" /\ tip[t].owner = None => trace[t] = {}
    BY DEF TipsKept, Forgotten, Info!AnonymizedLeavesNoTrace, Info!Present
  <1>1. ASSUME UNCHANGED <<tip, seen, trace>> PROVE Forgotten'
    BY <1>1 DEF Forgotten, Info!AnonymizedLeavesNoTrace, Info!Present
  \* After the answer no request is in flight; at most the tip t and its traces have changed.
  <1>2. ASSUME NEW q \in Requests, Info!Respond(q), NEW t \in Tips, DOMAIN trace' = Tips,
               \A u \in Tips : u # t => tip'[u] = tip[u] /\ trace'[u] = trace[u],
               trace'[t] \subseteq Tables, tip'[t].status # "none" /\ tip'[t].owner = None => trace'[t] = {}
        PROVE  Forgotten'
    <2>1. \A p \in Requests : seen'[p].op = "none"
      BY <1>0, <1>2 DEF Info!Respond, Info!NotSeen
    <2> QED
      BY <1>0, <1>2, <2>1 DEF Forgotten, Info!AnonymizedLeavesNoTrace, Info!Present, NoCaseYet
  <1>3. ASSUME NEW q \in Requests, Info!Respond(q), UNCHANGED <<tip, trace>> PROVE Forgotten'
    <2>1. \A p \in Requests : seen'[p].op = "none"
      BY <1>0, <1>3 DEF Info!Respond, Info!NotSeen
    <2> QED
      BY <1>0, <1>3, <2>1 DEF Forgotten, Info!AnonymizedLeavesNoTrace, Info!Present, NoCaseYet
  <1>4. ASSUME NEW q \in Requests, NEW t \in Tips, NEW v, Info!Respond(q), tip' = [tip EXCEPT ![t] = v], UNCHANGED trace,
               tip[t].status # "none", v.owner = tip[t].owner \/ v.status = "none"
        PROVE  Forgotten'
    <2>1. tip'[t] = v /\ \A u \in Tips : u # t => tip'[u] = tip[u]
      BY <1>0, <1>4
    <2>2. tip'[t].status # "none" /\ tip'[t].owner = None => trace'[t] = {}
      BY <1>0, <1>4, <2>1
    <2> QED
      BY <1>0, <1>2, <1>4, <2>1, <2>2
  <1>5. ASSUME NEW q \in Requests, NEW t \in Tips, NEW v, Info!Write(q, t, v) \/ Info!Freed(q, t, v),
               DOMAIN tip[t] = TipFields => v.owner = tip[t].owner \/ v.status = "none"
        PROVE  Forgotten'
    BY <1>0, <1>4, <1>5 DEF Info!Write, Info!Freed, Info!Present
  \* The informant of the tip that was loaded is the one the row names.
  <1>6. ASSUME NEW q \in Requests, NEW t \in Tips, Info!Loaded(q, t)
        PROVE  tip[t].owner = Info!Was(q).owner /\ tip[t].status # "none"
    BY <1>6 DEF Info!Loaded, Forgotten, NoCaseYet, Info!Was, Info!Present
  <1>7. ASSUME NEW q \in Requests, NEW t \in Tips, Info!findOwnedOrThrow(q, t) PROVE tip[t].owner # None /\ Info!Loaded(q, t)
    BY <1>6, <1>7 DEF Info!findOwnedOrThrow, Info!findLiveOrThrow
  <1>8. ASSUME NEW q \in Requests, NEW t \in Tips, NEW T, T \subseteq Tables, Info!Leaves(t, T), Info!Respond(q), tip'[t].owner # None,
               \A u \in Tips : u # t => tip'[u] = tip[u]
        PROVE  Forgotten'
    <2>1. DOMAIN trace' = Tips /\ trace'[t] \subseteq Tables /\ \A u \in Tips : u # t => trace'[u] = trace[u]
      BY <1>0, <1>8 DEF Info!Leaves
    <2> QED
      BY <1>2, <1>8, <2>1
  <1>9. ASSUME NEW q \in Requests, NEW v, UNCHANGED <<tip, trace>>, seen' = [seen EXCEPT ![q] = v],
               v.op \notin NoCaseYet => /\ v.tip \in Tips /\ Info!Present(v.tip) /\ tip[v.tip].owner = v.row.owner
                                        /\ v.op \in Questions => v.row.owner # None
        PROVE  Forgotten'
    <2>1. \A p \in Requests : seen'[p] = v
      BY <1>0, <1>9
    <2> QED
      BY <1>0, <1>9, <2>1 DEF Forgotten, Info!AnonymizedLeavesNoTrace, Info!Present
  <1>10. ASSUME NEW q \in Requests, NEW t \in Tips, Info!Load(q, t) PROVE Forgotten'
    <2> DEFINE v == [tip |-> t, row |-> tip[t], op |-> "loaded"]
    <2>1. v.tip = t /\ v.row = tip[t] /\ v.op = "loaded" /\ v.op \notin Questions
      OBVIOUS
    <2>2. seen' = [seen EXCEPT ![q] = v] /\ UNCHANGED <<tip, trace>> /\ Info!Present(t)
      BY <1>10 DEF Info!Load
    <2> HIDE DEF v
    <2> QED
      BY <1>9, <2>1, <2>2
  <1>11. ASSUME NEW q \in Requests, Info!Refused(q) PROVE Forgotten'
    BY <1>3, <1>11 DEF Info!Refused
  \* Workflow and review.
  <1>12. ASSUME NEW q \in Requests, NEW t \in Tips, Info!claim(q, t) PROVE Forgotten'
    <2>1. tip' = [tip EXCEPT ![t] = [tip[t] EXCEPT !.assignee = q]] /\ Info!Respond(q) /\ UNCHANGED trace /\ tip[t].status # "none"
      BY <1>0, <1>12 DEF Info!claim, Info!TakeTip, Info!Present
    <2> QED
      BY <1>0, <1>4, <2>1 DEF TipFields
  <1>13. ASSUME NEW q \in Requests, NEW t \in Tips, Info!unclaim(q, t) \/ Info!unassign(q, t) PROVE Forgotten'
    BY <1>5, <1>13 DEF Info!unclaim, Info!unassign, TipFields
  <1>14. ASSUME NEW q \in Requests, NEW a \in Requests, Info!bulkAssign(q, a) PROVE Forgotten'
    <2>1. PICK t \in Tips : Info!assignInternal(q, t, a)
      BY <1>14 DEF Info!bulkAssign
    <2> QED
      BY <1>5, <2>1 DEF Info!assignInternal, TipFields
  <1>15. ASSUME NEW q \in Requests, NEW t \in Tips, NEW p, Info!setPriority(q, t, p) \/ Info!setCredibility(q, t) PROVE Forgotten'
    BY <1>5, <1>15 DEF Info!setPriority, Info!setCredibility, TipFields
  <1>16. ASSUME NEW q \in Requests, NEW t \in Tips, NEW p, Info!escalate(q, t, p) PROVE Forgotten'
    <2> DEFINE x == IF p > Info!Was(q).priority THEN p ELSE Info!Was(q).priority
    <2>1. /\ tip' = [tip EXCEPT ![t] = [tip[t] EXCEPT !.priority = x]] /\ tip[t].status # "none"
          /\ Info!Respond(q) /\ UNCHANGED trace
      BY <1>0, <1>16 DEF Info!escalate, Info!Present
    <2> HIDE DEF x
    <2> QED
      BY <1>0, <1>4, <2>1 DEF TipFields
  <1>17. ASSUME NEW q \in Requests, NEW t \in Tips, NEW to, Info!updateStatus(q, t, to) \/ Info!review(q, t, to) PROVE Forgotten'
    BY <1>5, <1>17 DEF Info!updateStatus, Info!review, TipFields
  <1>18. ASSUME NEW q \in Requests, Info!bulkReject(q) PROVE Forgotten'
    BY <1>17, <1>18 DEF Info!bulkReject, Info!bulkReview
  <1>19. ASSUME NEW q \in Requests, NEW t \in Tips, Info!reviewOne(q, t) PROVE Forgotten'
    <2> DEFINE v == [seen[q] EXCEPT !.row = tip[t]]
    <2>1. /\ seen' = [seen EXCEPT ![q] = v] /\ UNCHANGED <<tip, trace>>
          /\ seen[q].op = "loaded" /\ seen[q].tip = t /\ Info!Present(t)
      BY <1>0, <1>19 DEF Info!reviewOne, Info!findLiveOrThrow, Info!Loaded
    <2>2. v.tip = t /\ v.row = tip[t] /\ v.op = "loaded" /\ v.op \notin Questions
      BY <1>0, <2>1
    <2> HIDE DEF v
    <2> QED
      BY <1>9, <2>1, <2>2
  <1>20. ASSUME NEW q \in Requests, NEW t \in Tips, NEW v, Info!closeWithResolution(q, t, v),
                DOMAIN tip[t] = TipFields => DOMAIN v = TipFields /\ v.owner = tip[t].owner
         PROVE  Forgotten'
    BY <1>5, <1>20 DEF Info!closeWithResolution, TipFields
  <1>21. ASSUME NEW q \in Requests, NEW t \in Tips, NEW o \in Tips, Info!markDuplicate(q, t, o) \/ Info!markAlreadyKnown(q, t)
         PROVE  Forgotten'
    BY <1>20, <1>21 DEF Info!markDuplicate, Info!markAlreadyKnown, TipFields
  \* The conversation.
  <1>22. ASSUME NEW q \in Requests, NEW t \in Tips, NEW k \in Questions, Info!requestInformation(q, t, k) PROVE Forgotten'
    BY <1>3, <1>22 DEF Info!requestInformation
  <1>23. ASSUME NEW q \in Requests, NEW t \in Tips, Info!messageInformant(q, t) PROVE Forgotten'
    BY <1>5, <1>23 DEF Info!messageInformant
  <1>24. ASSUME NEW q \in Requests, NEW t \in Tips, NEW k \in Questions, Info!FindQuestion(q, t, k) PROVE Forgotten'
    <2> DEFINE v == [seen[q] EXCEPT !.op = k]
    <2>1. seen' = [seen EXCEPT ![q] = v] /\ UNCHANGED <<tip, trace>> /\ Info!findOwnedOrThrow(q, t)
      BY <1>0, <1>24 DEF Info!FindQuestion
    <2>2. tip[t].owner # None /\ Info!Loaded(q, t) /\ tip[t].owner = Info!Was(q).owner /\ Info!Present(t)
      BY <1>6, <1>7, <2>1 DEF Info!Present
    <2>3. v.tip = t /\ v.row = seen[q].row /\ seen[q].row.owner = tip[t].owner
      BY <1>0, <2>2 DEF Info!Loaded, Info!Was
    <2> HIDE DEF v
    <2> QED
      BY <1>9, <2>1, <2>2, <2>3
  <1>25. ASSUME NEW q \in Requests, NEW k \in Questions, Info!respond(q, k) PROVE Forgotten'
    <2>1. /\ seen[q].op = k /\ Info!Leaves(seen[q].tip, {"timeline"}) /\ Info!Respond(q) /\ UNCHANGED tip
      BY <1>25 DEF Info!respond, Info!AnswerQuestion
    <2>2. seen[q].tip \in Tips /\ tip[seen[q].tip].owner # None
      BY <2>1 DEF Forgotten, NoCaseYet
    <2> QED
      BY <1>8, <2>1, <2>2 DEF Tables
  <1>26. ASSUME NEW q \in Requests, NEW t \in Tips, NEW T, NEW ms, tip' = [tip EXCEPT ![t].media = ms], tip[t].owner # None,
                T \subseteq Tables, Info!Leaves(t, T), Info!Respond(q)
         PROVE  Forgotten'
    <2>1. tip'[t].owner = tip[t].owner /\ \A u \in Tips : u # t => tip'[u] = tip[u]
      BY <1>0, <1>26 DEF TipFields
    <2> QED
      BY <1>8, <1>26, <2>1
  <1>27. ASSUME NEW q \in Requests, NEW t \in Tips, NEW m \in Media, Info!addEvidence(q, t, m) \/ Info!removeOwnMedia(q, t, m)
         PROVE  Forgotten'
    <2>1. tip[t].owner # None
      BY <1>7, <1>27 DEF Info!addEvidence, Info!removeOwnMedia
    <2> QED
      BY <1>26, <1>27, <2>1 DEF Tables, Info!addEvidence, Info!removeOwnMedia, Info!detachMedia
  <1>28. ASSUME NEW q \in Requests, NEW t \in Tips, NEW m \in Media, Info!removeMediaByAdmin(q, t, m) PROVE Forgotten'
    <2> DEFINE ms == Info!Was(q).media \ {m}
    <2>1. tip' = [tip EXCEPT ![t] = [tip[t] EXCEPT !.media = ms]] /\ Info!Respond(q) /\ UNCHANGED trace /\ tip[t].status # "none"
      BY <1>0, <1>28 DEF Info!removeMediaByAdmin, Info!detachMedia, Info!Present
    <2> HIDE DEF ms
    <2> QED
      BY <1>0, <1>4, <2>1 DEF TipFields
  <1>29. ASSUME NEW q \in Requests, NEW t \in Tips, NEW m \in Media, Info!redactMedia(q, t, m) PROVE Forgotten'
    BY <1>5, <1>29 DEF Info!redactMedia, TipFields
  <1>30. ASSUME NEW q \in Requests, NEW t \in Tips, Info!appealRejection(q, t) \/ Info!revealInformant(q, t) PROVE Forgotten'
    <2>1. tip[t].owner # None
      BY <1>7, <1>30 DEF Info!appealRejection, Info!revealInformant
    <2> QED
      BY <1>8, <1>30, <2>1 DEF Tables, Info!appealRejection, Info!revealInformant
  <1>31. ASSUME NEW q \in Requests, NEW t \in Tips, Info!anonymize(q, t) PROVE Forgotten'
    <2>1. /\ trace' = [trace EXCEPT ![t] = trace[t] \ Tables] /\ Info!Respond(q)
          /\ tip' = [tip EXCEPT ![t] = [[tip[t] EXCEPT !.owner = None] EXCEPT !.key = None]]
      BY <1>0, <1>31 DEF Info!anonymize, Info!AnonymizeWith, Info!Forget, Tables
    <2>2. DOMAIN trace' = Tips /\ trace'[t] = {} /\ \A u \in Tips : u # t => tip'[u] = tip[u] /\ trace'[u] = trace[u]
      BY <1>0, <1>31, <2>1
    <2> QED
      BY <1>2, <2>1, <2>2
  \* Filing.
  <1>32. ASSUME NEW q \in Requests, NEW k, Info!CreateRead(q, k) PROVE Forgotten'
    <2> DEFINE v == [tip |-> None, row |-> [Info!NoTip EXCEPT !.key = k], op |-> "create"]
    <2>1. v.op = "create"
      OBVIOUS
    <2>2. seen' = [seen EXCEPT ![q] = v] /\ UNCHANGED <<tip, trace>>
      BY <1>32 DEF Info!CreateRead
    <2> HIDE DEF v
    <2> QED
      BY <1>9, <2>1, <2>2 DEF NoCaseYet
  <1>33. ASSUME NEW q \in Requests, NEW t \in Tips, Info!create(q, t) PROVE Forgotten'
    <2> DEFINE v == [Info!FiledTip("PENDING") EXCEPT !.key = Info!Was(q).key]
    <2>1. tip' = [tip EXCEPT ![t] = v] /\ Info!Respond(q) /\ UNCHANGED trace
      BY <1>33 DEF Info!create
    <2>2. v.owner = "informant"
      BY DEF Info!FiledTip, Info!NoTip
    <2> HIDE DEF v
    <2>3. tip'[t] = v /\ \A u \in Tips : u # t => tip'[u] = tip[u]
      BY <1>0, <2>1
    <2> QED
      BY <1>0, <1>2, <2>1, <2>2, <2>3
  <1>34. ASSUME NEW q \in Requests, NEW t \in Tips, NEW ms, Info!update(q, t, ms) PROVE Forgotten'
    BY <1>5, <1>34 DEF Info!update, TipFields
  <1>35. ASSUME NEW q \in Requests, NEW t \in Tips, Info!remove(q, t) PROVE Forgotten'
    BY <1>5, <1>35 DEF Info!remove, Info!NoTip
  <1>36. ASSUME NEW q \in Requests, NEW t \in Tips, Info!setLegalHold(q, t) \/ Info!removeByAdmin(q, t) \/ Info!restore(q, t)
         PROVE  Forgotten'
    BY <1>5, <1>36 DEF Info!setLegalHold, Info!removeByAdmin, Info!restore, TipFields
  \* Read marks, exports and the case.
  <1>37. ASSUME \/ \E a \in Requests, t \in Tips : Info!markRead(a, t) \/ Info!markUnread(a, t)
                \/ \E a \in Requests, ids \in SUBSET Tips : Info!bulkMarkRead(a, ids) \/ Info!bulkMarkUnread(a, ids)
                \/ \E a \in Requests : Info!markAllRead(a) \/ Info!markCaseUnread(a)
                \/ Info!startExportJob \/ Info!RunExport \/ Info!runExportJob \/ Info!getExportJob \/ Info!CaseCloses
         PROVE  Forgotten'
    <2>1. UNCHANGED <<tip, seen, trace>>
      BY <1>37 DEF Info!markRead, Info!markUnread, Info!bulkMarkRead, Info!bulkMarkUnread, Info!markAllRead,
         Info!markCaseUnread, Info!SetReads, Info!startExportJob, Info!RunExport, Info!runExportJob, Info!getExportJob,
         Info!SetJob, Info!CaseCloses
    <2> QED
      BY <1>1, <2>1
  <1>38. CASE UNCHANGED Info!tipVars
    BY <1>1, <1>38 DEF Info!tipVars
  <1>39. CASE Info!WorkNext
    BY <1>39, <1>10, <1>11, <1>12, <1>13, <1>14, <1>15, <1>16, <1>17, <1>18, <1>19, <1>21 DEF Info!WorkNext
  <1>40. CASE Info!TalkNext
    BY <1>40, <1>10, <1>11, <1>17, <1>22, <1>23, <1>24, <1>25, <1>27, <1>28, <1>29, <1>30, <1>31 DEF Info!TalkNext
  <1>41. CASE Info!FileNext
    BY <1>41, <1>10, <1>11, <1>32, <1>33, <1>34, <1>35, <1>37 DEF Info!FileNext
  <1>42. CASE Info!ShowNext
    BY <1>42, <1>10, <1>11, <1>36, <1>37 DEF Info!ShowNext
  <1> QED
    BY <1>38, <1>39, <1>40, <1>41, <1>42 DEF Info!TipNext

\* When no other request is in flight, anonymize leaves the informant's id in no table of the
\* tip, whatever was asked, answered, added, appealed or revealed before, and nothing that is
\* called later brings it back.
THEOREM AnonymizedIsForgotten ==
  ASSUME \A p, q \in Requests : p = q, None \notin Requests, None \notin Tips, None # "informant",
         Questions \cap {"none", "loaded", "create"} = {}
  PROVE  Info!TipSpec => []Info!AnonymizedLeavesNoTrace
  <1>1. Info!TipInit(Info!FiledTips) => Forgotten
    BY DEF Info!TipInit, Info!NotSeen, Forgotten, Info!AnonymizedLeavesNoTrace, NoCaseYet
  <1>2. TipsKept /\ [Info!TipNext]_(Info!tipVars) => TipsKept'
    BY TipsKeptStep
  <1>3. TipsKept /\ TipsKept' /\ Forgotten /\ [Info!TipNext]_(Info!tipVars) => Forgotten'
    BY ForgottenStep
  <1>4. Forgotten => Info!AnonymizedLeavesNoTrace
    BY DEF Forgotten
  <1> QED
    BY <1>1, <1>2, <1>3, <1>4, TipsKeptInit, PTL DEF Info!TipSpec

-----------------------------------------------------------------------------
(***************************************************************************)
(* Access to reports.  A row that grants nothing yet names no report, so   *)
(* the rows of one report and one admin are the ones revokeAccess selects. *)
(***************************************************************************)
GrantRows ==
  /\ DOMAIN grant = Rows /\ \A g \in Rows : DOMAIN grant[g] = {"report", "admin", "state"}
  /\ \A g \in Rows : grant[g].state \in {"active", "expired", "revoked"} \/ grant[g].report = None

LEMMA GrantStep ==
  ASSUME None \notin Reports, GrantRows, [Access!AccessNext]_(Access!accessVars)
  PROVE  GrantRows' /\ Access!RevokeStep
  <1> DEFINE Goal == GrantRows' /\ Access!RevokeStep
  <1> SUFFICES Goal
    OBVIOUS
  <1>1. ASSUME UNCHANGED grant PROVE Goal
    BY <1>1 DEF GrantRows, Access!RevokeStep
  <1>2. ASSUME NEW a \in Admins, NEW r \in Reports, NEW b \in Admins, Access!revokeAccess(a, r, b) PROVE Goal
    <2> DEFINE gs == Access!Unrevoked(r, b)
    <2>1. grant' = [g \in Rows |-> IF g \in gs THEN [grant[g] EXCEPT !.state = "revoked"] ELSE grant[g]]
      BY <1>2 DEF Access!revokeAccess, Access!Revoke
    <2>2. \A g \in Rows : /\ g \in gs => grant'[g].state = "revoked"
                          /\ g \notin gs => grant'[g] = grant[g]
                          /\ grant'[g].report = grant[g].report /\ grant'[g].admin = grant[g].admin
                          /\ DOMAIN grant'[g] = {"report", "admin", "state"}
      BY <2>1 DEF GrantRows
    <2>3. \A g \in gs : grant[g].report = r /\ grant[g].admin = b
      BY DEF Access!Unrevoked
    <2>4. \A h \in Rows : grant[h].report = r /\ grant[h].admin = b => h \in gs \/ grant[h].state = "revoked"
      BY DEF GrantRows, Access!Unrevoked
    <2> HIDE DEF gs
    <2>5. Access!RevokeStep
      BY <2>2, <2>3, <2>4 DEF Access!RevokeStep
    <2> QED
      BY <2>1, <2>2, <2>5 DEF GrantRows
  <1>3. ASSUME NEW a \in Admins, NEW g \in Rows, Access!grantAccess(a, g) PROVE Goal
    <2> DEFINE v == [report |-> CHOOSE r \in desk[a].reports : TRUE, admin |-> desk[a].to, state |-> "active"]
    <2>1. grant' = [grant EXCEPT ![g] = v]
      BY <1>3 DEF Access!grantAccess
    <2>2. DOMAIN v = {"report", "admin", "state"} /\ v.state = "active"
      OBVIOUS
    <2> HIDE DEF v
    <2> QED
      BY <2>1, <2>2 DEF GrantRows, Access!RevokeStep
  <1>4. ASSUME NEW g \in Rows, Access!GrantExpires(g) PROVE Goal
    <2>1. grant' = [grant EXCEPT ![g] = [grant[g] EXCEPT !.state = "expired"]]
      BY <1>4 DEF Access!GrantExpires, GrantRows
    <2> QED
      BY <2>1 DEF GrantRows, Access!RevokeStep
  <1>5. ASSUME Access!AccessNext,
               ~\E a, b \in Admins, r \in Reports : Access!revokeAccess(a, r, b),
               ~\E a \in Admins, g \in Rows : Access!grantAccess(a, g) \/ Access!GrantExpires(g)
        PROVE  UNCHANGED grant
    <2>1. CASE Access!GrantNext
      BY <1>5, <2>1 DEF Access!GrantNext, Access!GrantRead, Access!updateSensitivity, Access!Reassign, Access!Shelve, Access!ChangeRole
    <2>2. CASE Access!InboxNext
      BY <2>2 DEF Access!InboxNext, Access!markRead, Access!markUnread, Access!updateSensitivity, Access!bulkMarkRead,
         Access!bulkMarkUnread, Access!readAll, Access!markUserReportsRead, Access!markUserReportsUnread, Access!markManyRead,
         Access!Shelve, Access!ReadSelect, Access!SetReads
    <2>3. CASE Access!MarksNext
      BY <2>3 DEF Access!MarksNext, Access!watch, Access!unwatch, Access!addTags, Access!removeTag, Access!createFollowUp,
         Access!updateSensitivity, Access!bulkTag, Access!Shelve, Access!SetMarks
    <2>4. CASE Access!ExportNext
      BY <2>4 DEF Access!ExportNext, Access!startExportJob, Access!DownloadExpired, Access!RunExport, Access!runExportJob,
         Access!ExportFails, Access!expireExportJobs, Access!updateSensitivity, Access!ChangeRole, Access!Shelve, Access!SetJob
    <2> QED
      BY <1>5, <2>1, <2>2, <2>3, <2>4 DEF Access!AccessNext
  <1>6. CASE UNCHANGED Access!accessVars
    BY <1>1, <1>6 DEF Access!accessVars
  <1> HIDE DEF Goal
  <1> QED
    BY <1>1, <1>2, <1>3, <1>4, <1>5, <1>6

\* However many admins grant the same access together and so leave several rows, one
\* revokeAccess ends it: no row of the same report and admin is left active.
THEOREM RevokeEndsAccess ==
  ASSUME None \notin Reports
  PROVE  Access!AccessSpec => [][Access!RevokeStep]_(Access!accessVars)
  <1>1. Access!AccessInit => GrantRows
    BY DEF Access!AccessInit, GrantRows, Access!NoGrant
  <1>2. GrantRows /\ [Access!AccessNext]_(Access!accessVars) => GrantRows' /\ [Access!RevokeStep]_(Access!accessVars)
    BY GrantStep
  <1> QED
    BY <1>1, <1>2, PTL DEF Access!AccessSpec

-----------------------------------------------------------------------------
(***************************************************************************)
(* Moderation of a victim profile.  A request that acts for a flag holds   *)
(* that flag, one that decides to overturn has put the profile back.       *)
(***************************************************************************)
ClaimsHeld ==
  /\ DOMAIN flag = Flags /\ DOMAIN call = Requests /\ DOMAIN appeal = Appeals
  /\ \A f \in Flags : DOMAIN flag[f] = {"status", "by"} /\ (flag[f].status \in {"none", "OPEN"} => flag[f].by = None)
  /\ \A a \in Appeals : DOMAIN appeal[a] = {"status", "by"}
  /\ \A q \in Requests : DOMAIN call[q] = {"pc", "on", "choice", "seen"}
  /\ \A q \in Requests : call[q].pc \in {"act", "putBack"} =>
       call[q].on \in Flags /\ flag[call[q].on].status = "ACTIONED" /\ flag[call[q].on].by = q
  /\ \A q \in Requests : call[q].pc = "claim" =>
       call[q].on \in Flags /\ (call[q].choice = "DISMISS" \/ call[q].choice \in {"UNPUBLISH", "PAUSE_DONATIONS"})
  /\ \A q \in Requests : call[q].pc = "decide" /\ call[q].choice = "OVERTURN_REJECTION" => <<q, call[q].on>> \in reviewed
  /\ Moderation!OverturnedWasReviewed

LEMMA ModerationStep ==
  ASSUME ClaimsHeld, [Moderation!ModerationNext]_(Moderation!modVars)
  PROVE  ClaimsHeld' /\ Moderation!OnlyOwnClaimPutBack
  <1> DEFINE Goal == ClaimsHeld' /\ Moderation!OnlyOwnClaimPutBack
  <1> SUFFICES Goal
    OBVIOUS
  <1> USE DEF ClaimsHeld, Moderation!OnlyOwnClaimPutBack, Moderation!OverturnedWasReviewed
  <1>1. ASSUME UNCHANGED <<flag, appeal, call, reviewed>> PROVE Goal
    BY <1>1
  \* The request is answered.
  <1>2. ASSUME NEW q \in Requests, Moderation!Done(q), UNCHANGED <<flag, appeal, reviewed>> PROVE Goal
    BY <1>2 DEF Moderation!Done, Moderation!Idle
  \* The request goes on to a step that holds nothing.
  <1>3. ASSUME NEW q \in Requests, NEW v, call' = [call EXCEPT ![q] = v], DOMAIN v = {"pc", "on", "choice", "seen"},
               v.pc \notin {"act", "putBack"},
               v.pc = "claim" => v.on \in Flags /\ v.choice \in {"DISMISS", "UNPUBLISH", "PAUSE_DONATIONS"},
               v.pc = "decide" => v.choice # "OVERTURN_REJECTION", UNCHANGED <<flag, appeal, reviewed>>
        PROVE  Goal
    BY <1>3
  <1>4. ASSUME NEW f \in Flags, Moderation!flagProfile(f) PROVE Goal
    <2>1. flag' = [flag EXCEPT ![f] = [flag[f] EXCEPT !.status = "OPEN"]] /\ flag[f].status = "none" /\ UNCHANGED <<appeal, call, reviewed>>
      BY <1>4 DEF Moderation!flagProfile
    <2> QED
      BY <2>1
  <1>5. ASSUME NEW q \in Requests, NEW f \in Flags, NEW c \in {"DISMISS", "UNPUBLISH", "PAUSE_DONATIONS"}, Moderation!resolveFlag(q, f, c)
        PROVE  Goal
    <2> DEFINE v == [pc |-> "claim", on |-> f, choice |-> c, seen |-> IF c = "UNPUBLISH" THEN prof.status ELSE prof.paused]
    <2>1. call' = [call EXCEPT ![q] = v] /\ UNCHANGED <<flag, appeal, reviewed>>
      BY <1>5 DEF Moderation!resolveFlag
    <2>2. DOMAIN v = {"pc", "on", "choice", "seen"} /\ v.pc = "claim" /\ v.on = f /\ v.choice = c
      OBVIOUS
    <2> HIDE DEF v, Goal
    <2> QED
      BY <1>3, <2>1, <2>2
  <1>6. ASSUME NEW q \in Requests, Moderation!ClaimFlag(q) PROVE Goal
    <2> DEFINE f == call[q].on
    <2>1. call[q].pc = "claim" /\ f \in Flags /\ UNCHANGED <<appeal, reviewed>>
      BY <1>6 DEF Moderation!ClaimFlag
    <2>2. CASE ~Moderation!Claimable(q)
      BY <1>2, <1>6, <2>2 DEF Moderation!ClaimFlag
    <2>3. CASE Moderation!Claimable(q)
      <3>1. /\ flag[f].status = "OPEN"
            /\ flag' = [flag EXCEPT ![f] = [status |-> IF call[q].choice = "DISMISS" THEN "DISMISSED" ELSE "ACTIONED", by |-> q]]
        BY <1>6, <2>3 DEF Moderation!ClaimFlag, Moderation!Claimable
      <3>2. CASE Moderation!Done(q)
        BY <2>1, <3>1, <3>2 DEF Moderation!Done, Moderation!Idle
      <3>3. CASE call[q].choice # "DISMISS" /\ call' = [call EXCEPT ![q] = [call[q] EXCEPT !.pc = "act"]]
        BY <2>1, <3>1, <3>3
      <3>4. Moderation!Done(q) \/ (call[q].choice # "DISMISS" /\ call' = [call EXCEPT ![q] = [call[q] EXCEPT !.pc = "act"]])
        BY <1>6, <2>3 DEF Moderation!ClaimFlag, Moderation!Go
      <3> QED
        BY <3>2, <3>3, <3>4
    <2> QED
      BY <2>2, <2>3
  <1>7. ASSUME NEW q \in Requests, Moderation!ActOnProfile(q) \/ Moderation!Dies(q) \/ Moderation!WriteResubmitMine(q) PROVE Goal
    BY <1>2, <1>7 DEF Moderation!ActOnProfile, Moderation!Dies, Moderation!WriteResubmitMine
  <1>8. ASSUME NEW q \in Requests, Moderation!ActionFails(q) PROVE Goal
    <2>1. call[q].pc = "act" /\ call' = [call EXCEPT ![q] = [call[q] EXCEPT !.pc = "putBack"]] /\ UNCHANGED <<flag, appeal, reviewed>>
      BY <1>8 DEF Moderation!ActionFails, Moderation!Go
    <2> QED
      BY <2>1
  <1>9. ASSUME NEW q \in Requests, Moderation!PutBack(q) PROVE Goal
    <2>1. /\ call[q].pc = "putBack" /\ flag' = [flag EXCEPT ![call[q].on] = [status |-> "OPEN", by |-> None]]
          /\ Moderation!Done(q) /\ UNCHANGED <<appeal, reviewed>>
      BY <1>9 DEF Moderation!PutBack
    <2>2. \A p \in Requests : p # q /\ call[p].pc \in {"act", "putBack"} => call[p].on # call[q].on
      BY <2>1
    <2> QED
      BY <2>1, <2>2 DEF Moderation!Done, Moderation!Idle
  <1>10. ASSUME NEW q \in Requests, Moderation!createAppeal(q) \/ Moderation!resubmitMine(q) PROVE Goal
    <2>1. PICK pc \in {"create", "mine"} : call' = [call EXCEPT ![q] = [Moderation!Idle EXCEPT !.pc = pc]]
      BY <1>10 DEF Moderation!createAppeal, Moderation!resubmitMine
    <2> DEFINE v == [Moderation!Idle EXCEPT !.pc = pc]
    <2>2. DOMAIN v = {"pc", "on", "choice", "seen"} /\ v.pc = pc
      BY DEF Moderation!Idle
    <2>3. UNCHANGED <<flag, appeal, reviewed>> /\ call' = [call EXCEPT ![q] = v]
      BY <1>10, <2>1 DEF Moderation!createAppeal, Moderation!resubmitMine
    <2> HIDE DEF v, Goal
    <2> QED
      BY <1>3, <2>2, <2>3
  <1>11. ASSUME NEW q \in Requests, NEW a \in Appeals, Moderation!InsertAppeal(q, a) PROVE Goal
    <2>1. appeal' = [appeal EXCEPT ![a] = [appeal[a] EXCEPT !.status = "OPEN"]] /\ Moderation!Done(q) /\ UNCHANGED <<flag, reviewed>>
      BY <1>11 DEF Moderation!InsertAppeal
    <2> QED
      BY <2>1 DEF Moderation!Done, Moderation!Idle
  <1>12. ASSUME NEW q \in Requests, NEW a \in Appeals, NEW c \in {"OVERTURN_REJECTION", "UPHOLD"}, Moderation!decideAppeal(q, a, c)
         PROVE  Goal
    <2> DEFINE v == [pc |-> Moderation!FirstStep(c), on |-> a, choice |-> c, seen |-> prof.status]
    <2>1. call' = [call EXCEPT ![q] = v] /\ UNCHANGED <<flag, appeal, reviewed>>
      BY <1>12 DEF Moderation!decideAppeal
    <2>2. DOMAIN v = {"pc", "on", "choice", "seen"} /\ v.choice = c /\ v.pc = IF c = "OVERTURN_REJECTION" THEN "resubmit" ELSE "decide"
      BY DEF Moderation!FirstStep
    <2> HIDE DEF v, Goal
    <2> QED
      BY <1>3, <2>1, <2>2
  <1>13. ASSUME NEW q \in Requests, Moderation!resubmit(q) PROVE Goal
    <2>1. CASE prof.status # "REJECTED"
      BY <1>2, <1>13, <2>1 DEF Moderation!resubmit
    <2>2. CASE prof.status = "REJECTED"
      <3>1. /\ reviewed' = reviewed \cup {<<q, call[q].on>>} /\ UNCHANGED <<flag, appeal>>
            /\ call' = [call EXCEPT ![q] = [call[q] EXCEPT !.pc = "decide"]]
        BY <1>13, <2>2 DEF Moderation!resubmit, Moderation!Go
      <3> QED
        BY <3>1
    <2> QED
      BY <2>1, <2>2
  <1>14. ASSUME NEW q \in Requests, Moderation!Decide(q) PROVE Goal
    <2> DEFINE a == call[q].on
    <2>1. call[q].pc = "decide" /\ Moderation!Done(q) /\ UNCHANGED <<flag, reviewed>>
      BY <1>14 DEF Moderation!Decide
    <2>2. CASE appeal' = appeal
      BY <1>2, <2>1, <2>2
    <2>3. CASE appeal' = [appeal EXCEPT ![a] = [status |-> IF call[q].choice = "OVERTURN_REJECTION" THEN "OVERTURNED" ELSE "UPHELD", by |-> q]]
      <3>1. call[q].choice = "OVERTURN_REJECTION" => <<q, a>> \in reviewed
        BY <2>1
      <3>2. Moderation!OverturnedWasReviewed'
        BY <2>1, <2>3, <3>1
      <3> QED
        BY <2>1, <2>3, <3>2 DEF Moderation!Done, Moderation!Idle
    <2> QED
      BY <1>14, <2>2, <2>3 DEF Moderation!Decide
  <1>15. ASSUME NEW st, NEW pa, Moderation!OtherHandlers(st, pa) PROVE Goal
    BY <1>1, <1>15 DEF Moderation!OtherHandlers
  <1>16. CASE UNCHANGED Moderation!modVars
    BY <1>1, <1>16 DEF Moderation!modVars
  <1> HIDE DEF Goal, ClaimsHeld, Moderation!OnlyOwnClaimPutBack, Moderation!OverturnedWasReviewed
  <1>17. CASE Moderation!FlagNext
    BY <1>17, <1>4, <1>5, <1>6, <1>7, <1>8, <1>9, <1>15 DEF Moderation!FlagNext
  <1>18. CASE Moderation!AppealNext
    BY <1>18, <1>7, <1>10, <1>11, <1>12, <1>13, <1>14, <1>15 DEF Moderation!AppealNext
  <1> QED
    BY <1>16, <1>17, <1>18 DEF Moderation!ModerationNext

\* Whatever other admins and the creator do to the profile at the same time: an appeal that
\* reads OVERTURNED did put the profile back into review (decideAppeal), and a failed action
\* takes back its own claim of a flag and never another admin's resolution (resolveFlag).
THEOREM ModerationSound ==
  Moderation!ModerationSpec =>
    []Moderation!OverturnedWasReviewed /\ [][Moderation!OnlyOwnClaimPutBack]_(Moderation!modVars)
  <1>1. Moderation!ModerationInit => ClaimsHeld
    BY DEF Moderation!ModerationInit, ClaimsHeld, Moderation!NoFlag, Moderation!NoAppeal, Moderation!Idle, Moderation!OverturnedWasReviewed
  <1>2. ClaimsHeld /\ [Moderation!ModerationNext]_(Moderation!modVars)
        => ClaimsHeld' /\ [Moderation!OnlyOwnClaimPutBack]_(Moderation!modVars)
    BY ModerationStep
  <1>3. ClaimsHeld => Moderation!OverturnedWasReviewed
    BY DEF ClaimsHeld
  <1> QED
    BY <1>1, <1>2, <1>3, PTL DEF Moderation!ModerationSpec

-----------------------------------------------------------------------------
(***************************************************************************)
(* Posts.  The status is written on the status the transition was decided  *)
(* on; everything else leaves it alone.  The read states are those of      *)
(* posts that are there, each admin's at most one per post, so that their  *)
(* number is the number of posts read.                                     *)
(***************************************************************************)
PostFields == {"status", "child", "claimedBy", "firstBy", "marks", "media"}

PostRows ==
  /\ DOMAIN post = Posts /\ \A p \in Posts : DOMAIN post[p] = PostFields
  /\ DOMAIN appeal = Appeals /\ \A a \in Appeals : DOMAIN appeal[a] = {"post", "target", "state"}
  /\ \A p \in Posts : post[p].status \in Posting!Statuses \cup {"none"}
  /\ reads \subseteq {p \in Posts : post[p].status # "none"} \X Requests

PostRules == Posting!FollowsTransitionMap /\ Posting!DecisionStays

LEMMA PostStep ==
  ASSUME PostRows, [Posting!PostNext]_(Posting!postVars)
  PROVE  PostRows' /\ PostRules
  <1> DEFINE Goal == PostRows' /\ PostRules
  <1> SUFFICES Goal
    OBVIOUS
  <1>0. \A st \in Posting!Statuses : st # "none" /\ Posting!ALLOWED_STATUS_TRANSITIONS[st] \subseteq Posting!Statuses
    BY DEF Posting!Statuses, Posting!ALLOWED_STATUS_TRANSITIONS
  <1>1. ASSUME UNCHANGED <<post, appeal>>, reads' \subseteq {p \in Posts : post[p].status # "none"} \X Requests PROVE Goal
    BY <1>1 DEF PostRows, PostRules, Posting!FollowsTransitionMap, Posting!DecisionStays
  \* The post p is written, and its status is kept or follows the map.
  <1>2. ASSUME NEW p \in Posts, NEW v, post' = [post EXCEPT ![p] = v], UNCHANGED <<appeal, reads>>,
               post[p].status \in Posting!Statuses, DOMAIN post[p] = PostFields => DOMAIN v = PostFields,
               DOMAIN post[p] = PostFields => \/ v.status = post[p].status
                                              \/ v.status \in Posting!ALLOWED_STATUS_TRANSITIONS[post[p].status]
        PROVE  Goal
    <2>1. DOMAIN post' = Posts /\ post'[p] = v /\ \A o \in Posts : o # p => post'[o] = post[o]
      BY <1>2 DEF PostRows
    <2>2. DOMAIN v = PostFields /\ v.status \in Posting!Statuses
      BY <1>0, <1>2 DEF PostRows
    <2>3. \A o \in Posts : post[o].status # "none" => post'[o].status # "none"
      BY <1>0, <2>1, <2>2
    <2>4. \A o \in Posts : DOMAIN post'[o] = PostFields /\ post'[o].status \in Posting!Statuses \cup {"none"}
      BY <2>1, <2>2 DEF PostRows
    <2>5. reads' \subseteq {o \in Posts : post'[o].status # "none"} \X Requests
      BY <1>2, <2>3 DEF PostRows
    <2>6. Posting!FollowsTransitionMap
      BY <1>2, <2>1 DEF PostRows, Posting!FollowsTransitionMap
    <2> QED
      BY <1>2, <2>1, <2>4, <2>5, <2>6 DEF PostRows, PostRules, Posting!DecisionStays
  <1>3. ASSUME NEW p \in Posts, Posting!Present(p) PROVE post[p].status \in Posting!Statuses
    BY <1>3 DEF PostRows, Posting!Present
  \* A write by id that keeps the status.
  <1>4. ASSUME NEW q \in Requests, NEW p \in Posts, NEW v, Posting!Present(p), Posting!Write(q, p, v),
               DOMAIN post[p] = PostFields => DOMAIN v = PostFields /\ v.status = post[p].status
        PROVE  Goal
    BY <1>2, <1>3, <1>4 DEF Posting!Write
  \* A write on the status that was loaded.
  <1>5. ASSUME NEW q \in Requests, NEW p \in Posts, NEW v, NEW to, Posting!Swap(q, p, v), Posting!Was(q).status # "none",
               to \in Posting!ALLOWED_STATUS_TRANSITIONS[Posting!Was(q).status],
               DOMAIN post[p] = PostFields => DOMAIN v = PostFields /\ v.status = to
        PROVE  Goal
    <2>1. post[p].status = Posting!Was(q).status /\ Posting!Write(q, p, v)
      BY <1>5 DEF Posting!Swap
    <2>2. post[p].status \in Posting!Statuses
      BY <1>5, <2>1 DEF PostRows
    <2> QED
      BY <1>2, <1>5, <2>1, <2>2 DEF Posting!Write
  <1>6. ASSUME NEW q \in Requests, Posting!Refused(q) PROVE Goal
    BY <1>1, <1>6 DEF Posting!Refused, PostRows
  <1>7. ASSUME NEW q \in Requests, NEW p \in Posts,
               Posting!findOne(q, p) \/ Posting!bulkApprove(q, p) \/ Posting!bulkReject(q, p)
        PROVE  Goal
    BY <1>1, <1>7 DEF Posting!findOne, Posting!bulkApprove, Posting!bulkReject, Posting!BulkLook, PostRows
  \* Review.
  <1>8. ASSUME NEW q \in Requests, NEW p \in Posts, Posting!claimPost(q, p) \/ Posting!unclaimPost(q, p) PROVE Goal
    BY <1>4, <1>8 DEF Posting!claimPost, Posting!unclaimPost, PostFields
  <1>9. ASSUME NEW q \in Requests, NEW p \in Posts, Posting!FirstConfirmation(q, p) PROVE Goal
    BY <1>4, <1>9 DEF Posting!FirstConfirmation, PostFields
  <1>10. ASSUME NEW q \in Requests, NEW p \in Posts, NEW to, Posting!assertTransitionAllowed(q, to),
                \/ Posting!Decide(q, p, to) \/ Posting!Swap(q, p, [post[p] EXCEPT !.status = to])
         PROVE  Goal
    BY <1>5, <1>10 DEF Posting!assertTransitionAllowed, Posting!Decide, PostFields
  <1>11. ASSUME NEW q \in Requests, NEW p \in Posts, NEW to \in Posting!Statuses, Posting!updateStatus(q, p, to) PROVE Goal
    BY <1>9, <1>10, <1>11 DEF Posting!updateStatus
  <1>12. ASSUME NEW q \in Requests, NEW p \in Posts,
                \/ Posting!approve(q, p) \/ Posting!requestChanges(q, p) \/ Posting!reject(q, p)
                \/ Posting!publish(q, p) \/ Posting!unpublish(q, p)
         PROVE  Goal
    BY <1>9, <1>10, <1>12 DEF Posting!approve, Posting!requestChanges, Posting!reject, Posting!publish, Posting!unpublish
  <1>13. ASSUME NEW q \in Requests, NEW p \in Posts, Posting!takedown(q, p) PROVE Goal
    <2>1. "UNPUBLISHED" \in Posting!ALLOWED_STATUS_TRANSITIONS["PUBLISHED"]
      BY DEF Posting!ALLOWED_STATUS_TRANSITIONS
    <2> QED
      BY <1>5, <1>13, <2>1 DEF Posting!takedown, PostFields
  \* The author.
  <1>14. ASSUME NEW q \in Requests, NEW p \in Posts, NEW c, NEW m, Posting!updateMyPost(q, p, c, m) PROVE Goal
    BY <1>4, <1>14 DEF Posting!updateMyPost, PostFields
  <1>15. ASSUME NEW q \in Requests, NEW p \in Posts, Posting!submitMyPost(q, p) PROVE Goal
    <2>1. \A st \in Posting!OWNER_EDITABLE_STATUSES : "PENDING" \in Posting!ALLOWED_STATUS_TRANSITIONS[st] /\ st # "none"
      BY DEF Posting!ALLOWED_STATUS_TRANSITIONS, Posting!OWNER_EDITABLE_STATUSES
    <2> QED
      BY <1>5, <1>15, <2>1 DEF Posting!submitMyPost, PostFields
  <1>16. ASSUME NEW q \in Requests, NEW p \in Posts, Posting!cancelMyPost(q, p) PROVE Goal
    <2>1. "DRAFT" \in Posting!ALLOWED_STATUS_TRANSITIONS["PENDING"]
      BY DEF Posting!ALLOWED_STATUS_TRANSITIONS
    <2> QED
      BY <1>5, <1>16, <2>1 DEF Posting!cancelMyPost, PostFields
  <1>17. ASSUME NEW v, Posting!Insert(v), DOMAIN v = PostFields, v.status \in Posting!Statuses PROVE Goal
    <2>1. PICK p \in Posts : ~Posting!Present(p) /\ post' = [post EXCEPT ![p] = v]
      BY <1>17 DEF Posting!Insert
    <2>2. DOMAIN post' = Posts /\ post'[p] = v /\ \A o \in Posts : o # p => post'[o] = post[o]
      BY <2>1 DEF PostRows
    <2>3. UNCHANGED <<appeal, reads>>
      BY <1>17 DEF Posting!Insert
    <2>4. \A o \in Posts : DOMAIN post'[o] = PostFields /\ post'[o].status \in Posting!Statuses \cup {"none"}
      BY <1>17, <2>2 DEF PostRows
    <2>5. \A o \in Posts : post[o].status # "none" => post'[o].status # "none"
      BY <2>1, <2>2 DEF Posting!Present
    <2>6. reads' \subseteq {o \in Posts : post'[o].status # "none"} \X Requests
      BY <2>3, <2>5 DEF PostRows
    <2>7. Posting!FollowsTransitionMap
      BY <2>1, <2>2 DEF Posting!FollowsTransitionMap, Posting!Present
    <2> QED
      BY <2>2, <2>3, <2>4, <2>6, <2>7 DEF PostRows, PostRules, Posting!DecisionStays
  <1>18. ASSUME NEW c, NEW now \in BOOLEAN, Posting!create(c, {}) \/ Posting!createOfficial(c, now) PROVE Goal
    <2>1. {"DRAFT", "APPROVED", "PENDING"} \subseteq Posting!Statuses
      BY DEF Posting!Statuses, Posting!ALLOWED_STATUS_TRANSITIONS
    <2> QED
      BY <1>17, <1>18, <2>1 DEF Posting!create, Posting!createOfficial, Posting!NoPost, PostFields
  <1>19. ASSUME NEW p \in Posts, Posting!Erase(p) PROVE Goal
    <2>1. post'[p] = Posting!NoPost /\ DOMAIN post' = Posts /\ \A o \in Posts : o # p => post'[o] = post[o]
      BY <1>19 DEF Posting!Erase, PostRows
    <2>2. DOMAIN Posting!NoPost = PostFields /\ Posting!NoPost.status = "none"
      BY DEF Posting!NoPost, PostFields
    <2>3. DOMAIN Posting!NoAppeal = {"post", "target", "state"}
      BY DEF Posting!NoAppeal
    <2>4. DOMAIN appeal' = Appeals /\ \A a \in Appeals : appeal'[a] \in {appeal[a], Posting!NoAppeal}
      BY <1>19 DEF Posting!Erase
    <2>5. reads' = {r \in reads : r[1] # p}
      BY <1>19 DEF Posting!Erase
    <2>6. reads' \subseteq {o \in Posts : post'[o].status # "none"} \X Requests
      BY <2>1, <2>5 DEF PostRows
    <2>7. PostRules
      BY <2>1, <2>2, <2>4 DEF PostRules, Posting!FollowsTransitionMap, Posting!DecisionStays
    <2> QED
      BY <2>1, <2>2, <2>3, <2>4, <2>6, <2>7 DEF PostRows
  <1>20. ASSUME NEW q \in Requests, NEW p \in Posts, Posting!deleteMyPost(q, p) \/ Posting!purgePosts(q, p) PROVE Goal
    BY <1>19, <1>20 DEF Posting!deleteMyPost, Posting!purgePosts
  <1>21. CASE Posting!handleUserSuspended
    <2>1. UNCHANGED <<appeal, reads>> /\ DOMAIN post' = Posts
      BY <1>21 DEF Posting!handleUserSuspended
    <2>2. ASSUME NEW p \in Posts
          PROVE  \/ post'[p] = post[p]
                 \/ post'[p] = [post[p] EXCEPT !.marks = @ \cup {"suspended"}]
                 \/ post[p].status = "PENDING" /\ post'[p] = [post[p] EXCEPT !.status = "DRAFT", !.marks = @ \cup {"suspended"}]
      <3>1. CASE post[p].status = "PENDING"
        <4> DEFINE V(o) == [post[o] EXCEPT !.status = "DRAFT", !.marks = @ \cup {"suspended"}]
                   W(o) == [post[o] EXCEPT !.marks = @ \cup {"suspended"}]
        <4>1. post' = [o \in Posts |-> CASE post[o].status = "PENDING" -> V(o)
                                         [] post[o].status \in Posting!OWNER_EDITABLE_STATUSES -> W(o)
                                         [] OTHER -> post[o]]
          BY <1>21 DEF Posting!handleUserSuspended
        <4>2. "PENDING" \notin Posting!OWNER_EDITABLE_STATUSES
          BY DEF Posting!OWNER_EDITABLE_STATUSES
        <4> HIDE DEF V, W
        <4>3. post'[p] = V(p)
          BY <3>1, <4>1, <4>2
        <4> QED
          BY <3>1, <4>3 DEF V
      <3>2. CASE post[p].status # "PENDING" /\ post[p].status \in Posting!OWNER_EDITABLE_STATUSES
        BY <1>21, <3>2 DEF Posting!handleUserSuspended
      <3>3. CASE post[p].status # "PENDING" /\ post[p].status \notin Posting!OWNER_EDITABLE_STATUSES
        BY <1>21, <3>3 DEF Posting!handleUserSuspended
      <3> QED
        BY <3>1, <3>2, <3>3
    <2>3. ASSUME NEW p \in Posts
          PROVE  /\ DOMAIN post'[p] = PostFields
                 /\ post'[p].status = post[p].status \/ (post[p].status = "PENDING" /\ post'[p].status = "DRAFT")
      BY <2>2 DEF PostRows, PostFields
    <2>4. "DRAFT" \in Posting!ALLOWED_STATUS_TRANSITIONS["PENDING"] /\ "DRAFT" \in Posting!Statuses
      BY DEF Posting!ALLOWED_STATUS_TRANSITIONS, Posting!Statuses
    <2>5. \A o \in Posts : post[o].status # "none" => post'[o].status # "none"
      BY <2>3
    <2>6. reads' \subseteq {o \in Posts : post'[o].status # "none"} \X Requests
      BY <2>1, <2>5 DEF PostRows
    <2>7. Posting!FollowsTransitionMap
      BY <2>3, <2>4 DEF Posting!FollowsTransitionMap
    <2> QED
      BY <2>1, <2>3, <2>4, <2>6, <2>7 DEF PostRows, PostRules, Posting!DecisionStays
  \* Flags and appeals.
  <1>22. ASSUME NEW u \in Requests, NEW p \in Posts, Posting!flagPost(u, p) \/ Posting!resolveFlags(p) PROVE Goal
    BY <1>1, <1>22 DEF Posting!flagPost, Posting!resolveFlags, PostRows
  <1>23. ASSUME NEW q \in Requests, NEW p \in Posts, NEW a \in Appeals, Posting!AppealCheck(q, p, a) \/ Posting!AppealLook(q, p, a)
         PROVE  Goal
    BY <1>1, <1>23 DEF Posting!AppealCheck, Posting!AppealLook, PostRows
  <1>24. ASSUME NEW q \in Requests, NEW a \in Appeals, Posting!appealMyPost(q, a) PROVE Goal
    <2> DEFINE v == [post |-> seen[q].post, target |-> IF Posting!Was(q).status = "REJECTED" THEN "REJECTION" ELSE "TAKEDOWN", state |-> "OPEN"]
    <2>1. appeal' = [appeal EXCEPT ![a] = v] /\ appeal[a] = Posting!NoAppeal /\ UNCHANGED <<post, reads>>
      BY <1>24 DEF Posting!appealMyPost
    <2>2. DOMAIN v = {"post", "target", "state"} /\ Posting!NoAppeal.state = "none"
      BY DEF Posting!NoAppeal
    <2> HIDE DEF v
    <2> QED
      BY <2>1, <2>2 DEF PostRows, PostRules, Posting!FollowsTransitionMap, Posting!DecisionStays
  <1>25. ASSUME NEW q \in Requests, NEW a \in Appeals, NEW d \in {"UPHELD", "OVERTURNED"}, Posting!decideAppeal(q, a, d) PROVE Goal
    <2> DEFINE o == appeal[a].post
    <2>1. /\ appeal' = [appeal EXCEPT ![a] = [appeal[a] EXCEPT !.state = d]] /\ appeal[a].state = "OPEN" /\ UNCHANGED reads
          /\ post' = IF d = "OVERTURNED" THEN Posting!Overturned(o, appeal[a].target) ELSE post
      BY <1>25 DEF Posting!decideAppeal, Posting!Decision, PostRows
    <2>2. /\ DOMAIN appeal' = Appeals /\ appeal'[a].state = d /\ \A b \in Appeals : b # a => appeal'[b] = appeal[b]
          /\ \A b \in Appeals : DOMAIN appeal'[b] = {"post", "target", "state"}
      BY <2>1 DEF PostRows
    <2>3. Posting!DecisionStays
      BY <2>1, <2>2 DEF Posting!DecisionStays
    <2>4. CASE post' = post
      BY <2>1, <2>2, <2>3, <2>4 DEF PostRows, PostRules, Posting!FollowsTransitionMap
    <2>5. CASE d = "OVERTURNED" /\ post[o].status = "REJECTED" /\ post' = [post EXCEPT ![o].status = "PENDING"]
      <3>1. /\ DOMAIN post' = Posts /\ \A p \in Posts : p # o => post'[p] = post[p]
            /\ o \in Posts => DOMAIN post'[o] = PostFields /\ post'[o].status = "PENDING"
        BY <2>5 DEF PostRows, PostFields
      <3>2. "PENDING" \in Posting!Statuses
        BY DEF Posting!Statuses, Posting!ALLOWED_STATUS_TRANSITIONS
      <3>3. \A p \in Posts : post[p].status # "none" => post'[p].status # "none"
        BY <3>1
      <3>4. reads' \subseteq {p \in Posts : post'[p].status # "none"} \X Requests
        BY <2>1, <3>3 DEF PostRows
      <3>5. Posting!FollowsTransitionMap
        BY <2>1, <2>2, <2>5, <3>1 DEF Posting!FollowsTransitionMap
      <3> QED
        BY <2>2, <2>3, <3>1, <3>2, <3>4, <3>5 DEF PostRows, PostRules
    <2>6. CASE /\ post[o].status = "UNPUBLISHED"
               /\ post' = [post EXCEPT ![o].status = "PUBLISHED", ![o].marks = @ \ {"takedown"}]
      <3>1. /\ DOMAIN post' = Posts /\ \A p \in Posts : p # o => post'[p] = post[p]
            /\ o \in Posts => DOMAIN post'[o] = PostFields /\ post'[o].status = "PUBLISHED"
        BY <2>6 DEF PostRows, PostFields
      <3>2. "PUBLISHED" \in Posting!Statuses /\ "PUBLISHED" \in Posting!ALLOWED_STATUS_TRANSITIONS["UNPUBLISHED"]
        BY DEF Posting!Statuses, Posting!ALLOWED_STATUS_TRANSITIONS
      <3>3. \A p \in Posts : post[p].status # "none" => post'[p].status # "none"
        BY <3>1
      <3>4. reads' \subseteq {p \in Posts : post'[p].status # "none"} \X Requests
        BY <2>1, <3>3 DEF PostRows
      <3>5. Posting!FollowsTransitionMap
        BY <2>6, <3>1, <3>2 DEF Posting!FollowsTransitionMap
      <3> QED
        BY <2>2, <2>3, <3>1, <3>2, <3>4, <3>5 DEF PostRows, PostRules
    <2> QED
      BY <2>1, <2>4, <2>5, <2>6 DEF Posting!Overturned
  \* Reading.
  <1>26. ASSUME NEW a \in Requests, NEW p \in Posts, NEW ids \in SUBSET Posts,
                \/ Posting!markRead(a, p) \/ Posting!markUnread(a, p) \/ Posting!bulkMarkRead(a, ids) \/ Posting!markAllRead(a)
         PROVE  Goal
    <2>1. UNCHANGED <<post, appeal>>
      BY <1>26 DEF Posting!markRead, Posting!markUnread, Posting!bulkMarkRead, Posting!markAllRead, Posting!SetReads
    <2> DEFINE R == {o \in Posts : post[o].status # "none"} \X Requests
    <2>3. reads \subseteq R
      BY DEF PostRows
    <2>4. ASSUME Posting!markRead(a, p) PROVE reads' \subseteq R
      BY <2>3, <2>4 DEF Posting!markRead, Posting!SetReads, Posting!Present
    <2>5. ASSUME Posting!markUnread(a, p) PROVE reads' \subseteq R
      BY <2>3, <2>5 DEF Posting!markUnread, Posting!SetReads
    <2>6. ASSUME Posting!bulkMarkRead(a, ids) PROVE reads' \subseteq R
      BY <2>3, <2>6 DEF Posting!bulkMarkRead, Posting!SetReads, Posting!Present
    <2>7. ASSUME Posting!markAllRead(a) PROVE reads' \subseteq R
      BY <2>3, <2>7 DEF Posting!markAllRead, Posting!SetReads, Posting!findUnread, Posting!Present
    <2>2. reads' \subseteq R
      BY <1>26, <2>4, <2>5, <2>6, <2>7
    <2> QED
      BY <1>1, <2>1, <2>2
  <1>27. CASE UNCHANGED Posting!postVars
    BY <1>1, <1>27 DEF Posting!postVars, PostRows
  <1> HIDE DEF Goal
  <1>28. CASE Posting!ReviewNext
    BY <1>28, <1>6, <1>7, <1>8, <1>11, <1>12, <1>13, <1>14, <1>15, <1>16, <1>21 DEF Posting!ReviewNext
  <1>29. CASE Posting!AppealNext
    BY <1>29, <1>6, <1>7, <1>12, <1>13, <1>20, <1>23, <1>24, <1>25 DEF Posting!AppealNext
  <1>30. CASE Posting!ShowNext
    <2>1. ASSUME NEW p \in Posts, Posting!resolveFlags(p) PROVE Goal
      BY <1>1, <2>1 DEF Posting!resolveFlags, PostRows, Goal
    <2>2. ASSUME NEW a \in Requests, NEW ids \in SUBSET Posts, Posting!bulkMarkRead(a, ids) \/ Posting!markAllRead(a) PROVE Goal
      BY <1>1, <2>2 DEF Posting!bulkMarkRead, Posting!markAllRead, Posting!SetReads, Posting!findUnread, Posting!Present, PostRows
    <2> QED
      BY <1>30, <2>1, <2>2, <1>6, <1>7, <1>12, <1>18, <1>20, <1>22, <1>26 DEF Posting!ShowNext
  <1> QED
    BY <1>27, <1>28, <1>29, <1>30 DEF Posting!PostNext

LEMMA PostStart == ASSUME Posting!PostInit(Posting!Statuses \cup {"none"}) PROVE PostRows
  <1>1. \A p \in Posts : \E st \in Posting!Statuses \cup {"none"} : post[p] = [Posting!NoPost EXCEPT !.status = st]
    BY DEF Posting!PostInit
  <1>2. \A p \in Posts : DOMAIN post[p] = PostFields /\ post[p].status \in Posting!Statuses \cup {"none"}
    BY <1>1 DEF Posting!NoPost, PostFields
  <1>3. \A a \in Appeals : DOMAIN appeal[a] = {"post", "target", "state"}
    BY DEF Posting!PostInit, Posting!NoAppeal
  <1> QED
    BY <1>2, <1>3 DEF Posting!PostInit, PostRows

\* However the loads and writes of reviewers, of the author, of the nightly purge and of a
\* suspension interleave, a post's status changes only along ALLOWED_STATUS_TRANSITIONS, but for
\* an overturned rejection (assertTransitionAllowed and the conditional updates), and the first
\* decision of an appeal stands (decideAppeal).
THEOREM PostsFollowMap ==
  Posting!PostSpec =>
    [][Posting!FollowsTransitionMap]_(Posting!postVars) /\ [][Posting!DecisionStays]_(Posting!postVars)
  <1>1. PostRows /\ [Posting!PostNext]_(Posting!postVars)
        => /\ PostRows'
           /\ [Posting!FollowsTransitionMap]_(Posting!postVars) /\ [Posting!DecisionStays]_(Posting!postVars)
    BY PostStep DEF PostRules
  <1> QED
    BY <1>1, PostStart, PTL DEF Posting!PostSpec

LEMMA PostCount == \A S : Posting!Cardinality(S) = Cardinality(S)
  BY DEF Posting!Cardinality, Posting!IsFiniteSet, Cardinality, IsFiniteSet

\* The posts an admin has read are as many as the admin's read states.
LEMMA UnreadIsExact ==
  ASSUME IsFiniteSet(Posts), PostRows
  PROVE  Posting!UnreadCountMatches
  <1> SUFFICES ASSUME NEW a \in Requests
               PROVE  Posting!getUnreadCount(a) = Cardinality(Posting!findUnread(a))
    BY PostCount DEF Posting!UnreadCountMatches
  <1> DEFINE T == {p \in Posts : Posting!Present(p)}
             R == {p \in T : <<p, a>> \in reads}
             S == {r \in reads : r[2] = a}
             f == [p \in R |-> <<p, a>>]
  <1>1. IsFiniteSet(T) /\ IsFiniteSet(R)
    BY FS_Subset
  <1>2. \A r \in S : r = <<r[1], a>> /\ r[1] \in R
    BY DEF PostRows, Posting!Present
  <1>3. f \in Bijection(R, S)
    <2>1. f \in [R -> S]
      OBVIOUS
    <2>2. \A p, o \in R : f[p] = f[o] => p = o
      OBVIOUS
    <2>3. \A r \in S : \E p \in R : f[p] = r
      <3> SUFFICES ASSUME NEW r \in S PROVE \E p \in R : f[p] = r
        OBVIOUS
      <3>1. r[1] \in R /\ f[r[1]] = r
        BY <1>2
      <3> QED
        BY <3>1
    <2> QED
      BY <2>1, <2>2, <2>3 DEF Bijection, Injection, Surjection, IsInjective
  <1>4. Cardinality(R) = Cardinality(S)
    <2>1. ExistsBijection(R, S)
      BY <1>3 DEF ExistsBijection
    <2> HIDE DEF R, S
    <2> QED
      BY <1>1, <2>1, FS_Bijection
  <1>5. Posting!findUnread(a) = T \ R
    BY DEF Posting!findUnread
  <1>6. Cardinality(T \ R) = Cardinality(T) - Cardinality(R) /\ Cardinality(R) <= Cardinality(T)
    <2>1. R \subseteq T /\ T \cap R = R
      OBVIOUS
    <2> HIDE DEF R, T
    <2> QED
      BY <1>1, <2>1, FS_Difference, FS_Subset
  <1>7. Posting!getUnreadCount(a) = Posting!UnreadLeft(Cardinality(T), Cardinality(S))
    BY PostCount DEF Posting!getUnreadCount
  <1>8. Cardinality(T) \in Nat /\ Cardinality(R) \in Nat
    BY <1>1, FS_CardinalityType
  <1> HIDE DEF T, R, S
  <1> QED
    BY <1>4, <1>5, <1>6, <1>7, <1>8 DEF Posting!UnreadLeft

\* getUnreadCount, which subtracts two counts, is always the number of posts findUnread lists:
\* a deletion takes its read states with it, and marking again adds none.
THEOREM UnreadCounterExact ==
  ASSUME IsFiniteSet(Posts)
  PROVE  Posting!PostSpec => []Posting!UnreadCountMatches
  <1>1. PostRows /\ [Posting!PostNext]_(Posting!postVars) => PostRows'
    BY PostStep
  <1>2. PostRows => Posting!UnreadCountMatches
    BY UnreadIsExact
  <1> QED
    BY <1>1, <1>2, PostStart, PTL DEF Posting!PostSpec

-----------------------------------------------------------------------------
(***************************************************************************)
(* The lock of a timer.  Of the tokens that took the lock within the ttl   *)
(* and whose job did not throw, there is at most the one in Redis: the     *)
(* lock is taken when the key is gone, and the key goes either with its    *)
(* token's period or by a release, which only an attempt that threw makes. *)
(***************************************************************************)
TickState == [pc : {"idle", "job", "unlocked", "release"}, token : Nat]

OnlyTheLock ==
  /\ tries \in Nat /\ tick \in [Instances -> TickState]
  /\ \A t \in period : t \in Nat /\ t # 0 /\ (t \in failed \/ t = lock)
  /\ \A i \in Instances : tick[i].pc = "release" => tick[i].token \in failed

LEMMA LockInit == CronInit => OnlyTheLock
  BY DEF CronInit, OnlyTheLock, TickState, Waiting

LEMMA LockStep == OnlyTheLock /\ [CronNext]_cronVars => OnlyTheLock'
  <1> SUFFICES ASSUME OnlyTheLock, [CronNext]_cronVars PROVE OnlyTheLock'
    OBVIOUS
  <1> USE DEF OnlyTheLock, TickState
  <1>1. ASSUME NEW i \in Instances, runExclusive(i) PROVE OnlyTheLock'
    BY <1>1 DEF runExclusive, Attempt, SetKey
  <1>2. ASSUME NEW i \in Instances, RunWithoutLock(i) PROVE OnlyTheLock'
    BY <1>2 DEF RunWithoutLock, Attempt, SetKey
  <1>3. ASSUME NEW i \in Instances, JobDone(i) PROVE OnlyTheLock'
    BY <1>3 DEF JobDone, Waiting
  <1>4. ASSUME NEW i \in Instances, JobFails(i) PROVE OnlyTheLock'
    BY <1>4 DEF JobFails, Waiting
  <1>5. ASSUME NEW i \in Instances, Release(i) PROVE OnlyTheLock'
    BY <1>5 DEF Release, RELEASE_SCRIPT, Waiting
  <1>6. ASSUME NEW i \in Instances, Abandon(i) PROVE OnlyTheLock'
    BY <1>6 DEF Abandon, Waiting
  <1>7. ASSUME NEW t \in 1..MaxTokens, Expires(t) PROVE OnlyTheLock'
    BY <1>7 DEF Expires
  <1>8. CASE UNCHANGED cronVars
    BY <1>8 DEF cronVars
  <1> QED
    BY <1>1, <1>2, <1>3, <1>4, <1>5, <1>6, <1>7, <1>8 DEF CronNext

\* Within one ttl at most one run of a timer that did not throw took the lock (runExclusive),
\* on any number of instances, also when an attempt outlives its own ttl and releases late:
\* the script compares the token before it deletes the key.
THEOREM OneRun == CronSpec => []OneRunPerPeriod
  <1>1. OnlyTheLock => OneRunPerPeriod
    BY DEF OnlyTheLock, OneRunPerPeriod
  <1> QED
    BY LockInit, LockStep, <1>1, PTL DEF CronSpec

-----------------------------------------------------------------------------
(***************************************************************************)
(* The scan of uploads.  A file that arrives while no scan has read the    *)
(* key is not late, and stays until it is deleted or a later one replaces  *)
(* it: each phase of a worker bounds what can be stored unless it is late. *)
(***************************************************************************)
WorkerState == {"idle", "stat", "early", "missing", "fetch", "clean", "REJECTED", "INFECTED",
                "markREJECTED", "markINFECTED", "failed", "giveUp"}

ScanRow == [status : {"NONE", "PENDING", "CLEAN", "INFECTED", "REJECTED", "FAILED"},
            lock : {"free", "held", "stale"}, attempts : Nat]

ScanShape ==
  /\ scan \in ScanRow
  /\ object \in {"absent", "clean", "infected", "big"} /\ late \in {"no", "yes"}
  /\ url \in {"none", "direct", "open", "closed", "expired"}
  /\ worker \in [Scanners -> WorkerState]

\* Before the URL there is no row, and a row goes only when no file is there or can arrive.
RowForFile ==
  /\ url = "none" => object = "absent"
  /\ url \in {"none", "direct"} => scan.status = "NONE" /\ \A w \in Scanners : worker[w] = "idle"
  /\ url = "open" => scan.status # "NONE"
  /\ scan.status = "NONE" => object \in {"absent", "clean"}

\* What a worker's phase says about the stored file.
PhaseBounds ==
  \A w \in Scanners :
    /\ worker[w] = "early" => url \in {"open", "closed"}
    /\ worker[w] = "missing" => url \in {"closed", "expired"} /\ object = "absent"
    /\ late = "no" => /\ worker[w] \in {"markREJECTED", "markINFECTED"} => object = "absent"
                      /\ worker[w] = "fetch" => object # "big"
                      /\ worker[w] = "clean" => object \in {"absent", "clean"}

Scanned ==
  late = "no" => /\ scan.status = "CLEAN" => object \in {"absent", "clean"}
                 /\ scan.status \in {"INFECTED", "REJECTED"} => object = "absent"

ScanInv == ScanShape /\ RowForFile /\ PhaseBounds /\ Scanned

Counted(s) == [s EXCEPT !.attempts = @ + 1, !.lock = "free"]

LEMMA CountedRow ==
  ASSUME NEW s \in ScanRow
  PROVE  Counted(s) \in ScanRow /\ Counted(s).status = s.status
  <1> DEFINE n == s.attempts + 1
  <1>1. n \in Nat
    BY DEF ScanRow
  <1>2. Counted(s) = [s EXCEPT !.attempts = n, !.lock = "free"]
    BY DEF Counted
  <1> HIDE DEF n
  <1> QED
    BY <1>1, <1>2 DEF ScanRow

LEMMA ScanInvInit == ScanInit => ScanInv
  BY DEF ScanInit, NoRow, ScanInv, ScanShape, RowForFile, PhaseBounds, Scanned, WorkerState, ScanRow

LEMMA ScanInvStep == ScanInv /\ [ScanNext]_scanVars => ScanInv'
  <1> SUFFICES ASSUME ScanInv, [ScanNext]_scanVars PROVE ScanInv'
    OBVIOUS
  <1> USE DEF ScanInv, ScanShape, RowForFile, PhaseBounds, Scanned, WorkerState, ScanRow
  <1>1. CASE createPresignedUpload
    BY <1>1 DEF createPresignedUpload, NoRow, stored
  <1>2. CASE uploadMulterFile \/ registerClean \/ deleteObject
    BY <1>2 DEF uploadMulterFile, registerClean, deleteObject, NoRow, stored
  <1>3. CASE Time
    BY <1>3 DEF Time, UrlEnds, RowExpires, staleLock, stored
  <1>4. ASSUME NEW c \in {"clean", "infected", "big"}, Upload(c) PROVE ScanInv'
    BY <1>4 DEF Upload, Judged
  <1>5. ASSUME NEW w \in Scanners, claim(w) PROVE ScanInv'
    BY <1>5 DEF claim, Due, Go, stored
  <1>6. ASSUME NEW w \in Scanners, processOne(w) PROVE ScanInv'
    <2>1. CASE statOrNull(w)
      <3>1. url \in {"open", "closed", "expired"}
        BY <2>1 DEF statOrNull
      <3>2. \/ worker' = [worker EXCEPT ![w] = "early"] /\ object = "absent" /\ url = "open"
            \/ worker' = [worker EXCEPT ![w] = "missing"] /\ object = "absent" /\ url # "open"
            \/ worker' = [worker EXCEPT ![w] = "REJECTED"] /\ object = "big"
            \/ worker' = [worker EXCEPT ![w] = "fetch"] /\ object \notin {"absent", "big"}
        BY <2>1 DEF statOrNull, Go
      <3>3. UNCHANGED <<scan, object, url>> /\ late' = (IF Judged THEN late ELSE "no")
        BY <2>1 DEF statOrNull
      <3>4. CASE worker' = [worker EXCEPT ![w] = "early"] /\ object = "absent" /\ url = "open"
        BY <3>3, <3>4 DEF Judged
      <3>5. CASE worker' = [worker EXCEPT ![w] = "missing"] /\ object = "absent" /\ url # "open"
        BY <3>1, <3>3, <3>5 DEF Judged
      <3>6. CASE worker' = [worker EXCEPT ![w] = "REJECTED"] /\ object = "big"
        BY <3>1, <3>3, <3>6 DEF Judged
      <3>7. CASE worker' = [worker EXCEPT ![w] = "fetch"] /\ object \notin {"absent", "big"}
        BY <3>1, <3>3, <3>7 DEF Judged
      <3> HIDE DEF ScanInv
      <3> QED
        BY <3>2, <3>4, <3>5, <3>6, <3>7
    <2>2. CASE NotUploaded(w)
      BY <2>2 DEF NotUploaded, WriteRow, WithoutObject, NoRow, Go, stored
    <2>3. CASE scanBuffer(w)
      BY <2>3 DEF scanBuffer, Go, stored
    <2>4. CASE markClean(w)
      <3>1. worker[w] = "clean" /\ UNCHANGED <<object, late, url>>
        BY <2>4 DEF markClean, stored
      <3>2. CASE scan.status = "NONE"
        BY <2>4, <3>1, <3>2 DEF markClean, WriteRow, Go
      <3>3. CASE scan.status # "NONE"
        <4>1. scan' = [scan EXCEPT !.status = "CLEAN", !.lock = "free"] /\ worker' = [worker EXCEPT ![w] = "idle"]
          BY <2>4, <3>3 DEF markClean, WriteRow, Go
        <4>2. scan' \in ScanRow /\ scan'.status = "CLEAN"
          BY <4>1
        <4> QED
          BY <3>1, <3>3, <4>1, <4>2
      <3> QED
        BY <3>2, <3>3
    <2>5. CASE block(w)
      BY <2>5 DEF block, Marking, Go
    <2>6. CASE markBlocked(w)
      <3>1. PICK verdict \in {"REJECTED", "INFECTED"} :
              worker[w] = Marking(verdict) /\ WriteRow(w, [scan EXCEPT !.status = verdict, !.lock = "free"])
        BY <2>6 DEF markBlocked
      <3>2. worker[w] \in {"markREJECTED", "markINFECTED"} /\ UNCHANGED <<object, late, url>>
        BY <2>6, <3>1 DEF markBlocked, Marking, stored
      <3>3. CASE scan.status = "NONE"
        BY <3>1, <3>2, <3>3 DEF WriteRow, Go
      <3>4. CASE scan.status # "NONE"
        <4>1. scan' = [scan EXCEPT !.status = verdict, !.lock = "free"] /\ worker' = [worker EXCEPT ![w] = "idle"]
          BY <3>1, <3>4 DEF WriteRow, Go
        <4>2. scan' \in ScanRow /\ scan'.status = verdict
          BY <4>1
        <4> QED
          BY <3>2, <3>4, <4>1, <4>2
      <3> QED
        BY <3>3, <3>4
    <2>7. CASE recordFailure(w)
      <3>1. UNCHANGED <<object, late, url>> /\ worker[w] = "failed"
        BY <2>7 DEF recordFailure, stored
      <3>2. \E to \in {"idle", "giveUp"} : worker' = [worker EXCEPT ![w] = to]
        BY <2>7 DEF recordFailure, Go
      <3>3. scan'.status = scan.status /\ scan' \in ScanRow
        <4>1. scan \in ScanRow
          OBVIOUS
        <4>2. scan' = scan \/ scan' = Counted(scan)
          BY <2>7 DEF recordFailure, Counted
        <4> HIDE DEF ScanRow, ScanInv
        <4> QED
          BY <4>1, <4>2, CountedRow
      <3>4. url \notin {"none", "direct"}
        BY <3>1
      <3> QED
        BY <3>1, <3>2, <3>3, <3>4
    <2>8. CASE GiveUp(w)
      BY <2>8 DEF GiveUp, Go, stored
    <2> QED
      BY <1>6, <2>1, <2>2, <2>3, <2>4, <2>5, <2>6, <2>7, <2>8 DEF processOne
  <1>7. ASSUME NEW w \in Scanners, CallFails(w) \/ WorkerCrash(w) PROVE ScanInv'
    BY <1>7 DEF CallFails, WorkerCrash, Go, stored
  <1>8. CASE UNCHANGED scanVars
    BY <1>8 DEF scanVars, stored
  <1> QED
    BY <1>1, <1>2, <1>3, <1>4, <1>5, <1>6, <1>7, <1>8 DEF ScanNext

\* With any number of workers, failing calls and crashes, a file that is stored and usable was
\* found clean, and a row that says INFECTED or REJECTED has no file left (processOne, block),
\* except for a file that arrived after the scans had read the key.
THEOREM VerdictsHold == ScanSpec => []VerdictFitsScanned
  <1>1. ScanInv => VerdictFitsScanned
    BY DEF ScanInv, ScanShape, RowForFile, Scanned, VerdictFitsScanned, UsableWasScanned, BlockedIsRemoved,
           assertUsable
  <1> QED
    BY ScanInvInit, ScanInvStep, <1>1, PTL DEF ScanSpec
=============================================================================
