----------------------------- MODULE AuditChain ------------------------------
(***************************************************************************)
(* misc/audit-log: the hash chain of audit rows, its verification, and the *)
(* purge that archives and then deletes old rows while rows are written,   *)
(* held and released.  Time is counted in rows: a cutoff c is the moment   *)
(* after the c-th row ever written.  The digest is the tuple of what it    *)
(* covers; a row is told apart by facts, the number it was written as.     *)
(***************************************************************************)
EXTENDS Naturals, FiniteSets, FiniteSetsExt, Sentinel

CONSTANTS
  MaxRows,                   \* bound on the rows ever written
  ConfirmTokens,                    \* confirm tokens, each names one purge run
  Purgers,                   \* requests and audit workers that run a purge
  PURGE_BATCH, VERIFY_BATCH

ASSUME BatchAssumption == PURGE_BATCH \in Nat \ {0} /\ VERIFY_BATCH \in Nat \ {0}

VARIABLES
  log,       \* the audit_log table
  wrote,     \* how many rows were ever written
  token,     \* the confirm tokens handed out
  runs,      \* audit_purge_run, by tokenId
  proc,      \* the purge each worker is in the middle of
  sched,     \* one audit_purge_schedule row
  archive,   \* facts of the rows in finished archives
  deleted,   \* facts of the rows deleted
  check      \* the verification that is running

chainVars == <<log, wrote, token, runs, proc, sched, archive, deleted, check>>

NoToken  == [cutoff |-> None]
NoRun    == [status |-> "none", lo |-> 0, hi |-> 0, scheduled |-> "no"]
NoPurge     == [pc |-> "idle", t |-> None, first |-> {}, read |-> {}, ids |-> {}, scheduled |-> "no"]
NoCheck  == [pc |-> "idle", ranges |-> {}, last |-> 0, prev |-> {}, ok |-> "yes"]

ChainInit ==
  /\ log = {} /\ wrote = 0 /\ token = [t \in ConfirmTokens |-> NoToken] /\ runs = [t \in ConfirmTokens |-> NoRun]
  /\ proc = [w \in Purgers |-> NoPurge] /\ sched = [status |-> "none", cutoff |-> None]
  /\ archive = {} /\ deleted = {} /\ check = NoCheck

purgeVars == <<token, runs, proc, sched, archive, deleted>>

-----------------------------------------------------------------------------
(* Writing. *)

\* The digest leaves the personal fields out.
computeHash_Fault(seq, prevHash, facts, name) == <<seq, prevHash, facts, name>>
computeHash(seq, prevHash, facts, name) == <<seq, prevHash, facts>>

Newest(l) == CHOOSE r \in l : \A x \in l : x.seq <= r.seq
\* Under the advisory lock: the number and the link come from the row with the highest seq.
NextRow(l) ==
  LET seq  == IF l = {} THEN 1 ELSE Newest(l).seq + 1
      prev == IF l = {} THEN <<>> ELSE Newest(l).hash
  IN  [seq |-> seq, prev |-> prev, facts |-> wrote + 1, name |-> "user", held |-> "no",
       hash |-> computeHash(seq, prev, wrote + 1, "user")]
record == wrote < MaxRows /\ wrote' = wrote + 1 /\ log' = log \cup {NextRow(log)}
auditSelf == record

\* Any module of the system writes an event.
Event == record /\ UNCHANGED <<purgeVars, check>>

\* The event stays, the person goes; held rows are skipped.
anonymizeUser ==
  /\ wrote < MaxRows /\ wrote' = wrote + 1
  /\ LET kept == {IF r.held = "yes" THEN r ELSE [r EXCEPT !.name = "Anonymized user"] : r \in log}
     IN  log' = kept \cup {NextRow(kept)}
  /\ UNCHANGED <<purgeVars, check>>

Hold(r, h) == log' = (log \ {r}) \cup {[r EXCEPT !.held = h]}
setHold(r) == r.held = "no" /\ Hold(r, "yes") /\ UNCHANGED <<wrote, purgeVars, check>>
clearHold(r) == r.held = "yes" /\ Hold(r, "no") /\ UNCHANGED <<wrote, purgeVars, check>>

-----------------------------------------------------------------------------
(* Verification. *)

purgedSeqRanges_Fault == {<<runs[t].lo, runs[t].hi>> : t \in {x \in ConfirmTokens : runs[x].status = "COMPLETED" /\ runs[x].hi > 0}}
purgedSeqRanges == {<<runs[t].lo, runs[t].hi>> : t \in {x \in ConfirmTokens : runs[x].hi > 0}}
\* Merged ranges cover a gap exactly when every number of the gap lies in one of them.
explainedByPurge(ranges, lo, hi) == \A n \in lo..hi : \E g \in ranges : n \in g[1]..g[2]
\* What one row shows, after the row prev (a set of at most one row).
RowHolds(ranges, prev, r) ==
  /\ r.hash = computeHash(r.seq, r.prev, r.facts, r.name)
  /\ \A p \in prev : IF r.seq = p.seq + 1 THEN r.prev = p.hash ELSE explainedByPurge(ranges, p.seq + 1, r.seq - 1)
Before(l, r) == LET b == {x \in l : x.seq < r.seq} IN IF b = {} THEN {} ELSE {Newest(b)}

verifyIntegrity ==
  /\ check.pc = "idle"
  /\ check' = [NoCheck EXCEPT !.pc = "scan", !.ranges = purgedSeqRanges]
  /\ UNCHANGED <<log, wrote, purgeVars>>
VerifyBatch ==
  /\ check.pc = "scan"
  /\ LET left  == {r \in log : r.seq > check.last}
         batch == {r \in left : Cardinality({x \in left : x.seq <= r.seq}) <= VERIFY_BATCH}
         Prev(r) == IF Before(batch, r) # {} THEN Before(batch, r) ELSE check.prev
     IN  IF batch = {} THEN check' = [check EXCEPT !.pc = "report"]
         ELSE IF \A r \in batch : RowHolds(check.ranges, Prev(r), r)
              THEN check' = [check EXCEPT !.last = Newest(batch).seq, !.prev = {Newest(batch)}]
              ELSE check' = [check EXCEPT !.pc = "report", !.ok = "no"]
  /\ UNCHANGED <<log, wrote, purgeVars>>
\* The verdict is audited, then saved as an audit_integrity_run.
saveIntegrityRun ==
  /\ check.pc = "report" /\ auditSelf
  /\ check' = [NoCheck EXCEPT !.ok = check.ok] /\ UNCHANGED purgeVars

-----------------------------------------------------------------------------
(* The purge. *)

ProcAt(w, pc) == proc[w].pc = pc
ProcGo(w, pc) == proc' = [proc EXCEPT ![w].pc = pc]
Cutoff(w) == token[proc[w].t].cutoff
purgeWhere(w) == {r \in log : r.facts <= Cutoff(w) /\ r.held = "no"}
Facts(S) == {r.facts : r \in S}
Unread(w) == {r \in purgeWhere(w) : r.facts \notin Facts(proc[w].read)}
Batches(S) == IF Cardinality(S) <= PURGE_BATCH THEN {S} ELSE kSubset(PURGE_BATCH, S)
SetStatus(w, s) == runs' = [runs EXCEPT ![proc[w].t].status = s]
\* A scheduled run also settles its schedule row.
SettleSchedule(w, s) == sched' = IF proc[w].scheduled = "yes" THEN [sched EXCEPT !.status = s] ELSE sched

\* The token names a moment that is past; the preview writes a row after it.
previewPurge_Fault(t, c) ==
  /\ token[t] = NoToken /\ c <= wrote
  /\ token' = [token EXCEPT ![t].cutoff = c]
  /\ UNCHANGED <<log, wrote, runs, proc, sched, archive, deleted, check>>
previewPurge(t, c) ==
  /\ token[t] = NoToken /\ c <= wrote /\ auditSelf
  /\ token' = [token EXCEPT ![t].cutoff = c]
  /\ UNCHANGED <<runs, proc, sched, archive, deleted, check>>

\* The unique tokenId lets one run through; the second gets P2002.
purgeOlderThan(w, t) ==
  /\ ProcAt(w, "idle") /\ token[t] # NoToken /\ runs[t] = NoRun
  /\ runs' = [runs EXCEPT ![t].status = "STARTED"]
  /\ proc' = [proc EXCEPT ![w] = [NoPurge EXCEPT !.pc = "open", !.t = t]]
  /\ UNCHANGED <<log, wrote, token, sched, archive, deleted, check>>

OpenArchive(w) ==
  /\ ProcAt(w, "open") /\ proc' = [proc EXCEPT ![w].pc = "scan", ![w].first = purgeWhere(w)]
  /\ UNCHANGED <<log, wrote, token, runs, sched, archive, deleted, check>>
\* The archive cannot be opened, written or finished: nothing has been deleted.
failRun(w) ==
  /\ proc[w].pc \in {"open", "scan"} /\ SetStatus(w, "FAILED")
  /\ proc' = [proc EXCEPT ![w] = NoPurge] /\ SettleSchedule(w, "FAILED")
  /\ UNCHANGED <<log, wrote, token, archive, deleted, check>>

\* The scan walks the ids, which are random, behind a cursor; the lowest and highest seq are kept.
ScanBatch(w) ==
  /\ ProcAt(w, "scan")
  /\ \E batch \in Batches(Unread(w)) :
       batch # {} /\ proc' = [proc EXCEPT ![w].read = @ \cup batch]
  /\ UNCHANGED <<log, wrote, token, runs, sched, archive, deleted, check>>
ScanEnd_Fault(w) ==
  /\ ProcAt(w, "scan") /\ proc[w].read # {}
  /\ archive' = archive \cup Facts(proc[w].read) /\ ProcGo(w, "mark")
  /\ UNCHANGED <<log, wrote, token, runs, sched, deleted, check>>
\* No row is left behind the cursor.  A row that matches only since the scan began may lie before it.
ScanEnd(w) ==
  /\ ProcAt(w, "scan") /\ Facts(Unread(w)) \cap Facts(proc[w].first) = {}
  /\ archive' = archive \cup Facts(proc[w].read) /\ ProcGo(w, "mark")
  /\ UNCHANGED <<log, wrote, token, runs, sched, deleted, check>>
MarkArchived(w) ==
  /\ ProcAt(w, "mark")
  /\ LET seqs == {r.seq : r \in proc[w].read}
     IN  runs' = [runs EXCEPT ![proc[w].t].status = "ARCHIVED",
                              ![proc[w].t].lo = IF seqs = {} THEN 0 ELSE Min(seqs),
                              ![proc[w].t].hi = IF seqs = {} THEN 0 ELSE Max(seqs)]
  /\ ProcGo(w, "select") /\ UNCHANGED <<log, wrote, token, sched, archive, deleted, check>>

SelectIds(w) ==
  /\ ProcAt(w, "select")
  /\ \E batch \in Batches(purgeWhere(w)) :
       proc' = [proc EXCEPT ![w].ids = Facts(batch), ![w].pc = IF batch = {} THEN "complete" ELSE "delete"]
  /\ UNCHANGED <<log, wrote, token, runs, sched, archive, deleted, check>>
\* The hold is looked at again: it may have been placed since the ids were read.
Deletable_Fault(ids) == {r \in log : r.facts \in ids}
Deletable(ids) == {r \in log : r.facts \in ids /\ r.held = "no"}
DeleteBatch(w) ==
  /\ ProcAt(w, "delete")
  /\ LET gone == Deletable(proc[w].ids)
     IN  /\ log' = log \ gone /\ deleted' = deleted \cup Facts(gone)
         /\ ProcGo(w, IF gone = {} THEN "complete" ELSE "select")
  /\ UNCHANGED <<wrote, token, runs, sched, archive, check>>
DeleteFails(w) ==
  /\ proc[w].pc \in {"select", "delete"} /\ SetStatus(w, "FAILED")
  /\ proc' = [proc EXCEPT ![w] = NoPurge] /\ SettleSchedule(w, "FAILED")
  /\ UNCHANGED <<log, wrote, token, archive, deleted, check>>
CompleteRun(w) ==
  /\ ProcAt(w, "complete") /\ SetStatus(w, "COMPLETED") /\ ProcGo(w, "audit")
  /\ UNCHANGED <<log, wrote, token, sched, archive, deleted, check>>
\* Written after the delete, so that the cutoff cannot remove it.
AuditPurge(w) ==
  /\ ProcAt(w, "audit") /\ auditSelf
  /\ proc' = [proc EXCEPT ![w] = NoPurge] /\ SettleSchedule(w, "EXECUTED")
  /\ UNCHANGED <<token, runs, archive, deleted, check>>
\* The process dies; what it had committed stays.
CrashPurge(w) ==
  /\ ~ProcAt(w, "idle") /\ proc' = [proc EXCEPT ![w] = NoPurge]
  /\ UNCHANGED <<log, wrote, token, runs, sched, archive, deleted, check>>

schedulePurge(c) ==
  /\ sched.status = "none" /\ c <= wrote /\ auditSelf
  /\ sched' = [status |-> "SCHEDULED", cutoff |-> c]
  /\ UNCHANGED <<token, runs, proc, archive, deleted, check>>
cancelPurgeSchedule ==
  /\ sched.status = "SCHEDULED" /\ auditSelf /\ sched' = [sched EXCEPT !.status = "CANCELLED"]
  /\ UNCHANGED <<token, runs, proc, archive, deleted, check>>
\* A worker lists the due rows, then claims each.
runDueScheduledPurges(w) ==
  /\ ProcAt(w, "idle") /\ sched.status = "SCHEDULED" /\ ProcGo(w, "due")
  /\ UNCHANGED <<log, wrote, token, runs, sched, archive, deleted, check>>
ClaimSchedule_Fault(w, t) ==
  /\ ProcAt(w, "due") /\ token[t] = NoToken
  /\ sched' = [sched EXCEPT !.status = "RUNNING"]
  /\ token' = [token EXCEPT ![t].cutoff = sched.cutoff]
  /\ runs' = [runs EXCEPT ![t].status = "STARTED", ![t].scheduled = "yes"]
  /\ proc' = [proc EXCEPT ![w] = [NoPurge EXCEPT !.pc = "open", !.t = t, !.scheduled = "yes"]]
  /\ UNCHANGED <<log, wrote, archive, deleted, check>>
ClaimSchedule(w, t) ==
  /\ ProcAt(w, "due") /\ sched.status = "SCHEDULED" /\ token[t] = NoToken
  /\ sched' = [sched EXCEPT !.status = "RUNNING"]
  /\ token' = [token EXCEPT ![t].cutoff = sched.cutoff]
  /\ runs' = [runs EXCEPT ![t].status = "STARTED", ![t].scheduled = "yes"]
  /\ proc' = [proc EXCEPT ![w] = [NoPurge EXCEPT !.pc = "open", !.t = t, !.scheduled = "yes"]]
  /\ UNCHANGED <<log, wrote, archive, deleted, check>>
ClaimLost(w) ==
  /\ ProcAt(w, "due") /\ sched.status # "SCHEDULED" /\ proc' = [proc EXCEPT ![w] = NoPurge]
  /\ UNCHANGED <<log, wrote, token, runs, sched, archive, deleted, check>>

PurgeStep(w) ==
  \/ OpenArchive(w) \/ failRun(w) \/ ScanBatch(w) \/ ScanEnd(w) \/ MarkArchived(w) \/ SelectIds(w)
  \/ DeleteBatch(w) \/ DeleteFails(w) \/ CompleteRun(w) \/ AuditPurge(w) \/ CrashPurge(w)

\* Purges on request while rows are written and held; a hold is never lifted.
PurgeNext ==
  \/ Event
  \/ \E t \in ConfirmTokens, c \in 1..MaxRows : previewPurge(t, c)
  \/ \E w \in Purgers, t \in ConfirmTokens : purgeOlderThan(w, t)
  \/ \E w \in Purgers : PurgeStep(w)
  \/ \E r \in log : setHold(r)
\* Scheduled purges.
ScheduleNext ==
  \/ Event \/ cancelPurgeSchedule
  \/ \E c \in 1..MaxRows : schedulePurge(c)
  \/ \E w \in Purgers : runDueScheduledPurges(w) \/ ClaimLost(w) \/ PurgeStep(w)
  \/ \E w \in Purgers, t \in ConfirmTokens : ClaimSchedule(w, t)
\* Verification while rows are written, held and anonymized, and no purge runs.
VerifyNext ==
  \/ Event \/ anonymizeUser \/ verifyIntegrity \/ VerifyBatch \/ saveIntegrityRun
  \/ \E r \in log : setHold(r) \/ clearHold(r)
\* Purges of both kinds, then everything but the lifting of a hold, and everything.
PurgesNext == PurgeNext \/ ScheduleNext \/ anonymizeUser
KeepNext  == PurgesNext \/ verifyIntegrity \/ VerifyBatch \/ saveIntegrityRun
ChainNext == KeepNext \/ \E r \in log : clearHold(r)

PurgesSpec == ChainInit /\ [][PurgesNext]_chainVars
VerifySpec == ChainInit /\ [][VerifyNext]_chainVars
KeepSpec   == ChainInit /\ [][KeepNext]_chainVars
ChainSpec  == ChainInit /\ [][ChainNext]_chainVars

-----------------------------------------------------------------------------
(* Properties. *)

ChainTypeOK ==
  /\ wrote \in 0..MaxRows /\ \A r \in log : r.seq \in Nat \ {0} /\ r.facts \in 1..wrote /\ r.held \in {"yes", "no"}
  /\ \A t \in ConfirmTokens : runs[t].status \in {"none", "STARTED", "ARCHIVED", "FAILED", "COMPLETED"}
  /\ \A w \in Purgers : proc[w].pc \in {"idle", "due", "open", "scan", "mark", "select", "delete", "complete", "audit"}
  /\ sched.status \in {"none", "SCHEDULED", "RUNNING", "EXECUTED", "FAILED", "CANCELLED"}
  /\ archive \cup deleted \subseteq 1..wrote

\* A purge never removes the newest row, so the chain never starts again at 1 and no number is
\* given to two rows: the row written as the n-th has seq n.
SeqNeverReused == \A r \in log : r.seq = r.facts

\* Whatever purges have done or left half done, a scan of the log as it stands finds no break:
\* every gap is explained by a run that has recorded its range before it deleted.
VerifiableNow == \A r \in log : RowHolds(purgedSeqRanges, Before(log, r), r)

\* A verification that runs beside other operations reports no break nobody made.
NoFalseAlarm == check.ok = "yes"

\* What a purge deletes is in a finished archive.
DeletedIsArchived == deleted \subseteq archive

\* The log and its archives stay one verifiable record, whatever purges left behind, finished
\* or not: no number is given twice (record, previewPurge), a scan finds no break
\* (purgedSeqRanges), also one in batches beside writes, holds and anonymization
\* (verifyIntegrity), and every purged row is in a finished archive (purgeOlderThan).
ChainStaysVerifiable == SeqNeverReused /\ VerifiableNow /\ DeletedIsArchived /\ NoFalseAlarm

\* No step deletes a row that is under legal hold at that moment.
HeldRowsStay == \A r \in log : r.held = "yes" => \E x \in log' : x.facts = r.facts

\* Of the workers that see a schedule due, one runs the purge.
ScheduledOnce == Cardinality({t \in ConfirmTokens : runs[t].scheduled = "yes"}) <= 1
=============================================================================
