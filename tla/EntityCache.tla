---------------------------- MODULE EntityCache -----------------------------
(***************************************************************************)
(* infrastructure/redis/cache.service.ts: one database value, its copies   *)
(* in Redis, and the processes that read through the cache and invalidate  *)
(* it after a write.  Every access to Redis or the database is a step of   *)
(* its own.  Four protocols guard a late write-back of a value that was    *)
(* loaded before an invalidation:                                          *)
(*   "entity"  wrapEntity: store only if the generation did not change     *)
(*   "scoped"  wrapScoped: the version is part of the key                  *)
(*   "legacy"  get, then set unless a tombstone of the invalidation stands *)
(*   "plain"   wrap: nothing (statistics, session checks)                  *)
(* Values are numbered in the order they were committed.                   *)
(***************************************************************************)
EXTENDS Naturals, FiniteSets

CONSTANTS
  Protocol, Procs, Readers, Writers,
  MaxWrites, MaxFailures,  \* bounds: commits; failing Redis calls and restarts
  Overlap                \* "yes" or "no": may a call fail while another call of its process is being answered?

VARIABLES
  db,      \* the committed value
  gen,     \* the generation or version key, 0 while it does not exist
  issued,  \* tokens issued so far (newToken)
  tomb,    \* the tombstone key
  copy,    \* copy[k]: the value cached under key k, 0 for none; k is the version when scoped
  queue,   \* queue[p]: the failed invalidation p retries (the newest value it was for), 0 for none
  firstAt, \* firstAt[p]: the value of the first failure that queue[p] stands for: it dates the entry
  needsPurge, \* the processes whose queue had no room for a failed invalidation
  flush,   \* flush[p]: the retry being answered, 0 for none
  reader, writer,
  shared,  \* history: the newest value whose invalidation has succeeded
  own,     \* history: own[p], the newest value written on p whose invalidation p has made or retries
  failures

retry == <<queue, firstAt, needsPurge>>
cacheVars == <<db, gen, issued, tomb, copy, retry, flush, reader, writer, shared, own, failures>>

Tokens == 0..(MaxWrites + MaxFailures)
Later(a, b) == IF a > b THEN a ELSE b
Lesser(a, b) == IF a > b THEN b ELSE a
NotReading == [pc |-> "idle", proc |-> "none", gen |-> 0, val |-> 0, floor |-> 0, own |-> 0]
NotWriting == [pc |-> "idle", proc |-> "none", val |-> 0]

CacheInit ==
  /\ db = 1 /\ gen = 0 /\ issued = 0 /\ tomb = "off" /\ copy = [k \in Tokens |-> 0]
  /\ queue = [p \in Procs |-> 0] /\ firstAt = [p \in Procs |-> 0] /\ needsPurge = {} /\ flush = [p \in Procs |-> 0]
  /\ reader = [r \in Readers |-> NotReading] /\ writer = [w \in Writers |-> NotWriting]
  /\ shared = 0 /\ own = [p \in Procs |-> 0] /\ failures = 0

Failure == failures < MaxFailures /\ failures' = failures + 1
redis == <<gen, issued, tomb, copy>>
writing == <<db, retry, flush, writer, shared, own>>

-----------------------------------------------------------------------------
(* Readers. *)

Start(r, p) ==
  /\ reader[r].pc \in {"idle", "done"}
  /\ reader' = [reader EXCEPT ![r] = [NotReading EXCEPT !.pc = "look", !.proc = p, !.floor = shared, !.own = own[p]]]
  /\ UNCHANGED <<redis, writing, failures>>
Return(r, v) == reader' = [reader EXCEPT ![r].pc = "done", ![r].val = v]
To(r, pc) == reader' = [reader EXCEPT ![r].pc = pc]

\* wrapEntity and wrapScoped bypass the cache while their own invalidation is still to be retried.
Queued_Fault(r) == FALSE
Queued(r) == Protocol \in {"entity", "scoped"} /\ queue[reader[r].proc] # 0
\* Redis is unreachable, the cache is switched off, or an invalidation is queued: the factory alone.
Bypass(r) ==
  /\ reader[r].pc \in {"look", "gen"} /\ Return(r, db) /\ UNCHANGED <<redis, writing, failures>>
Look(r) ==
  /\ reader[r].pc = "look" /\ ~Queued(r)
  /\ IF Protocol = "scoped" THEN To(r, "gen")
     ELSE IF copy[0] # 0 THEN Return(r, copy[0])
     ELSE To(r, IF Protocol = "entity" THEN "gen" ELSE "load")
  /\ UNCHANGED <<redis, writing, failures>>
\* The generation, read before the factory runs; for a list, the version that names its key.
getVersion(r) ==
  /\ reader[r].pc = "gen"
  /\ reader' = [reader EXCEPT ![r].gen = gen, ![r].pc = IF Protocol = "scoped" THEN "get" ELSE "load"]
  /\ UNCHANGED <<redis, writing, failures>>
Key(r) == IF Protocol = "scoped" THEN reader[r].gen ELSE 0
getScoped(r) ==
  /\ reader[r].pc = "get"
  /\ IF copy[Key(r)] # 0 THEN Return(r, copy[Key(r)]) ELSE To(r, "load")
  /\ UNCHANGED <<redis, writing, failures>>
Factory(r) ==
  /\ reader[r].pc = "load"
  /\ reader' = [reader EXCEPT ![r].val = db, ![r].pc = "store"] /\ UNCHANGED <<redis, writing, failures>>
SameFlight_Fault(r, s) == r # s /\ reader[r].proc = reader[s].proc
\* One factory call per key and generation per process; the others share its result.
SameFlight(r, s) == r # s /\ reader[r].proc = reader[s].proc /\ reader[r].gen = reader[s].gen
singleFlight(r, s) ==
  /\ Protocol # "legacy" /\ reader[r].pc = "load" /\ reader[s].pc = "store" /\ SameFlight(r, s)
  /\ Return(r, reader[s].val) /\ UNCHANGED <<redis, writing, failures>>
MayStore_Fault(r) == TRUE
\* The script that writes back decides on the state of Redis at that moment.
MayStore(r) ==
  CASE Protocol = "entity" -> gen = reader[r].gen
    [] Protocol = "legacy" -> tomb = "off"
    [] OTHER -> TRUE
Store(r) ==
  /\ reader[r].pc = "store" /\ Return(r, reader[r].val)
  /\ copy' = IF MayStore(r) THEN [copy EXCEPT ![Key(r)] = reader[r].val] ELSE copy
  /\ UNCHANGED <<gen, issued, tomb, writing, failures>>
\* The write-back fails: the value is served all the same.
StoreFails(r) ==
  /\ reader[r].pc = "store" /\ Return(r, reader[r].val) /\ UNCHANGED <<redis, writing, failures>>

Read(r) ==
  \/ \E p \in Procs : Start(r, p)
  \/ Bypass(r) \/ Look(r) \/ getVersion(r) \/ getScoped(r) \/ Factory(r) \/ Store(r) \/ StoreFails(r)
  \/ \E s \in Readers : singleFlight(r, s)

-----------------------------------------------------------------------------
(* Writers, and the retry queue of each process. *)

Commit(w, p) ==
  /\ writer[w].pc = "idle" /\ db < MaxWrites + 1
  /\ db' = db + 1 /\ writer' = [writer EXCEPT ![w] = [pc |-> "invalidate", proc |-> p, val |-> db + 1]]
  /\ UNCHANGED <<redis, retry, flush, reader, shared, own, failures>>
\* The INVALIDATE script: a new token, a tombstone, and the entity's key deleted.  There are
\* enough Tokens: no write needs a second one.
INVALIDATE ==
  /\ issued + 1 \in Tokens
  /\ gen' = issued + 1 /\ issued' = issued + 1 /\ tomb' = "on"
  /\ copy' = IF Protocol = "scoped" THEN copy ELSE [copy EXCEPT ![0] = 0]
invalidateEntity(w) ==
  /\ writer[w].pc = "invalidate" /\ INVALIDATE
  /\ writer' = [writer EXCEPT ![w].pc = "answered"] /\ UNCHANGED <<db, retry, flush, reader, shared, own, failures>>
\* retryQueue.delete
Unqueue(p) == queue' = [queue EXCEPT ![p] = 0] /\ firstAt' = [firstAt EXCEPT ![p] = 0]
\* guarded: the call succeeded, so nothing is left to retry.
guarded(w) ==
  /\ writer[w].pc = "answered"
  /\ Unqueue(writer[w].proc) /\ shared' = Later(shared, writer[w].val)
  /\ own' = [own EXCEPT ![writer[w].proc] = Later(@, writer[w].val)]
  /\ writer' = [writer EXCEPT ![w] = NotWriting] /\ UNCHANGED <<redis, db, needsPurge, flush, reader, failures>>
BeingAnswered(p) == flush[p] # 0 \/ \E w \in Writers : writer[w].pc = "answered" /\ writer[w].proc = p
\* guarded: the call failed; the request is answered and the invalidation queued.  An entry that
\* is there already keeps its age.
enqueue(w) ==
  /\ writer[w].pc = "invalidate" /\ Failure /\ (Overlap = "yes" \/ ~BeingAnswered(writer[w].proc))
  /\ queue' = [queue EXCEPT ![writer[w].proc] = Later(@, writer[w].val)]
  /\ firstAt' = [firstAt EXCEPT ![writer[w].proc] = IF @ = 0 THEN writer[w].val ELSE @]
  /\ own' = [own EXCEPT ![writer[w].proc] = Later(@, writer[w].val)]
  /\ writer' = [writer EXCEPT ![w] = NotWriting] /\ UNCHANGED <<redis, db, needsPurge, flush, reader, shared>>
\* RETRY_QUEUE_MAX other keys are queued: nothing is, and the process's reads go on as before.
enqueueNoRoom(w) ==
  /\ writer[w].pc = "invalidate" /\ Failure /\ queue[writer[w].proc] = 0
  /\ needsPurge' = needsPurge \cup {writer[w].proc}
  /\ writer' = [writer EXCEPT ![w] = NotWriting] /\ UNCHANGED <<redis, db, queue, firstAt, flush, reader, shared, own>>
flushRetryQueue(p) ==
  /\ queue[p] # 0 /\ flush[p] = 0 /\ INVALIDATE
  /\ flush' = [flush EXCEPT ![p] = queue[p]] /\ UNCHANGED <<db, retry, reader, writer, shared, own, failures>>
FlushAnswered(p) ==
  /\ flush[p] # 0 /\ Unqueue(p) /\ shared' = Later(shared, flush[p])
  /\ flush' = [flush EXCEPT ![p] = 0] /\ UNCHANGED <<redis, db, needsPurge, reader, writer, own, failures>>
\* RETRY_MAX_AGE_MS have passed since the first failure, longer than a value cached before it
\* lives and any request lasts.  What was written later is given up with it.
retryDropped(p) ==
  /\ queue[p] # 0 /\ flush[p] = 0 /\ \A k \in Tokens : copy[k] = 0 \/ copy[k] >= firstAt[p]
  /\ \A r \in Readers : reader[r].pc # "store" \/ reader[r].val >= firstAt[p]
  /\ Unqueue(p) /\ own' = [own EXCEPT ![p] = Lesser(@, firstAt[p])]
  /\ reader' = [r \in Readers |-> IF reader[r].proc = p THEN [reader[r] EXCEPT !.own = Lesser(@, firstAt[p])]
                                  ELSE reader[r]]
  /\ UNCHANGED <<redis, db, needsPurge, flush, writer, shared, failures>>
\* Every cached value goes; generations, versions and loads in flight stay.
purgeAll(p) ==
  /\ p \in needsPurge /\ needsPurge' = needsPurge \ {p} /\ copy' = [k \in Tokens |-> 0]
  /\ UNCHANGED <<db, gen, issued, tomb, queue, firstAt, flush, reader, writer, shared, own, failures>>
\* A process ends, and with it its queue; the next one has answered no request yet.
Restart(p) ==
  /\ Failure /\ Unqueue(p) /\ needsPurge' = needsPurge \ {p}
  /\ flush' = [flush EXCEPT ![p] = 0] /\ own' = [own EXCEPT ![p] = 0]
  /\ reader' = [r \in Readers |-> IF reader[r].proc = p THEN NotReading ELSE reader[r]]
  /\ writer' = [w \in Writers |-> IF writer[w].proc = p THEN NotWriting ELSE writer[w]]
  /\ UNCHANGED <<redis, db, shared>>

Write(w) == (\E p \in Procs : Commit(w, p)) \/ invalidateEntity(w) \/ guarded(w)
            \/ enqueue(w) \/ enqueueNoRoom(w)
Process(p) == flushRetryQueue(p) \/ FlushAnswered(p) \/ retryDropped(p) \/ purgeAll(p) \/ Restart(p)

-----------------------------------------------------------------------------
(* Keys expire. *)

CopyExpires(k) ==
  /\ copy[k] # 0 /\ copy' = [copy EXCEPT ![k] = 0] /\ UNCHANGED <<gen, issued, tomb, reader, writing, failures>>
\* TTL.TOMBSTONE (10 s) is longer than a load.
TombExpires ==
  /\ tomb = "on" /\ \A r \in Readers : reader[r].pc # "store"
  /\ tomb' = "off" /\ UNCHANGED <<gen, issued, copy, reader, writing, failures>>
\* TTL.ENTITY_GEN (a day) is longer than a load, and than any copy made before the key was set.
GenExpires ==
  /\ gen # 0 /\ \A r \in Readers : reader[r].pc \in {"get", "load", "store"} => reader[r].gen # 0
  /\ Protocol = "scoped" => copy[0] = 0
  /\ gen' = 0 /\ UNCHANGED <<issued, tomb, copy, reader, writing, failures>>

CacheNext ==
  \/ \E r \in Readers : Read(r)
  \/ \E w \in Writers : Write(w)
  \/ \E p \in Procs : Process(p)
  \/ (\E k \in Tokens : CopyExpires(k)) \/ TombExpires \/ GenExpires
CacheSpec == CacheInit /\ [][CacheNext]_cacheVars

CacheTypeOK ==
  /\ db \in 1..(MaxWrites + 1) /\ gen \in Tokens /\ issued \in Tokens /\ tomb \in {"on", "off"}
  /\ copy \in [Tokens -> 0..(MaxWrites + 1)]
  /\ queue \in [Procs -> 0..(MaxWrites + 1)] /\ firstAt \in [Procs -> 0..(MaxWrites + 1)] /\ needsPurge \subseteq Procs
  /\ \A r \in Readers : reader[r].pc \in {"idle", "look", "gen", "get", "load", "store", "done"}
  /\ \A w \in Writers : writer[w].pc \in {"idle", "invalidate", "answered"}

\* An invalidation that has succeeded is respected by every read that starts after it, on every
\* process, whatever loads were in flight, shared or written back late (SET_IF_VERSION, 34).
InvalidationRespected == \A r \in Readers : reader[r].pc = "done" => reader[r].val >= reader[r].floor

\* A process serves what its own requests have written even while Redis refuses the
\* invalidation: it bypasses the cache until the retry has succeeded (418, 364).  It does so as
\* long as it retries: a write whose invalidation found no room in the queue (505) is not
\* covered, nor, once the entry is dropped (523), one that failed after the entry's first.
OwnWritesSeen == \A r \in Readers : reader[r].pc = "done" => reader[r].val >= reader[r].own

\* A read that starts after an invalidation succeeded never returns an older value (wrapEntity,
\* wrapScoped, setEntityLegacy), and a process serves its own writes also while Redis refuses
\* the invalidation and it retries (guarded, isQueued; the legacy calls do not look at the queue).
CacheCoherent == InvalidationRespected /\ (Protocol \in {"entity", "scoped"} => OwnWritesSeen)
=============================================================================
