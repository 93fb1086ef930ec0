--------------------------- MODULE PlatformProofs ---------------------------
(***************************************************************************)
(* The entity cache, the broadcasts and the notifications, for all values  *)
(* of their constants.                                                     *)
(*                                                                         *)
(* The cache is coherent, for any number of processes, requests, writes    *)
(* and failures.  The argument is about the values on offer: the copy a    *)
(* new read would find, and the loads in flight whose write-back Redis     *)
(* would accept now.  No step puts another value on offer than the one in  *)
(* the database (OffersStep), and an invalidation leaves none              *)
(* (NoneOffered): it issues a token no load carries, or sets the           *)
(* tombstone, and drops the copy or names a key nobody has written.  So    *)
(* whatever is on offer is at least as new as every invalidation that has  *)
(* run, and as every write of a process that has invalidated it or still   *)
(* retries to: own[p], which a dropped entry lowers again.  While an entry *)
(* is queued the process does not look at the offer; when it is dropped,   *)
(* the copies older than its first failure are gone, and no more than that *)
(* is kept.  A read takes what was on offer at some moment after it began. *)
(*                                                                         *)
(* A broadcast, with its fan-out, its faults, the approvals, the stops and *)
(* the delivery queue all at work: everybody gets one copy, COMPLETED      *)
(* means that everybody has it, nothing of a large broadcast goes out      *)
(* unapproved, and a delivery on hold stays there until somebody retries.  *)
(***************************************************************************)
EXTENDS EntityCache, Broadcast, FiniteSetTheorems, TLAPS


\* The protocols that guard the write-back, and bounds that are numbers.
Guarded == Protocol \in {"entity", "scoped", "legacy"} /\ MaxWrites \in Nat /\ MaxFailures \in Nat
\* Where a process is to see its own writes.
OwnKept == Protocol \in {"entity", "scoped"} /\ Overlap = "no"

ReaderState == [pc : {"idle", "look", "gen", "get", "load", "store", "done"},
                proc : Procs \cup {"none"}, gen : Nat, val : Nat, floor : Nat, own : Nat]
WriterState == [pc : {"idle", "invalidate", "answered"}, proc : Procs \cup {"none"}, val : Nat]

CacheShape ==
  /\ db \in Nat /\ shared \in Nat /\ gen \in Tokens /\ issued \in Tokens
  /\ copy \in [Tokens -> Nat]
  /\ queue \in [Procs -> Nat] /\ firstAt \in [Procs -> Nat]
  /\ flush \in [Procs -> Nat] /\ own \in [Procs -> Nat]
  /\ reader \in [Readers -> ReaderState] /\ writer \in [Writers -> WriterState]

\* Nothing is newer than the database, no token newer than the last one issued.
Bounded ==
  /\ shared <= db /\ gen <= issued
  /\ \A p \in Procs : own[p] <= db /\ queue[p] <= db /\ flush[p] <= db
  /\ \A w \in Writers : writer[w].val <= db /\ (writer[w].pc # "idle" => writer[w].proc \in Procs)
  /\ \A k \in Tokens : k > issued => copy[k] = 0

ReaderBounds ==
  \A r \in Readers :
    /\ reader[r].gen <= issued
    /\ reader[r].pc # "idle" => /\ reader[r].proc \in Procs /\ reader[r].floor <= shared
                                /\ reader[r].own <= own[reader[r].proc]
    /\ reader[r].pc = "gen" => Protocol # "legacy"
    /\ reader[r].pc = "get" => Protocol = "scoped"

\* The key a read would use now, the loads that would be stored now, and the values on offer.
Cur == IF Protocol = "scoped" THEN gen ELSE 0
Current(s) ==
  reader[s].pc = "store" /\ (IF Protocol = "legacy" THEN tomb = "off" ELSE reader[s].gen = gen)
Offered(v) ==
  (v # 0 /\ v = copy[Cur]) \/ \E s \in Readers : Current(s) /\ v = reader[s].val

\* On offer is nothing older than an invalidation that has run, answered or not.
OfferedIsNew ==
  \A v \in Nat : Offered(v) =>
    /\ v >= shared
    /\ \A w \in Writers : writer[w].pc = "answered" => v >= writer[w].val
    /\ \A p \in Procs : v >= flush[p]

\* Nor anything older than a process's own writes, unless it is still to retry the newest.
OfferedIsOwn ==
  OwnKept => \A v \in Nat : Offered(v) =>
    /\ \A p \in Procs : v >= own[p] \/ (queue[p] # 0 /\ ~BeingAnswered(p) /\ v < queue[p])
    /\ \A r \in Readers : reader[r].pc = "gen" => v >= reader[r].own

Enough(r, v) == v >= reader[r].floor /\ (OwnKept => v >= reader[r].own)

\* A load under the generation a reader has seen is new enough for that reader.
FlightIsEnough ==
  Protocol # "legacy" =>
    \A r, s \in Readers :
      /\ reader[r].pc \in {"get", "load", "store"} /\ reader[s].pc = "store"
      /\ reader[r].gen = reader[s].gen
      => Enough(r, reader[s].val)

\* So is the copy under the version it is about to look up, and what it serves.
ServedIsEnough ==
  \A r \in Readers :
    /\ reader[r].pc = "get" /\ copy[reader[r].gen] # 0 => Enough(r, copy[reader[r].gen])
    /\ reader[r].pc \in {"store", "done"} => Enough(r, reader[r].val)

CacheInv ==
  /\ CacheShape /\ Bounded /\ ReaderBounds
  /\ OfferedIsNew /\ OfferedIsOwn /\ FlightIsEnough /\ ServedIsEnough

-----------------------------------------------------------------------------
(* What a step of a reader does. *)

ReadsTo(r, u) ==
  \/ u.pc = "look" /\ u.gen = 0 /\ u.proc \in Procs /\ u.floor = shared /\ u.own = own[u.proc]
  \/ /\ reader[r].pc # "idle"
     /\ u.proc = reader[r].proc /\ u.floor = reader[r].floor /\ u.own = reader[r].own
     /\ \/ /\ u.pc = "gen" /\ u.gen = reader[r].gen /\ Protocol # "legacy"
           /\ OwnKept => \A v \in Nat : Offered(v) => v >= u.own
        \/ /\ u.pc \in {"get", "load"} /\ u.gen = gen /\ reader[r].pc = "gen"
           /\ u.pc = "get" => Protocol = "scoped"
        \/ /\ u.pc = "load" /\ u.gen = reader[r].gen
           /\ Protocol = "legacy" \/ reader[r].pc = "get"
        \/ u.pc = "store" /\ u.gen = reader[r].gen /\ reader[r].pc = "load" /\ u.val = db
        \/ u.pc = "done" /\ u.gen = reader[r].gen /\ Enough(r, u.val)

Reads(r, u) ==
  /\ ReadsTo(r, u) /\ reader' = [reader EXCEPT ![r] = u]
  /\ UNCHANGED <<gen, issued, tomb, writing>>
  /\ \/ UNCHANGED copy
     \/ /\ reader[r].pc = "store" /\ MayStore(r)
        /\ copy' = [copy EXCEPT ![Key(r)] = reader[r].val]

\* Both fields Return sets.
LEMMA Returned ==
  ASSUME NEW r \in Readers, NEW v \in Nat, reader \in [Readers -> ReaderState], Return(r, v)
  PROVE  \E u \in ReaderState :
           /\ reader' = [reader EXCEPT ![r] = u]
           /\ u.pc = "done" /\ u.val = v /\ u.gen = reader[r].gen
           /\ u.proc = reader[r].proc /\ u.floor = reader[r].floor /\ u.own = reader[r].own
  <1> DEFINE u == [reader[r] EXCEPT !.pc = "done", !.val = v]
  <1>1. u \in ReaderState /\ u.pc = "done" /\ u.val = v /\ u.gen = reader[r].gen
        /\ u.proc = reader[r].proc /\ u.floor = reader[r].floor /\ u.own = reader[r].own
    BY DEF ReaderState
  <1>2. reader' = [reader EXCEPT ![r] = u]
    BY DEF Return, ReaderState
  <1> QED
    BY <1>1, <1>2

LEMMA Moved ==
  ASSUME NEW r \in Readers, NEW to \in {"gen", "load"}, reader \in [Readers -> ReaderState],
         To(r, to)
  PROVE  \E u \in ReaderState :
           /\ reader' = [reader EXCEPT ![r] = u]
           /\ u.pc = to /\ u.gen = reader[r].gen
           /\ u.proc = reader[r].proc /\ u.floor = reader[r].floor /\ u.own = reader[r].own
  <1> DEFINE u == [reader[r] EXCEPT !.pc = to]
  <1>1. u \in ReaderState /\ u.pc = to /\ u.gen = reader[r].gen
        /\ u.proc = reader[r].proc /\ u.floor = reader[r].floor /\ u.own = reader[r].own
    BY DEF ReaderState
  <1>2. reader' = [reader EXCEPT ![r] = u]
    BY DEF To, ReaderState
  <1> QED
    BY <1>1, <1>2

\* A value on offer while the process has nothing to retry is new enough for its readers.
LEMMA OfferIsEnough ==
  ASSUME CacheInv, NEW r \in Readers, reader[r].pc = "look", NEW v \in Nat, Offered(v)
  PROVE  /\ v >= reader[r].floor
         /\ ~Queued(r) => Enough(r, v)
  <1>1. /\ reader[r].proc \in Procs /\ reader[r].floor <= shared /\ v >= shared
        /\ reader[r].own <= own[reader[r].proc]
    BY DEF CacheInv, ReaderBounds, OfferedIsNew
  <1>2. /\ shared \in Nat /\ reader[r].floor \in Nat /\ reader[r].own \in Nat
        /\ own[reader[r].proc] \in Nat
    BY <1>1 DEF CacheInv, CacheShape, ReaderState
  <1>3. ASSUME ~Queued(r), OwnKept PROVE v >= reader[r].own
    <2>1. queue[reader[r].proc] = 0
      BY <1>3 DEF Queued, OwnKept
    <2>2. v >= own[reader[r].proc]
      BY <1>1, <1>3, <2>1 DEF CacheInv, OfferedIsOwn
    <2> QED
      BY <1>1, <1>2, <2>2
  <1> QED
    BY <1>1, <1>2, <1>3 DEF Enough

LEMMA ReadEffect ==
  ASSUME Guarded, CacheInv, NEW r \in Readers, Read(r)
  PROVE  \E u \in ReaderState : Reads(r, u)
  <1>0. /\ reader \in [Readers -> ReaderState] /\ db \in Nat /\ copy \in [Tokens -> Nat]
        /\ shared \in Nat /\ own \in [Procs -> Nat] /\ 0 \in Tokens
    BY DEF CacheInv, CacheShape, Guarded, Tokens
  <1>1. ASSUME NEW v \in Nat, Enough(r, v), Return(r, v), reader[r].pc # "idle",
               UNCHANGED <<redis, writing>>
        PROVE  \E u \in ReaderState : Reads(r, u)
    BY <1>0, <1>1, Returned DEF Reads, ReadsTo, Enough, redis
  <1>2. reader[r].pc # "idle" => Enough(r, db)
    BY <1>0 DEF CacheInv, Bounded, ReaderBounds, Enough, CacheShape, ReaderState
  <1>3. ASSUME NEW p \in Procs, Start(r, p) PROVE \E u \in ReaderState : Reads(r, u)
    <2> DEFINE u == [NotReading EXCEPT !.pc = "look", !.proc = p, !.floor = shared, !.own = own[p]]
    <2>1. u \in ReaderState /\ u.pc = "look" /\ u.gen = 0 /\ u.proc = p /\ u.floor = shared
          /\ u.own = own[p]
      BY <1>0 DEF NotReading, ReaderState
    <2>2. reader' = [reader EXCEPT ![r] = u] /\ UNCHANGED <<redis, writing>>
      BY <1>3 DEF Start
    <2> HIDE DEF u
    <2> QED
      BY <2>1, <2>2 DEF Reads, ReadsTo, redis
  <1>4. CASE Bypass(r)
    BY <1>0, <1>1, <1>2, <1>4 DEF Bypass
  <1>5. CASE Look(r)
    <2>1. reader[r].pc = "look" /\ ~Queued(r) /\ UNCHANGED <<redis, writing>>
      BY <1>5 DEF Look
    <2>2. ASSUME NEW v \in Nat, Offered(v) PROVE Enough(r, v)
      BY <2>1, <2>2, OfferIsEnough
    <2>3. CASE Protocol # "legacy" /\ To(r, "gen")
      BY <1>0, <2>1, <2>2, <2>3, Moved DEF Reads, ReadsTo, Enough, redis
    <2>4. CASE Protocol # "scoped" /\ copy[0] # 0 /\ Return(r, copy[0])
      <3>1. Offered(copy[0]) /\ copy[0] \in Nat
        BY <1>0, <2>4 DEF Offered, Cur
      <3> QED
        BY <1>1, <2>1, <2>2, <2>4, <3>1
    <2>5. CASE Protocol = "legacy" /\ To(r, "load")
      BY <1>0, <2>1, <2>5, Moved DEF Reads, ReadsTo, redis
    <2> QED
      BY <1>5, <2>3, <2>4, <2>5 DEF Look, Guarded
  <1>6. CASE getVersion(r)
    <2> DEFINE to == IF Protocol = "scoped" THEN "get" ELSE "load"
               u == [reader[r] EXCEPT !.gen = gen, !.pc = to]
    <2>1. gen \in Nat /\ to \in {"get", "load"} /\ (to = "get" => Protocol = "scoped")
      BY DEF CacheInv, CacheShape, Tokens
    <2>2. reader' = [reader EXCEPT ![r] = u] /\ UNCHANGED <<redis, writing>> /\ reader[r].pc = "gen"
      BY <1>0, <1>6 DEF getVersion, ReaderState
    <2> HIDE DEF to
    <2>3. u \in ReaderState /\ u.pc = to /\ u.gen = gen
          /\ u.proc = reader[r].proc /\ u.floor = reader[r].floor /\ u.own = reader[r].own
      BY <1>0, <2>1 DEF ReaderState
    <2> HIDE DEF u
    <2> QED
      BY <2>1, <2>2, <2>3 DEF Reads, ReadsTo, redis
  <1>7. CASE getScoped(r)
    <2>1. reader[r].pc = "get" /\ UNCHANGED <<redis, writing>> /\ Protocol = "scoped"
      BY <1>7 DEF getScoped, CacheInv, ReaderBounds
    <2>2. reader[r].gen \in Tokens /\ Key(r) = reader[r].gen
      BY <1>0, <2>1 DEF CacheInv, CacheShape, ReaderBounds, ReaderState, Tokens, Key, Guarded
    <2>3. CASE copy[Key(r)] # 0 /\ Return(r, copy[Key(r)])
      <3>1. Enough(r, copy[Key(r)]) /\ copy[Key(r)] \in Nat
        BY <1>0, <2>1, <2>2, <2>3 DEF CacheInv, ServedIsEnough
      <3> QED
        BY <1>1, <2>1, <2>3, <3>1
    <2>4. CASE To(r, "load")
      BY <1>0, <2>1, <2>4, Moved DEF Reads, ReadsTo, redis
    <2> QED
      BY <1>7, <2>3, <2>4 DEF getScoped
  <1>8. CASE Factory(r)
    <2> DEFINE u == [reader[r] EXCEPT !.val = db, !.pc = "store"]
    <2>1. reader' = [reader EXCEPT ![r] = u] /\ UNCHANGED <<redis, writing>> /\ reader[r].pc = "load"
      BY <1>0, <1>8 DEF Factory, ReaderState
    <2>2. u \in ReaderState /\ u.pc = "store" /\ u.val = db /\ u.gen = reader[r].gen
          /\ u.proc = reader[r].proc /\ u.floor = reader[r].floor /\ u.own = reader[r].own
      BY <1>0 DEF ReaderState
    <2> HIDE DEF u
    <2> QED
      BY <2>1, <2>2 DEF Reads, ReadsTo, redis
  <1>9. CASE Store(r)
    <2>1. reader[r].pc = "store" /\ reader[r].val \in Nat /\ Enough(r, reader[r].val)
      BY <1>0, <1>9 DEF Store, CacheInv, ServedIsEnough, ReaderState
    <2>2. PICK u \in ReaderState :
             /\ reader' = [reader EXCEPT ![r] = u]
             /\ u.pc = "done" /\ u.val = reader[r].val /\ u.gen = reader[r].gen
             /\ u.proc = reader[r].proc /\ u.floor = reader[r].floor /\ u.own = reader[r].own
      BY <1>0, <1>9, <2>1, Returned DEF Store
    <2> QED
      BY <1>9, <2>1, <2>2 DEF Store, Reads, ReadsTo, Enough
  <1>10. CASE StoreFails(r)
    <2>1. reader[r].pc = "store" /\ reader[r].val \in Nat /\ Enough(r, reader[r].val)
      BY <1>0, <1>10 DEF StoreFails, CacheInv, ServedIsEnough, ReaderState
    <2> QED
      BY <1>1, <1>10, <2>1 DEF StoreFails
  <1>11. ASSUME NEW s \in Readers, singleFlight(r, s) PROVE \E u \in ReaderState : Reads(r, u)
    <2>1. Enough(r, reader[s].val) /\ reader[s].val \in Nat /\ reader[r].pc # "idle"
      BY <1>0, <1>11 DEF singleFlight, SameFlight, CacheInv, FlightIsEnough, ReaderState
    <2> QED
      BY <1>1, <1>11, <2>1 DEF singleFlight
  <1> QED
    BY <1>3, <1>4, <1>5, <1>6, <1>7, <1>8, <1>9, <1>10, <1>11 DEF Read

-----------------------------------------------------------------------------
(* The values on offer. *)

LEMMA KeysAreTokens ==
  ASSUME Guarded, CacheInv
  PROVE  0 \in Tokens /\ Cur \in Tokens /\ \A r \in Readers : Key(r) \in Tokens
  BY DEF Guarded, CacheInv, CacheShape, ReaderBounds, ReaderState, Tokens, Cur, Key

\* A step of a reader offers at most the value in the database.
LEMMA ReadOffers ==
  ASSUME Guarded, CacheInv, NEW r \in Readers, NEW u \in ReaderState, Reads(r, u),
         NEW v \in Nat, Offered(v)'
  PROVE  Offered(v) \/ v = db
  <1>0. reader \in [Readers -> ReaderState] /\ copy \in [Tokens -> Nat]
    BY DEF CacheInv, CacheShape
  <1>1. Cur' = Cur /\ UNCHANGED <<gen, tomb>> /\ reader' = [reader EXCEPT ![r] = u]
    BY DEF Reads, Cur
  <1>2. ASSUME NEW s \in Readers, Current(s)', v = reader'[s].val PROVE Offered(v) \/ v = db
    <2>1. CASE s # r
      BY <1>0, <1>1, <1>2, <2>1 DEF Offered, Current
    <2>2. CASE s = r
      BY <1>0, <1>1, <1>2, <2>2 DEF Current, Reads, ReadsTo
    <2> QED
      BY <2>1, <2>2
  <1>3. ASSUME v # 0, v = copy'[Cur'] PROVE Offered(v)
    <2>1. CASE UNCHANGED copy
      BY <1>1, <1>3, <2>1 DEF Offered
    <2>2. CASE /\ reader[r].pc = "store" /\ MayStore(r)
               /\ copy' = [copy EXCEPT ![Key(r)] = reader[r].val]
      <3>1. CASE Key(r) # Cur
        BY <1>0, <1>1, <1>3, <2>2, <3>1, KeysAreTokens DEF Offered
      <3>2. CASE Key(r) = Cur
        <4>1. v = reader[r].val
          BY <1>0, <1>1, <1>3, <2>2, <3>2, KeysAreTokens
        <4>2. Current(r)
          BY <2>2, <3>2 DEF Current, MayStore, Key, Cur, Guarded
        <4> QED
          BY <4>1, <4>2 DEF Offered
      <3> QED
        BY <3>1, <3>2
    <2> QED
      BY <2>1, <2>2 DEF Reads
  <1> QED
    BY <1>2, <1>3 DEF Offered

\* After an invalidation nothing is on offer.
LEMMA NoneOffered ==
  ASSUME Guarded, CacheInv, INVALIDATE, UNCHANGED reader
  PROVE  \A v \in Nat : ~Offered(v)'
  <1>1. /\ gen' = issued + 1 /\ issued + 1 \in Tokens /\ tomb' = "on" /\ issued \in Nat
        /\ copy \in [Tokens -> Nat] /\ 0 \in Tokens
    BY DEF INVALIDATE, CacheInv, CacheShape, Tokens, Guarded
  <1>2. ASSUME NEW s \in Readers PROVE ~Current(s)'
    BY <1>1 DEF Current, CacheInv, ReaderBounds, CacheShape, ReaderState
  <1>3. copy'[Cur'] = 0
    <2>1. CASE Protocol = "scoped"
      <3>1. copy' = copy /\ Cur' = issued + 1
        BY <1>1, <2>1 DEF INVALIDATE, Cur
      <3> QED
        BY <1>1, <3>1 DEF CacheInv, Bounded
    <2>2. CASE Protocol # "scoped"
      BY <1>1, <2>2 DEF INVALIDATE, Cur
    <2> QED
      BY <2>1, <2>2
  <1> QED
    BY <1>2, <1>3 DEF Offered

-----------------------------------------------------------------------------
(* A step of a reader keeps the invariant. *)

LEMMA NewestIsEnough ==
  ASSUME CacheInv, NEW r \in Readers, reader[r].pc # "idle"
  PROVE  db >= reader[r].floor /\ db >= reader[r].own /\ Enough(r, db)
  BY DEF CacheInv, CacheShape, Bounded, ReaderBounds, Enough, ReaderState

LEMMA GenOfferIsEnough ==
  ASSUME CacheInv, NEW r \in Readers, reader[r].pc = "gen", NEW v \in Nat, Offered(v)
  PROVE  Enough(r, v)
  <1>1. shared \in Nat /\ reader[r].floor \in Nat /\ reader[r].floor <= shared /\ v >= shared
    BY DEF CacheInv, CacheShape, ReaderBounds, OfferedIsNew, ReaderState
  <1>2. OwnKept => v >= reader[r].own
    BY DEF CacheInv, OfferedIsOwn
  <1> QED
    BY <1>1, <1>2 DEF Enough

LEMMA ReadKeeps ==
  ASSUME Guarded, CacheInv, NEW r \in Readers, NEW u \in ReaderState, Reads(r, u)
  PROVE  CacheInv'
  <1>0. /\ reader \in [Readers -> ReaderState] /\ copy \in [Tokens -> Nat]
        /\ reader' = [reader EXCEPT ![r] = u]
        /\ reader'[r] = u /\ \A q \in Readers : q # r => reader'[q] = reader[q]
        /\ UNCHANGED <<gen, issued, tomb, db, queue, firstAt, flush, writer, shared, own>>
    BY DEF CacheInv, CacheShape, Reads, writing, retry
  <1>1. CacheShape'
    <2>1. copy' \in [Tokens -> Nat]
      BY <1>0, KeysAreTokens DEF Reads, ReaderState
    <2>2. reader' \in [Readers -> ReaderState]
      BY <1>0
    <2> QED
      BY <1>0, <2>1, <2>2 DEF CacheInv, CacheShape
  <1>2. Bounded'
    <2>1. ASSUME NEW k \in Tokens, k > issued PROVE copy'[k] = 0
      <3>1. Key(r) <= issued /\ Key(r) \in Nat /\ issued \in Nat
        BY <1>0 DEF CacheInv, CacheShape, ReaderBounds, Key, Guarded, Tokens, ReaderState
      <3>2. k # Key(r) /\ copy[k] = 0
        BY <2>1, <3>1 DEF CacheInv, Bounded, Tokens
      <3> QED
        BY <1>0, <2>1, <3>2 DEF Reads
    <2> QED
      BY <1>0, <2>1 DEF CacheInv, Bounded
  <1>3. ReaderBounds'
    <2>1. ASSUME NEW q \in Readers, q # r
          PROVE  /\ reader'[q].gen <= issued'
                 /\ reader'[q].pc # "idle" =>
                      /\ reader'[q].proc \in Procs /\ reader'[q].floor <= shared'
                      /\ reader'[q].own <= own'[reader'[q].proc]
                 /\ reader'[q].pc = "gen" => Protocol # "legacy"
                 /\ reader'[q].pc = "get" => Protocol = "scoped"
      BY <1>0, <2>1 DEF CacheInv, ReaderBounds
    <2>2. /\ u.gen <= issued
          /\ u.pc # "idle" => u.proc \in Procs /\ u.floor <= shared /\ u.own <= own[u.proc]
          /\ u.pc = "gen" => Protocol # "legacy"
          /\ u.pc = "get" => Protocol = "scoped"
      <3>1. issued \in Nat /\ gen <= issued /\ shared \in Nat /\ own \in [Procs -> Nat]
        BY DEF CacheInv, CacheShape, Bounded, Tokens
      <3> QED
        BY <3>1 DEF CacheInv, ReaderBounds, Reads, ReadsTo
    <2> QED
      BY <1>0, <2>1, <2>2 DEF ReaderBounds
  <1>4. OfferedIsNew'
    <2> SUFFICES ASSUME NEW v \in Nat, Offered(v)'
                 PROVE  /\ v >= shared
                        /\ \A w \in Writers : writer[w].pc = "answered" => v >= writer[w].val
                        /\ \A p \in Procs : v >= flush[p]
      BY <1>0 DEF OfferedIsNew
    <2>1. CASE Offered(v)
      BY <2>1 DEF CacheInv, OfferedIsNew
    <2>2. CASE v = db
      BY <2>2 DEF CacheInv, CacheShape, Bounded, WriterState
    <2> QED
      BY <2>1, <2>2, ReadOffers
  <1>5. OfferedIsOwn'
    <2> SUFFICES ASSUME OwnKept, NEW v \in Nat, Offered(v)'
                 PROVE  /\ \A p \in Procs : v >= own[p] \/ (queue[p] # 0 /\ ~BeingAnswered(p) /\ v < queue[p])
                        /\ \A q \in Readers : reader'[q].pc = "gen" => v >= reader'[q].own
      BY <1>0 DEF OfferedIsOwn, BeingAnswered
    <2>1. \A p \in Procs : v >= own[p] \/ (queue[p] # 0 /\ ~BeingAnswered(p) /\ v < queue[p])
      BY ReadOffers DEF CacheInv, CacheShape, Bounded, OfferedIsOwn
    <2>2. ASSUME NEW q \in Readers, q # r, reader[q].pc = "gen" PROVE v >= reader[q].own
      BY <2>2, ReadOffers, NewestIsEnough DEF CacheInv, OfferedIsOwn
    <2>3. ASSUME u.pc = "gen" PROVE v >= u.own
      BY <2>3, ReadOffers, NewestIsEnough DEF Reads, ReadsTo
    <2> QED
      BY <1>0, <2>1, <2>2, <2>3
  <1>6. FlightIsEnough'
    <2> SUFFICES ASSUME Protocol # "legacy", NEW q \in Readers, NEW s \in Readers,
                        reader'[q].pc \in {"get", "load", "store"}, reader'[s].pc = "store",
                        reader'[q].gen = reader'[s].gen
                 PROVE  /\ reader'[s].val >= reader'[q].floor
                        /\ OwnKept => reader'[s].val >= reader'[q].own
      BY DEF FlightIsEnough, Enough
    <2>1. CASE s # r /\ q # r
      BY <1>0, <2>1 DEF CacheInv, FlightIsEnough, Enough
    <2>2. CASE s = r
      <3>1. u.val = db /\ reader[r].pc = "load" /\ u.floor = reader[r].floor /\ u.own = reader[r].own
        BY <1>0, <2>2 DEF Reads, ReadsTo
      <3>2. reader[q].pc # "idle" /\ reader'[q].floor = reader[q].floor /\ reader'[q].own = reader[q].own
        BY <1>0, <3>1
      <3> QED
        BY <1>0, <2>2, <3>1, <3>2, NewestIsEnough
    <2>3. CASE s # r /\ q = r
      <3>1. reader'[s] = reader[s] /\ reader'[q] = u /\ reader[s].val \in Nat
        BY <1>0, <2>3 DEF ReaderState
      <3>2. u.floor = reader[r].floor /\ u.own = reader[r].own
        BY <3>1 DEF Reads, ReadsTo
      <3>3. CASE u.gen = gen /\ reader[r].pc = "gen"
        <4>1. Offered(reader[s].val)
          BY <3>1, <3>3 DEF Offered, Current
        <4> QED
          BY <3>1, <3>2, <3>3, <4>1, GenOfferIsEnough DEF Enough
      <3>4. CASE u.gen = reader[r].gen /\ reader[r].pc \in {"get", "load"}
        BY <3>1, <3>2, <3>4 DEF CacheInv, FlightIsEnough, Enough
      <3> QED
        BY <3>1, <3>3, <3>4 DEF Reads, ReadsTo
    <2> QED
      BY <2>1, <2>2, <2>3
  <1>7. ServedIsEnough'
    <2>1. ASSUME NEW q \in Readers, reader'[q].pc = "get", copy'[reader'[q].gen] # 0
          PROVE  /\ copy'[reader'[q].gen] >= reader'[q].floor
                 /\ OwnKept => copy'[reader'[q].gen] >= reader'[q].own
      <3>1. Protocol = "scoped" /\ Protocol # "legacy"
        BY <1>3, <2>1 DEF ReaderBounds
      <3>2. CASE q = r
        <4>1. /\ reader[r].pc = "gen" /\ u.gen = gen /\ copy' = copy
              /\ u.floor = reader[r].floor /\ u.own = reader[r].own
          BY <1>0, <2>1, <3>2 DEF Reads, ReadsTo
        <4>2. Offered(copy[gen]) /\ copy[gen] \in Nat
          BY <1>0, <2>1, <3>1, <3>2, <4>1 DEF Offered, Cur, CacheInv, CacheShape
        <4> QED
          BY <1>0, <3>2, <4>1, <4>2, GenOfferIsEnough DEF Enough
      <3>3. CASE q # r
        <4>0. reader'[q] = reader[q] /\ reader[q].gen \in Tokens
          BY <1>0, <3>1, <3>3, KeysAreTokens DEF Key
        <4>1. CASE copy'[reader[q].gen] = copy[reader[q].gen]
          BY <2>1, <4>0, <4>1 DEF CacheInv, ServedIsEnough, Enough
        <4>2. CASE copy'[reader[q].gen] # copy[reader[q].gen]
          <5>1. /\ reader[r].pc = "store" /\ Key(r) = reader[q].gen
                /\ copy' = [copy EXCEPT ![Key(r)] = reader[r].val]
            BY <1>0, <4>0, <4>2 DEF Reads
          <5>2. reader[r].gen = reader[q].gen /\ copy'[reader[q].gen] = reader[r].val
            BY <1>0, <3>1, <4>0, <5>1 DEF Key
          <5> QED
            BY <2>1, <3>1, <4>0, <5>1, <5>2 DEF CacheInv, FlightIsEnough, Enough
        <4> QED
          BY <4>1, <4>2
      <3> QED
        BY <3>2, <3>3
    <2>2. ASSUME NEW q \in Readers, reader'[q].pc \in {"store", "done"}
          PROVE  /\ reader'[q].val >= reader'[q].floor
                 /\ OwnKept => reader'[q].val >= reader'[q].own
      <3>1. CASE q # r
        BY <1>0, <2>2, <3>1 DEF CacheInv, ServedIsEnough, Enough
      <3>2. CASE q = r
        BY <1>0, <2>2, <3>2, NewestIsEnough DEF Reads, ReadsTo, Enough
      <3> QED
        BY <3>1, <3>2
    <2> QED
      BY <2>1, <2>2 DEF ServedIsEnough, Enough
  <1> QED
    BY <1>1, <1>2, <1>3, <1>4, <1>5, <1>6, <1>7 DEF CacheInv

-----------------------------------------------------------------------------
(* So does a step of a writer or of a process. *)

LEMMA SameOffers ==
  ASSUME CacheInv, UNCHANGED <<gen, issued, tomb, copy, reader>>
  PROVE  /\ \A v \in Nat : Offered(v)' <=> Offered(v)
         /\ FlightIsEnough' /\ ServedIsEnough'
  BY DEF CacheInv, FlightIsEnough, ServedIsEnough, Enough, Offered, Current, Cur

LEMMA Maximum ==
  ASSUME NEW a \in Nat, NEW b \in Nat
  PROVE  /\ Later(a, b) \in Nat /\ Later(a, b) >= a /\ Later(a, b) >= b
         /\ \A c \in Nat : (c >= a /\ c >= b) <=> c >= Later(a, b)
  BY DEF Later

LEMMA CommitKeeps ==
  ASSUME CacheInv, NEW w \in Writers, NEW p \in Procs, Commit(w, p)
  PROVE  CacheInv'
  <1> DEFINE u == [pc |-> "invalidate", proc |-> p, val |-> db + 1]
  <1>0. /\ UNCHANGED <<gen, issued, tomb, copy, queue, firstAt, flush, reader, shared, own>>
        /\ db' = db + 1 /\ writer' = [writer EXCEPT ![w] = u] /\ db \in Nat
        /\ writer \in [Writers -> WriterState] /\ writer[w].pc = "idle"
    BY DEF Commit, redis, retry, CacheInv, CacheShape
  <1>1. u \in WriterState /\ u.pc = "invalidate" /\ u.proc = p /\ u.val = db + 1
    BY <1>0 DEF WriterState
  <1> HIDE DEF u
  <1>2. CacheShape' /\ ReaderBounds'
    BY <1>0, <1>1 DEF CacheInv, CacheShape, ReaderBounds
  <1>3. Bounded'
    BY <1>0, <1>1 DEF CacheInv, CacheShape, Bounded, WriterState
  <1>4. \A x \in Writers : writer'[x].pc = "answered" =>
          writer[x].pc = "answered" /\ writer'[x] = writer[x]
    BY <1>0, <1>1
  <1>5. \A q \in Procs : BeingAnswered(q)' => BeingAnswered(q)
    BY <1>0, <1>4 DEF BeingAnswered
  <1>6. OfferedIsNew' /\ OfferedIsOwn'
    BY <1>0, <1>4, <1>5, SameOffers DEF CacheInv, OfferedIsNew, OfferedIsOwn
  <1> QED
    BY <1>0, <1>2, <1>3, <1>6, SameOffers DEF CacheInv

\* The two steps that run the INVALIDATE script.
LEMMA InvalidateKeeps ==
  ASSUME Guarded, CacheInv, INVALIDATE, UNCHANGED <<db, queue, firstAt, reader, shared, own>>,
         writer' \in [Writers -> WriterState], flush' \in [Procs -> Nat],
         \A x \in Writers : writer'[x].val <= db /\ (writer'[x].pc # "idle" => writer'[x].proc \in Procs),
         \A p \in Procs : flush'[p] <= db
  PROVE  CacheInv'
  <1>1. /\ gen' = issued + 1 /\ issued' = issued + 1 /\ issued + 1 \in Tokens /\ issued \in Nat
        /\ copy \in [Tokens -> Nat] /\ 0 \in Tokens /\ reader \in [Readers -> ReaderState]
    BY DEF INVALIDATE, CacheInv, CacheShape, Tokens, Guarded
  <1>2. copy' \in [Tokens -> Nat] /\ \A k \in Tokens : copy'[k] = copy[k] \/ copy'[k] = 0
    BY <1>1 DEF INVALIDATE
  <1>3. CacheShape'
    BY <1>1, <1>2 DEF CacheInv, CacheShape
  <1>4. Bounded'
    BY <1>1, <1>2 DEF CacheInv, Bounded, Tokens
  <1>5. ReaderBounds'
    BY <1>1 DEF CacheInv, ReaderBounds, ReaderState
  <1>6. OfferedIsNew' /\ OfferedIsOwn'
    BY NoneOffered DEF OfferedIsNew, OfferedIsOwn
  <1>7. FlightIsEnough'
    BY DEF CacheInv, FlightIsEnough, Enough
  <1>8. ServedIsEnough'
    <2>1. ASSUME NEW r \in Readers PROVE reader[r].gen \in Tokens
      BY <1>1 DEF CacheInv, ReaderBounds, CacheShape, ReaderState, Tokens, Guarded
    <2> QED
      BY <1>2, <2>1 DEF CacheInv, ServedIsEnough, Enough
  <1> QED
    BY <1>3, <1>4, <1>5, <1>6, <1>7, <1>8 DEF CacheInv

LEMMA InvalidateEntityKeeps ==
  ASSUME Guarded, CacheInv, NEW w \in Writers, invalidateEntity(w)
  PROVE  CacheInv'
  <1>1. INVALIDATE /\ UNCHANGED <<db, queue, firstAt, flush, reader, shared, own>>
    BY DEF invalidateEntity, retry
  <1>2. writer \in [Writers -> WriterState] /\ flush \in [Procs -> Nat] /\ \A p \in Procs : flush[p] <= db
    BY DEF CacheInv, CacheShape, Bounded
  <1>3. writer' \in [Writers -> WriterState]
    BY <1>2 DEF invalidateEntity, WriterState
  <1>4. \A x \in Writers : writer'[x].val = writer[x].val /\ writer'[x].proc = writer[x].proc
                           /\ (writer'[x].pc # "idle" => writer[x].pc # "idle")
    BY <1>2 DEF invalidateEntity, WriterState
  <1>5. \A x \in Writers : writer'[x].val <= db /\ (writer'[x].pc # "idle" => writer'[x].proc \in Procs)
    BY <1>4 DEF CacheInv, Bounded
  <1> QED
    BY <1>1, <1>2, <1>3, <1>5, InvalidateKeeps

LEMMA FlushKeeps ==
  ASSUME Guarded, CacheInv, NEW p \in Procs, flushRetryQueue(p)
  PROVE  CacheInv'
  <1>1. INVALIDATE /\ UNCHANGED <<db, queue, firstAt, writer, reader, shared, own>>
    BY DEF flushRetryQueue, retry
  <1>2. flush' \in [Procs -> Nat] /\ \A q \in Procs : flush'[q] <= db
    BY DEF flushRetryQueue, CacheInv, CacheShape, Bounded
  <1>3. /\ writer' \in [Writers -> WriterState]
        /\ \A x \in Writers : writer'[x].val <= db /\ (writer'[x].pc # "idle" => writer'[x].proc \in Procs)
    BY <1>1 DEF CacheInv, CacheShape, Bounded
  <1> QED
    BY <1>1, <1>2, <1>3, InvalidateKeeps

\* Readers stay within bounds that only grow.
LEMMA ReadersStayBounded ==
  ASSUME CacheInv, UNCHANGED <<issued, reader>>, shared' \in Nat, shared' >= shared,
         own' \in [Procs -> Nat], \A p \in Procs : own'[p] >= own[p]
  PROVE  ReaderBounds'
  <1> SUFFICES ASSUME NEW r \in Readers, reader[r].pc # "idle"
               PROVE  reader[r].floor <= shared' /\ reader[r].own <= own'[reader[r].proc]
    BY DEF CacheInv, ReaderBounds
  <1>1. /\ reader[r].proc \in Procs /\ reader[r].floor <= shared
        /\ reader[r].own <= own[reader[r].proc]
    BY DEF CacheInv, ReaderBounds
  <1>2. reader[r].floor \in Nat /\ reader[r].own \in Nat /\ shared \in Nat /\ own \in [Procs -> Nat]
    BY DEF CacheInv, CacheShape, ReaderState
  <1> QED
    BY <1>1, <1>2

LEMMA GuardedKeeps ==
  ASSUME CacheInv, NEW w \in Writers, guarded(w)
  PROVE  CacheInv'
  <1>a. PICK p, x : p = writer[w].proc /\ x = writer[w].val
    OBVIOUS
  <1>0. /\ p \in Procs /\ x \in Nat /\ x <= db /\ writer[w].pc = "answered"
        /\ shared \in Nat /\ db \in Nat /\ shared <= db /\ own \in [Procs -> Nat] /\ own[p] <= db
        /\ queue \in [Procs -> Nat] /\ firstAt \in [Procs -> Nat] /\ writer \in [Writers -> WriterState]
    BY <1>a DEF guarded, CacheInv, CacheShape, Bounded, WriterState
  <1>1. /\ UNCHANGED <<gen, issued, tomb, copy, db, flush, reader>>
        /\ shared' = Later(shared, x) /\ own' = [own EXCEPT ![p] = Later(own[p], x)]
        /\ queue' = [queue EXCEPT ![p] = 0] /\ firstAt' = [firstAt EXCEPT ![p] = 0]
        /\ writer' = [writer EXCEPT ![w] = NotWriting]
    BY <1>a DEF guarded, Unqueue, redis
  <1>2. /\ shared' \in Nat /\ shared' >= shared /\ shared' <= db
        /\ own' \in [Procs -> Nat] /\ \A q \in Procs : own'[q] >= own[q] /\ (own[q] <= db => own'[q] <= db)
    <2>1. /\ Later(own[p], x) \in Nat /\ Later(own[p], x) >= own[p] /\ Later(own[p], x) <= db
          /\ Later(shared, x) \in Nat /\ Later(shared, x) >= shared /\ Later(shared, x) <= db
      BY <1>0 DEF Later
    <2> QED
      BY <1>0, <1>1, <2>1
  <1>3. /\ writer' \in [Writers -> WriterState] /\ queue' \in [Procs -> Nat]
        /\ firstAt' \in [Procs -> Nat]
        /\ \A y \in Writers : writer'[y].pc # "idle" => writer'[y] = writer[y]
        /\ \A y \in Writers : writer'[y] = writer[y] \/ writer'[y] = NotWriting
    BY <1>0, <1>1 DEF WriterState, NotWriting
  <1>4. CacheShape'
    BY <1>1, <1>2, <1>3 DEF CacheInv, CacheShape
  <1>5. Bounded'
    BY <1>0, <1>1, <1>2, <1>3 DEF CacheInv, Bounded, NotWriting
  <1>6. ReaderBounds'
    BY <1>1, <1>2, ReadersStayBounded
  <1>7. OfferedIsNew'
    <2> SUFFICES ASSUME NEW v \in Nat, Offered(v)
                 PROVE  /\ v >= shared'
                        /\ \A y \in Writers : writer'[y].pc = "answered" => v >= writer'[y].val
                        /\ \A q \in Procs : v >= flush[q]
      BY <1>1, SameOffers DEF OfferedIsNew
    <2>1. v >= shared /\ v >= x
      BY <1>a, <1>0 DEF CacheInv, OfferedIsNew
    <2> QED
      BY <1>0, <1>1, <1>3, <2>1, Maximum DEF CacheInv, OfferedIsNew
  <1>8. OfferedIsOwn'
    <2> SUFFICES ASSUME OwnKept, NEW v \in Nat, Offered(v)
                 PROVE  /\ \A q \in Procs : v >= own'[q] \/ (queue'[q] # 0 /\ ~BeingAnswered(q)' /\ v < queue'[q])
                        /\ \A r \in Readers : reader[r].pc = "gen" => v >= reader[r].own
      BY <1>1, SameOffers DEF OfferedIsOwn
    <2>1. v >= x /\ v >= own[p]
      BY <1>a, <1>0 DEF CacheInv, OfferedIsNew, OfferedIsOwn, BeingAnswered
    <2>2. v >= own'[p]
      BY <1>0, <1>1, <2>1, Maximum
    <2>3. ASSUME NEW q \in Procs, q # p
          PROVE  own'[q] = own[q] /\ queue'[q] = queue[q] /\ (BeingAnswered(q)' => BeingAnswered(q))
      BY <1>0, <1>1, <1>3, <2>3 DEF BeingAnswered
    <2> QED
      BY <2>2, <2>3 DEF CacheInv, OfferedIsOwn
  <1> QED
    BY <1>1, <1>4, <1>5, <1>6, <1>7, <1>8, SameOffers DEF CacheInv

LEMMA EnqueueKeeps ==
  ASSUME CacheInv, NEW w \in Writers, enqueue(w)
  PROVE  CacheInv'
  <1>a. PICK p, x : p = writer[w].proc /\ x = writer[w].val
    OBVIOUS
  <1>0. /\ p \in Procs /\ x \in Nat /\ x <= db /\ writer[w].pc = "invalidate"
        /\ shared \in Nat /\ db \in Nat /\ own \in [Procs -> Nat] /\ own[p] <= db /\ queue[p] <= db
        /\ queue \in [Procs -> Nat] /\ firstAt \in [Procs -> Nat] /\ writer \in [Writers -> WriterState]
    BY <1>a DEF enqueue, CacheInv, CacheShape, Bounded, WriterState
  <1>1. /\ UNCHANGED <<gen, issued, tomb, copy, db, flush, reader, shared>>
        /\ queue' = [queue EXCEPT ![p] = Later(queue[p], x)] /\ own' = [own EXCEPT ![p] = Later(own[p], x)]
        /\ firstAt' = [firstAt EXCEPT ![p] = IF @ = 0 THEN x ELSE @]
        /\ writer' = [writer EXCEPT ![w] = NotWriting]
        /\ Overlap = "yes" \/ ~BeingAnswered(p)
    BY <1>a DEF enqueue, redis
  <1>2. /\ own' \in [Procs -> Nat] /\ queue' \in [Procs -> Nat] /\ firstAt' \in [Procs -> Nat]
        /\ \A q \in Procs : own'[q] >= own[q] /\ (own[q] <= db => own'[q] <= db)
        /\ \A q \in Procs : queue[q] <= db => queue'[q] <= db
    <2>1. /\ Later(own[p], x) \in Nat /\ Later(own[p], x) >= own[p] /\ Later(own[p], x) <= db
          /\ Later(queue[p], x) \in Nat /\ Later(queue[p], x) <= db
      BY <1>0 DEF Later
    <2> QED
      BY <1>0, <1>1, <2>1
  <1>3. /\ writer' \in [Writers -> WriterState]
        /\ \A y \in Writers : writer'[y].pc # "idle" => writer'[y] = writer[y]
        /\ \A y \in Writers : writer'[y] = writer[y] \/ writer'[y] = NotWriting
    BY <1>0, <1>1 DEF WriterState, NotWriting
  <1>4. CacheShape'
    BY <1>1, <1>2, <1>3 DEF CacheInv, CacheShape
  <1>5. Bounded'
    BY <1>0, <1>1, <1>2, <1>3 DEF CacheInv, Bounded, NotWriting
  <1>6. ReaderBounds'
    BY <1>0, <1>1, <1>2, ReadersStayBounded
  <1>7. OfferedIsNew'
    BY <1>1, <1>3, SameOffers DEF CacheInv, OfferedIsNew
  <1>8. OfferedIsOwn'
    <2> SUFFICES ASSUME OwnKept, NEW v \in Nat, Offered(v)
                 PROVE  /\ \A q \in Procs : v >= own'[q] \/ (queue'[q] # 0 /\ ~BeingAnswered(q)' /\ v < queue'[q])
                        /\ \A r \in Readers : reader[r].pc = "gen" => v >= reader[r].own
      BY <1>1, SameOffers DEF OfferedIsOwn
    <2>1. \A q \in Procs : BeingAnswered(q)' => BeingAnswered(q)
      BY <1>1, <1>3 DEF BeingAnswered
    <2>2. ~BeingAnswered(p)'
      BY <1>0, <1>1, <2>1 DEF OwnKept
    <2>3. v >= own[p] \/ (queue[p] # 0 /\ v < queue[p])
      BY <1>0 DEF CacheInv, OfferedIsOwn
    <2>4. own'[p] = Later(own[p], x) /\ queue'[p] = Later(queue[p], x)
      BY <1>0, <1>1
    <2>5. v >= own'[p] \/ (queue'[p] # 0 /\ v < queue'[p])
      BY <1>0, <2>3, <2>4 DEF Later
    <2>6. ASSUME NEW q \in Procs, q # p PROVE own'[q] = own[q] /\ queue'[q] = queue[q]
      BY <1>0, <1>1, <2>6
    <2> QED
      BY <2>1, <2>2, <2>5, <2>6 DEF CacheInv, OfferedIsOwn
  <1> QED
    BY <1>1, <1>4, <1>5, <1>6, <1>7, <1>8, SameOffers DEF CacheInv

\* What found no room in the queue is not counted as the process's own any more.
LEMMA NoRoomKeeps ==
  ASSUME CacheInv, NEW w \in Writers, enqueueNoRoom(w)
  PROVE  CacheInv'
  <1>1. /\ UNCHANGED <<gen, issued, tomb, copy, db, queue, firstAt, flush, reader, shared, own>>
        /\ writer \in [Writers -> WriterState] /\ writer' = [writer EXCEPT ![w] = NotWriting]
        /\ db \in Nat
    BY DEF enqueueNoRoom, redis, CacheInv, CacheShape
  <1>2. /\ writer' \in [Writers -> WriterState]
        /\ \A y \in Writers : writer'[y].pc # "idle" => writer'[y] = writer[y]
        /\ \A y \in Writers : writer'[y] = writer[y] \/ writer'[y] = NotWriting
    BY <1>1 DEF WriterState, NotWriting
  <1>3. CacheShape' /\ ReaderBounds'
    BY <1>1, <1>2 DEF CacheInv, CacheShape, ReaderBounds
  <1>4. Bounded'
    BY <1>1, <1>2 DEF CacheInv, Bounded, NotWriting
  <1>5. OfferedIsNew'
    BY <1>1, <1>2, SameOffers DEF CacheInv, OfferedIsNew
  <1>6. \A q \in Procs : BeingAnswered(q)' => BeingAnswered(q)
    BY <1>1, <1>2 DEF BeingAnswered
  <1>7. OfferedIsOwn'
    BY <1>1, <1>6, SameOffers DEF CacheInv, OfferedIsOwn
  <1> QED
    BY <1>1, <1>3, <1>4, <1>5, <1>7, SameOffers DEF CacheInv

LEMMA FlushAnsweredKeeps ==
  ASSUME CacheInv, NEW p \in Procs, FlushAnswered(p)
  PROVE  CacheInv'
  <1>a. PICK x : x = flush[p]
    OBVIOUS
  <1>0. /\ x \in Nat /\ x <= db /\ shared \in Nat /\ db \in Nat /\ shared <= db /\ x # 0
        /\ queue \in [Procs -> Nat] /\ firstAt \in [Procs -> Nat] /\ flush \in [Procs -> Nat] /\ own \in [Procs -> Nat]
    BY <1>a DEF FlushAnswered, CacheInv, CacheShape, Bounded
  <1>1. /\ UNCHANGED <<gen, issued, tomb, copy, db, reader, writer, own>>
        /\ shared' = Later(shared, x)
        /\ queue' = [queue EXCEPT ![p] = 0] /\ firstAt' = [firstAt EXCEPT ![p] = 0] /\ flush' = [flush EXCEPT ![p] = 0]
    BY <1>a DEF FlushAnswered, Unqueue, redis
  <1>2. shared' \in Nat /\ shared' >= shared /\ shared' <= db
    BY <1>0, <1>1 DEF Later
  <1>3. CacheShape'
    BY <1>0, <1>1, <1>2 DEF CacheInv, CacheShape
  <1>4. Bounded'
    BY <1>0, <1>1, <1>2 DEF CacheInv, Bounded
  <1>5. \A q \in Procs : own'[q] >= own[q]
    BY <1>0, <1>1
  <1>6. ReaderBounds'
    BY <1>0, <1>1, <1>2, <1>5, ReadersStayBounded
  <1>7. OfferedIsNew'
    <2> SUFFICES ASSUME NEW v \in Nat, Offered(v)
                 PROVE  /\ v >= shared'
                        /\ \A y \in Writers : writer[y].pc = "answered" => v >= writer[y].val
                        /\ \A q \in Procs : v >= flush'[q]
      BY <1>1, SameOffers DEF OfferedIsNew
    <2>1. v >= shared /\ v >= x
      BY <1>a, <1>0 DEF CacheInv, OfferedIsNew
    <2>2. v >= shared'
      BY <1>0, <1>1, <2>1 DEF Later
    <2> QED
      BY <1>0, <1>1, <2>2 DEF CacheInv, OfferedIsNew
  <1>8. OfferedIsOwn'
    <2> SUFFICES ASSUME OwnKept, NEW v \in Nat, Offered(v)
                 PROVE  /\ \A q \in Procs : v >= own[q] \/ (queue'[q] # 0 /\ ~BeingAnswered(q)' /\ v < queue'[q])
                        /\ \A r \in Readers : reader[r].pc = "gen" => v >= reader[r].own
      BY <1>1, SameOffers DEF OfferedIsOwn
    <2>1. v >= own[p]
      BY <1>a, <1>0 DEF CacheInv, OfferedIsOwn, BeingAnswered
    <2>2. ASSUME NEW q \in Procs, q # p
          PROVE  queue'[q] = queue[q] /\ (BeingAnswered(q)' => BeingAnswered(q))
      BY <1>0, <1>1, <2>2 DEF BeingAnswered
    <2> QED
      BY <2>1, <2>2 DEF CacheInv, OfferedIsOwn
  <1> QED
    BY <1>1, <1>3, <1>4, <1>6, <1>7, <1>8, SameOffers DEF CacheInv

\* A retry is dropped when no copy and no load is older than its first failure, and from then
\* on no more than that is owed to the readers of the process.
LEMMA DropKeeps ==
  ASSUME Guarded, CacheInv, NEW p \in Procs, retryDropped(p)
  PROVE  CacheInv'
  <1>a. PICK f : f = firstAt[p]
    OBVIOUS
  <1>0. /\ queue \in [Procs -> Nat] /\ firstAt \in [Procs -> Nat] /\ f \in Nat
        /\ copy \in [Tokens -> Nat] /\ own \in [Procs -> Nat] /\ db \in Nat
        /\ reader \in [Readers -> ReaderState] /\ shared \in Nat
    BY <1>a DEF CacheInv, CacheShape
  <1>1. /\ UNCHANGED <<gen, issued, tomb, copy, db, flush, writer, shared>>
        /\ queue' = [queue EXCEPT ![p] = 0] /\ firstAt' = [firstAt EXCEPT ![p] = 0]
        /\ own' = [own EXCEPT ![p] = Lesser(own[p], f)]
        /\ reader' = [r \in Readers |-> IF reader[r].proc = p
                        THEN [reader[r] EXCEPT !.own = Lesser(reader[r].own, f)] ELSE reader[r]]
    BY <1>a DEF retryDropped, Unqueue, redis
  <1>2. ASSUME NEW v \in Nat, Offered(v) PROVE v >= f
    <2>1. CASE v # 0 /\ v = copy[Cur]
      BY <1>a, <1>0, <2>1, KeysAreTokens DEF retryDropped
    <2>2. ASSUME NEW s \in Readers, Current(s), v = reader[s].val PROVE v >= f
      BY <1>a, <1>0, <2>2 DEF retryDropped, Current, ReaderState
    <2> QED
      BY <1>2, <2>1, <2>2 DEF Offered
  <1>3. ASSUME NEW r \in Readers
        PROVE  /\ reader'[r] \in ReaderState
               /\ reader'[r].pc = reader[r].pc /\ reader'[r].proc = reader[r].proc
               /\ reader'[r].gen = reader[r].gen /\ reader'[r].val = reader[r].val
               /\ reader'[r].floor = reader[r].floor /\ reader'[r].own <= reader[r].own
               /\ reader[r].proc = p => reader'[r].own = Lesser(reader[r].own, f)
               /\ reader[r].proc # p => reader'[r].own = reader[r].own
    <2>1. reader[r] \in ReaderState /\ reader[r].own \in Nat
      BY <1>0 DEF ReaderState
    <2>2. Lesser(reader[r].own, f) \in Nat /\ Lesser(reader[r].own, f) <= reader[r].own
      BY <1>0, <2>1 DEF Lesser
    <2> DEFINE o == Lesser(reader[r].own, f)
    <2>3. reader'[r] = IF reader[r].proc = p THEN [reader[r] EXCEPT !.own = o] ELSE reader[r]
      BY <1>1
    <2>4. o \in Nat /\ o <= reader[r].own /\ o = Lesser(reader[r].own, f)
      BY <2>2
    <2> HIDE DEF o
    <2> QED
      BY <2>1, <2>3, <2>4 DEF ReaderState
  <1>4. /\ own' \in [Procs -> Nat] /\ own'[p] <= own[p] /\ own'[p] <= f /\ own'[p] = Lesser(own[p], f)
        /\ \A q \in Procs : q # p => own'[q] = own[q] /\ queue'[q] = queue[q]
    BY <1>0, <1>1 DEF Lesser
  <1>5. CacheShape'
    <2>1. reader' \in [Readers -> ReaderState]
      BY <1>1, <1>3
    <2> QED
      BY <1>0, <1>1, <1>4, <2>1 DEF CacheInv, CacheShape
  <1>6. Bounded'
    <2>1. \A q \in Procs : own'[q] <= own[q] /\ own[q] \in Nat /\ own'[q] \in Nat
      BY <1>0, <1>4
    <2>2. \A q \in Procs : queue'[q] <= db
      BY <1>0, <1>1 DEF CacheInv, Bounded
    <2> QED
      BY <1>0, <1>1, <2>1, <2>2 DEF CacheInv, Bounded
  <1>7. ReaderBounds'
    <2> SUFFICES ASSUME NEW r \in Readers, reader[r].pc # "idle"
                 PROVE  reader'[r].own <= own'[reader[r].proc]
      BY <1>1, <1>3 DEF CacheInv, ReaderBounds
    <2>1. reader[r].proc \in Procs /\ reader[r].own <= own[reader[r].proc] /\ reader[r].own \in Nat
      BY <1>0 DEF CacheInv, ReaderBounds, ReaderState
    <2>2. CASE reader[r].proc = p
      BY <1>0, <1>3, <1>4, <2>1, <2>2 DEF Lesser
    <2>3. CASE reader[r].proc # p
      BY <1>3, <1>4, <2>1, <2>3
    <2> QED
      BY <2>2, <2>3
  <1>8. \A v \in Nat : Offered(v)' <=> Offered(v)
    BY <1>1, <1>3 DEF Offered, Current, Cur
  <1>9. OfferedIsNew'
    BY <1>1, <1>8 DEF CacheInv, OfferedIsNew
  <1>10. OfferedIsOwn'
    <2> SUFFICES ASSUME OwnKept, NEW v \in Nat, Offered(v)
                 PROVE  /\ \A q \in Procs : v >= own'[q] \/ (queue'[q] # 0 /\ ~BeingAnswered(q) /\ v < queue'[q])
                        /\ \A r \in Readers : reader[r].pc = "gen" => v >= reader'[r].own
      BY <1>1, <1>3, <1>8 DEF OfferedIsOwn, BeingAnswered
    <2>1. v >= own'[p]
      BY <1>0, <1>2, <1>4
    <2>2. ASSUME NEW r \in Readers, reader[r].pc = "gen" PROVE v >= reader'[r].own
      <3>1. v >= reader[r].own /\ reader[r].own \in Nat /\ reader'[r].own \in Nat
        BY <1>0, <1>3, <2>2 DEF CacheInv, OfferedIsOwn, ReaderState
      <3> QED
        BY <1>3, <3>1
    <2> QED
      BY <1>4, <2>1, <2>2 DEF CacheInv, OfferedIsOwn
  <1>11. FlightIsEnough'
    <2> SUFFICES ASSUME Protocol # "legacy", NEW r \in Readers, NEW s \in Readers,
                        reader'[r].pc \in {"get", "load", "store"}, reader'[s].pc = "store",
                        reader'[r].gen = reader'[s].gen
                 PROVE  /\ reader'[s].val >= reader'[r].floor
                        /\ OwnKept => reader'[s].val >= reader'[r].own
      BY DEF FlightIsEnough, Enough
    <2>1. Enough(r, reader[s].val) /\ reader[s].val \in Nat /\ reader'[s].val = reader[s].val
      BY <1>0, <1>3 DEF CacheInv, FlightIsEnough, ReaderState
    <2>2. /\ reader[r].own \in Nat /\ reader'[r].own \in Nat /\ reader'[r].own <= reader[r].own
          /\ reader'[r].floor = reader[r].floor
      BY <1>0, <1>3 DEF ReaderState
    <2> QED
      BY <2>1, <2>2 DEF Enough
  <1>12. ServedIsEnough'
    <2>1. ASSUME NEW r \in Readers, NEW v \in Nat, Enough(r, v)
          PROVE  v >= reader'[r].floor /\ (OwnKept => v >= reader'[r].own)
      <3>1. /\ reader[r].own \in Nat /\ reader'[r].own \in Nat /\ reader'[r].own <= reader[r].own
            /\ reader'[r].floor = reader[r].floor
        BY <1>0, <1>3 DEF ReaderState
      <3> QED
        BY <2>1, <3>1 DEF Enough
    <2>2. ASSUME NEW r \in Readers, reader'[r].pc = "get", copy'[reader'[r].gen] # 0
          PROVE  /\ copy'[reader'[r].gen] >= reader'[r].floor
                 /\ OwnKept => copy'[reader'[r].gen] >= reader'[r].own
      <3>1. reader[r].gen \in Tokens
        BY <1>0, <1>3, <2>2, KeysAreTokens DEF CacheInv, ReaderBounds, Key
      <3>2. Enough(r, copy[reader[r].gen]) /\ copy[reader[r].gen] \in Nat
        BY <1>0, <1>1, <1>3, <2>2, <3>1 DEF CacheInv, ServedIsEnough
      <3> QED
        BY <1>1, <1>3, <2>1, <3>2
    <2>3. ASSUME NEW r \in Readers, reader'[r].pc \in {"store", "done"}
          PROVE  /\ reader'[r].val >= reader'[r].floor
                 /\ OwnKept => reader'[r].val >= reader'[r].own
      <3>1. Enough(r, reader[r].val) /\ reader[r].val \in Nat
        BY <1>0, <1>3, <2>3 DEF CacheInv, ServedIsEnough, ReaderState
      <3> QED
        BY <1>3, <2>1, <3>1
    <2> QED
      BY <2>2, <2>3 DEF ServedIsEnough, Enough
  <1> QED
    BY <1>5, <1>6, <1>7, <1>9, <1>10, <1>11, <1>12 DEF CacheInv

LEMMA RestartKeeps ==
  ASSUME CacheInv, NEW p \in Procs, Restart(p)
  PROVE  CacheInv'
  <1>0. /\ UNCHANGED <<gen, issued, tomb, copy, db, shared>>
        /\ queue' = [queue EXCEPT ![p] = 0] /\ firstAt' = [firstAt EXCEPT ![p] = 0]
        /\ firstAt \in [Procs -> Nat] /\ flush' = [flush EXCEPT ![p] = 0]
        /\ own' = [own EXCEPT ![p] = 0]
        /\ queue \in [Procs -> Nat] /\ flush \in [Procs -> Nat] /\ own \in [Procs -> Nat]
        /\ reader \in [Readers -> ReaderState] /\ writer \in [Writers -> WriterState]
        /\ db \in Nat /\ issued \in Nat
    BY DEF Restart, Unqueue, redis, CacheInv, CacheShape, Tokens
  <1>1. /\ NotReading \in ReaderState /\ NotReading.pc = "idle" /\ NotReading.gen = 0
        /\ NotWriting \in WriterState /\ NotWriting.pc = "idle" /\ NotWriting.val = 0
    BY DEF NotReading, NotWriting, ReaderState, WriterState
  <1>2. /\ \A r \in Readers : reader'[r] = NotReading \/ (reader'[r] = reader[r] /\ reader[r].proc # p)
        /\ reader' \in [Readers -> ReaderState]
    BY <1>0, <1>1 DEF Restart
  <1>3. /\ \A w \in Writers : writer'[w] = NotWriting \/ (writer'[w] = writer[w] /\ writer[w].proc # p)
        /\ \A w \in Writers : writer[w].proc # p => writer'[w] = writer[w]
        /\ writer' \in [Writers -> WriterState]
    BY <1>0, <1>1 DEF Restart
  <1>4. CacheShape'
    BY <1>0, <1>2, <1>3 DEF CacheInv, CacheShape
  <1>5. Bounded'
    BY <1>0, <1>1, <1>3 DEF CacheInv, Bounded
  <1>6. ReaderBounds'
    <2>1. \A q \in Procs : q # p => own'[q] = own[q]
      BY <1>0
    <2> QED
      BY <1>0, <1>1, <1>2, <2>1 DEF CacheInv, ReaderBounds
  <1>7. ASSUME NEW v \in Nat, Offered(v)' PROVE Offered(v)
    BY <1>0, <1>1, <1>2, <1>7 DEF Offered, Current, Cur
  <1>8. OfferedIsNew'
    <2> SUFFICES ASSUME NEW v \in Nat, Offered(v)
                 PROVE  /\ v >= shared
                        /\ \A y \in Writers : writer'[y].pc = "answered" => v >= writer'[y].val
                        /\ \A q \in Procs : v >= flush'[q]
      BY <1>0, <1>7 DEF OfferedIsNew
    <2> QED
      BY <1>0, <1>1, <1>3 DEF CacheInv, OfferedIsNew
  <1>9. OfferedIsOwn'
    <2> SUFFICES ASSUME OwnKept, NEW v \in Nat, Offered(v)
                 PROVE  /\ \A q \in Procs : v >= own'[q] \/ (queue'[q] # 0 /\ ~BeingAnswered(q)' /\ v < queue'[q])
                        /\ \A r \in Readers : reader'[r].pc = "gen" => v >= reader'[r].own
      BY <1>7 DEF OfferedIsOwn
    <2>1. v >= own'[p]
      BY <1>0
    <2>2. ASSUME NEW q \in Procs, q # p
          PROVE  own'[q] = own[q] /\ queue'[q] = queue[q] /\ (BeingAnswered(q)' => BeingAnswered(q))
      <3>1. own'[q] = own[q] /\ queue'[q] = queue[q] /\ flush'[q] = flush[q]
        BY <1>0, <2>2
      <3>2. ASSUME NEW w \in Writers, writer'[w].pc = "answered" PROVE writer'[w] = writer[w]
        BY <1>1, <1>3, <3>2
      <3> QED
        BY <3>1, <3>2 DEF BeingAnswered
    <2>3. \A r \in Readers : reader'[r].pc = "gen" => v >= reader'[r].own
      BY <1>1, <1>2 DEF CacheInv, OfferedIsOwn
    <2> QED
      BY <2>1, <2>2, <2>3 DEF CacheInv, OfferedIsOwn
  <1>10. FlightIsEnough'
    BY <1>1, <1>2 DEF CacheInv, FlightIsEnough, Enough
  <1>11. ServedIsEnough'
    BY <1>0, <1>1, <1>2 DEF CacheInv, ServedIsEnough, Enough
  <1> QED
    BY <1>4, <1>5, <1>6, <1>8, <1>9, <1>10, <1>11 DEF CacheInv

-----------------------------------------------------------------------------
(* So does the expiry of a key. *)

LEMMA ExpiryKeeps ==
  ASSUME Guarded, CacheInv,
         UNCHANGED <<issued, reader, db, queue, firstAt, flush, writer, shared, own>>,
         gen' \in Tokens, gen' <= issued, copy' \in [Tokens -> Nat],
         \A k \in Tokens : copy'[k] = copy[k] \/ copy'[k] = 0,
         \A v \in Nat : Offered(v)' => Offered(v)
  PROVE  CacheInv'
  <1>1. CacheShape' /\ Bounded' /\ ReaderBounds'
    BY DEF CacheInv, CacheShape, Bounded, ReaderBounds
  <1>2. OfferedIsNew'
    BY DEF CacheInv, OfferedIsNew
  <1>3. OfferedIsOwn'
    BY DEF CacheInv, OfferedIsOwn, BeingAnswered
  <1>4. FlightIsEnough'
    BY DEF CacheInv, FlightIsEnough, Enough
  <1>5. ServedIsEnough'
    <2>1. ASSUME NEW r \in Readers PROVE reader[r].gen \in Tokens
      BY DEF CacheInv, ReaderBounds, CacheShape, ReaderState, Tokens, Guarded
    <2> QED
      BY <2>1 DEF CacheInv, ServedIsEnough, Enough
  <1> QED
    BY <1>1, <1>2, <1>3, <1>4, <1>5 DEF CacheInv

\* purgeAll takes every copy off the offer.
LEMMA PurgeKeeps ==
  ASSUME Guarded, CacheInv, NEW p \in Procs, purgeAll(p)
  PROVE  CacheInv'
  <1>0. /\ gen \in Tokens /\ gen <= issued /\ Cur \in Tokens
    BY KeysAreTokens DEF CacheInv, CacheShape, Bounded
  <1>1. /\ UNCHANGED <<issued, reader, db, queue, firstAt, flush, writer, shared, own, gen, tomb>>
        /\ copy' = [k \in Tokens |-> 0]
    BY DEF purgeAll
  <1>2. copy' \in [Tokens -> Nat] /\ \A k \in Tokens : copy'[k] = 0
    BY <1>1
  <1>3. \A v \in Nat : Offered(v)' => Offered(v)
    BY <1>0, <1>1, <1>2 DEF Offered, Current, Cur
  <1> QED
    BY <1>0, <1>1, <1>2, <1>3, ExpiryKeeps

LEMMA ExpiresKeeps ==
  ASSUME Guarded, CacheInv, (\E k \in Tokens : CopyExpires(k)) \/ TombExpires \/ GenExpires
  PROVE  CacheInv'
  <1>0. /\ gen \in Tokens /\ gen <= issued /\ copy \in [Tokens -> Nat] /\ 0 \in Tokens /\ issued \in Nat
        /\ Cur \in Tokens
    BY KeysAreTokens DEF CacheInv, CacheShape, Bounded, Tokens
  <1>1. ASSUME NEW k \in Tokens, CopyExpires(k) PROVE CacheInv'
    <2>1. /\ UNCHANGED <<issued, reader, writing, gen, tomb>> /\ copy' \in [Tokens -> Nat]
          /\ \A j \in Tokens : copy'[j] = copy[j] \/ copy'[j] = 0
      BY <1>0, <1>1 DEF CopyExpires
    <2>2. \A v \in Nat : Offered(v)' => Offered(v)
      BY <1>0, <2>1 DEF Offered, Current, Cur
    <2> QED
      BY <1>0, <2>1, <2>2, ExpiryKeeps DEF writing, retry
  <1>2. CASE TombExpires
    <2>1. UNCHANGED <<issued, reader, writing, gen, copy>> /\ \A r \in Readers : reader[r].pc # "store"
      BY <1>2 DEF TombExpires
    <2>2. \A v \in Nat : Offered(v)' => Offered(v)
      BY <2>1 DEF Offered, Current, Cur
    <2> QED
      BY <1>0, <2>1, <2>2, ExpiryKeeps DEF writing, retry
  <1>3. CASE GenExpires
    <2>1. /\ UNCHANGED <<issued, reader, writing, tomb, copy>> /\ gen' = 0
          /\ \A r \in Readers : reader[r].pc = "store" => reader[r].gen # 0
          /\ Protocol = "scoped" => copy[0] = 0
      BY <1>3 DEF GenExpires
    <2>2. \A v \in Nat : Offered(v)' => Offered(v)
      BY <2>1 DEF Offered, Current, Cur
    <2> QED
      BY <1>0, <2>1, <2>2, ExpiryKeeps DEF writing, retry
  <1> QED
    BY <1>1, <1>2, <1>3

-----------------------------------------------------------------------------
LEMMA CacheInvInit ==
  ASSUME Guarded
  PROVE  CacheInit => CacheInv
  <1> SUFFICES ASSUME CacheInit PROVE CacheInv
    OBVIOUS
  <1>0. /\ NotReading \in ReaderState /\ NotReading.pc = "idle" /\ NotReading.gen = 0 /\ 0 \in Tokens
        /\ NotWriting \in WriterState /\ NotWriting.pc = "idle" /\ NotWriting.val = 0
    BY DEF NotReading, NotWriting, ReaderState, WriterState, Tokens, Guarded
  <1>1. CacheShape /\ Bounded /\ ReaderBounds
    BY <1>0 DEF CacheInit, CacheShape, Bounded, ReaderBounds
  <1>2. \A v \in Nat : ~Offered(v)
    BY <1>0 DEF CacheInit, Offered, Current, Cur
  <1>3. FlightIsEnough /\ ServedIsEnough
    BY <1>0 DEF CacheInit, FlightIsEnough, ServedIsEnough
  <1> QED
    BY <1>1, <1>2, <1>3 DEF CacheInv, OfferedIsNew, OfferedIsOwn

LEMMA CacheInvStep ==
  ASSUME Guarded
  PROVE  CacheInv /\ [CacheNext]_cacheVars => CacheInv'
  <1> SUFFICES ASSUME CacheInv, [CacheNext]_cacheVars PROVE CacheInv'
    OBVIOUS
  <1>1. ASSUME NEW r \in Readers, Read(r) PROVE CacheInv'
    BY <1>1, ReadEffect, ReadKeeps
  <1>2. ASSUME NEW w \in Writers, Write(w) PROVE CacheInv'
    BY <1>2, CommitKeeps, InvalidateEntityKeeps, GuardedKeeps, EnqueueKeeps, NoRoomKeeps DEF Write
  <1>3. ASSUME NEW p \in Procs, Process(p) PROVE CacheInv'
    BY <1>3, FlushKeeps, FlushAnsweredKeeps, DropKeeps, PurgeKeeps, RestartKeeps DEF Process
  <1>4. CASE (\E k \in Tokens : CopyExpires(k)) \/ TombExpires \/ GenExpires
    BY <1>4, ExpiresKeeps
  <1>5. CASE UNCHANGED cacheVars
    BY <1>5 DEF cacheVars, CacheInv, CacheShape, Bounded, ReaderBounds, OfferedIsNew, OfferedIsOwn,
                FlightIsEnough, ServedIsEnough, Enough, Offered, Current, Cur, BeingAnswered, retry
  <1> QED
    BY <1>1, <1>2, <1>3, <1>4, <1>5 DEF CacheNext

\* Every read that starts after an invalidation succeeded returns that write or a newer one,
\* with each of the three protocols that guard the write-back (wrapEntity, wrapScoped,
\* setEntityLegacy), on any number of processes and with Redis failing at any moment.
THEOREM InvalidationHolds ==
  ASSUME Protocol \in {"entity", "scoped", "legacy"}, MaxWrites \in Nat, MaxFailures \in Nat
  PROVE  CacheSpec => []InvalidationRespected
  <1>1. Guarded
    BY DEF Guarded
  <1>2. CacheInit => CacheInv
    BY <1>1, CacheInvInit
  <1>3. CacheInv /\ [CacheNext]_cacheVars => CacheInv'
    BY <1>1, CacheInvStep
  <1>4. CacheInv => InvalidationRespected
    BY DEF CacheInv, ServedIsEnough, Enough, InvalidationRespected
  <1> QED
    BY <1>2, <1>3, <1>4, PTL DEF CacheSpec

\* Moreover a process serves its own writes while Redis refuses the invalidation and it retries:
\* not a write that found no room in its queue (enqueue), and from a dropped entry on only what
\* was written up to that entry's first failure (flushRetryQueue).  Provided none of its calls
\* fails while another of its calls is being answered (Overlap): the late answer would clear the
\* queue of what the failed call has put there (guarded).
THEOREM Coherence ==
  ASSUME Protocol \in {"entity", "scoped", "legacy"}, Overlap = "no",
         MaxWrites \in Nat, MaxFailures \in Nat
  PROVE  CacheSpec => []CacheCoherent
  <1>1. Guarded
    BY DEF Guarded
  <1>2. CacheInit => CacheInv
    BY <1>1, CacheInvInit
  <1>3. CacheInv /\ [CacheNext]_cacheVars => CacheInv'
    BY <1>1, CacheInvStep
  <1>4. CacheInv => CacheCoherent
    BY DEF CacheInv, ServedIsEnough, Enough, OwnKept, InvalidationRespected, OwnWritesSeen,
           CacheCoherent
  <1> QED
    BY <1>2, <1>3, <1>4, PTL DEF CacheSpec

-----------------------------------------------------------------------------
(* The invariant. *)

FanShape ==
  /\ DOMAIN bc = DOMAIN NotStarted
  /\ DOMAIN run = Workers
  /\ \A w \in Workers : DOMAIN run[w] = DOMAIN Idle /\ run[w].pos \in Nat
  /\ DOMAIN seen = Admins
  /\ \A a \in Admins : DOMAIN seen[a] = DOMAIN NotLoaded
  /\ DOMAIN inbox = Users
  /\ \A u \in Users : inbox[u] = <<>> \/ \E t : inbox[u] = <<t>>

\* The users up to n have their copy; copies are never taken back.
Reached(n) == \A u \in Users : u <= n => inbox[u] # <<>>

\* What a worker's place in runBroadcast says about the inboxes.
WalkOK ==
  /\ \A w \in Workers :
       /\ run[w].pc \in {"walk", "insert", "plan", "touch"} => Reached(run[w].pos)
       /\ run[w].pc \in {"plan", "touch"} => Reached(run[w].pos + BATCH_SIZE)
       /\ run[w].pc = "complete" => Reached(NUsers)
  /\ bc.status = "COMPLETED" => Reached(NUsers)

\* Nobody works on the broadcast, and no admin has seen it in a state that lets it go on.
Unsent == {"AWAITING_APPROVAL", "REJECTED"}
Quiet ==
  /\ \A w \in Workers : run[w].pc = "idle"
  /\ \A u \in Users : inbox[u] = <<>>
  /\ \A a \in Admins : \/ seen[a].pc = "idle"
                       \/ seen[a].pc = "loaded" /\ seen[a].row.status \in Unsent
SignOK ==
  /\ bc.approvedBy # None => signed # {}
  /\ \A a \in Admins : seen[a].row.approvedBy # None => signed # {}
  /\ bc.status = "none" => Quiet
  /\ bc.large = "yes" => signed # {} \/ (bc.status \in Unsent /\ Quiet)

FanInv == FanShape /\ WalkOK /\ SignOK

LEMMA FanInvInit == ASSUME NUsers \in Nat, BroadcastInit PROVE FanInv
  BY DEF BroadcastInit, FanInv, FanShape, WalkOK, SignOK, Quiet, Unsent, Reached, NotStarted, Idle,
         NotLoaded

-----------------------------------------------------------------------------
(* The fan-out keeps it. *)

LEMMA FanOutKeeps ==
  ASSUME NUsers \in Nat, BATCH_SIZE \in Nat \ {0}, FanInv, NEW w \in Workers,
         FanOut(w) \/ FanOutFaults(w)
  PROVE  FanInv'
  <1> USE DEF FanInv, FanShape, WalkOK, SignOK, Quiet, Unsent, Reached, NotStarted, Idle, NotLoaded,
              Users, At
  <1>1. CASE startDueBroadcasts(w)
    BY <1>1 DEF startDueBroadcasts, Startable, Go
  <1>2. CASE ReadClaimed(w)
    BY <1>2 DEF ReadClaimed
  <1>3. CASE NextPage(w)
    BY <1>3 DEF NextPage, Go
  <1>4. CASE createMany(w)
    BY <1>4 DEF createMany, audienceWhere, Go
  <1>5. ASSUME NEW planned, planDeliveriesSafely(w, planned) PROVE FanInv'
    BY <1>5 DEF planDeliveriesSafely, Go
  <1>6. CASE Touch(w)
    BY <1>6 DEF Touch
  <1>7. CASE LastPage(w)
    <2>1. Reached(NUsers)
      <3>1. run[w].pos \in Nat /\ Reached(run[w].pos)
        BY <1>7 DEF LastPage
      <3>2. \A u \in Users : ~(u > run[w].pos /\ u <= run[w].pos + BATCH_SIZE)
        BY <1>7 DEF LastPage, audienceWhere
      <3>3. run[w].pos + 1 \notin Users
        BY <3>1, <3>2
      <3> QED
        BY <3>1, <3>3
    <2>2. \E pc \in {"stop", "complete"} : run' = [run EXCEPT ![w].pc = pc]
      BY <1>7 DEF LastPage, Go
    <2>3. UNCHANGED <<bc, seen, inbox, signed>> /\ run[w].pc # "idle"
      BY <1>7 DEF LastPage
    <2> QED
      BY <2>1, <2>2, <2>3
  <1>8. CASE markStopped(w) \/ Complete(w)
    <2>1. PICK s \in {"STOPPED", "COMPLETED"} :
            bc' = [bc EXCEPT !.status = s, !.age = "fresh"] /\ (s = "COMPLETED" => Reached(NUsers))
      BY <1>8 DEF markStopped, Complete, End
    <2>2. run' = [run EXCEPT ![w] = Idle] /\ UNCHANGED <<seen, inbox, signed>> /\ run[w].pc # "idle"
      BY <1>8 DEF markStopped, Complete, End
    <2> QED
      BY <2>1, <2>2
  <1>9. CASE runBroadcast_catch(w)
    BY <1>9 DEF runBroadcast_catch, End
  <1>10. CASE Crash(w)
    BY <1>10 DEF Crash
  <1> HIDE DEF FanInv
  <1> QED
    BY <1>1, <1>2, <1>3, <1>4, <1>5, <1>6, <1>7, <1>8, <1>9, <1>10 DEF FanOut, FanOutFaults

LEMMA ClockKeeps ==
  ASSUME FanInv, Clock \/ ClaimAges \/ DeadClaimAges
  PROVE  FanInv'
  BY DEF FanInv, FanShape, WalkOK, SignOK, Quiet, Unsent, Reached, NotStarted, Clock, ClaimAges,
         DeadClaimAges

LEMMA BroadcastKeeps ==
  ASSUME FanInv, NEW t, NEW large, NEW due, broadcast(t, large, due)
  PROVE  FanInv'
  BY DEF FanInv, FanShape, WalkOK, SignOK, Quiet, Unsent, Reached, NotStarted, broadcast

-----------------------------------------------------------------------------
(* The admins keep it. *)

LEMMA AdminsKeep ==
  ASSUME FanInv, NEW a \in Admins, Decisions(a) \/ Stops(a)
  PROVE  FanInv'
  <1> USE DEF FanInv, FanShape, WalkOK, SignOK, Quiet, Unsent, Reached, NotStarted, NotLoaded,
              Loaded, Respond, adminRest
  <1>1. CASE findOwnedBroadcast(a) \/ AdminRefused(a)
    BY <1>1 DEF findOwnedBroadcast, AdminRefused
  <1>2. CASE cancelBroadcast(a) \/ rejectBroadcast(a)
    <2>1. PICK s \in {"CANCELLED", "REJECTED"} :
            /\ bc' = [bc EXCEPT !.status = s, !.age = "fresh"]
            /\ bc.status # "none" /\ (s = "CANCELLED" => bc.status \notin Unsent)
      BY <1>2 DEF cancelBroadcast, rejectBroadcast
    <2>2. seen' = [seen EXCEPT ![a] = NotLoaded] /\ UNCHANGED <<run, inbox, signed>>
      BY <1>2 DEF cancelBroadcast, rejectBroadcast
    <2> QED
      BY <2>1, <2>2
  <1>3. CASE approveBroadcast(a)
    BY <1>3 DEF approveBroadcast
  <1>4. CASE reschedule(a)
    BY <1>4 DEF reschedule, Open
  <1>5. ASSUME NEW t, updateBroadcast(a, t) PROVE FanInv'
    BY <1>5 DEF updateBroadcast, Open
  <1>6. CASE stopBroadcast(a)
    BY <1>6 DEF stopBroadcast
  <1>7. CASE holdDeliveries(a)
    <2>1. seen[a].pc = "hold" /\ UNCHANGED <<bc, run, inbox, signed>>
      BY <1>7 DEF holdDeliveries
    <2>2. CASE seen' = [seen EXCEPT ![a].pc = "close"]
      BY <2>1, <2>2
    <2>3. CASE seen' = [seen EXCEPT ![a] = NotLoaded]
      BY <2>1, <2>3
    <2> QED
      BY <1>7, <2>2, <2>3 DEF holdDeliveries
  <1>8. CASE closeStopped(a)
    BY <1>8 DEF closeStopped
  <1>9. CASE retryBroadcast(a)
    BY <1>9 DEF retryBroadcast
  <1>10. CASE requeueDeliveries(a)
    BY <1>10 DEF requeueDeliveries
  <1> HIDE DEF FanInv
  <1> QED
    BY <1>1, <1>2, <1>3, <1>4, <1>5, <1>6, <1>7, <1>8, <1>9, <1>10 DEF Decisions, Stops

\* The queue leaves the broadcast alone.
LEMMA QueueLeaves == ASSUME NEW w \in Workers, Queue(w) PROVE UNCHANGED fanVars
  <1>1. CASE processDeliveries(w)
    BY <1>1 DEF processDeliveries, claimDeliveries, recoverStuckDeliveries, dispatchOne, Send,
                MarkSent
  <1>2. CASE dispatchOne_catch(w)
    BY <1>2 DEF dispatchOne_catch
  <1>3. CASE retryAllFailedDeliveries \/ pauseQueueChannel \/ resumeQueueChannel
    BY <1>3 DEF retryAllFailedDeliveries, retryDeliveries, pauseQueueChannel, resumeQueueChannel
  <1>4. ASSUME NEW S, retryDeliveries(S) PROVE UNCHANGED fanVars
    BY <1>4 DEF retryDeliveries
  <1> QED
    BY <1>1, <1>2, <1>3, <1>4 DEF Queue

LEMMA FanInvStep ==
  ASSUME NUsers \in Nat, BATCH_SIZE \in Nat \ {0}, FanInv, [BroadcastNext]_bcVars
  PROVE  FanInv'
  <1>1. CASE UNCHANGED fanVars
    BY <1>1 DEF fanVars, FanInv, FanShape, WalkOK, SignOK, Quiet, Reached
  <1>2. CASE UNCHANGED bcVars
    BY <1>1, <1>2 DEF bcVars, fanVars
  <1>3. ASSUME NEW w \in Workers, Crash(w) PROVE FanInv'
    BY <1>3, FanOutKeeps DEF FanOutFaults
  <1>4. CASE WorkerNext
    BY <1>4, FanOutKeeps, ClockKeeps DEF WorkerNext
  <1>5. CASE FanNext \/ StopNext
    BY <1>4, <1>5, ClockKeeps, BroadcastKeeps, AdminsKeep DEF FanNext, StopNext
  <1>6. CASE SignNext
    BY <1>6, FanOutKeeps, ClockKeeps, BroadcastKeeps, AdminsKeep DEF SignNext
  <1>7. CASE QueueNext
    BY <1>1, <1>3, <1>7, FanOutKeeps, ClockKeeps, BroadcastKeeps, AdminsKeep, QueueLeaves
       DEF QueueNext
  <1> QED
    BY <1>2, <1>5, <1>6, <1>7 DEF BroadcastNext

\* Whatever workers, faults, approvals, stops and retries do at the same time, nobody gets two
\* rows of a broadcast (createMany with skipDuplicates), a broadcast that reads COMPLETED,
\* which is written by id, has reached its whole audience (runBroadcast), and nothing of a
\* large one is in an inbox before a second person has approved (approveBroadcast).
THEOREM ReachesAllOnce ==
  ASSUME NUsers \in Nat, BATCH_SIZE \in Nat \ {0}
  PROVE  BroadcastSpec => []BroadcastReachesAllOnce
  <1>1. BroadcastInit => FanInv
    BY FanInvInit
  <1>2. FanInv /\ [BroadcastNext]_bcVars => FanInv'
    BY FanInvStep
  <1>3. FanInv => BroadcastReachesAllOnce
    <2> SUFFICES ASSUME FanInv PROVE BroadcastReachesAllOnce
      OBVIOUS
    <2>1. OneCopyPerUser
      <3> SUFFICES ASSUME NEW u \in Users PROVE Len(inbox[u]) <= 1
        BY DEF OneCopyPerUser
      <3>1. CASE inbox[u] = <<>>
        BY <3>1
      <3>2. ASSUME NEW t, inbox[u] = <<t>> PROVE Len(inbox[u]) <= 1
        BY <3>2
      <3> QED
        BY <3>1, <3>2 DEF FanInv, FanShape
    <2>2. CompletedReachedAll
      BY DEF FanInv, WalkOK, Reached, Users, CompletedReachedAll
    <2>3. NoSendBeforeApproval
      BY DEF FanInv, SignOK, Quiet, NoSendBeforeApproval
    <2> QED
      BY <2>1, <2>2, <2>3 DEF BroadcastReachesAllOnce
  <1> QED
    BY <1>1, <1>2, <1>3, PTL DEF BroadcastSpec

-----------------------------------------------------------------------------
(* Deliveries on hold.  A worker that is sending has the row to itself. *)

QueueInv ==
  /\ DOMAIN delivery = Users
  /\ \A u \in Users : DOMAIN delivery[u] = DOMAIN NotPlanned
  /\ DOMAIN sender = Workers
  /\ \A w \in Workers :
       /\ DOMAIN sender[w] = DOMAIN NotSending
       /\ sender[w].pc # "idle" => /\ sender[w].user \in Users
                                   /\ delivery[sender[w].user].status = "SENDING"
  /\ \A v, w \in Workers :
       sender[v].pc # "idle" /\ sender[w].pc # "idle" /\ sender[v].user = sender[w].user => v = w

\* What a step of the queue comes to: deliveries that are being sent are touched by their
\* sender only, and a delivery on hold not at all.
QueueMove == QueueInv' /\ \A u \in Users : Held(u) => Held(u)'

LEMMA SenderKeeps ==
  ASSUME QueueInv, NEW w \in Workers, processDeliveries(w) \/ dispatchOne_catch(w)
  PROVE  QueueMove
  <1> USE DEF QueueMove, QueueInv, NotPlanned, NotSending, Held, Set, Done
  <1>1. ASSUME NEW u \in Users, claimDeliveries(w, u) PROVE QueueMove
    BY <1>1 DEF claimDeliveries
  <1>2. ASSUME NEW u \in Users, recoverStuckDeliveries(u) PROVE QueueMove
    BY <1>2 DEF recoverStuckDeliveries, Orphan
  <1>3. ASSUME NEW ok, dispatchOne(w, ok) PROVE QueueMove
    <2>1. CASE ok
      BY <1>3, <2>1 DEF dispatchOne
    <2>2. CASE ~ok
      BY <1>3, <2>2 DEF dispatchOne
    <2> QED
      BY <2>1, <2>2
  <1>4. CASE Send(w)
    BY <1>4 DEF Send
  <1>5. CASE MarkSent(w)
    BY <1>5 DEF MarkSent
  <1>6. CASE dispatchOne_catch(w)
    BY <1>6 DEF dispatchOne_catch
  <1> HIDE DEF QueueMove
  <1> QED
    BY <1>1, <1>2, <1>3, <1>4, <1>5, <1>6 DEF processDeliveries

LEMMA QueueKeeps ==
  ASSUME QueueInv, NEW w \in Workers, Queue(w)
  PROVE  QueueMove
  <1> USE DEF QueueMove, QueueInv, NotPlanned, NotSending, Held
  <1>1. ASSUME NEW S, retryDeliveries(S) PROVE QueueMove
    BY <1>1 DEF retryDeliveries, Requeue
  <1>2. CASE pauseQueueChannel \/ resumeQueueChannel
    BY <1>2 DEF pauseQueueChannel, resumeQueueChannel
  <1> HIDE DEF QueueMove, QueueInv
  <1> QED
    BY <1>1, <1>2, SenderKeeps DEF Queue, retryAllFailedDeliveries

LEMMA FanOutLeaves ==
  ASSUME QueueInv, NEW w \in Workers, FanOut(w) \/ FanOutFaults(w)
  PROVE  QueueMove
  <1> USE DEF QueueMove, QueueInv, NotPlanned, NotSending, Held
  <1>1. ASSUME NEW planned, planDeliveriesSafely(w, planned) PROVE QueueMove
    BY <1>1 DEF planDeliveriesSafely
  <1>2. CASE Crash(w)
    BY <1>2 DEF Crash
  <1>3. CASE UNCHANGED queueVars
    BY <1>3 DEF queueVars
  <1> HIDE DEF QueueMove, QueueInv
  <1> QED
    BY <1>1, <1>2, <1>3 DEF FanOut, FanOutFaults, startDueBroadcasts, ReadClaimed, NextPage,
       createMany, Touch, LastPage, markStopped, Complete, runBroadcast_catch, End

LEMMA AdminsLeave ==
  ASSUME QueueInv, NEW a \in Admins, Decisions(a) \/ Stops(a), ~requeueDeliveries(a)
  PROVE  QueueMove
  <1> USE DEF QueueMove, QueueInv, NotPlanned, NotSending, Held
  <1>1. CASE holdDeliveries(a)
    BY <1>1 DEF holdDeliveries
  <1>2. CASE UNCHANGED queueVars
    BY <1>2 DEF queueVars
  <1> HIDE DEF QueueMove, QueueInv
  <1> QED
    BY <1>1, <1>2 DEF Decisions, Stops, findOwnedBroadcast, AdminRefused, cancelBroadcast,
       approveBroadcast, rejectBroadcast, reschedule, updateBroadcast, stopBroadcast, closeStopped,
       retryBroadcast

LEMMA RequeueKeeps ==
  ASSUME QueueInv, NEW a \in Admins, requeueDeliveries(a)
  PROVE  QueueInv'
  BY DEF QueueInv, NotPlanned, NotSending, Held, requeueDeliveries, Requeue

LEMMA QueueStep ==
  ASSUME QueueInv, [BroadcastNext]_bcVars
  PROVE  QueueMove \/ (QueueInv' /\ \E a \in Admins : requeueDeliveries(a))
  <1>1. CASE UNCHANGED queueVars
    BY <1>1 DEF queueVars, QueueMove, QueueInv, Held
  <1>2. CASE UNCHANGED bcVars
    BY <1>1, <1>2 DEF bcVars, queueVars
  <1>3. CASE Clock \/ ClaimAges \/ DeadClaimAges \/ \E t, l, d : broadcast(t, l, d)
    BY <1>1, <1>3 DEF Clock, ClaimAges, DeadClaimAges, broadcast
  <1>4. CASE \E w \in Workers : FanOut(w) \/ FanOutFaults(w) \/ Queue(w)
    BY <1>4, FanOutLeaves, QueueKeeps
  <1>5. CASE \E a \in Admins : Decisions(a) \/ Stops(a)
    BY <1>5, AdminsLeave, RequeueKeeps
  <1>6. CASE FanNext \/ StopNext
    BY <1>3, <1>4, <1>5, <1>6 DEF FanNext, StopNext, WorkerNext
  <1>7. CASE SignNext
    BY <1>3, <1>4, <1>5, <1>7 DEF SignNext
  <1>8. CASE QueueNext
    BY <1>3, <1>4, <1>5, <1>8 DEF QueueNext, FanOutFaults
  <1> QED
    BY <1>2, <1>6, <1>7, <1>8 DEF BroadcastNext

\* A delivery that a stop has put on hold leaves the hold only when an admin retries the
\* broadcast (holdDeliveries, requeueDeliveries): no sender that was already at work, no
\* recovery of stuck rows, no retry of failed ones and no second planning lets it go.
THEOREM HeldStaysHeld == BroadcastSpec => [][HeldUntilRetried]_bcVars
  <1>1. BroadcastInit => QueueInv
    BY DEF BroadcastInit, QueueInv, NotPlanned, NotSending
  <1>2. QueueInv /\ [BroadcastNext]_bcVars => QueueInv'
    BY QueueStep DEF QueueMove
  <1>3. QueueInv /\ [BroadcastNext]_bcVars => [HeldUntilRetried]_bcVars
    BY QueueStep DEF QueueMove, HeldUntilRetried
  <1> QED
    BY <1>1, <1>2, <1>3, PTL DEF BroadcastSpec

-----------------------------------------------------------------------------
(***************************************************************************)
(* Notifications.  Rows of one keyed event to one user carry the key, and  *)
(* a row with a taken key is not created; a run under an idempotency key   *)
(* owns it while it is "running", and only its result is ever answered;    *)
(* a role is only recorded together with an actor.                         *)
(***************************************************************************)
CONSTANTS People, AdminUsers, Rows, Events, Requests, Keys, PushTokens, Conns,
          MAX_OUTSIDE_PER_HOUR, MAX_DEVICES_PER_USER, MAX_STREAMS_PER_USER, MaxSends
VARIABLES note, due, plan, quiet, device, prune, conn, members, streams, key, send, told, tmpl

Notes == INSTANCE Notification WITH Users <- People, Tokens <- PushTokens

KeyedEvents == DOMAIN Notes!PaymentEvents \cup {"INFORMATION_SUBMISSION_REVIEWED", "INFORMATION_SUBMISSION_REJECTED"}
NullIsNothing == None \notin AdminUsers \cup Keys \cup KeyedEvents \cup {"ADMIN", "SUPER_ADMIN"}

NoteFields == {"user", "kind", "about", "once", "actor", "role", "read", "expired"}
NoteOK(n) ==
  /\ DOMAIN n = NoteFields
  /\ n.role \in {None, "ADMIN"} /\ (n.role # None => n.actor # None)
  /\ n.about \in KeyedEvents => n.once = n.about
NotesOK ==
  /\ DOMAIN note = Rows /\ \A r \in Rows : NoteOK(note[r])
  /\ \A r, x \in Rows : note[r].about \in KeyedEvents /\ note[r].about = note[x].about /\ note[r].user = note[x].user => r = x

\* A request in the middle of a keyed send holds the key alone; what was answered is stored.
KeysOK ==
  /\ DOMAIN key = Keys /\ DOMAIN send = Requests
  /\ \A k \in Keys : DOMAIN key[k] = {"state", "result"}
  /\ \A q \in Requests : DOMAIN send[q] = {"key", "result"}
  /\ \A q \in Requests : send[q].result # 0 => send[q].key # None
  /\ \A q \in Requests : send[q].key # None => send[q].key \in Keys /\ key[send[q].key].state = "running"
  /\ \A p, q \in Requests : send[p].key # None /\ send[p].key = send[q].key => p = q
  /\ \A t \in told : t[1] \in Keys /\ key[t[1]].state = "done" /\ t[2] = key[t[1]].result

LEMMA KeyedRoute == \A e \in KeyedEvents : Notes!EventRoute(e) = "once"
  <1> DEFINE Tables == {Notes!ReportEvents, Notes!PostEvents, Notes!MissingPersonEvents, Notes!InformationEvents,
                        Notes!PaymentEvents, Notes!BillingEvents, Notes!VictimProfileEvents, Notes!SecurityEvents}
             T(e) == CHOOSE f \in Tables : e \in DOMAIN f
  <1>1. \A e \in DOMAIN Notes!PaymentEvents :
          /\ e \notin DOMAIN Notes!ReportEvents /\ e \notin DOMAIN Notes!PostEvents /\ e \notin DOMAIN Notes!MissingPersonEvents
          /\ e \notin DOMAIN Notes!InformationEvents /\ e \notin DOMAIN Notes!BillingEvents
          /\ e \notin DOMAIN Notes!VictimProfileEvents /\ e \notin DOMAIN Notes!SecurityEvents
          /\ Notes!PaymentEvents[e] = "once"
    BY DEF Notes!ReportEvents, Notes!PostEvents, Notes!MissingPersonEvents, Notes!InformationEvents, Notes!PaymentEvents,
       Notes!BillingEvents, Notes!VictimProfileEvents, Notes!SecurityEvents
  <1>2. \A e \in {"INFORMATION_SUBMISSION_REVIEWED", "INFORMATION_SUBMISSION_REJECTED"} :
          /\ e \notin DOMAIN Notes!ReportEvents /\ e \notin DOMAIN Notes!PostEvents /\ e \notin DOMAIN Notes!MissingPersonEvents
          /\ e \notin DOMAIN Notes!PaymentEvents /\ e \notin DOMAIN Notes!BillingEvents
          /\ e \notin DOMAIN Notes!VictimProfileEvents /\ e \notin DOMAIN Notes!SecurityEvents
          /\ e \in DOMAIN Notes!InformationEvents /\ Notes!InformationEvents[e] = "once"
    BY DEF Notes!ReportEvents, Notes!PostEvents, Notes!MissingPersonEvents, Notes!InformationEvents, Notes!PaymentEvents,
       Notes!BillingEvents, Notes!VictimProfileEvents, Notes!SecurityEvents
  <1>3. \A e : Notes!EventRoute(e) = T(e)[e]
    BY DEF Notes!EventRoute
  <1>4. ASSUME NEW e \in DOMAIN Notes!PaymentEvents PROVE T(e) = Notes!PaymentEvents
    <2>1. \A f \in Tables : e \in DOMAIN f => f = Notes!PaymentEvents
      BY <1>1
    <2> QED
      BY <2>1
  <1>5. ASSUME NEW e \in {"INFORMATION_SUBMISSION_REVIEWED", "INFORMATION_SUBMISSION_REJECTED"} PROVE T(e) = Notes!InformationEvents
    <2>1. \A f \in Tables : e \in DOMAIN f => f = Notes!InformationEvents
      BY <1>2
    <2> QED
      BY <1>2, <2>1
  <1> HIDE DEF T
  <1> QED
    BY <1>1, <1>2, <1>3, <1>4, <1>5 DEF KeyedEvents

\* What creating rows does to the table.
LEMMA CreatedRows ==
  ASSUME NEW S, NEW kind, NEW e, NEW once, NEW actor, Notes!createForUsers(S, kind, e, once, actor)
  PROVE  /\ DOMAIN note' = Rows
         /\ \A r \in Rows : note'[r] = note[r] \/ \E u : note'[r] = Notes!NewRow(u, kind, e, once, actor)
  <1> DEFINE new == {u \in S : ~Notes!Taken(u, once)}
             free == {r \in Rows : ~Notes!Present(r)}
             at == CHOOSE f \in [new -> free] : \A u, v \in new : f[u] = f[v] => u = v
  <1>1. note' = [r \in Rows |-> IF \E u \in new : at[u] = r
                                THEN Notes!NewRow(CHOOSE u \in new : at[u] = r, kind, e, once, actor) ELSE note[r]]
    BY DEF Notes!createForUsers
  <1> HIDE DEF new, at
  <1> QED
    BY <1>1

LEMMA CreatedRow ==
  ASSUME NEW u, NEW kind, NEW e, NEW once, NEW actor, Notes!createForUser(u, kind, e, once, actor)
  PROVE  \/ \A r \in Rows : note'[r] = note[r]
         \/ /\ ~Notes!Taken(u, once)
            /\ \E x : \A r \in Rows : note'[r] = IF r = x THEN Notes!NewRow(u, kind, e, once, actor) ELSE note[r]
  <1> DEFINE new == {w \in {u} : ~Notes!Taken(w, once)}
             free == {r \in Rows : ~Notes!Present(r)}
             at == CHOOSE f \in [new -> free] : \A w, v \in new : f[w] = f[v] => w = v
  <1>1. note' = [r \in Rows |-> IF \E w \in new : at[w] = r
                                THEN Notes!NewRow(CHOOSE w \in new : at[w] = r, kind, e, once, actor) ELSE note[r]]
    BY DEF Notes!createForUser, Notes!createForUsers
  <1>2. new = IF Notes!Taken(u, once) THEN {} ELSE {u}
    OBVIOUS
  <1> HIDE DEF new, at
  <1>3. CASE Notes!Taken(u, once)
    BY <1>1, <1>2, <1>3
  <1>4. CASE ~Notes!Taken(u, once)
    <2>1. \A r \in Rows : at[u] = r => (CHOOSE w \in new : at[w] = r) = u
      BY <1>2, <1>4
    <2>2. \A r \in Rows : note'[r] = IF r = at[u] THEN Notes!NewRow(u, kind, e, once, actor) ELSE note[r]
      BY <1>1, <1>2, <1>4, <2>1
    <2> QED
      BY <1>4, <2>2
  <1> QED
    BY <1>3, <1>4

LEMMA NewRowOK ==
  ASSUME NullIsNothing, NEW u, NEW kind, NEW e, NEW once, NEW actor, e \in KeyedEvents => once = e
  PROVE  /\ NoteOK(Notes!NewRow(u, kind, e, once, actor))
         /\ Notes!NewRow(u, kind, e, once, actor).user = u /\ Notes!NewRow(u, kind, e, once, actor).about = e
         /\ Notes!NewRow(u, kind, e, once, actor).once = once
  BY DEF NullIsNothing, NoteOK, NoteFields, Notes!NewRow, Notes!NoNote

LEMMA NotesStep ==
  ASSUME NullIsNothing, NotesOK, [Notes!NotificationNext]_(Notes!noteVars)
  PROVE  NotesOK'
  <1>1. ASSUME DOMAIN note' = Rows,
               \A r \in Rows : \/ note'[r] = note[r]
                               \/ /\ NoteOK(note'[r])
                                  /\ \/ note'[r].about \notin KeyedEvents
                                     \/ note'[r].about = note[r].about /\ note'[r].user = note[r].user
        PROVE  NotesOK'
    <2>1. \A r \in Rows : NoteOK(note[r]) /\ NoteOK(note'[r])
      BY <1>1 DEF NotesOK
    <2>2. \A r \in Rows : note'[r].about \in KeyedEvents => note'[r].about = note[r].about /\ note'[r].user = note[r].user
      BY <1>1
    <2>3. \A r, x \in Rows : note'[r].about \in KeyedEvents /\ note'[r].about = note'[x].about /\ note'[r].user = note'[x].user => r = x
      BY <2>2 DEF NotesOK
    <2> HIDE DEF NoteOK
    <2> QED
      BY <1>1, <2>1, <2>3 DEF NotesOK
  <1>2. ASSUME UNCHANGED note PROVE NotesOK'
    BY <1>1, <1>2 DEF NotesOK
  <1>3. NoteOK(Notes!NoNote) /\ Notes!NoNote.about \notin KeyedEvents
    BY DEF NullIsNothing, NoteOK, NoteFields, Notes!NoNote
  <1>4. ASSUME NEW S, Notes!Drop(S) PROVE NotesOK'
    BY <1>1, <1>3, <1>4 DEF Notes!Drop
  <1>5. ASSUME NEW S, NEW v, Notes!SetRead(S, v) PROVE NotesOK'
    <2>1. DOMAIN note' = Rows /\ \A r \in Rows : note'[r] = note[r] \/ note'[r] = [note[r] EXCEPT !.read = v]
      BY <1>5 DEF Notes!SetRead
    <2>2. \A r \in Rows : LET w == [note[r] EXCEPT !.read = v] IN NoteOK(w) /\ w.about = note[r].about /\ w.user = note[r].user
      BY DEF NotesOK, NoteOK, NoteFields
    <2> QED
      BY <1>1, <2>1, <2>2
  <1>6. ASSUME NEW r \in Rows, Notes!Expire(r) PROVE NotesOK'
    <2> DEFINE w == [note[r] EXCEPT !.expired = "yes"]
    <2>1. note' = [note EXCEPT ![r] = w]
      BY <1>6 DEF Notes!Expire, NotesOK
    <2>2. NoteOK(w) /\ w.about = note[r].about /\ w.user = note[r].user
      BY DEF NotesOK, NoteOK, NoteFields
    <2> HIDE DEF w
    <2>3. DOMAIN note' = Rows /\ note'[r] = w /\ \A x \in Rows : x # r => note'[x] = note[x]
      BY <2>1 DEF NotesOK
    <2> QED
      BY <1>1, <2>2, <2>3
  <1>7. ASSUME NEW u, Notes!eraseForUser(u) PROVE NotesOK'
    <2>1. /\ DOMAIN note' = Rows
          /\ \A r \in Rows : note'[r] = note[r] \/ note'[r] = Notes!NoNote \/ note'[r] = [note[r] EXCEPT !.role = None]
      BY <1>7 DEF Notes!eraseForUser
    <2>2. \A r \in Rows : LET w == [note[r] EXCEPT !.role = None] IN NoteOK(w) /\ w.about = note[r].about /\ w.user = note[r].user
      BY DEF NotesOK, NoteOK, NoteFields
    <2> QED
      BY <1>1, <1>3, <2>1, <2>2
  \* Rows of an event without a key.
  <1>8. ASSUME NEW S, NEW kind, NEW e, NEW once, NEW actor, Notes!createForUsers(S, kind, e, once, actor), e \notin KeyedEvents
        PROVE  NotesOK'
    <2>1. \A u : NoteOK(Notes!NewRow(u, kind, e, once, actor)) /\ Notes!NewRow(u, kind, e, once, actor).about \notin KeyedEvents
      BY <1>8, NewRowOK
    <2> HIDE DEF NoteOK
    <2> QED
      BY <1>1, <1>8, <2>1, CreatedRows
  \* A row of an event with a key.
  <1>9. ASSUME NEW u, NEW kind, NEW e, NEW actor, Notes!createForUser(u, kind, e, e, actor), e \in KeyedEvents
        PROVE  NotesOK'
    <2>1. DOMAIN note' = Rows
      BY <1>9, CreatedRows DEF Notes!createForUser
    <2>2. CASE \A r \in Rows : note'[r] = note[r]
      BY <1>1, <2>1, <2>2
    <2> DEFINE w == Notes!NewRow(u, kind, e, e, actor)
    <2>3. CASE /\ ~Notes!Taken(u, e)
               /\ \E x : \A r \in Rows : note'[r] = IF r = x THEN w ELSE note[r]
      <3>1. PICK x : \A r \in Rows : note'[r] = IF r = x THEN w ELSE note[r]
        BY <2>3
      <3>2. NoteOK(w) /\ w.user = u /\ w.about = e
        BY NewRowOK
      <3>3. e # None
        BY <1>9 DEF NullIsNothing
      <3>4. \A r \in Rows : ~(note[r].about = e /\ note[r].user = u)
        BY <1>9, <2>3, <3>3 DEF Notes!Taken, NotesOK, NoteOK
      <3> HIDE DEF w
      <3>5. \A r \in Rows : NoteOK(note'[r])
        BY <3>1, <3>2 DEF NotesOK
      <3>6. ASSUME NEW r \in Rows, NEW s \in Rows, note'[r].about \in KeyedEvents,
                   note'[r].about = note'[s].about, note'[r].user = note'[s].user
            PROVE  r = s
        <4>1. CASE r = x
          BY <3>1, <3>2, <3>4, <3>6, <4>1
        <4>2. CASE r # x /\ s = x
          BY <3>1, <3>2, <3>4, <3>6, <4>2
        <4>3. CASE r # x /\ s # x
          BY <3>1, <3>6, <4>3 DEF NotesOK
        <4> QED
          BY <4>1, <4>2, <4>3
      <3> HIDE DEF NoteOK
      <3> QED
        BY <2>1, <3>5, <3>6 DEF NotesOK
    <2> QED
      BY <1>9, <2>2, <2>3, CreatedRow
  <1>10. CASE Notes!Incoming
    <2>1. ASSUME NEW e, NEW u, NEW a, Notes!toUser(e, u, a) PROVE NotesOK'
      <3>1. CASE e \in KeyedEvents
        BY <1>9, <2>1, <3>1, KeyedRoute DEF Notes!toUser
      <3>2. CASE e \notin KeyedEvents
        BY <1>8, <2>1, <3>2 DEF Notes!toUser, Notes!createForUser
      <3> QED
        BY <3>1, <3>2
    <2>2. ASSUME NEW e, NEW a, Notes!toAdmins(e, a) PROVE NotesOK'
      <3>1. e \notin KeyedEvents
        BY <2>2, KeyedRoute DEF Notes!toAdmins
      <3> QED
        BY <1>8, <2>2, <3>1 DEF Notes!toAdmins, Notes!createForAdmins
    <2>3. {"test", "sent", "job", "alert"} \cap KeyedEvents = {}
      BY DEF KeyedEvents, Notes!PaymentEvents
    <2>4. ASSUME NEW u, NEW a,
                 \/ Notes!sendTestToSelf(u) \/ Notes!handleExportJobFinished(u, "job") \/ Notes!manualSend(a, u)
                 \/ Notes!handleAuditAlertTriggered("alert")
          PROVE  NotesOK'
      BY <1>8, <2>3, <2>4 DEF Notes!sendTestToSelf, Notes!handleExportJobFinished, Notes!manualSend,
         Notes!handleAuditAlertTriggered, Notes!createForUser
    <2> HIDE DEF NotesOK
    <2> QED
      BY <1>10, <2>1, <2>2, <2>4 DEF Notes!Incoming
  <1>11. CASE Notes!InboxNext
    BY <1>4, <1>5, <1>6, <1>7, <1>10, <1>11 DEF Notes!InboxNext, Notes!deleteExpired, Notes!runMaintenance, Notes!markAllAsRead,
       Notes!deleteAllMyRead, Notes!markBulkAsRead, Notes!markBulkAsUnread, Notes!deleteMyBulk
  <1>12. CASE Notes!PlanNext
    <2>1. ASSUME NEW u, NEW S, Notes!Silence(u, S) PROVE NotesOK'
      BY <1>2, <2>1 DEF Notes!Silence, Notes!prefRest
    <2>2. ASSUME NEW r, Notes!planDeliveries(r) \/ Notes!PlanFails(r) PROVE NotesOK'
      BY <1>2, <2>2 DEF Notes!planDeliveries, Notes!PlanFails
    <2> QED
      BY <1>10, <1>12, <2>1, <2>2 DEF Notes!PlanNext, Notes!updateMyPreferences, Notes!resetAllMyPreferences, Notes!setMySnooze,
         Notes!cancelMySnooze, Notes!muteEntity, Notes!unmuteEntity, Notes!recordBounce, Notes!clearBounce
  <1>13. CASE Notes!DeviceNext
    BY <1>2, <1>13 DEF Notes!DeviceNext, Notes!createTemplate, Notes!updateTemplate, Notes!retireTemplate, Notes!activateTemplate,
       Notes!templateRest, Notes!OldDevices, Notes!Found, Notes!deleteOldDevices, Notes!registerDevice, Notes!unregisterAllMyDevices,
       Notes!revokeUserDevices, Notes!unregisterDevice, Notes!deviceRest
  <1>14. CASE Notes!StreamNext
    BY <1>2, <1>14 DEF Notes!StreamNext, Notes!Teardown, Notes!streamForUser, Notes!streamRest
  <1>15. CASE Notes!KeyNext
    BY <1>2, <1>15 DEF Notes!KeyNext, Notes!KeysExpire, Notes!createFromAdmin, Notes!StoreResult, Notes!ReleaseKey, Notes!SendCrash,
       Notes!withIdempotency, Notes!AnswerStored, Notes!keyRest
  <1>16. CASE UNCHANGED Notes!noteVars
    BY <1>2, <1>16 DEF Notes!noteVars
  <1> QED
    BY <1>11, <1>12, <1>13, <1>14, <1>15, <1>16 DEF Notes!NotificationNext

LEMMA KeysStep ==
  ASSUME NullIsNothing, KeysOK, [Notes!NotificationNext]_(Notes!noteVars)
  PROVE  KeysOK'
  <1> USE DEF KeysOK
  <1>1. ASSUME UNCHANGED <<key, send, told>> PROVE KeysOK'
    BY <1>1
  <1>2. None \notin Keys
    BY DEF NullIsNothing
  <1>3. ASSUME NEW q \in Requests, NEW k \in Keys, Notes!withIdempotency(q, k) PROVE KeysOK'
    <2>1. /\ key' = [key EXCEPT ![k] = [key[k] EXCEPT !.state = "running"]] /\ key[k].state = "none"
          /\ send' = [send EXCEPT ![q] = [key |-> k, result |-> 0]] /\ UNCHANGED told
      BY <1>3 DEF Notes!withIdempotency
    <2> QED
      BY <1>2, <2>1
  <1>4. ASSUME NEW q \in Requests, NEW k \in Keys, Notes!AnswerStored(q, k) PROVE KeysOK'
    BY <1>4 DEF Notes!AnswerStored
  <1>5. ASSUME NEW q \in Requests, Notes!createFromAdmin(q) PROVE KeysOK'
    <2>1. PICK n \in 1..MaxSends : send' = [send EXCEPT ![q] = [send[q] EXCEPT !.result = n]]
      BY <1>5 DEF Notes!createFromAdmin
    <2>2. send[q].key # None /\ UNCHANGED <<key, told>>
      BY <1>5 DEF Notes!createFromAdmin
    <2> QED
      BY <2>1, <2>2
  <1>6. ASSUME NEW q \in Requests, Notes!StoreResult(q) PROVE KeysOK'
    <2>1. /\ key' = [key EXCEPT ![send[q].key] = [state |-> "done", result |-> send[q].result]]
          /\ told' = told \cup {<<send[q].key, send[q].result>>}
          /\ send' = [send EXCEPT ![q] = [key |-> None, result |-> 0]] /\ send[q].key # None
      BY <1>6 DEF Notes!StoreResult, Notes!NotSendingKey
    <2> QED
      BY <2>1
  <1>7. ASSUME NEW q \in Requests, Notes!ReleaseKey(q) PROVE KeysOK'
    <2>1. /\ key' = [key EXCEPT ![send[q].key] = [state |-> "none", result |-> 0]] /\ UNCHANGED told
          /\ send' = [send EXCEPT ![q] = [key |-> None, result |-> 0]] /\ send[q].key # None
      BY <1>7 DEF Notes!ReleaseKey, Notes!NotSendingKey, Notes!Free
    <2> QED
      BY <2>1
  <1>8. ASSUME NEW q \in Requests, Notes!SendCrash(q) PROVE KeysOK'
    BY <1>8 DEF Notes!SendCrash, Notes!NotSendingKey
  <1>9. CASE Notes!KeysExpire
    BY <1>9 DEF Notes!KeysExpire, Notes!NotSendingKey, Notes!Free
  <1> HIDE DEF KeysOK
  <1>10. CASE Notes!KeyNext
    BY <1>3, <1>4, <1>5, <1>6, <1>7, <1>8, <1>9, <1>10 DEF Notes!KeyNext
  <1>11. CASE Notes!Incoming
    BY <1>1, <1>11 DEF Notes!Incoming, Notes!toUser, Notes!toAdmins, Notes!sendTestToSelf, Notes!handleExportJobFinished,
       Notes!manualSend, Notes!handleAuditAlertTriggered, Notes!rowRest
  <1>12. CASE Notes!InboxNext
    BY <1>1, <1>11, <1>12 DEF Notes!InboxNext, Notes!deleteExpired, Notes!runMaintenance, Notes!markAllAsRead, Notes!Expire,
       Notes!deleteAllMyRead, Notes!markBulkAsRead, Notes!markBulkAsUnread, Notes!deleteMyBulk, Notes!eraseForUser, Notes!SetRead,
       Notes!rowRest
  <1>13. CASE Notes!PlanNext
    BY <1>1, <1>11, <1>13 DEF Notes!PlanNext, Notes!planDeliveries, Notes!PlanFails, Notes!rowRest, Notes!Silence, Notes!prefRest,
       Notes!updateMyPreferences, Notes!resetAllMyPreferences, Notes!setMySnooze,
       Notes!cancelMySnooze, Notes!muteEntity, Notes!unmuteEntity, Notes!recordBounce, Notes!clearBounce
  <1>14. CASE Notes!DeviceNext
    BY <1>1, <1>14 DEF Notes!DeviceNext, Notes!createTemplate, Notes!updateTemplate, Notes!retireTemplate, Notes!activateTemplate,
       Notes!templateRest, Notes!OldDevices, Notes!Found, Notes!deleteOldDevices, Notes!registerDevice, Notes!unregisterAllMyDevices,
       Notes!revokeUserDevices, Notes!unregisterDevice, Notes!deviceRest
  <1>15. CASE Notes!StreamNext
    BY <1>1, <1>15 DEF Notes!StreamNext, Notes!Teardown, Notes!streamForUser, Notes!streamRest
  <1>16. CASE UNCHANGED Notes!noteVars
    BY <1>1, <1>16 DEF Notes!noteVars
  <1> QED
    BY <1>10, <1>12, <1>13, <1>14, <1>15, <1>16 DEF Notes!NotificationNext

LEMMA NotesCount == \A S : Notes!Cardinality(S) = Cardinality(S)
  BY DEF Notes!Cardinality, Notes!IsFiniteSet, Cardinality, IsFiniteSet

\* A row has a role only if it has an actor, so the four categories cut the table in pieces.
LEMMA CategoriesCut ==
  ASSUME NullIsNothing, NotesOK, IsFiniteSet(Rows)
  PROVE  Notes!CategoriesPartition
  <1> DEFINE A == Notes!getAllNotifications
             S == Notes!allWhere("SYSTEM")
             U == Notes!allWhere("USER")
             M == Notes!allWhere("ADMIN")
             P == Notes!allWhere("SUPER_ADMIN")
  <1>1. \A r \in Rows : note[r].role \in {None, "ADMIN"} /\ (note[r].role # None => note[r].actor # None)
    BY DEF NotesOK, NoteOK
  <1>2. None # "ADMIN" /\ None # "SUPER_ADMIN"
    BY DEF NullIsNothing
  <1>3. /\ S = {r \in A : note[r].actor = None}
        /\ U = {r \in A : note[r].actor # None /\ note[r].role # "ADMIN"}
        /\ M = {r \in A : note[r].role = "ADMIN"}
        /\ P = {}
    BY <1>1, <1>2 DEF Notes!allWhere, Notes!getAllNotifications
  <1>4. A \subseteq Rows
    BY DEF Notes!getAllNotifications
  <1>5. IsFiniteSet(A)
    BY <1>4, FS_Subset
  <1>6. S \cup U \cup M = A /\ S \cap U = {} /\ (S \cup U) \cap M = {} /\ S \subseteq A /\ U \subseteq A /\ M \subseteq A
    BY <1>1, <1>2, <1>3, <1>4
  <1>7. ASSUME NEW r \in A
        PROVE  Notes!Cardinality({c \in Notes!Categories : r \in Notes!allWhere(c)}) = 1
    <2> DEFINE C == {c \in Notes!Categories : r \in Notes!allWhere(c)}
    <2>1. C = IF r \in S THEN {"SYSTEM"} ELSE IF r \in U THEN {"USER"} ELSE {"ADMIN"}
      BY <1>3, <1>6, <1>7 DEF Notes!Categories
    <2>2. \E c : C = {c}
      BY <2>1
    <2> HIDE DEF C
    <2>3. Cardinality(C) = 1
      BY <2>2, FS_Singleton
    <2> QED
      BY <2>3, NotesCount DEF C
  <1>8. Cardinality(S) + Cardinality(U) + Cardinality(M) + Cardinality(P) = Cardinality(A)
    <2>1. P = {}
      BY <1>3
    <2> HIDE DEF A, S, U, M, P
    <2>2. IsFiniteSet(S) /\ IsFiniteSet(U) /\ IsFiniteSet(M)
      BY <1>5, <1>6, FS_Subset
    <2>3. IsFiniteSet(S \cup U) /\ Cardinality(S \cup U) = Cardinality(S) + Cardinality(U) - Cardinality(S \cap U)
      BY <2>2, FS_Union
    <2>4. Cardinality((S \cup U) \cup M) = Cardinality(S \cup U) + Cardinality(M) - Cardinality((S \cup U) \cap M)
      BY <2>2, <2>3, FS_Union
    <2>5. Cardinality({}) = 0
      BY FS_EmptySet
    <2>6. Cardinality(S) \in Nat /\ Cardinality(U) \in Nat /\ Cardinality(M) \in Nat
      BY <2>2, FS_CardinalityType
    <2>7. Cardinality(P) = 0 /\ Cardinality(S \cap U) = 0 /\ Cardinality((S \cup U) \cap M) = 0
      BY <1>6, <2>1, <2>5
    <2>8. Cardinality(S \cup U) = Cardinality(S) + Cardinality(U)
      BY <2>3, <2>6, <2>7
    <2>9. Cardinality(A) = Cardinality(S \cup U) + Cardinality(M)
      <3>1. Cardinality(A) = Cardinality(S \cup U) + Cardinality(M) - Cardinality((S \cup U) \cap M)
        BY <1>6, <2>4
      <3>2. Cardinality(S \cup U) \in Nat /\ Cardinality(M) \in Nat
        BY <2>3, <2>6, FS_CardinalityType
      <3>3. \A a, b \in Nat : a + b - 0 = a + b
        OBVIOUS
      <3> QED
        BY <2>7, <3>1, <3>2, <3>3
    <2> QED
      BY <2>6, <2>7, <2>8, <2>9
  <1>9. /\ Notes!getEventCategories["SYSTEM"] = Cardinality(S) /\ Notes!getEventCategories["USER"] = Cardinality(U)
        /\ Notes!getEventCategories["ADMIN"] = Cardinality(M) /\ Notes!getEventCategories["SUPER_ADMIN"] = Cardinality(P)
        /\ Notes!getNotificationSummary.total = Cardinality(A)
    BY NotesCount DEF Notes!getEventCategories, Notes!getNotificationSummary, Notes!Categories
  <1> HIDE DEF A, S, U, M, P
  <1> QED
    BY <1>7, <1>8, <1>9 DEF Notes!CategoriesPartition, A

\* A keyed event that is emitted twice leaves one row per user (createForUsers on the dedupe
\* key), all requests with one idempotency key that are answered with success get the result
\* of one run, whatever fails or crashes (withIdempotency), and the four categories of the
\* admins' view add up to its total, also after an actor was erased (allWhere, eraseForUser).
THEOREM NotificationsConsistent ==
  ASSUME NullIsNothing, IsFiniteSet(Rows)
  PROVE  Notes!NotificationSpec => [](Notes!KeyedEventOnce /\ Notes!OneAnswerPerKey /\ Notes!CategoriesPartition)
  <1>1. Notes!NotificationInit => NotesOK /\ KeysOK
    <2> SUFFICES ASSUME Notes!NotificationInit PROVE NotesOK /\ KeysOK
      OBVIOUS
    <2>1. NoteOK(Notes!NoNote) /\ Notes!NoNote.about \notin KeyedEvents
      BY DEF NullIsNothing, NoteOK, NoteFields, Notes!NoNote
    <2>2. NotesOK
      BY <2>1 DEF Notes!NotificationInit, NotesOK
    <2>3. KeysOK
      BY DEF Notes!NotificationInit, KeysOK, Notes!NotSendingKey, Notes!Free
    <2> QED
      BY <2>2, <2>3
  <1>2. NotesOK /\ KeysOK /\ [Notes!NotificationNext]_(Notes!noteVars) => NotesOK' /\ KeysOK'
    BY NotesStep, KeysStep
  <1>3. NotesOK => Notes!KeyedEventOnce
    <2> SUFFICES ASSUME NotesOK, NEW u \in People, NEW e \in KeyedEvents
                 PROVE  Notes!Cardinality({r \in Notes!Mine(u) : note[r].about = e}) <= 1
      BY DEF Notes!KeyedEventOnce, KeyedEvents
    <2> DEFINE R == {r \in Notes!Mine(u) : note[r].about = e}
    <2>1. \A r, x \in R : r = x
      BY DEF Notes!Mine, NotesOK
    <2> HIDE DEF R
    <2>2. Cardinality(R) <= 1
      <3>1. CASE R = {}
        BY <3>1, FS_EmptySet
      <3>2. CASE R # {}
        <4>1. PICK x : R = {x}
          BY <2>1, <3>2
        <4>2. Cardinality({x}) = 1
          BY FS_Singleton
        <4> QED
          BY <4>1, <4>2
      <3> QED
        BY <3>1, <3>2
    <2> QED
      BY <2>2, NotesCount DEF R
  <1>4. KeysOK => Notes!OneAnswerPerKey
    BY DEF KeysOK, Notes!OneAnswerPerKey
  <1>5. NotesOK => Notes!CategoriesPartition
    BY CategoriesCut
  <1> QED
    BY <1>1, <1>2, <1>3, <1>4, <1>5, PTL DEF Notes!NotificationSpec
=============================================================================
