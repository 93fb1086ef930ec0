----------------------------- MODULE MCPlatform -----------------------------
(***************************************************************************)
(* The platform services for TLC: broadcasts, notifications, the audit     *)
(* log, the cache, the moderation of profiles and the timer lock.  They    *)
(* share no state, so a behaviour picks one of the small configurations    *)
(* below and stays in it; the others stay as they start, or keep None.     *)
(***************************************************************************)
EXTENDS Broadcast, EntityCache, AuditChain, AuditHolds

VARIABLES kind, due,
  note, plan, quiet, device, prune, conn, members, streams, key, send, told, tmpl,
  entries, super, saved, alert, eval, fired, trigger, job, logged, delivered,
  prof, flag, appeal, call, reviewed,
  lock, tick, tries, period, failed

noteRest  == <<note, plan, quiet, device, prune, conn, members, streams, key, send, told, tmpl>>
viewRest  == <<entries, super, saved, alert, eval, fired, trigger, job, logged, delivered>>
modRest   == <<prof, flag, appeal, call, reviewed>>
cronRest  == <<lock, tick, tries, period, failed>>

Two == {"a", "b"}

\* The fan-out is the broadcast of the .cfg; the others differ from it in what they name.
BStop  == INSTANCE Broadcast WITH MaxFaults <- 1
BSign  == INSTANCE Broadcast WITH Workers <- {"w1"}, Admins <- Two, Texts <- {"t", "u"}, MaxFaults <- 0
BQueue == INSTANCE Broadcast WITH Workers <- {"w1"}, MaxFaults <- 1

NInbox == INSTANCE Notification WITH Users <- {"u", "v"}, AdminUsers <- {"v"}, Rows <- {1, 2},
            Events <- {"PAYMENT_VERIFIED", "NEW_POST", "PASSWORD_CHANGED"}, Requests <- Two, Keys <- {"k"}, Tokens <- {"t"},
            Conns <- {1}, MAX_OUTSIDE_PER_HOUR <- 1, MAX_DEVICES_PER_USER <- 1, MAX_STREAMS_PER_USER <- 1, MaxSends <- 3
NPlan  == INSTANCE Notification WITH Users <- {"v"}, AdminUsers <- {"v"}, Rows <- {1, 2},
            Events <- {"PAYMENT_VERIFIED", "NEW_POST", "PASSWORD_CHANGED"}, Requests <- Two, Keys <- {"k"}, Tokens <- {"t"},
            Conns <- {1}, MAX_OUTSIDE_PER_HOUR <- 1, MAX_DEVICES_PER_USER <- 1, MAX_STREAMS_PER_USER <- 1, MaxSends <- 3
NLimit == INSTANCE Notification WITH Users <- {"u", "v"}, AdminUsers <- {"v"}, Rows <- {1},
            Events <- {"NEW_POST"}, Requests <- Two, Keys <- {"k", "l"}, Tokens <- {"t1", "t2", "t3"},
            Conns <- {1, 2, 3}, MAX_OUTSIDE_PER_HOUR <- 1, MAX_DEVICES_PER_USER <- 1, MAX_STREAMS_PER_USER <- 2, MaxSends <- 3

Purge  == INSTANCE AuditChain WITH Purgers <- {"w1"}
Purges == INSTANCE AuditChain WITH MaxRows <- 3

HGate  == INSTANCE AuditHolds WITH Supers <- {"a", "b", "c"}

VRows  == INSTANCE AuditViews WITH log <- entries, Rows <- {1, 2}, Users <- {"u"}, Admins <- Two, Areas <- {"Report", "login"}, Filters <- {"f"},
            Workers <- {"w1"}, Jobs <- {"j"}, Threshold <- 1, MAX_SAVED_FILTERS_PER_USER <- 1
VShare == INSTANCE AuditViews WITH log <- entries, Rows <- {1}, Users <- {"u"}, Admins <- Two, Areas <- {"Role"}, Filters <- {"f"},
            Workers <- {"w1"}, Jobs <- {"j"}, Threshold <- 1, MAX_SAVED_FILTERS_PER_USER <- 1
VRead  == INSTANCE AuditViews WITH log <- entries, Rows <- {1}, Users <- {"u"}, Admins <- {"a"}, Areas <- {"Role"}, Filters <- {"f"},
            Workers <- {"w1"}, Jobs <- {"j"}, Threshold <- 1, MAX_SAVED_FILTERS_PER_USER <- 1
VAlert == INSTANCE AuditViews WITH log <- entries, Rows <- {1, 2}, Users <- {"u"}, Admins <- {"a"}, Areas <- {"Role"}, Filters <- {"f"},
            Workers <- {"w1", "w2"}, Jobs <- {"j"}, Threshold <- 1, MAX_SAVED_FILTERS_PER_USER <- 1

\* So is the cache with an outage.  Where there are two readers they are alike, and what holds
\* of "r" holds of "s".
CEntity == INSTANCE EntityCache WITH Procs <- {"p"}, Readers <- {"r", "s"}, Writers <- {"w", "x"}, MaxFailures <- 0
CScoped == INSTANCE EntityCache WITH Protocol <- "scoped"
CLegacy == INSTANCE EntityCache WITH Protocol <- "legacy", Procs <- {"p"}, Readers <- {"r", "s"}, Writers <- {"w", "x"},
             MaxFailures <- 0

MFlags   == INSTANCE ProfileModeration WITH Flags <- {"f", "g"}, Appeals <- {}, Requests <- Two, PROFILE_MAX_APPEALS <- 1
MAppeals == INSTANCE ProfileModeration WITH Flags <- {}, Appeals <- {"x", "y"}, Requests <- Two, PROFILE_MAX_APPEALS <- 2

Cron == INSTANCE CronLock WITH Instances <- {"i", "j"}, MaxTokens <- 4

-----------------------------------------------------------------------------
NoNote  == note = None /\ plan = None /\ quiet = None /\ device = None /\ prune = None /\ conn = None /\ members = None
           /\ streams = None /\ key = None /\ send = None /\ told = None /\ tmpl = None
NoViews == entries = None /\ super = None /\ saved = None /\ alert = None /\ eval = None /\ fired = None /\ trigger = None /\ job = None
           /\ logged = None /\ delivered = None
NoMod   == prof = None /\ flag = None /\ appeal = None /\ call = None /\ reviewed = None
NoCron  == lock = None /\ tick = None /\ tries = None /\ period = None /\ failed = None

Init ==
  \/ /\ NoNote /\ ChainInit /\ HoldsInit /\ NoViews /\ CacheInit /\ NoMod /\ NoCron /\ due = None
     /\ \/ kind = "fan"   /\ BroadcastInit
        \/ kind = "stop"  /\ BStop!BroadcastInit
        \/ kind = "sign"  /\ BSign!BroadcastInit
        \/ kind = "queue" /\ BQueue!BroadcastInit
  \/ /\ BroadcastInit /\ ChainInit /\ HoldsInit /\ NoViews /\ CacheInit /\ NoMod /\ NoCron
     /\ \/ kind = "inbox" /\ NInbox!NotificationInit
        \/ kind = "plan"  /\ NPlan!NotificationInit
        \/ kind \in {"device", "stream", "key"} /\ NLimit!NotificationInit
  \/ /\ BroadcastInit /\ NoNote /\ HoldsInit /\ NoViews /\ CacheInit /\ NoMod /\ NoCron /\ due = None
     /\ \/ kind \in {"schedule", "verify"} /\ ChainInit
        \/ kind = "purge"  /\ Purge!ChainInit
        \/ kind = "purges" /\ Purges!ChainInit
  \/ /\ BroadcastInit /\ NoNote /\ ChainInit /\ NoViews /\ CacheInit /\ NoMod /\ NoCron /\ due = None
     /\ \/ kind = "holds" /\ HoldsInit
        \/ kind = "gate"  /\ HGate!HoldsInit
  \/ /\ BroadcastInit /\ NoNote /\ ChainInit /\ HoldsInit /\ CacheInit /\ NoMod /\ NoCron
     /\ \/ kind = "rows"  /\ VRows!ViewsInit
        \/ kind = "share" /\ VShare!ViewsInit
        \/ kind = "read"  /\ VRead!ViewsInit
        \/ kind = "alert" /\ VAlert!ViewsInit
  \/ /\ BroadcastInit /\ NoNote /\ ChainInit /\ HoldsInit /\ NoViews /\ NoMod /\ NoCron /\ due = None
     /\ \/ kind = "entity" /\ CEntity!CacheInit
        \/ kind = "outage" /\ CacheInit
        \/ kind = "scoped" /\ CScoped!CacheInit
        \/ kind = "legacy" /\ CLegacy!CacheInit
  \/ /\ BroadcastInit /\ NoNote /\ ChainInit /\ HoldsInit /\ NoViews /\ CacheInit /\ NoCron /\ due = None
     /\ \/ kind = "flags"   /\ MFlags!ModerationInit
        \/ kind = "appeals" /\ MAppeals!ModerationInit
  \/ /\ BroadcastInit /\ NoNote /\ ChainInit /\ HoldsInit /\ NoViews /\ CacheInit /\ NoMod /\ due = None
     /\ kind = "cron" /\ Cron!CronInit

BroadcastStep ==
  /\ \/ kind = "fan"   /\ FanNext
     \/ kind = "stop"  /\ BStop!StopNext
     \/ kind = "sign"  /\ BSign!SignNext
     \/ kind = "queue" /\ BQueue!QueueNext
  /\ UNCHANGED <<due, noteRest, chainVars, holdVars, viewRest, cacheVars, modRest, cronRest>>
NotificationStep ==
  /\ \/ kind = "inbox"  /\ NInbox!InboxNext
     \/ kind = "plan"   /\ NPlan!PlanNext
     \/ kind = "device" /\ NLimit!DeviceNext
     \/ kind = "stream" /\ NLimit!StreamNext
     \/ kind = "key"    /\ NLimit!KeyNext
  /\ UNCHANGED <<bcVars, chainVars, holdVars, viewRest, cacheVars, modRest, cronRest>>
ChainStep ==
  /\ \/ kind = "purge"    /\ Purge!PurgeNext
     \/ kind = "purges"   /\ Purges!PurgeNext
     \/ kind = "schedule" /\ ScheduleNext
     \/ kind = "verify"   /\ VerifyNext
  /\ UNCHANGED <<due, bcVars, noteRest, holdVars, viewRest, cacheVars, modRest, cronRest>>
HoldStep ==
  /\ \/ kind = "holds" /\ SerialNext
     \/ kind = "gate"  /\ HGate!GateNext
  /\ UNCHANGED <<due, bcVars, noteRest, chainVars, viewRest, cacheVars, modRest, cronRest>>
ViewStep ==
  /\ \/ kind = "rows"  /\ VRows!ViewNext
     \/ kind = "share" /\ VShare!ShareNext
     \/ kind = "read"  /\ VRead!ReadNext
     \/ kind = "alert" /\ VAlert!AlertNext
  /\ UNCHANGED <<bcVars, noteRest, chainVars, holdVars, cacheVars, modRest, cronRest>>
CacheStep ==
  /\ \/ kind = "entity" /\ CEntity!CacheNext
     \/ kind = "outage" /\ CacheNext
     \/ kind = "scoped" /\ CScoped!CacheNext
     \/ kind = "legacy" /\ CLegacy!CacheNext
  /\ UNCHANGED <<due, bcVars, noteRest, chainVars, holdVars, viewRest, modRest, cronRest>>
ModerationStep ==
  /\ \/ kind = "flags"   /\ MFlags!FlagNext
     \/ kind = "appeals" /\ MAppeals!AppealNext
  /\ UNCHANGED <<due, bcVars, noteRest, chainVars, holdVars, viewRest, cacheVars, cronRest>>
CronStep ==
  /\ kind = "cron" /\ Cron!CronNext
  /\ UNCHANGED <<due, bcVars, noteRest, chainVars, holdVars, viewRest, cacheVars, modRest>>

Next == UNCHANGED kind /\ (BroadcastStep \/ NotificationStep \/ ChainStep \/ HoldStep \/ ViewStep \/ CacheStep
                           \/ ModerationStep \/ CronStep)

vars == <<kind, due, bcVars, noteRest, chainVars, holdVars, viewRest, cacheVars, modRest, cronRest>>
Spec == Init /\ [][Next]_vars

-----------------------------------------------------------------------------
\* Every service keeps its rows well formed (the modules' own type invariants).
PlatformTypeOK ==
  CASE kind = "fan" -> BroadcastTypeOK
    [] kind = "stop" -> BStop!BroadcastTypeOK
    [] kind = "sign" -> BSign!BroadcastTypeOK
    [] kind = "queue" -> BQueue!BroadcastTypeOK
    [] kind = "inbox" -> NInbox!NotificationTypeOK
    [] kind = "plan" -> NPlan!NotificationTypeOK
    [] kind \in {"device", "stream", "key"} -> NLimit!NotificationTypeOK
    [] kind \in {"schedule", "verify"} -> ChainTypeOK
    [] kind = "purge" -> Purge!ChainTypeOK
    [] kind = "purges" -> Purges!ChainTypeOK
    [] kind = "holds" -> HoldsTypeOK
    [] kind = "gate" -> HGate!HoldsTypeOK
    [] kind = "rows" -> VRows!ViewsTypeOK
    [] kind = "share" -> VShare!ViewsTypeOK
    [] kind = "read" -> VRead!ViewsTypeOK
    [] kind = "alert" -> VAlert!ViewsTypeOK
    [] kind = "entity" -> CEntity!CacheTypeOK
    [] kind = "outage" -> CacheTypeOK
    [] kind = "scoped" -> CScoped!CacheTypeOK
    [] kind = "legacy" -> CLegacy!CacheTypeOK
    [] kind = "flags" -> MFlags!ModerationTypeOK
    [] kind = "appeals" -> MAppeals!ModerationTypeOK
    [] OTHER -> Cron!CronTypeOK

\* The rows are well formed and what is computed twice agrees: all lists and counts of one
\* inbox (activeWhere), the four categories with the whole (allWhere), the dashboard's figures
\* with the lists (statsDenied); registrations that interleave leave nobody with more devices
\* than the cap (registerDevice).
PlatformConsistent ==
  /\ PlatformTypeOK
  /\ kind = "inbox" => NInbox!MyListsAgree /\ NInbox!CategoriesPartition
  /\ kind = "device" => NLimit!DevicesWithinCap
  /\ kind = "rows" => VRows!DashboardAgrees
\* What one step may not do: a delivery held by a stop leaves the hold only by a retry, whoever
\* is sending or recovering it (stopBroadcast, recoverStuckDeliveries); a security notice is
\* never planned for later, whatever the user has silenced (planDeliveries); a purge does not
\* delete a row put on legal hold after its ids were read (purgeOlderThan).
StepsFollowRules ==
  [][/\ kind = "queue" => BQueue!HeldUntilRetried
     /\ kind = "plan" => NPlan!SecurityPlannedNow
     /\ kind \in {"purge", "purges"} => HeldRowsStay]_vars
\* One effect per key and per period: an event emitted twice leaves one row per user (the
\* listener's dedupe keys), all requests with one idempotency key are answered with the same
\* run's result (withIdempotency), a due purge is run by one worker (runDueScheduledPurges), a
\* rule fires once per cooldown (evaluateAlerts), and within one ttl one run of a timer that
\* did not throw took the lock (runExclusive, RELEASE_SCRIPT).
OneEffectPerKey ==
  /\ kind = "inbox" => NInbox!KeyedEventOnce
  /\ kind = "key" => NLimit!OneAnswerPerKey
  /\ kind = "schedule" => ScheduledOnce
  /\ kind = "alert" => VAlert!AlertOncePerCooldown
  /\ kind = "cron" => Cron!OneRunPerPeriod
\* What a view gives away: lists and rankings do not name an anonymized user (present,
\* getTopActors), only a SUPER_ADMIN learns an address, from a row or through a shared filter
\* (runSavedFilter), and nothing is delivered that is not in the log (findOne, exportCsv,
\* downloadExportJob).
ViewsMaskedAndLogged ==
  /\ kind = "rows" => VRows!AnonymizedRowsNameless /\ VRows!AddressForSuperOnly
  /\ kind = "share" => VShare!AddressForSuperOnly
  /\ kind = "read" => VRead!NoUnloggedRead
\* A moderation decision and its effect on the profile agree although they are two writes: an
\* appeal that reads OVERTURNED did put the profile back into review (decideAppeal), and a
\* failed action puts back its own claim of a flag and nobody else's decision (resolveFlag).
ModerationMatchesEffect ==
  /\ [](kind = "appeals" => MAppeals!OverturnedWasReviewed)
  /\ [][kind = "flags" => MFlags!OnlyOwnClaimPutBack]_vars
=============================================================================
