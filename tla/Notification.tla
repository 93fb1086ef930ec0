---------------------------- MODULE Notification ----------------------------
(***************************************************************************)
(* misc/notification without the broadcasts: inbox rows and what planning  *)
(* makes of them, the lists and counts over the rows, preferences, push    *)
(* devices, live streams and the idempotency keys of an admin's send.  A   *)
(* row's kind stands for its type and priority: "locked" for LOCKED_TYPES, *)
(* "urgent" for URGENT, "plain" for the rest.  One outside channel.        *)
(***************************************************************************)
EXTENDS Naturals, Sequences, FiniteSets

CONSTANTS Users, AdminUsers, Rows, Events, Requests, Keys, Tokens, Conns,
          MAX_OUTSIDE_PER_HOUR, MAX_DEVICES_PER_USER, MAX_STREAMS_PER_USER, MaxSends, None

VARIABLES
  note,      \* notification rows
  due,       \* rows whose deliveries are not planned yet
  plan,      \* <<row, when>>: deliveries, "now" or after the quiet hours
  quiet,     \* quiet[u]: what silences u: "off", "quiet hours", "snooze", "mute", "bounced"
  device,    \* push tokens, newest first
  prune,     \* what each registerDevice has done, and the tokens it found to be too many
  conn,      \* open streams: their user and the Set they were put into
  members,   \* the Sets, oldest stream first
  streams,   \* the Set each user's streams are looked up in
  key,       \* idempotency keys
  send,      \* the run each keyed request is in
  told,      \* <<key, result>> answered with success
  tmpl       \* a template: "none", "active" or "retired"

noteVars == <<note, due, plan, quiet, device, prune, conn, members, streams, key, send, told, tmpl>>

NoNote == [user |-> None, kind |-> "none", about |-> None, once |-> None, actor |-> None, role |-> None, read |-> "no", expired |-> "no"]
NotPruning == [pc |-> "idle", user |-> None, tokens |-> {}]
NotSendingKey == [key |-> None, result |-> 0]
Free == [state |-> "none", result |-> 0]

NotificationInit ==
  /\ note = [r \in Rows |-> NoNote] /\ due = {} /\ plan = {} /\ quiet = [u \in Users |-> {}]
  /\ device = <<>> /\ prune = [q \in Requests |-> NotPruning]
  /\ conn = [c \in Conns |-> None] /\ members = [c \in Conns |-> <<>>] /\ streams = [u \in Users |-> None]
  /\ key = [k \in Keys |-> Free] /\ send = [q \in Requests |-> NotSendingKey] /\ told = {} /\ tmpl = "none"

rowRest    == <<quiet, device, prune, conn, members, streams, key, send, told, tmpl>>
prefRest   == <<note, due, plan, device, prune, conn, members, streams, key, send, told, tmpl>>
deviceRest == <<note, due, plan, quiet, conn, members, streams, key, send, told, tmpl>>
streamRest == <<note, due, plan, quiet, device, prune, key, send, told, tmpl>>
keyRest    == <<note, due, plan, quiet, device, prune, conn, members, streams, tmpl>>

Present(r) == note[r].user # None
Mine(u) == {r \in Rows : note[r].user = u}

-----------------------------------------------------------------------------
(* Creating rows.  (userId, dedupeKey) is unique. *)

Taken(u, once) == once # None /\ \E r \in Rows : note[r].user = u /\ note[r].once = once
NewRow(u, kind, e, once, actor) ==
  [NoNote EXCEPT !.user = u, !.kind = kind, !.about = e, !.once = once, !.actor = actor,
                 !.role = IF actor \in AdminUsers THEN "ADMIN" ELSE None]
createForUsers(S, kind, e, once, actor) ==
  LET new  == {u \in S : ~Taken(u, once)}
      free == {r \in Rows : ~Present(r)}
      at   == CHOOSE f \in [new -> free] : \A u, v \in new : f[u] = f[v] => u = v
  IN /\ Cardinality(new) <= Cardinality(free)
     /\ note' = [r \in Rows |-> IF \E u \in new : at[u] = r
                                THEN NewRow(CHOOSE u \in new : at[u] = r, kind, e, once, actor) ELSE note[r]]
     /\ due' = due \cup {at[u] : u \in new}
createForUser(u, kind, e, once, actor) == createForUsers({u}, kind, e, once, actor)
createForAdmins(kind, e, actor, exclude) == createForUsers(AdminUsers \ {exclude}, kind, e, None, actor)

\* Who an event is for: its user, its user once per record, every admin, every admin but the actor.
ReportEvents == [REPORT_RECEIVED |-> "user", REPORT_UPDATED |-> "user", MORE_INFORMATION_REQUESTED |-> "user",
  NEW_REPORT |-> "admins", HIGH_PRIORITY_REPORT |-> "admins", REPORT_ASSIGNED |-> "user", INFORMATION_REQUEST_RESPONDED |-> "once"]
PostEvents == [NEW_POST |-> "others", POST_APPROVED |-> "user", POST_REJECTED |-> "user",
  POST_CHANGES_REQUESTED |-> "user", POST_UNPUBLISHED |-> "user"]
MissingPersonEvents == [NEW_MISSING_PERSON_REQUEST |-> "others", MISSING_PERSON_UPDATED |-> "user", MISSING_PERSON_APPROVED |-> "user",
  MISSING_PERSON_REJECTED |-> "user", MISSING_PERSON_FOUND |-> "user", MISSING_PERSON_MORE_INFORMATION_REQUESTED |-> "user"]
InformationEvents == [INFORMATION_SUBMISSION_REVIEWED |-> "once", INFORMATION_SUBMISSION_REJECTED |-> "once",
  NEW_MISSING_PERSON_INFORMATION |-> "others"]
PaymentEvents_Fault == [SUPPORT_PAYMENT_CONFIRMED |-> "once", SUPPORT_RECEIVED |-> "once", PAYMENT_VERIFIED |-> "user",
  REWARD_CLAIM_APPROVED |-> "once", DISBURSEMENT_PAID_OUT |-> "once"]
PaymentEvents == [SUPPORT_PAYMENT_CONFIRMED |-> "once", SUPPORT_RECEIVED |-> "once", PAYMENT_VERIFIED |-> "once",
  REWARD_CLAIM_APPROVED |-> "once", DISBURSEMENT_PAID_OUT |-> "once"]
BillingEvents == [INSTITUTION_SIGNED |-> "others", AGREEMENT_CREATED |-> "others", AGREEMENT_ACTIVATED |-> "others",
  AGREEMENT_RETIRED |-> "others", VICTIM_PROFILE_AGREEMENT_ASSIGNED |-> "others"]
VictimProfileEvents == [e \in {"CREATED", "UPDATED", "DELETED", "GATES_UPDATED", "CHILD_SAFETY_REVIEWED", "CONSENT_REVOKED",
  "BANK_DETAILS_UPDATED", "PUBLISHED", "UNPUBLISHED", "REJECTED", "RESUBMITTED"} |-> "user"]
SecurityEvents == [SECURITY_ALERT |-> "user", PASSWORD_CHANGED |-> "user", PASSWORD_RESET |-> "user"]
EventRoute(e) ==
  LET T == CHOOSE f \in {ReportEvents, PostEvents, MissingPersonEvents, InformationEvents, PaymentEvents, BillingEvents,
                         VictimProfileEvents, SecurityEvents} : e \in DOMAIN f
  IN T[e]
EventKind(e) == IF e \in DOMAIN SecurityEvents THEN "locked" ELSE "plain"

\* An event may be emitted more than once; a failing handler is logged and lost.
toUser(e, u, actor) ==
  /\ EventRoute(e) \in {"user", "once"}
  /\ createForUser(u, EventKind(e), e, IF EventRoute(e) = "once" THEN e ELSE None, actor) /\ UNCHANGED <<plan, rowRest>>
toAdmins(e, actor) ==
  /\ EventRoute(e) \in {"admins", "others"}
  /\ createForAdmins(EventKind(e), e, actor, IF EventRoute(e) = "others" THEN actor ELSE None) /\ UNCHANGED <<plan, rowRest>>
sendTestToSelf(u) ==
  /\ createForUsers({u}, "plain", "test", None, u)
  /\ plan' = plan \cup {<<r, "now">> : r \in due' \ due} /\ UNCHANGED rowRest
manualSend(a, u) == a \in AdminUsers /\ createForUser(u, "urgent", "sent", None, a) /\ UNCHANGED <<plan, rowRest>>
handleAuditAlertTriggered(e) == createForUsers(AdminUsers, "locked", e, e, None) /\ UNCHANGED <<plan, rowRest>>
handleExportJobFinished(u, e) == createForUser(u, "plain", e, e, None) /\ UNCHANGED <<plan, rowRest>>

-----------------------------------------------------------------------------
(* Planning: which rows leave the app, and when. *)

SentLastHour(u) == Cardinality({p \in plan : note[p[1]].user = u})
planDeliveries_Fault(r) ==
  /\ r \in due /\ due' = due \ {r}
  /\ LET u == note[r].user
         silenced == {"snooze", "mute"} \cap quiet[u] # {} \/ SentLastHour(u) >= MAX_OUTSIDE_PER_HOUR
         late     == note[r].kind = "plain" /\ "quiet hours" \in quiet[u]
     IN plan' = IF silenced \/ "bounced" \in quiet[u] \/ (note[r].kind = "plain" /\ "off" \in quiet[u])
                THEN plan ELSE plan \cup {<<r, IF late THEN "later" ELSE "now">>}
  /\ UNCHANGED <<note, rowRest>>
planDeliveries(r) ==
  /\ r \in due /\ due' = due \ {r}
  /\ LET u == note[r].user
         locked   == note[r].kind = "locked"
         bypass   == note[r].kind \in {"locked", "urgent"}
         capped   == ~bypass /\ SentLastHour(u) >= MAX_OUTSIDE_PER_HOUR
         silenced == ~locked /\ {"snooze", "mute", "off"} \cap quiet[u] # {}
         late     == ~bypass /\ "quiet hours" \in quiet[u]
     IN plan' = IF capped \/ silenced \/ "bounced" \in quiet[u]
                THEN plan ELSE plan \cup {<<r, IF late THEN "later" ELSE "now">>}
  /\ UNCHANGED <<note, rowRest>>
\* Planning may fail; the inbox row stays.
PlanFails(r) == r \in due /\ due' = due \ {r} /\ UNCHANGED <<note, plan, rowRest>>

-----------------------------------------------------------------------------
(* A user's rows. *)

activeWhere_Fault(u) == Mine(u)
activeWhere(u) == {r \in Mine(u) : note[r].expired = "no"}
getMyNotifications(u)     == activeWhere(u)
searchMyNotifications(u, k) == {r \in activeWhere(u) : note[r].kind = k}
getMyNotificationById(u, r) == {r} \cap activeWhere(u)
getMyUnreadCount(u)       == {r \in activeWhere(u) : note[r].read = "no"}
getMyUnreadCountByType(u) == {r \in activeWhere(u) : note[r].read = "no"}
getMyCounts(u) == [total |-> Cardinality(activeWhere(u)), unread |-> Cardinality({r \in activeWhere(u) : note[r].read = "no"})]
exportMyNotificationsCsv(u) == activeWhere(u)

SetRead(S, v) ==
  /\ note' = [r \in Rows |-> IF r \in S THEN [note[r] EXCEPT !.read = v] ELSE note[r]] /\ UNCHANGED <<due, plan, rowRest>>
Drop(S) ==
  /\ note' = [r \in Rows |-> IF r \in S THEN NoNote ELSE note[r]]
  /\ due' = due \ S /\ plan' = {p \in plan : p[1] \notin S}
markBulkAsRead(u, S)   == S \subseteq Mine(u) /\ S # {} /\ SetRead(S, "yes")
markAllAsRead(u)       == Mine(u) # {} /\ SetRead(Mine(u), "yes")
markBulkAsUnread(u, S) == S \subseteq Mine(u) /\ S # {} /\ SetRead(S, "no")
deleteMyBulk(u, S)     == S \subseteq Mine(u) /\ S # {} /\ Drop(S) /\ UNCHANGED rowRest
deleteAllMyRead(u)     == Drop({r \in Mine(u) : note[r].read = "yes"}) /\ UNCHANGED rowRest
Expire(r) ==
  /\ Present(r) /\ note' = [note EXCEPT ![r].expired = "yes"] /\ UNCHANGED <<due, plan, rowRest>>
deleteExpired == Drop({r \in Rows : note[r].expired = "yes"}) /\ UNCHANGED rowRest
\* Expired rows and old read ones; the keys of the last day are kept.
runMaintenance == Drop({r \in Rows : note[r].expired = "yes" \/ note[r].read = "yes"}) /\ UNCHANGED rowRest
\* One transaction; bounced addresses stay on record.
eraseForUser(u) ==
  /\ note' = [r \in Rows |-> IF r \in Mine(u) THEN NoNote
                             ELSE IF note[r].actor = u THEN [note[r] EXCEPT !.role = None] ELSE note[r]]
  /\ due' = due \ Mine(u) /\ plan' = {p \in plan : p[1] \notin Mine(u)}
  /\ quiet' = [quiet EXCEPT ![u] = @ \cap {"bounced"}]
  /\ device' = SelectSeq(device, LAMBDA d : d.user # u)
  /\ UNCHANGED <<prune, conn, members, streams, key, send, told, tmpl>>

(* The admins' views. *)
allWhere_Fault(category) ==
  {r \in Rows : Present(r) /\ CASE category = "SYSTEM" -> note[r].actor = None
                                [] category = "USER"   -> note[r].actor # None /\ note[r].role \notin {None, "ADMIN", "SUPER_ADMIN"}
                                [] OTHER               -> note[r].role = category}
allWhere(category) ==
  {r \in Rows : Present(r) /\ CASE category = "SYSTEM" -> note[r].actor = None
                                [] category = "USER"   -> note[r].actor # None /\ note[r].role \notin {"ADMIN", "SUPER_ADMIN"}
                                [] OTHER               -> note[r].role = category}
Categories == {"SYSTEM", "USER", "ADMIN", "SUPER_ADMIN"}
getAllNotifications == {r \in Rows : Present(r)}
getNotificationSummary == [total |-> Cardinality(getAllNotifications), systemGenerated |-> Cardinality(allWhere("SYSTEM"))]
getEventCategories == [c \in Categories |-> Cardinality(allWhere(c))]
getSentByAdmin(a) == {r \in Rows : note[r].actor = a}
getUserNotificationEvents(u) == {r \in Rows : note[r].user = u \/ note[r].actor = u}

-----------------------------------------------------------------------------
(* Preferences. *)

Silence(u, S) == quiet' = [quiet EXCEPT ![u] = S] /\ UNCHANGED prefRest
updateMyPreferences(u, S) == S \subseteq {"off", "quiet hours"} /\ Silence(u, (quiet[u] \ {"off", "quiet hours"}) \cup S)
resetAllMyPreferences(u)  == Silence(u, quiet[u] \ {"off", "quiet hours"})
setMySnooze(u)    == Silence(u, quiet[u] \cup {"snooze"})
cancelMySnooze(u) == Silence(u, quiet[u] \ {"snooze"})
muteEntity(u)     == Silence(u, quiet[u] \cup {"mute"})
unmuteEntity(u)   == Silence(u, quiet[u] \ {"mute"})
recordBounce(u)   == Silence(u, quiet[u] \cup {"bounced"})
clearBounce(u)    == "bounced" \in quiet[u] /\ Silence(u, quiet[u] \ {"bounced"})

-----------------------------------------------------------------------------
(* Push devices: an upsert by token, a look at the user's devices, a deletion by id. *)

DevicesOf(u) == SelectSeq(device, LAMBDA d : d.user = u)
registerDevice(q, u, t) ==
  /\ prune[q].pc = "idle"
  /\ device' = <<[token |-> t, user |-> u]>> \o SelectSeq(device, LAMBDA d : d.token # t)
  /\ prune' = [prune EXCEPT ![q] = [pc |-> "look", user |-> u, tokens |-> {}]] /\ UNCHANGED deviceRest
Beyond(u, n) == {DevicesOf(u)[i].token : i \in n + 1 .. Len(DevicesOf(u))}
Found(q, n) ==
  /\ prune[q].pc = "look"
  /\ prune' = [prune EXCEPT ![q].pc = "found", ![q].tokens = Beyond(prune[q].user, n)]
  /\ UNCHANGED <<device, deviceRest>>
OldDevices_Fault(q) == Found(q, MAX_DEVICES_PER_USER + 1)
OldDevices(q) == Found(q, MAX_DEVICES_PER_USER)
deleteOldDevices(q) ==
  /\ prune[q].pc = "found" /\ device' = SelectSeq(device, LAMBDA d : d.token \notin prune[q].tokens)
  /\ prune' = [prune EXCEPT ![q] = NotPruning] /\ UNCHANGED deviceRest
unregisterDevice(u, t) ==
  /\ device' = SelectSeq(device, LAMBDA d : d.token # t \/ d.user # u) /\ UNCHANGED <<prune, deviceRest>>
unregisterAllMyDevices(u) == device' = SelectSeq(device, LAMBDA d : d.user # u) /\ UNCHANGED <<prune, deviceRest>>
revokeUserDevices(u) == unregisterAllMyDevices(u)

-----------------------------------------------------------------------------
(* Live streams of one process.  A stream keeps the Set it was added to. *)

streamForUser(c, u) ==
  /\ conn[c] = None
  /\ LET s    == IF streams[u] = None THEN c ELSE streams[u]
         old  == IF streams[u] = None THEN <<>> ELSE members[s]
         kept == IF Len(old) >= MAX_STREAMS_PER_USER THEN Tail(old) ELSE old
     IN /\ members' = [members EXCEPT ![s] = Append(kept, c)]
        /\ conn' = [conn EXCEPT ![c] = [user |-> u, set |-> s]]
        /\ streams' = [streams EXCEPT ![u] = s]
  /\ UNCHANGED streamRest
\* The client goes away.  The evicted stream's subject is complete, but the heartbeat merged with
\* it is not: the connection ends only here.
Teardown(c) ==
  /\ conn[c] # None
  /\ LET s == conn[c].set
         left == SelectSeq(members[s], LAMBDA d : d # c)
     IN /\ members' = [members EXCEPT ![s] = left]
        /\ streams' = IF left = <<>> THEN [streams EXCEPT ![conn[c].user] = None] ELSE streams
  /\ conn' = [conn EXCEPT ![c] = None] /\ UNCHANGED streamRest
publish(u) == {c \in Conns : streams[u] # None /\ \E i \in 1..Len(members[streams[u]]) : members[streams[u]][i] = c}

-----------------------------------------------------------------------------
(* createFromAdmin and broadcast under an Idempotency-Key. *)

withIdempotency_Fault(q, k) ==
  /\ send[q] = NotSendingKey /\ key[k].state \in {"none", "running"}
  /\ key' = [key EXCEPT ![k].state = "running"] /\ send' = [send EXCEPT ![q] = [key |-> k, result |-> 0]]
  /\ UNCHANGED <<told, keyRest>>
withIdempotency(q, k) ==
  /\ send[q] = NotSendingKey /\ key[k].state = "none"
  /\ key' = [key EXCEPT ![k].state = "running"] /\ send' = [send EXCEPT ![q] = [key |-> k, result |-> 0]]
  /\ UNCHANGED <<told, keyRest>>
\* A repeat: the stored result, or 409 while the first call is still running.
AnswerStored(q, k) ==
  /\ send[q] = NotSendingKey /\ key[k].state = "done" /\ told' = told \cup {<<k, key[k].result>>}
  /\ UNCHANGED <<key, send, keyRest>>
createFromAdmin(q) ==
  /\ send[q].key # None /\ send[q].result = 0
  /\ \E n \in 1..MaxSends : /\ ~(\E p \in Requests : send[p].result = n) /\ (\A t \in told : t[2] # n) /\ (\A k \in Keys : key[k].result # n)
                            /\ send' = [send EXCEPT ![q].result = n]
  /\ UNCHANGED <<key, told, keyRest>>
StoreResult(q) ==
  /\ send[q].result # 0
  /\ key' = [key EXCEPT ![send[q].key] = [state |-> "done", result |-> send[q].result]] /\ told' = told \cup {<<send[q].key, send[q].result>>}
  /\ send' = [send EXCEPT ![q] = NotSendingKey] /\ UNCHANGED keyRest
\* The run, or the storing of its result, fails: the key is released.
ReleaseKey(q) ==
  /\ send[q].key # None /\ key' = [key EXCEPT ![send[q].key] = Free]
  /\ send' = [send EXCEPT ![q] = NotSendingKey] /\ UNCHANGED <<told, keyRest>>
SendCrash(q) == send[q].key # None /\ send' = [send EXCEPT ![q] = NotSendingKey] /\ UNCHANGED <<key, told, keyRest>>
\* IDEMPOTENCY_TTL_MS later: no request lasts that long.
KeysExpire ==
  /\ \A q \in Requests : send[q] = NotSendingKey
  /\ key' = [k \in Keys |-> Free] /\ told' = {} /\ UNCHANGED <<send, keyRest>>

templateRest == <<note, due, plan, quiet, device, prune, conn, members, streams, key, send, told>>
createTemplate   == tmpl = "none" /\ tmpl' \in {"active", "retired"} /\ UNCHANGED templateRest
updateTemplate   == tmpl # "none" /\ tmpl' \in {"active", "retired"} /\ UNCHANGED templateRest
retireTemplate   == tmpl = "active" /\ tmpl' = "retired" /\ UNCHANGED templateRest
activateTemplate == tmpl = "retired" /\ tmpl' = "active" /\ UNCHANGED templateRest

-----------------------------------------------------------------------------
Incoming ==
  \/ \E e \in Events, u \in Users, a \in Users \cup {None} : toUser(e, u, a)
  \/ \E e \in Events, a \in Users \cup {None} : toAdmins(e, a)
  \/ \E u \in Users : sendTestToSelf(u) \/ handleExportJobFinished(u, "job") \/ \E a \in Users : manualSend(a, u)
  \/ handleAuditAlertTriggered("alert")
InboxNext ==
  \/ Incoming \/ deleteExpired \/ runMaintenance
  \/ \E r \in Rows : Expire(r)
  \/ \E u \in Users : markAllAsRead(u) \/ deleteAllMyRead(u) \/ eraseForUser(u)
  \/ \E u \in Users : \E S \in SUBSET Mine(u) : markBulkAsRead(u, S) \/ markBulkAsUnread(u, S) \/ deleteMyBulk(u, S)
PlanNext ==
  \/ Incoming
  \/ \E r \in Rows : planDeliveries(r) \/ PlanFails(r)
  \/ \E u \in Users : \/ resetAllMyPreferences(u) \/ setMySnooze(u) \/ cancelMySnooze(u) \/ muteEntity(u) \/ unmuteEntity(u)
                      \/ recordBounce(u) \/ clearBounce(u)
                      \/ \E S \in SUBSET {"off", "quiet hours"} : updateMyPreferences(u, S)
DeviceNext ==
  \/ createTemplate \/ updateTemplate \/ retireTemplate \/ activateTemplate
  \/ \E q \in Requests : \/ OldDevices(q) \/ deleteOldDevices(q)
                         \/ \E u \in Users, t \in Tokens : registerDevice(q, u, t)
  \/ \E u \in Users : \/ unregisterAllMyDevices(u) \/ revokeUserDevices(u)
                      \/ \E t \in Tokens : unregisterDevice(u, t)
StreamNext == \E c \in Conns : Teardown(c) \/ \E u \in Users : streamForUser(c, u)
KeyNext ==
  \/ KeysExpire
  \/ \E q \in Requests : \/ createFromAdmin(q) \/ StoreResult(q) \/ ReleaseKey(q) \/ SendCrash(q)
                         \/ \E k \in Keys : withIdempotency(q, k) \/ AnswerStored(q, k)

NotificationNext == InboxNext \/ PlanNext \/ DeviceNext \/ StreamNext \/ KeyNext
NotificationSpec == NotificationInit /\ [][NotificationNext]_noteVars

NotificationTypeOK ==
  /\ \A r \in Rows : note[r].user \in Users \cup {None} /\ note[r].kind \in {"none", "locked", "urgent", "plain"}
  /\ due \subseteq Rows /\ plan \subseteq Rows \X {"now", "later"}
  /\ \A u \in Users : quiet[u] \subseteq {"off", "quiet hours", "snooze", "mute", "bounced"}
  /\ \A i \in 1..Len(device) : device[i].token \in Tokens /\ device[i].user \in Users

\* Every list, count, search and download of a user's own notifications goes through activeWhere
\* (4280): after any sequence of marks, expiries, erasures and purges they agree with each other
\* and show neither another user's row nor one that has expired.
MyListsAgree ==
  \A u \in Users :
    /\ \A r \in getMyNotifications(u) \cup exportMyNotificationsCsv(u) \cup UNION {getMyNotificationById(u, x) : x \in Rows} :
         note[r].user = u /\ note[r].expired = "no"
    /\ getMyUnreadCount(u) = getMyUnreadCountByType(u)
    /\ getMyCounts(u).unread = Cardinality(getMyUnreadCount(u))
    /\ getMyCounts(u).total = Cardinality(getMyNotifications(u))
    /\ getMyNotifications(u) = UNION {searchMyNotifications(u, k) : k \in {"locked", "urgent", "plain"}}

\* getEventCategories (1243): whatever was erased (an erased actor keeps an id but no role), each
\* row belongs to exactly one of the four categories, so they add up to the summary's total.
CategoriesPartition ==
  /\ \A r \in getAllNotifications : Cardinality({c \in Categories : r \in allWhere(c)}) = 1
  /\ getEventCategories["SYSTEM"] + getEventCategories["USER"] + getEventCategories["ADMIN"] + getEventCategories["SUPER_ADMIN"]
       = getNotificationSummary.total

\* The payment and decision events pass a dedupe key (listener 282-530): emitted twice, by a
\* webhook and by the reconciliation, they leave one row per user.
KeyedEventOnce ==
  \A u \in Users : \A e \in DOMAIN PaymentEvents \cup {"INFORMATION_SUBMISSION_REVIEWED", "INFORMATION_SUBMISSION_REJECTED"} :
    Cardinality({r \in Mine(u) : note[r].about = e}) <= 1

\* "Security types can never be switched off and ignore quiet hours" (94): planning a security row
\* of a user whose address works yields a delivery for now, whatever the user has set and however
\* much was sent in the last hour.
SecurityPlannedNow ==
  \A r \in Rows :
    (planDeliveries(r) /\ note[r].kind = "locked" /\ "bounced" \notin quiet[note[r].user]) => <<r, "now">> \in plan'

\* registerDevice trims after the upsert (662): when no registration is under way, nobody has more
\* than MAX_DEVICES_PER_USER tokens, however registrations of several devices interleaved.
DevicesWithinCap ==
  (\A q \in Requests : prune[q].pc = "idle") => \A u \in Users : Len(DevicesOf(u)) <= MAX_DEVICES_PER_USER

\* withIdempotency (4080): within the life of a key, all requests answered with success got the
\* result of the same run, whatever failed or crashed before.
OneAnswerPerKey == \A s, t \in told : s[1] = t[1] => s[2] = t[2]
=============================================================================
