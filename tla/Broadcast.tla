------------------------------ MODULE Broadcast ------------------------------
(***************************************************************************)
(* misc/notification: one broadcast, the workers that fan it out into one  *)
(* inbox row per user, and the outside deliveries planned for these rows.  *)
(* A worker claims the broadcast with a conditional update and writes it   *)
(* by id afterwards; a claim that looks older than STALE_CLAIM_MS is taken *)
(* over, whether its worker died or is only slow.  Admins load the row and *)
(* write later.  One outside channel; the audience does not change.        *)
(***************************************************************************)
EXTENDS Naturals, Sequences, FiniteSets, Sentinel

CONSTANTS
  NUsers, BATCH_SIZE,          \* the audience, walked in id order
  Workers, Admins, Author,     \* Author: the admin who wrote the broadcast
  Texts, MaxFaults,            \* MaxFaults: crashes, failing statements and stale claims
  MAX_BROADCAST_ATTEMPTS, MAX_DELIVERY_ATTEMPTS

Users == 1..NUsers

VARIABLES
  bc,        \* the notification_broadcast row
  run,       \* what each worker does in runBroadcast
  seen,      \* the row an admin's request has loaded
  inbox,     \* inbox[u]: the texts of the rows u has received from this broadcast
  delivery,  \* notification_delivery rows
  sender,    \* the delivery each worker is sending
  paused,    \* channels an admin has paused
  handed,    \* users whose copy was handed to the provider
  signed,    \* the texts a second person has approved
  faults

bcVars == <<bc, run, seen, inbox, delivery, sender, paused, handed, signed, faults>>

Open     == {"SCHEDULED", "AWAITING_APPROVAL"}
Finished == {"COMPLETED", "FAILED", "STOPPED", "CANCELLED", "REJECTED"}
NotStarted == [status |-> "none", text |-> None, large |-> "no", approvedBy |-> None,
               stop |-> "no", attempts |-> 0, age |-> "fresh", due |-> "yes"]
Idle       == [pc |-> "idle", pos |-> 0, text |-> None, attempts |-> 0]
NotPlanned == [status |-> "none", attempts |-> 0, why |-> None]
NotLoaded  == [pc |-> "idle", row |-> NotStarted]
NotSending == [user |-> None, pc |-> "idle"]

BroadcastInit ==
  /\ bc = NotStarted /\ run = [w \in Workers |-> Idle] /\ seen = [a \in Admins |-> NotLoaded]
  /\ inbox = [u \in Users |-> <<>>] /\ delivery = [u \in Users |-> NotPlanned]
  /\ sender = [w \in Workers |-> NotSending]
  /\ paused = {} /\ handed = {} /\ signed = {} /\ faults = 0

queueVars == <<delivery, sender, paused, handed>>
Fault == faults < MaxFaults /\ faults' = faults + 1
At(w, pc) == run[w].pc = pc
Go(w, pc) == run' = [run EXCEPT ![w].pc = pc]

-----------------------------------------------------------------------------
(* The fan-out. *)

audienceWhere(pos) == {u \in Users : u > pos /\ u <= pos + BATCH_SIZE}
stopRequested == bc.stop = "yes"

\* A large audience waits for a second person.
broadcast(t, large, due) ==
  /\ bc.status = "none"
  /\ bc' = [NotStarted EXCEPT !.status = IF large = "yes" THEN "AWAITING_APPROVAL" ELSE "SCHEDULED",
                              !.text = t, !.large = large, !.due = due]
  /\ UNCHANGED <<run, seen, inbox, signed, faults, queueVars>>
Clock ==
  /\ bc.status # "none" /\ bc.due = "no"
  /\ bc' = [bc EXCEPT !.due = "yes"] /\ UNCHANGED <<run, seen, inbox, signed, faults, queueVars>>
\* STALE_CLAIM_MS pass without a write of the row.
ClaimAges ==
  /\ bc.status = "PROCESSING" /\ bc.age = "fresh" /\ Fault
  /\ bc' = [bc EXCEPT !.age = "stale"] /\ UNCHANGED <<run, seen, inbox, signed, queueVars>>

\* The same for a claim whose worker is gone, which needs no slow worker.
DeadClaimAges ==
  /\ bc.status = "PROCESSING" /\ bc.age = "fresh" /\ \A w \in Workers : At(w, "idle")
  /\ bc' = [bc EXCEPT !.age = "stale"] /\ UNCHANGED <<run, seen, inbox, signed, faults, queueVars>>

Startable_Fault == bc.status = "SCHEDULED" /\ bc.due = "yes"
Startable == (bc.status = "SCHEDULED" /\ bc.due = "yes") \/ (bc.status = "PROCESSING" /\ bc.age = "stale")
startDueBroadcasts_Fault(w) ==
  /\ At(w, "idle") /\ bc.status \in Open
  /\ bc' = [bc EXCEPT !.status = "PROCESSING", !.attempts = @ + 1, !.age = "fresh"]
  /\ Go(w, "read") /\ UNCHANGED <<seen, inbox, signed, faults, queueVars>>
startDueBroadcasts(w) ==
  /\ At(w, "idle") /\ Startable
  /\ bc' = [bc EXCEPT !.status = "PROCESSING", !.attempts = @ + 1, !.age = "fresh"]
  /\ Go(w, "read") /\ UNCHANGED <<seen, inbox, signed, faults, queueVars>>
ReadClaimed_Fault(w) ==
  /\ At(w, "read")
  /\ run' = [run EXCEPT ![w] = [pc |-> "walk", pos |-> 0, text |-> None, attempts |-> bc.attempts]]
  /\ UNCHANGED <<bc, seen, inbox, signed, faults, queueVars>>
ReadClaimed(w) ==
  /\ At(w, "read")
  /\ run' = [run EXCEPT ![w] = [pc |-> "walk", pos |-> 0, text |-> bc.text, attempts |-> bc.attempts]]
  /\ UNCHANGED <<bc, seen, inbox, signed, faults, queueVars>>
\* The next page of users, then a look at stopRequestedAt.
NextPage(w) ==
  /\ At(w, "walk") /\ audienceWhere(run[w].pos) # {}
  /\ Go(w, IF stopRequested THEN "stop" ELSE "insert")
  /\ UNCHANGED <<bc, seen, inbox, signed, faults, queueVars>>
\* createMany with skipDuplicates on (userId, broadcast:{id}).
createMany_Fault(w) ==
  /\ At(w, "insert")
  /\ inbox' = [u \in Users |-> IF u \in audienceWhere(run[w].pos) THEN Append(inbox[u], run[w].text) ELSE inbox[u]]
  /\ Go(w, "plan") /\ UNCHANGED <<bc, seen, signed, faults, queueVars>>
createMany(w) ==
  /\ At(w, "insert")
  /\ inbox' = [u \in Users |-> IF u \in audienceWhere(run[w].pos) /\ inbox[u] = <<>> THEN <<run[w].text>> ELSE inbox[u]]
  /\ Go(w, "plan") /\ UNCHANGED <<bc, seen, signed, faults, queueVars>>
\* One delivery per row read back; planning may fail without failing the fan-out.
planDeliveriesSafely(w, planned) ==
  /\ At(w, "plan")
  /\ delivery' = [u \in Users |-> IF planned /\ u \in audienceWhere(run[w].pos) /\ delivery[u].status = "none"
                                  THEN [NotPlanned EXCEPT !.status = "PENDING"] ELSE delivery[u]]
  /\ Go(w, "touch") /\ UNCHANGED <<bc, seen, inbox, sender, paused, handed, signed, faults>>
\* Written by id, whatever the row says by now.  A short page was the last one.
Touch_Fault(w) ==
  /\ At(w, "touch")
  /\ bc' = [bc EXCEPT !.status = "PROCESSING", !.age = "fresh"]
  /\ run' = [run EXCEPT ![w].pos = @ + BATCH_SIZE + 1, ![w].pc = "walk"]
  /\ UNCHANGED <<seen, inbox, signed, faults, queueVars>>
Touch(w) ==
  /\ At(w, "touch")
  /\ bc' = [bc EXCEPT !.status = "PROCESSING", !.age = "fresh"]
  /\ run' = [run EXCEPT ![w].pos = @ + BATCH_SIZE, ![w].pc = "walk"]
  /\ UNCHANGED <<seen, inbox, signed, faults, queueVars>>
LastPage(w) ==
  /\ At(w, "walk") /\ audienceWhere(run[w].pos) = {}
  /\ Go(w, IF stopRequested THEN "stop" ELSE "complete")
  /\ UNCHANGED <<bc, seen, inbox, signed, faults, queueVars>>
End(w, s) ==
  /\ bc' = [bc EXCEPT !.status = s, !.age = "fresh"] /\ run' = [run EXCEPT ![w] = Idle]
  /\ UNCHANGED <<seen, inbox, signed, queueVars>>
markStopped(w) == At(w, "stop") /\ End(w, "STOPPED") /\ UNCHANGED faults
Complete(w) == At(w, "complete") /\ End(w, "COMPLETED") /\ UNCHANGED faults
\* A statement throws; the row goes back to the queue until the attempts are used up.
runBroadcast_catch(w) ==
  /\ run[w].pc \notin {"idle", "read"} /\ Fault
  /\ End(w, IF run[w].attempts >= MAX_BROADCAST_ATTEMPTS THEN "FAILED" ELSE "SCHEDULED")
Crash(w) ==
  /\ (run[w].pc # "idle" \/ sender[w].pc # "idle") /\ Fault
  /\ run' = [run EXCEPT ![w] = Idle] /\ sender' = [sender EXCEPT ![w] = NotSending]
  /\ UNCHANGED <<bc, seen, inbox, delivery, paused, handed, signed>>

FanOut(w) ==
  \/ startDueBroadcasts(w) \/ ReadClaimed(w) \/ NextPage(w) \/ createMany(w)
  \/ planDeliveriesSafely(w, TRUE) \/ Touch(w) \/ LastPage(w) \/ markStopped(w) \/ Complete(w)
FanOutFaults(w) == runBroadcast_catch(w) \/ Crash(w) \/ planDeliveriesSafely(w, FALSE)

-----------------------------------------------------------------------------
(* The admins.  findOwnedBroadcast: the author, or a super admin. *)

adminRest == <<run, inbox, faults>>
findOwnedBroadcast(a) ==
  /\ seen[a].pc = "idle" /\ bc.status # "none"
  /\ seen' = [seen EXCEPT ![a] = [pc |-> "loaded", row |-> bc]]
  /\ UNCHANGED <<bc, signed, adminRest, queueVars>>
Loaded(a) == seen[a].pc = "loaded"
Respond(a) == seen' = [seen EXCEPT ![a] = NotLoaded]
AdminRefused(a) == Loaded(a) /\ Respond(a) /\ UNCHANGED <<bc, signed, adminRest, queueVars>>

cancelBroadcast(a) ==
  /\ Loaded(a) /\ bc.status = "SCHEDULED"
  /\ bc' = [bc EXCEPT !.status = "CANCELLED", !.age = "fresh"]
  /\ Respond(a) /\ UNCHANGED <<signed, adminRest, queueVars>>
\* The loaded row decides whether the new text needs another approval.
updateBroadcast(a, t) ==
  /\ Loaded(a) /\ seen[a].row.status \in Open /\ bc.status \in Open
  /\ bc' = IF seen[a].row.approvedBy # None
           THEN [bc EXCEPT !.text = t, !.status = "AWAITING_APPROVAL", !.large = "yes", !.approvedBy = None, !.age = "fresh"]
           ELSE [bc EXCEPT !.text = t, !.age = "fresh"]
  /\ Respond(a) /\ UNCHANGED <<signed, adminRest, queueVars>>
\* An edit of scheduledAt alone leaves the approval as it is.
reschedule(a) ==
  /\ Loaded(a) /\ seen[a].row.status \in Open /\ bc.status \in Open
  /\ bc' = [bc EXCEPT !.due = "no", !.age = "fresh"]
  /\ Respond(a) /\ UNCHANGED <<signed, adminRest, queueVars>>
approveBroadcast(a) ==
  /\ Loaded(a) /\ seen[a].row.status = "AWAITING_APPROVAL" /\ a # Author
  /\ bc.status = "AWAITING_APPROVAL"
  /\ bc' = [bc EXCEPT !.status = "SCHEDULED", !.approvedBy = a, !.age = "fresh"]
  /\ signed' = signed \cup {bc.text}
  /\ Respond(a) /\ UNCHANGED <<adminRest, queueVars>>
rejectBroadcast(a) ==
  /\ Loaded(a) /\ bc.status = "AWAITING_APPROVAL"
  /\ bc' = [bc EXCEPT !.status = "REJECTED", !.age = "fresh"]
  /\ Respond(a) /\ UNCHANGED <<signed, adminRest, queueVars>>
\* Three statements: the request, the hold, and the closing of a broadcast whose worker looks gone.
stopBroadcast(a) ==
  /\ Loaded(a) /\ seen[a].row.status = "PROCESSING"
  /\ bc' = [bc EXCEPT !.stop = "yes", !.age = "fresh"] /\ seen' = [seen EXCEPT ![a].pc = "hold"]
  /\ UNCHANGED <<signed, adminRest, queueVars>>
holdDeliveries(a) ==
  /\ seen[a].pc = "hold"
  /\ delivery' = [u \in Users |-> IF delivery[u].status = "PENDING"
                    THEN [delivery[u] EXCEPT !.status = "SKIPPED", !.why = "broadcast_stopped"] ELSE delivery[u]]
  /\ IF seen[a].row.age = "stale" THEN seen' = [seen EXCEPT ![a].pc = "close"] ELSE Respond(a)
  /\ UNCHANGED <<bc, sender, paused, handed, signed, adminRest>>
closeStopped(a) ==
  /\ seen[a].pc = "close" /\ bc' = [bc EXCEPT !.status = "STOPPED", !.age = "fresh"]
  /\ Respond(a) /\ UNCHANGED <<signed, adminRest, queueVars>>
Requeue(S) == delivery' = [u \in Users |-> IF u \in S THEN [NotPlanned EXCEPT !.status = "PENDING"] ELSE delivery[u]]
retryBroadcast(a) ==
  /\ Loaded(a) /\ seen[a].row.status \in {"FAILED", "STOPPED"} /\ bc.status \in {"FAILED", "STOPPED"}
  /\ bc' = [bc EXCEPT !.status = "SCHEDULED", !.attempts = 0, !.stop = "no", !.due = "yes", !.age = "fresh"]
  /\ seen' = [seen EXCEPT ![a].pc = "requeue"] /\ UNCHANGED <<signed, adminRest, queueVars>>
Held(u) == delivery[u].status = "SKIPPED" /\ delivery[u].why = "broadcast_stopped"
requeueDeliveries(a) ==
  /\ seen[a].pc = "requeue" \/ (Loaded(a) /\ seen[a].row.status \in {"FAILED", "STOPPED", "COMPLETED"})
  /\ Requeue({u \in Users : delivery[u].status = "FAILED" \/ Held(u)})
  /\ Respond(a) /\ UNCHANGED <<bc, sender, paused, handed, signed, adminRest>>

Decisions(a) ==
  \/ findOwnedBroadcast(a) \/ AdminRefused(a) \/ cancelBroadcast(a) \/ approveBroadcast(a) \/ rejectBroadcast(a)
  \/ reschedule(a) \/ \E t \in Texts : updateBroadcast(a, t)
Stops(a) ==
  \/ findOwnedBroadcast(a) \/ AdminRefused(a) \/ stopBroadcast(a) \/ holdDeliveries(a) \/ closeStopped(a)
  \/ retryBroadcast(a) \/ requeueDeliveries(a)

-----------------------------------------------------------------------------
(* The delivery queue. *)

fanVars == <<bc, run, seen, inbox, signed>>
Set(u, s, why) == delivery' = [delivery EXCEPT ![u].status = s, ![u].why = why]
Done(w) == sender' = [sender EXCEPT ![w] = NotSending]
\* The paused channels are read before the claiming update, or not at all when the read fails.
claimDeliveries(w, u) ==
  /\ sender[w].pc = "idle" /\ delivery[u].status = "PENDING" /\ paused = {}
  /\ delivery' = [delivery EXCEPT ![u].status = "SENDING", ![u].attempts = @ + 1]
  /\ sender' = [sender EXCEPT ![w] = [user |-> u, pc |-> "claimed"]]
  /\ UNCHANGED <<paused, handed, faults, fanVars>>
\* The receiver is checked again: inactive, locked, not verified, bounced or without a device.
dispatchOne(w, ok) ==
  /\ sender[w].pc = "claimed" /\ delivery[sender[w].user].status = "SENDING"
  /\ IF ok THEN sender' = [sender EXCEPT ![w].pc = "send"] /\ UNCHANGED delivery
           ELSE Set(sender[w].user, "SKIPPED", "unreachable") /\ Done(w)
  /\ UNCHANGED <<paused, handed, faults, fanVars>>
Send(w) ==
  /\ sender[w].pc = "send" /\ handed' = handed \cup {sender[w].user}
  /\ sender' = [sender EXCEPT ![w].pc = "sent"] /\ UNCHANGED <<delivery, paused, faults, fanVars>>
MarkSent(w) ==
  /\ sender[w].pc = "sent" /\ Set(sender[w].user, "SENT", None) /\ Done(w)
  /\ UNCHANGED <<paused, handed, faults, fanVars>>
dispatchOne_catch(w) ==
  /\ sender[w].pc \in {"send", "sent"} /\ Fault
  /\ Set(sender[w].user, IF delivery[sender[w].user].attempts >= MAX_DELIVERY_ATTEMPTS THEN "FAILED" ELSE "PENDING", None)
  /\ Done(w) /\ UNCHANGED <<paused, handed, fanVars>>
Orphan_Fault(u) ==
  delivery[u].status = "SENDING" /\ delivery[u].attempts < MAX_DELIVERY_ATTEMPTS /\ ~\E w \in Workers : sender[w].user = u
\* A send lasts less than STALE_CLAIM_MS: only a row whose worker died is put back.
Orphan(u) == delivery[u].status = "SENDING" /\ ~\E w \in Workers : sender[w].user = u
recoverStuckDeliveries_Fault(u) ==
  delivery[u].status \in {"SENDING", "SKIPPED"} /\ ~(\E w \in Workers : sender[w].user = u)
  /\ Set(u, "PENDING", None) /\ UNCHANGED <<sender, paused, handed, faults, fanVars>>
recoverStuckDeliveries(u) == Orphan(u) /\ Set(u, "PENDING", None) /\ UNCHANGED <<sender, paused, handed, faults, fanVars>>
retryDeliveries(S) ==
  /\ S # {} /\ \A u \in S : delivery[u].status = "FAILED"
  /\ Requeue(S) /\ UNCHANGED <<sender, paused, handed, faults, fanVars>>
retryAllFailedDeliveries == retryDeliveries({u \in Users : delivery[u].status = "FAILED"})
pauseQueueChannel  == paused' = {"PUSH"} /\ UNCHANGED <<delivery, sender, handed, faults, fanVars>>
resumeQueueChannel == paused # {} /\ paused' = {} /\ UNCHANGED <<delivery, sender, handed, faults, fanVars>>

processDeliveries(w) ==
  \/ \E u \in Users : claimDeliveries(w, u) \/ recoverStuckDeliveries(u)
  \/ \E ok \in BOOLEAN : dispatchOne(w, ok)
  \/ Send(w) \/ MarkSent(w)
Queue(w) ==
  \/ processDeliveries(w) \/ dispatchOne_catch(w) \/ retryAllFailedDeliveries \/ pauseQueueChannel \/ resumeQueueChannel
  \/ \E S \in SUBSET Users : retryDeliveries(S)

-----------------------------------------------------------------------------
WorkerNext == ClaimAges \/ DeadClaimAges \/ \E w \in Workers : FanOut(w) \/ FanOutFaults(w)
FanNext  == broadcast("t", "no", "no") \/ broadcast("t", "no", "yes") \/ Clock \/ WorkerNext
StopNext == broadcast("t", "no", "yes") \/ WorkerNext \/ \E a \in Admins : Stops(a)
SignNext ==
  \/ Clock
  \/ \E t \in Texts, l \in {"yes", "no"} : broadcast(t, l, "yes")
  \/ \E w \in Workers : FanOut(w)
  \/ \E a \in Admins : Decisions(a)
QueueNext ==
  \/ broadcast("t", "no", "yes") \/ DeadClaimAges
  \/ \E w \in Workers : FanOut(w) \/ Queue(w) \/ Crash(w)
  \/ \E a \in Admins : Stops(a)
SignSpec == BroadcastInit /\ [][SignNext]_bcVars
\* All of them together.
BroadcastNext == FanNext \/ StopNext \/ SignNext \/ QueueNext
BroadcastSpec == BroadcastInit /\ [][BroadcastNext]_bcVars
\* Nobody but the workers and the faults.
LiveNext == broadcast("t", "no", "yes") \/ WorkerNext \/ \E w \in Workers : processDeliveries(w) \/ dispatchOne_catch(w)

BroadcastTypeOK ==
  /\ bc.status \in Open \cup Finished \cup {"none", "PROCESSING"} /\ bc.text \in Texts \cup {None}
  /\ \A w \in Workers : run[w].pc \in {"idle", "read", "walk", "insert", "plan", "touch", "stop", "complete"}
  /\ \A u \in Users : /\ inbox[u] \in Seq(Texts)
                      /\ delivery[u].status \in {"none", "PENDING", "SENDING", "SENT", "FAILED", "SKIPPED"}
  /\ handed \subseteq Users /\ signed \subseteq Texts /\ faults \in 0..MaxFaults

\* Fan-out is crash-safe (notification.service.ts:751): however often it is claimed, taken over
\* from a slow worker, retried or restarted, nobody gets a second inbox row of the broadcast.
OneCopyPerUser == \A u \in Users : Len(inbox[u]) <= 1

\* COMPLETED is written by id after the walk (1093): whichever worker writes it, and whatever
\* other workers, stops and retries did to the row, everyone in the audience has a copy by then.
CompletedReachedAll == bc.status = "COMPLETED" => \A u \in Users : inbox[u] # <<>>

\* A large broadcast waits for a second person (771): no row of it exists in any inbox before
\* somebody other than the author has approved a text of it.
NoSendBeforeApproval == (bc.large = "yes" /\ \E u \in Users : inbox[u] # <<>>) => signed # {}

\* However often a fan-out is claimed, retried, taken over from a live worker or cut short by
\* a crash, nobody gets two rows (createMany with skipDuplicates), COMPLETED, written by id,
\* means the whole audience has one (runBroadcast), and a large broadcast reaches no inbox
\* before a second person approved it (approveBroadcast).
BroadcastReachesAllOnce == OneCopyPerUser /\ CompletedReachedAll /\ NoSendBeforeApproval

\* updateBroadcast: "nobody can swap the text after the second person has signed off" (2638-2640).
ApprovedTextOnly == bc.large = "yes" => \A u \in Users : \A i \in 1..Len(inbox[u]) : inbox[u][i] \in signed

\* A delivery put on hold by a stop (2840) stays on hold until somebody retries the broadcast.
HeldUntilRetried == \A u \in Users : (Held(u) /\ ~Held(u)') => \E a \in Admins : requeueDeliveries(a)

\* Under a scheduler that keeps ticking and finitely many faults, a broadcast ends and stays
\* ended: a dead worker's claim is taken over, a failing fan-out gives up after
\* MAX_BROADCAST_ATTEMPTS, and a slow worker cannot reopen the row for ever (1077).
BroadcastSettles == <>[](bc.status \in Finished \cup {"none"})

\* The queue drains: a delivery claimed by a worker that died is recovered, and a send that
\* keeps failing ends in FAILED.
DeliveriesSettle == <>[](\A u \in Users : delivery[u].status \in {"none", "SENT", "FAILED", "SKIPPED"})
=============================================================================
