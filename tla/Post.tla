-------------------------------- MODULE Post --------------------------------
(***************************************************************************)
(* core/post: posts of users and of the organisation.  Reviewers and the   *)
(* author load a post (findOne, findMyPost) and write later; every status  *)
(* write of the review, of the author's submit and cancel and of a         *)
(* takedown names the status that was loaded, the claim, the author's edit *)
(* and the deletions do not.                                               *)
(***************************************************************************)
EXTENDS Naturals, FiniteSets

CONSTANTS Posts, Requests, Appeals, Media, MaxPending, None

VARIABLES
  post,    \* post rows
  seen,    \* the row each request has loaded, and the appeal it looks at
  appeal,  \* post_appeal rows
  flags,   \* <<post, reporter, status>> rows of post_flag
  reads    \* post_read_state rows

postVars == <<post, seen, appeal, flags, reads>>

ALLOWED_STATUS_TRANSITIONS ==
  [ DRAFT |-> {"PENDING"},
    PENDING |-> {"APPROVED", "REJECTED", "CHANGES_REQUESTED", "DRAFT"},
    CHANGES_REQUESTED |-> {"PENDING"},
    APPROVED |-> {"PUBLISHED", "REJECTED"},
    PUBLISHED |-> {"UNPUBLISHED"},
    UNPUBLISHED |-> {"PUBLISHED"},
    REJECTED |-> {} ]
Statuses == DOMAIN ALLOWED_STATUS_TRANSITIONS
OWNER_EDITABLE_STATUSES == {"DRAFT", "CHANGES_REQUESTED"}

NoPost == [status |-> "none", child |-> "no", claimedBy |-> None, firstBy |-> None, marks |-> {}, media |-> {}]
NotSeen == [post |-> None, row |-> NoPost, appeal |-> None]
NoAppeal == [post |-> None, target |-> None, state |-> "none"]

PostInit(Start) ==
  /\ post \in [Posts -> {[NoPost EXCEPT !.status = s] : s \in Start}]
  /\ seen = [q \in Requests |-> NotSeen]
  /\ appeal = [a \in Appeals |-> NoAppeal]
  /\ flags = {} /\ reads = {}

Present(p) == post[p].status # "none"
findOne(q, p) ==
  /\ seen[q] = NotSeen /\ Present(p)
  /\ seen' = [seen EXCEPT ![q] = [post |-> p, row |-> post[p], appeal |-> None]]
  /\ UNCHANGED <<post, appeal, flags, reads>>
Was(q) == seen[q].row
Loaded(q, p) == seen[q].post = p /\ seen[q].appeal = None
Respond(q) == seen' = [seen EXCEPT ![q] = NotSeen]
Refused(q) == seen[q] # NotSeen /\ Respond(q) /\ UNCHANGED <<post, appeal, flags, reads>>
Write(q, p, v) == post' = [post EXCEPT ![p] = v] /\ Respond(q) /\ UNCHANGED <<appeal, flags, reads>>
\* updateMany where { id, status: the loaded status }
Swap(q, p, v) == post[p].status = Was(q).status /\ Write(q, p, v)
assertTransitionAllowed(q, to) == Was(q).status # "none" /\ to \in ALLOWED_STATUS_TRANSITIONS[Was(q).status]
assertNotClaimedByOther(q) == Was(q).claimedBy \in {None, q}

-----------------------------------------------------------------------------
(* Review. *)

claimPost(q, p) == Loaded(q, p) /\ assertNotClaimedByOther(q) /\ Present(p) /\ Write(q, p, [post[p] EXCEPT !.claimedBy = q])
unclaimPost(q, p) == Loaded(q, p) /\ assertNotClaimedByOther(q) /\ Present(p) /\ Write(q, p, [post[p] EXCEPT !.claimedBy = None])

\* A child's post: the first admin's confirmation is stored by id, another one's satisfies.
FirstConfirmation(q, p) ==
  Was(q).child = "yes" /\ Was(q).firstBy = None /\ Present(p) /\ Write(q, p, [post[p] EXCEPT !.firstBy = q])
ensureChildSafetySatisfied(q) == Was(q).child = "no" \/ Was(q).firstBy \notin {None, q}

Decide(q, p, to) == Swap(q, p, [post[p] EXCEPT !.status = to, !.claimedBy = None])
updateStatus_Fault(q, p, to) ==
  /\ Loaded(q, p) /\ assertTransitionAllowed(q, to) /\ assertNotClaimedByOther(q) /\ Present(p)
  /\ Write(q, p, [post[p] EXCEPT !.status = to])
updateStatus(q, p, to) ==
  /\ Loaded(q, p) /\ assertTransitionAllowed(q, to) /\ assertNotClaimedByOther(q)
  /\ IF to \in {"APPROVED", "PUBLISHED"} /\ ~ensureChildSafetySatisfied(q)
     THEN FirstConfirmation(q, p)
     ELSE Swap(q, p, [post[p] EXCEPT !.status = to])
approve(q, p) ==
  /\ Loaded(q, p) /\ assertTransitionAllowed(q, "APPROVED") /\ assertNotClaimedByOther(q)
  /\ IF ensureChildSafetySatisfied(q) THEN Decide(q, p, "APPROVED") ELSE FirstConfirmation(q, p)
requestChanges(q, p) ==
  /\ Loaded(q, p) /\ assertTransitionAllowed(q, "CHANGES_REQUESTED") /\ assertNotClaimedByOther(q)
  /\ Decide(q, p, "CHANGES_REQUESTED")
reject(q, p) ==
  /\ Loaded(q, p) /\ assertTransitionAllowed(q, "REJECTED") /\ assertNotClaimedByOther(q)
  /\ Decide(q, p, "REJECTED")
\* The bulk calls look at the child flag and then load the post again.
BulkLook(q, p) ==
  /\ Loaded(q, p) /\ Was(q).child = "no" /\ Present(p)
  /\ seen' = [seen EXCEPT ![q].row = post[p]] /\ UNCHANGED <<post, appeal, flags, reads>>
bulkApprove(q, p) == BulkLook(q, p)
bulkReject(q, p) == BulkLook(q, p)
publish(q, p) ==
  Loaded(q, p) /\ assertTransitionAllowed(q, "PUBLISHED") /\ Swap(q, p, [post[p] EXCEPT !.status = "PUBLISHED"])
unpublish(q, p) ==
  Loaded(q, p) /\ assertTransitionAllowed(q, "UNPUBLISHED") /\ Swap(q, p, [post[p] EXCEPT !.status = "UNPUBLISHED"])
takedown(q, p) ==
  /\ Loaded(q, p) /\ Was(q).status = "PUBLISHED"
  /\ Swap(q, p, [post[p] EXCEPT !.status = "UNPUBLISHED", !.marks = @ \cup {"takedown"}])

-----------------------------------------------------------------------------
(* The author. *)

Insert(v) == \E p \in Posts : ~Present(p) /\ post' = [post EXCEPT ![p] = v] /\ UNCHANGED <<seen, appeal, flags, reads>>
create(c, m) == Insert([NoPost EXCEPT !.status = "DRAFT", !.child = c, !.media = m])
\* An official post is stored approved at once, a child's with one admin's confirmation.
createOfficial(c, now) == Insert([NoPost EXCEPT !.status = IF now THEN "APPROVED" ELSE "PENDING", !.child = c])
updateMyPost(q, p, c, m) ==
  /\ Loaded(q, p) /\ Was(q).status \in OWNER_EDITABLE_STATUSES /\ Present(p)
  /\ Write(q, p, [post[p] EXCEPT !.child = c, !.media = m])
submitMyPost(q, p) ==
  /\ Loaded(q, p) /\ Was(q).status \in OWNER_EDITABLE_STATUSES
  /\ Cardinality({o \in Posts : post[o].status = "PENDING"}) < MaxPending
  /\ Swap(q, p, [post[p] EXCEPT !.status = "PENDING"])
cancelMyPost(q, p) == Loaded(q, p) /\ Was(q).status = "PENDING" /\ Swap(q, p, [post[p] EXCEPT !.status = "DRAFT"])
\* Deletes by id, with the flags, appeals and read states that refer to the post.
Erase(p) ==
  /\ post' = [post EXCEPT ![p] = NoPost]
  /\ appeal' = [a \in Appeals |-> IF appeal[a].post = p THEN NoAppeal ELSE appeal[a]]
  /\ flags' = {f \in flags : f[1] # p} /\ reads' = {r \in reads : r[1] # p}
deleteMyPost(q, p) == Loaded(q, p) /\ Was(q).status = "DRAFT" /\ Present(p) /\ Erase(p) /\ Respond(q)
\* The nightly purge lists the old drafts and rejections and deletes each by its id.
purgePosts(q, p) == Loaded(q, p) /\ Was(q).status \in {"DRAFT", "REJECTED"} /\ Present(p) /\ Erase(p) /\ Respond(q)
\* The author's account is suspended: two updateMany calls.
handleUserSuspended ==
  /\ post' = [p \in Posts |->
       CASE post[p].status = "PENDING" -> [post[p] EXCEPT !.status = "DRAFT", !.marks = @ \cup {"suspended"}]
         [] post[p].status \in OWNER_EDITABLE_STATUSES -> [post[p] EXCEPT !.marks = @ \cup {"suspended"}]
         [] OTHER -> post[p]]
  /\ UNCHANGED <<seen, appeal, flags, reads>>

-----------------------------------------------------------------------------
(* Flags and appeals. *)

\* (postId, reporterId) is unique.
flagPost(u, p) ==
  /\ post[p].status = "PUBLISHED" /\ ~\E s \in {"OPEN", "DISMISSED"} : <<p, u, s>> \in flags
  /\ flags' = flags \cup {<<p, u, "OPEN">>} /\ UNCHANGED <<post, seen, appeal, reads>>
resolveFlags(p) ==
  /\ Present(p) /\ \E u \in Requests : <<p, u, "OPEN">> \in flags
  /\ flags' = {IF f[1] = p THEN <<p, f[2], "DISMISSED">> ELSE f : f \in flags} /\ UNCHANGED <<post, seen, appeal, reads>>

\* The open appeal is looked for before the insert.
Appealable(q) == Was(q).status = "REJECTED" \/ (Was(q).status = "UNPUBLISHED" /\ "takedown" \in Was(q).marks)
AppealCheck(q, p, a) ==
  /\ Loaded(q, p) /\ Appealable(q) /\ appeal[a] = NoAppeal
  /\ ~\E b \in Appeals : appeal[b].post = p /\ appeal[b].state = "OPEN"
  /\ seen' = [seen EXCEPT ![q].appeal = "none open"] /\ UNCHANGED <<post, appeal, flags, reads>>
appealMyPost(q, a) ==
  /\ seen[q].appeal = "none open" /\ Present(seen[q].post) /\ appeal[a] = NoAppeal
  /\ appeal' = [appeal EXCEPT ![a] =
       [post |-> seen[q].post, target |-> IF Was(q).status = "REJECTED" THEN "REJECTION" ELSE "TAKEDOWN", state |-> "OPEN"]]
  /\ Respond(q) /\ UNCHANGED <<post, flags, reads>>

AppealLook(q, p, a) ==
  /\ Loaded(q, p) /\ appeal[a].post = p /\ appeal[a].state = "OPEN"
  /\ seen' = [seen EXCEPT ![q].appeal = a] /\ UNCHANGED <<post, appeal, flags, reads>>
\* One transaction: the open appeal is decided, an overturned one moves the post if it still stands where it was.
Overturned(p, target) ==
  CASE target = "REJECTION" /\ post[p].status = "REJECTED" -> [post EXCEPT ![p].status = "PENDING"]
    [] target = "TAKEDOWN" /\ post[p].status = "UNPUBLISHED" -> [post EXCEPT ![p].status = "PUBLISHED", ![p].marks = @ \ {"takedown"}]
    [] OTHER -> post
Decision(q, a, d) ==
  /\ seen[q].appeal = a /\ a \in Appeals /\ appeal[a].post # None
  /\ appeal' = [appeal EXCEPT ![a].state = d]
  /\ post' = IF d = "OVERTURNED" THEN Overturned(appeal[a].post, appeal[a].target) ELSE post
  /\ Respond(q) /\ UNCHANGED <<flags, reads>>
decideAppeal_Fault(q, a, d) == Decision(q, a, d)
decideAppeal(q, a, d) == seen[q].appeal \in Appeals /\ appeal[a].state = "OPEN" /\ Decision(q, a, d)

-----------------------------------------------------------------------------
(* Reading. *)

findPublishedPostsUncached == {p \in Posts : post[p].status = "PUBLISHED"}
findPublishedPost(p) == p \in findPublishedPostsUncached
getPubliclyVisibleMediaKeys(p) == IF post[p].child = "yes" THEN {} ELSE post[p].media
getPublicMediaDownloadUrl(p) == IF findPublishedPost(p) THEN getPubliclyVisibleMediaKeys(p) ELSE {}

findUnread(a) == {p \in Posts : Present(p) /\ <<p, a>> \notin reads}
UnreadLeft(total, read) == IF read > total THEN 0 ELSE total - read
getUnreadCount_Fault(a) == UnreadLeft(Cardinality({p \in Posts : Present(p)}), Cardinality(reads))
\* The number of posts less the admin's read states, never below zero.
getUnreadCount(a) == UnreadLeft(Cardinality({p \in Posts : Present(p)}), Cardinality({r \in reads : r[2] = a}))
SetReads(rs) == reads' = rs /\ UNCHANGED <<post, seen, appeal, flags>>
markRead(a, p) == Present(p) /\ SetReads(reads \cup {<<p, a>>})
markUnread(a, p) == Present(p) /\ SetReads(reads \ {<<p, a>>})
bulkMarkRead(a, ids) == SetReads(reads \cup ({p \in ids : Present(p)} \X {a}))
markAllRead(a) == SetReads(reads \cup (findUnread(a) \X {a}))

-----------------------------------------------------------------------------
ReviewNext ==
  \/ \E q \in Requests, p \in Posts :
       \/ findOne(q, p) \/ claimPost(q, p) \/ unclaimPost(q, p) \/ approve(q, p) \/ requestChanges(q, p) \/ reject(q, p)
       \/ bulkApprove(q, p) \/ publish(q, p) \/ unpublish(q, p) \/ takedown(q, p)
       \/ \E s \in Statuses : updateStatus(q, p, s)
       \/ submitMyPost(q, p) \/ cancelMyPost(q, p)
       \/ \E c \in {"yes", "no"}, m \in SUBSET Media : updateMyPost(q, p, c, m)
  \/ \E q \in Requests : Refused(q)
  \/ handleUserSuspended

AppealNext ==
  \/ \E q \in Requests, p \in Posts :
       \/ findOne(q, p) \/ reject(q, p) \/ approve(q, p) \/ publish(q, p) \/ unpublish(q, p) \/ takedown(q, p)
       \/ purgePosts(q, p)
       \/ \E a \in Appeals : AppealCheck(q, p, a) \/ AppealLook(q, p, a)
  \/ \E q \in Requests, a \in Appeals : appealMyPost(q, a) \/ decideAppeal(q, a, "UPHELD") \/ decideAppeal(q, a, "OVERTURNED")
  \/ \E q \in Requests : Refused(q)

ShowNext ==
  \/ \E c \in {"yes", "no"} : create(c, {}) \/ createOfficial(c, TRUE) \/ createOfficial(c, FALSE)
  \/ \E q \in Requests, p \in Posts :
       \/ findOne(q, p) \/ publish(q, p) \/ unpublish(q, p) \/ deleteMyPost(q, p) \/ bulkReject(q, p)
       \/ flagPost(q, p) \/ markRead(q, p) \/ markUnread(q, p)
  \/ \E p \in Posts : resolveFlags(p)
  \/ \E q \in Requests, ids \in SUBSET Posts : bulkMarkRead(q, ids)
  \/ \E q \in Requests : markAllRead(q) \/ Refused(q)

PostNext == ReviewNext \/ AppealNext \/ ShowNext
PostSpec == PostInit(Statuses \cup {"none"}) /\ [][PostNext]_postVars

-----------------------------------------------------------------------------
PostTypeOK ==
  /\ \A p \in Posts : post[p].status \in Statuses \cup {"none"} /\ post[p].media \subseteq Media
  /\ \A a \in Appeals : appeal[a].state \in {"none", "OPEN", "UPHELD", "OVERTURNED"}
  /\ reads \subseteq Posts \X Requests

\* Whatever requests are in flight, a status changes only along ALLOWED_STATUS_TRANSITIONS,
\* but for an overturned rejection, which goes back to the queue.
FollowsTransitionMap ==
  \A p \in Posts : Present(p) /\ post'[p].status \notin {"none", post[p].status} =>
    \/ post'[p].status \in ALLOWED_STATUS_TRANSITIONS[post[p].status]
    \/ post[p].status = "REJECTED" /\ \E a \in Appeals : appeal'[a].state = "OVERTURNED" /\ appeal[a].state = "OPEN"

\* Two moderators decide the same appeal at once: the first decision stands.
DecisionStays == \A a \in Appeals : appeal[a].state \in {"UPHELD", "OVERTURNED"} => appeal'[a] \in {appeal[a], NoAppeal}

\* getUnreadCount never differs from the number of posts findUnread lists.
UnreadCountMatches == \A a \in Requests : getUnreadCount(a) = Cardinality(findUnread(a))
=============================================================================
