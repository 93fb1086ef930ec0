----------------------------- MODULE StaffRoles -----------------------------
(***************************************************************************)
(* role.service.ts, permission.service.ts, core/user user-roles.service.ts *)
(* and the handlers that switch an admin off: which staff member holds     *)
(* which role.  One custom role, with the built-in ADMIN and SUPER_ADMIN.  *)
(* Every handler first reads (role, target, request) and then writes in    *)
(* one statement or transaction; call holds what an actor has read.  The   *)
(* counts of other super admins run inside READ COMMITTED transactions,    *)
(* which do not keep the rows they counted from changing.                  *)
(***************************************************************************)
EXTENDS Naturals, FiniteSets

CONSTANTS Staff, Asks, Nobody   \* staff members; assignment requests

VARIABLES
  role,     \* facts about the custom role
  held,     \* userRole rows of each staff member
  off,      \* staff members with isActive false
  ask,      \* roleAssignmentRequest rows
  temp,     \* newest roleTemporaryAssignment of the role, per staff member
  call,     \* handler in flight of each actor
  verdicts  \* history: decisions written on each request

staffVars == <<role, held, off, ask, temp, call, verdicts>>

NoAsk  == [status |-> "free", by |-> Nobody, target |-> Nobody, age |-> "fresh"]
NoCall == [op |-> "idle", user |-> Nobody, ask |-> Nobody]
BuiltIn == {"USER", "ADMIN", "SUPER_ADMIN"}

StaffInit ==
  /\ role = {"exists"}
  /\ held = [u \in Staff |-> {"ADMIN", "SUPER_ADMIN"}]
  /\ off = {}
  /\ ask = [q \in Asks |-> NoAsk]
  /\ temp = [u \in Staff |-> "none"]
  /\ call = [u \in Staff |-> NoCall]
  /\ verdicts = [q \in Asks |-> {}]

Actor(a) == a \notin off /\ "SUPER_ADMIN" \in held[a]
Begin(a, op, u, q) == Actor(a) /\ call[a] = NoCall /\ call' = [call EXCEPT ![a] = [op |-> op, user |-> u, ask |-> q]]
Running(a, op) == call[a].op = op
End(a) == call' = [call EXCEPT ![a] = NoCall]
Free(a) == Actor(a) /\ call[a] = NoCall
Conflict(a, op) == Running(a, op) /\ End(a) /\ UNCHANGED <<role, held, off, ask, temp, verdicts>>
Reads == UNCHANGED <<role, held, off, ask, temp, verdicts>>

isSensitiveRole == "sensitive" \in role
assertRoleAssignable == role \cap {"exists", "archived"} = {"exists"}
loadStaffTargetOrThrow(u) == u \notin off /\ held[u] # {"USER"} /\ held[u] # {}
SuperAdmins == {u \in Staff : u \notin off /\ "SUPER_ADMIN" \in held[u]}

-----------------------------------------------------------------------------
(* The role itself and its permissions. *)

create(a) ==
  /\ Free(a) /\ "exists" \notin role
  /\ role' = {"exists"}
  /\ UNCHANGED <<held, off, ask, temp, call, verdicts>>

\* clone and applyTemplate: the permissions come with the role.
createRoleWithPermissions(a) ==
  /\ Free(a) /\ "exists" \notin role
  /\ role' = {"exists", "sensitive"}
  /\ UNCHANGED <<held, off, ask, temp, call, verdicts>>

RemoveRead(a) == "exists" \in role /\ (\A u \in Staff : "R" \notin held[u]) /\ Begin(a, "remove", Nobody, Nobody) /\ Reads
\* The holders are counted again in the transaction; requests and temporary
\* assignments of the role go with it.
RemoveWrite(a) ==
  /\ Running(a, "remove") /\ "exists" \in role
  /\ \A u \in Staff : "R" \notin held[u]
  /\ role' = {}
  /\ ask' = [q \in Asks |-> IF ask[q].status = "free" THEN NoAsk ELSE [ask[q] EXCEPT !.status = "GONE"]]
  /\ temp' = [u \in Staff |-> "none"]
  /\ End(a)
  /\ UNCHANGED <<held, off, verdicts>>

\* One transaction: the flag, and every request still pending.
Cancel(q) == IF ask[q].status = "PENDING" THEN [ask[q] EXCEPT !.status = "CANCELLED"] ELSE ask[q]
archive_Fault(a) ==
  /\ Free(a) /\ assertRoleAssignable
  /\ role' = role \cup {"archived"}
  /\ ask' = [q \in Asks |-> IF ask[q].status # "free" THEN [ask[q] EXCEPT !.status = "CANCELLED"] ELSE ask[q]]
  /\ verdicts' = [q \in Asks |-> IF ask[q].status # "free" THEN verdicts[q] \cup {"CANCELLED"} ELSE verdicts[q]]
  /\ UNCHANGED <<held, off, temp, call>>
archive(a) ==
  /\ Free(a) /\ assertRoleAssignable
  /\ role' = role \cup {"archived"}
  /\ ask' = [q \in Asks |-> Cancel(q)]
  /\ verdicts' = [q \in Asks |-> IF ask[q].status = "PENDING" THEN verdicts[q] \cup {"CANCELLED"} ELSE verdicts[q]]
  /\ UNCHANGED <<held, off, temp, call>>
unarchive(a) ==
  /\ Free(a) /\ "archived" \in role
  /\ role' = role \ {"archived"}
  /\ UNCHANGED <<held, off, ask, temp, call, verdicts>>

\* Permissions of a role that is not locked, added or taken away; the sessions of the
\* holders are deleted when one was taken away (session checks: the "plain" protocol of module EntityCache).
PermissionsBecome(a, r) ==
  /\ Free(a) /\ "exists" \in role /\ r # role
  /\ role' = r
  /\ UNCHANGED <<held, off, ask, temp, call, verdicts>>
assignToRole(a) == PermissionsBecome(a, role \cup {"sensitive"})
revokeManyFromRole(a) == PermissionsBecome(a, role \ {"sensitive"})
revokeFromRole(a) == PermissionsBecome(a, role \ {"sensitive"})
setForRole(a) == \E p \in SUBSET {"sensitive"} : PermissionsBecome(a, (role \ {"sensitive"}) \cup p)

-----------------------------------------------------------------------------
(* Giving and taking the custom role. *)

\* userRole.create: refused by the unique key when the row is there already, by the
\* foreign key when the role has gone.
Grant(u) == "R" \notin held[u] /\ "exists" \in role /\ held' = [held EXCEPT ![u] = @ \cup {"R"}]
CanGrant(u) == "R" \notin held[u] /\ "exists" \in role

AssignRead(a, u) ==
  /\ assertRoleAssignable /\ ~isSensitiveRole /\ loadStaffTargetOrThrow(u) /\ "R" \notin held[u]
  /\ Begin(a, "assign", u, Nobody) /\ Reads
AssignWrite(a) ==
  /\ Running(a, "assign") /\ Grant(call[a].user)
  /\ End(a)
  /\ UNCHANGED <<role, off, ask, temp, verdicts>>

TemporaryRead(a, u) ==
  /\ assertRoleAssignable /\ ~isSensitiveRole /\ loadStaffTargetOrThrow(u) /\ "R" \notin held[u]
  /\ Begin(a, "temporary", u, Nobody) /\ Reads
assignTemporarily(a) ==
  /\ Running(a, "temporary") /\ Grant(call[a].user)
  /\ temp' = [temp EXCEPT ![call[a].user] = "ACTIVE"]
  /\ End(a)
  /\ UNCHANGED <<role, off, ask, verdicts>>

removeFromUserRead(a, u) ==
  /\ "R" \in held[u] /\ Cardinality(held[u]) > 1
  /\ Begin(a, "take", u, Nobody) /\ Reads
\* The row and the temporary assignment end together.
removeFromUser_Fault(a) ==
  /\ Running(a, "take") /\ "R" \in held[call[a].user]
  /\ held' = [held EXCEPT ![call[a].user] = @ \ {"R"}]
  /\ End(a)
  /\ UNCHANGED <<role, off, ask, temp, verdicts>>
removeFromUser(a) ==
  LET u == call[a].user IN
  /\ Running(a, "take") /\ "R" \in held[u]
  /\ held' = [held EXCEPT ![u] = @ \ {"R"}]
  /\ temp' = [temp EXCEPT ![u] = IF @ = "ACTIVE" THEN "REVOKED" ELSE @]
  /\ End(a)
  /\ UNCHANGED <<role, off, ask, verdicts>>

\* Two-person approval.
expireStaleRequests ==
  [q \in Asks |-> IF ask[q].status = "PENDING" /\ ask[q].age = "expired" THEN [ask[q] EXCEPT !.status = "EXPIRED"] ELSE ask[q]]
RequestRead(a, u) ==
  /\ assertRoleAssignable /\ loadStaffTargetOrThrow(u) /\ "R" \notin held[u]
  /\ \A q \in Asks : expireStaleRequests[q].status = "PENDING" => ask[q].target # u
  /\ ask' = expireStaleRequests
  /\ Begin(a, "request", u, Nobody)
  /\ UNCHANGED <<role, held, off, temp, verdicts>>
requestAssignment(a) ==
  /\ Running(a, "request") /\ "exists" \in role
  /\ \E q \in Asks : /\ ask[q].status = "free"
                     /\ ask' = [ask EXCEPT ![q] = [NoAsk EXCEPT !.status = "PENDING", !.by = a, !.target = call[a].user]]
  /\ End(a)
  /\ UNCHANGED <<role, held, off, temp, verdicts>>

Reviewable(a, q) == ask[q].by # a /\ ask[q].status = "PENDING"
\* A request found expired is closed by a write without a condition.
ReviewRead(a, q, op) ==
  /\ Reviewable(a, q)
  /\ \/ ask[q].age = "expired" /\ Begin(a, "late", Nobody, q)
     \/ /\ ask[q].age = "fresh"
        /\ op = "approve" => assertRoleAssignable /\ loadStaffTargetOrThrow(ask[q].target) /\ "R" \notin held[ask[q].target]
        /\ Begin(a, op, Nobody, q)
  /\ Reads
ReviewLate(a) ==
  /\ Running(a, "late")
  /\ ask' = [ask EXCEPT ![call[a].ask].status = IF @ = "GONE" THEN @ ELSE "EXPIRED"]
  /\ End(a)
  /\ UNCHANGED <<role, held, off, temp, verdicts>>
Verdict(a, v) ==
  LET q == call[a].ask IN
  /\ ask[q].status = "PENDING"
  /\ ask' = [ask EXCEPT ![q].status = v]
  /\ verdicts' = [verdicts EXCEPT ![q] = @ \cup {v}]
ReviewReject(a) ==
  /\ Running(a, "reject") /\ Verdict(a, "REJECTED")
  /\ End(a)
  /\ UNCHANGED <<role, held, off, temp>>
ReviewApprove(a) ==
  /\ Running(a, "approve") /\ Verdict(a, "APPROVED") /\ Grant(ask[call[a].ask].target)
  /\ End(a)
  /\ UNCHANGED <<role, off, temp>>

AskAges(q) ==
  /\ ask[q].status = "PENDING" /\ ask[q].age = "fresh"
  /\ ask' = [ask EXCEPT ![q].age = "expired"]
  /\ UNCHANGED <<role, held, off, temp, call, verdicts>>

-----------------------------------------------------------------------------
(* Built-in roles, and switching a staff member off. *)

AssignRoleRead(a, u) == u \notin off /\ "ADMIN" \in held[u] /\ Begin(a, "super", u, Nobody) /\ Reads
assignRole(a) ==
  /\ Running(a, "super")
  /\ held' = [held EXCEPT ![call[a].user] = @ \cup {"SUPER_ADMIN"}]
  /\ End(a)
  /\ UNCHANGED <<role, off, ask, temp, verdicts>>

RevokeRoleCount(a, u) ==
  /\ "SUPER_ADMIN" \in held[u] /\ SuperAdmins \ {u} # {}
  /\ Begin(a, "unsuper", u, Nobody) /\ Reads
revokeRole(a) ==
  /\ Running(a, "unsuper") /\ "SUPER_ADMIN" \in held[call[a].user]
  /\ held' = [held EXCEPT ![call[a].user] = @ \ {"SUPER_ADMIN"}]
  /\ End(a)
  /\ UNCHANGED <<role, off, ask, temp, verdicts>>

demoteAdmin(a, u) ==
  /\ Free(a) /\ u # a /\ "ADMIN" \in held[u] /\ "SUPER_ADMIN" \notin held[u]
  /\ held' = [held EXCEPT ![u] = IF @ = {"ADMIN"} THEN {"USER"} ELSE @ \ {"ADMIN"}]
  /\ UNCHANGED <<role, off, ask, temp, call, verdicts>>

DeactivateCount(a, u) ==
  /\ u \notin off /\ ("SUPER_ADMIN" \in held[u] => SuperAdmins \ {u} # {})
  /\ Begin(a, "off", u, Nobody) /\ Reads
DeactivateWrite(a) ==
  /\ Running(a, "off") /\ call[a].user \notin off
  /\ off' = off \cup {call[a].user}
  /\ End(a)
  /\ UNCHANGED <<role, held, ask, temp, verdicts>>
deactivateUser(a, u) == u # a /\ DeactivateCount(a, u)
deactivateMe(a) == DeactivateCount(a, a)

reactivateUser(a, u) ==
  /\ Free(a) /\ u \in off
  /\ off' = off \ {u}
  /\ UNCHANGED <<role, held, ask, temp, call, verdicts>>

\* The write comes too late: the row it needs has gone or is there already, or a
\* request was decided.
TooLate(a) ==
  \/ \E op \in {"assign", "temporary"} : Conflict(a, op) /\ ~CanGrant(call[a].user)
  \/ Conflict(a, "take") /\ "R" \notin held[call[a].user]
  \/ Conflict(a, "approve") /\ (ask[call[a].ask].status # "PENDING" \/ ~CanGrant(ask[call[a].ask].target))
  \/ Conflict(a, "reject") /\ ask[call[a].ask].status # "PENDING"

-----------------------------------------------------------------------------
RoleStep(a) ==
  \/ create(a) \/ createRoleWithPermissions(a) \/ RemoveRead(a) \/ RemoveWrite(a) \/ archive(a) \/ unarchive(a)
  \/ assignToRole(a) \/ revokeManyFromRole(a) \/ revokeFromRole(a) \/ setForRole(a)
GrantStep(a) ==
  \/ AssignWrite(a) \/ assignTemporarily(a) \/ removeFromUser(a) \/ requestAssignment(a)
  \/ ReviewLate(a) \/ ReviewReject(a) \/ ReviewApprove(a)
  \/ \E u \in Staff : AssignRead(a, u) \/ TemporaryRead(a, u) \/ removeFromUserRead(a, u) \/ RequestRead(a, u)
  \/ \E q \in Asks, op \in {"approve", "reject"} : ReviewRead(a, q, op)
BuiltInStep(a) ==
  \/ assignRole(a) \/ revokeRole(a) \/ DeactivateWrite(a) \/ deactivateMe(a)
  \/ \E u \in Staff : AssignRoleRead(a, u) \/ RevokeRoleCount(a, u) \/ demoteAdmin(a, u)
                      \/ deactivateUser(a, u) \/ reactivateUser(a, u)

StaffNext ==
  \/ \E a \in Staff : RoleStep(a) \/ GrantStep(a) \/ BuiltInStep(a) \/ TooLate(a)
  \/ \E q \in Asks : AskAges(q)
GrantNext ==
  \/ \E a \in Staff : RoleStep(a) \/ GrantStep(a) \/ TooLate(a)
  \/ \E q \in Asks : AskAges(q)
BuiltInNext == \E a \in Staff : BuiltInStep(a) \/ AssignWrite(a) \/ \E u \in Staff : AssignRead(a, u)
StaffSpec == StaffInit /\ [][StaffNext]_staffVars

-----------------------------------------------------------------------------
StaffTypeOK ==
  /\ role \subseteq {"exists", "sensitive", "archived"}
  /\ held \in [Staff -> SUBSET (BuiltIn \cup {"R"})]
  /\ off \subseteq Staff
  /\ temp \in [Staff -> {"none", "ACTIVE", "REVOKED"}]

\* A request to assign a role gets one answer at most: approved, rejected, or cancelled
\* by archiving the role, however two reviewers and the archiving admin interleave; in
\* particular no approval goes through once archiving has cancelled the request.
OneVerdict == \A q \in Asks : Cardinality(verdicts[q]) <= 1

\* A temporary assignment that is ACTIVE is one whose role the member holds: no way of
\* losing the role leaves the assignment behind to be taken for a grant.
TemporaryIsHeld == \A u \in Staff : temp[u] = "ACTIVE" => "R" \in held[u]
=============================================================================
