----------------------------- MODULE AuditHolds ------------------------------
(***************************************************************************)
(* misc/audit-log: legal holds, and the two-person gate in front of every  *)
(* operation that weakens evidence (releasing a hold, changing retention,  *)
(* retrieving an archive).  A hold covers the rows its filter matches; the *)
(* purge looks only at the flag on the row.  Requests of several Super     *)
(* Supers interleave between their statements.                             *)
(***************************************************************************)
EXTENDS Naturals, FiniteSets, FiniteSetsExt, Sentinel

CONSTANTS Rows, Holds, Supers, Approvals, Policies

\* Requests for approval are found in the order of their creation.
ASSUME ApprovalsAssumption == Approvals \subseteq Nat

VARIABLES
  rows,      \* audit rows that still exist
  held,      \* rows whose legalHold flag is set
  hold,      \* audit_legal_hold
  appr,      \* audit_approval_request, in the order of their creation
  req,       \* the request each admin has in flight
  used,      \* how many gated operations each approval has let through
  policy,    \* the retention policy
  links      \* download links for an archive have been issued

holdVars == <<rows, held, hold, appr, req, used, policy, links>>

NoHold    == [status |-> "none", kind |-> None, filter |-> {}, asked |-> None, by |-> None]
NoRequest == [pc |-> "idle", op |-> None, key |-> None, found |-> 0, arg |-> None, others |-> {}]
NoAppr    == [status |-> "none", key |-> None, asked |-> None, age |-> "fresh"]

HoldsInit ==
  /\ rows = Rows /\ held = {} /\ hold = [h \in Holds |-> NoHold]
  /\ appr = [i \in Approvals |-> NoAppr] /\ used = [i \in Approvals |-> 0]
  /\ req = [a \in Supers |-> NoRequest] /\ policy = None /\ links = "none"

Active == {h \in Holds : hold[h].status = "ACTIVE"}
ReqAt(a, pc) == req[a].pc = pc
ReqGo(a, pc) == req' = [req EXCEPT ![a].pc = pc]
ReqDone(a) == req' = [req EXCEPT ![a] = NoRequest]
StartGated(a, op, key, arg) == req' = [req EXCEPT ![a] = [NoRequest EXCEPT !.pc = "gate", !.op = op, !.key = key, !.arg = arg]]
rest == <<rows, used, policy, links>>

-----------------------------------------------------------------------------
(* The two-person gate. *)

\* twoPerson expires old requests and looks for the oldest open one with the same key and content.
OpenRequests(key) == {i \in Approvals : appr[i].status = "PENDING" /\ appr[i].age = "fresh" /\ appr[i].key = key}
twoPerson(a) ==
  /\ ReqAt(a, "gate")
  /\ appr' = [i \in Approvals |-> IF appr[i].status = "PENDING" /\ appr[i].age = "old"
                                  THEN [appr[i] EXCEPT !.status = "EXPIRED"] ELSE appr[i]]
  /\ req' = [req EXCEPT ![a].pc = "decide", ![a].found = IF OpenRequests(req[a].key) = {} THEN 0 ELSE Min(OpenRequests(req[a].key))]
  /\ UNCHANGED <<held, hold, rest>>

FirstRequest(a) ==
  /\ ReqAt(a, "decide") /\ req[a].found = 0
  /\ LET free == {i \in Approvals : appr[i].status = "none"}
     IN  /\ free # {}
         /\ appr' = [appr EXCEPT ![Min(free)] = [NoAppr EXCEPT !.status = "PENDING", !.key = req[a].key, !.asked = a]]
  /\ ReqDone(a) /\ UNCHANGED <<held, hold, rest>>
\* Your own request waits for someone else.
OwnRequest_Fault(a) == ReqAt(a, "decide") /\ req[a].found # 0 /\ FALSE
OwnRequest(a) == ReqAt(a, "decide") /\ req[a].found # 0 /\ appr[req[a].found].asked = a
AwaitSecond(a) == OwnRequest(a) /\ ReqDone(a) /\ UNCHANGED <<held, hold, appr, rest>>
Claimable_Fault(i) == TRUE
Claimable(i) == appr[i].status = "PENDING"
ConsumeApproval(a) ==
  /\ ReqAt(a, "decide") /\ req[a].found # 0 /\ ~OwnRequest(a) /\ Claimable(req[a].found)
  /\ appr' = [appr EXCEPT ![req[a].found].status = "CONSUMED"]
  /\ used' = [used EXCEPT ![req[a].found] = @ + 1] /\ ReqGo(a, req[a].op)
  /\ UNCHANGED <<rows, held, hold, policy, links>>
ApprovalAlreadyUsed(a) ==
  /\ ReqAt(a, "decide") /\ req[a].found # 0 /\ ~OwnRequest(a) /\ ~Claimable(req[a].found)
  /\ ReqDone(a) /\ UNCHANGED <<held, hold, appr, rest>>
\* 24 hours pass.
Expires(i) ==
  /\ appr[i].status = "PENDING" /\ appr[i].age = "fresh" /\ appr' = [appr EXCEPT ![i].age = "old"]
  /\ UNCHANGED <<held, hold, req, rest>>
Gate(a) == twoPerson(a) \/ FirstRequest(a) \/ AwaitSecond(a) \/ ConsumeApproval(a) \/ ApprovalAlreadyUsed(a)

-----------------------------------------------------------------------------
(* Legal holds. *)

holdWhere(h) == hold[h].filter \cap rows
Unused(h) == hold[h].status = "none" /\ \A b \in Supers : req[b].op = "commit" => req[b].arg # h

\* The hold and the flag of its one row are written in one transaction.
setRowLegalHold(a, r, h) ==
  /\ ReqAt(a, "idle") /\ r \in rows /\ Unused(h)
  /\ hold' = [hold EXCEPT ![h] = [NoHold EXCEPT !.status = "ACTIVE", !.kind = "ROW", !.filter = {r}]]
  /\ held' = held \cup {r} /\ UNCHANGED <<appr, req, rest>>

\* The rows the filter matches and that are not held yet are flagged (and locked) by the
\* transaction; the hold is seen by the others when it commits.
createLegalHold(a, h, F) ==
  /\ ReqAt(a, "idle") /\ Unused(h) /\ F \cap rows # {}
  /\ req' = [req EXCEPT ![a] = [NoRequest EXCEPT !.pc = "commit", !.op = "commit", !.key = F,
                                                 !.arg = h, !.others = (F \cap rows) \ held]]
  /\ UNCHANGED <<held, hold, appr, rest>>
CommitHold(a) ==
  /\ ReqAt(a, "commit")
  /\ hold' = [hold EXCEPT ![req[a].arg] = [NoHold EXCEPT !.status = "ACTIVE", !.kind = "FILTER", !.filter = req[a].key]]
  /\ held' = held \cup req[a].others /\ ReqDone(a) /\ UNCHANGED <<appr, rest>>

\* Clearing one row: the holds that cover it are looked up before the gate.
clearRowLegalHold(a, r) ==
  LET covering == {h \in Active : r \in holdWhere(h)}
  IN  /\ ReqAt(a, "idle") /\ r \in rows
      /\ r \in held \/ covering # {}
      /\ \A h \in covering : hold[h].kind = "ROW"
      /\ req' = [req EXCEPT ![a] = [NoRequest EXCEPT !.pc = "gate", !.op = "rowrelease", !.key = <<"row", r>>,
                                                     !.arg = r, !.others = covering]]
      /\ UNCHANGED <<held, hold, appr, rest>>
Release(a, hs) ==
  hold' = [h \in Holds |-> IF h \in hs /\ hold[h].status = "ACTIVE"
                           THEN [hold[h] EXCEPT !.status = "RELEASED", !.by = a, !.asked = appr[req[a].found].asked]
                           ELSE hold[h]]
RowRelease(a) ==
  /\ ReqAt(a, "rowrelease") /\ Release(a, req[a].others) /\ ReqGo(a, "rowclear") /\ UNCHANGED <<held, appr, rest>>
RowClear(a) ==
  /\ ReqAt(a, "rowclear") /\ held' = held \ {req[a].arg} /\ ReqDone(a) /\ UNCHANGED <<hold, appr, rest>>

releaseLegalHold(a, h) ==
  /\ ReqAt(a, "idle") /\ hold[h].status = "ACTIVE" /\ StartGated(a, "release", <<"hold", h>>, h)
  /\ UNCHANGED <<held, hold, appr, rest>>
ReleaseHold(a) ==
  /\ ReqAt(a, "release")
  /\ IF hold[req[a].arg].status = "ACTIVE" THEN Release(a, {req[a].arg}) /\ ReqGo(a, "clear")
                                           ELSE hold' = hold /\ ReqDone(a)
  /\ UNCHANGED <<held, appr, rest>>
ClearHeld(a) ==
  /\ ReqAt(a, "clear") /\ held' = held \ holdWhere(req[a].arg) /\ ReqGo(a, "others") /\ UNCHANGED <<hold, appr, rest>>
\* What another active hold still covers goes back on hold, one hold after the other.
ReadOthers(a) ==
  /\ ReqAt(a, "others") /\ req' = [req EXCEPT ![a].pc = "reapply", ![a].others = Active]
  /\ UNCHANGED <<held, hold, appr, rest>>
Reapplied_Fault(h, o) == {}
Reapplied(h, o) == holdWhere(h) \cap holdWhere(o)
Reapply(a) ==
  /\ ReqAt(a, "reapply")
  /\ IF req[a].others = {} THEN held' = held /\ ReqDone(a)
     ELSE \E o \in req[a].others :
            held' = held \cup Reapplied(req[a].arg, o) /\ req' = [req EXCEPT ![a].others = @ \ {o}]
  /\ UNCHANGED <<hold, appr, rest>>

\* A purge deletes a row that is not flagged; a row an open transaction has flagged is locked.
PurgeRow(r) ==
  /\ r \in rows \ held /\ \A a \in Supers : ReqAt(a, "commit") => r \notin req[a].others
  /\ rows' = rows \ {r}
  /\ UNCHANGED <<held, hold, appr, req, used, policy, links>>

-----------------------------------------------------------------------------
(* The other gated operations. *)

updateRetention(a, p) ==
  /\ ReqAt(a, "idle") /\ StartGated(a, "retain", <<"retention", p>>, p) /\ UNCHANGED <<held, hold, appr, rest>>
WriteRetention(a) ==
  /\ ReqAt(a, "retain") /\ policy' = req[a].arg /\ ReqDone(a) /\ UNCHANGED <<rows, held, hold, appr, used, links>>
retrievePurgeArchive(a) ==
  /\ ReqAt(a, "idle") /\ StartGated(a, "retrieve", <<"run", "r1">>, None) /\ UNCHANGED <<held, hold, appr, rest>>
\* The manifest is read after the approval is spent; if that fails no link is issued.
IssueLinks(a) ==
  /\ ReqAt(a, "retrieve") /\ ReqDone(a) /\ links' \in {links, "issued"} /\ UNCHANGED <<rows, held, hold, appr, used, policy>>
\* The process dies between two statements of a request.
CrashRequest(a) == ~ReqAt(a, "idle") /\ ReqDone(a) /\ UNCHANGED <<held, hold, appr, rest>>

Step(a) ==
  \/ Gate(a) \/ RowRelease(a) \/ RowClear(a) \/ ReleaseHold(a) \/ ClearHeld(a) \/ ReadOthers(a) \/ Reapply(a)
  \/ CommitHold(a)
StartHold(a) ==
  \/ \E h \in Holds, r \in Rows : setRowLegalHold(a, r, h)
  \/ \E h \in Holds, F \in SUBSET Rows : createLegalHold(a, h, F)
  \/ \E r \in Rows : clearRowLegalHold(a, r)
  \/ \E h \in Holds : releaseLegalHold(a, h)

\* One request at a time, each run to its end.
SerialNext ==
  \/ \E a \in Supers : Step(a) \/ ((\A b \in Supers : ReqAt(b, "idle")) /\ StartHold(a))
  \/ \E r \in Rows : PurgeRow(r)
\* Requests of several admins at once, requests expire, processes die.
GateNext ==
  \/ \E a \in Supers : Gate(a) \/ WriteRetention(a) \/ IssueLinks(a) \/ CrashRequest(a) \/ retrievePurgeArchive(a)
  \/ \E a \in Supers, p \in Policies : updateRetention(a, p)
  \/ \E i \in Approvals : Expires(i)
\* All of it at once.
HoldsNext ==
  \/ GateNext
  \/ \E a \in Supers : Step(a) \/ StartHold(a)
  \/ \E r \in Rows : PurgeRow(r)

SerialSpec == HoldsInit /\ [][SerialNext]_holdVars
HoldsSpec  == HoldsInit /\ [][HoldsNext]_holdVars

-----------------------------------------------------------------------------
(* Properties. *)

HoldsTypeOK ==
  /\ rows \subseteq Rows /\ held \subseteq Rows
  /\ \A h \in Holds : hold[h].status \in {"none", "ACTIVE", "RELEASED"} /\ hold[h].filter \subseteq Rows
  /\ \A i \in Approvals : appr[i].status \in {"none", "PENDING", "CONSUMED", "EXPIRED"} /\ used[i] \in Nat
  /\ \A a \in Supers : req[a].found \in Approvals \cup {0}
  /\ policy \in Policies \cup {None} /\ links \in {"none", "issued"}

\* A hold is released by two different Super Supers, one asking and one approving.
ReleasedByTwo ==
  \A h \in Holds : hold[h].status = "RELEASED" =>
    hold[h].by \in Supers /\ hold[h].asked \in Supers /\ hold[h].by # hold[h].asked

\* An approval request is single use, however many admins repeat it at the same moment.
ApprovalUsedOnce == \A i \in Approvals : used[i] <= 1

\* Requests that do not overlap leave every row that an active hold covers on hold, whatever
\* other holds over the same row were released or cleared.
CoveredRowsHeld ==
  (\A a \in Supers : ReqAt(a, "idle")) => \A h \in Active : holdWhere(h) \subseteq held

\* A legal hold protects its rows until two people lift it: releasing one hold leaves the rows
\* of the others on hold (releaseLegalHold), a hold is released by two different admins, and an
\* approval lets one operation through (twoPerson).
HoldsProtect == ReleasedByTwo /\ ApprovalUsedOnce /\ CoveredRowsHeld
=============================================================================
