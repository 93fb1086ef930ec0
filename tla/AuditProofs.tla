----------------------------- MODULE AuditProofs -----------------------------
(***************************************************************************)
(* The audit log, for any number of rows, holds, admins, approvals, purges *)
(* and workers: its legal holds and the gate of two persons (AuditHolds),  *)
(* the chain of rows and archives that purges cut and a verification walks *)
(* (AuditChain), the reads that are logged and the alert rules             *)
(* (AuditViews).                                                           *)
(***************************************************************************)
EXTENDS AuditHolds, AuditChain, FiniteSetTheorems, WellFoundedInduction, TLAPS

-----------------------------------------------------------------------------
(* Least and greatest elements. *)

LEMMA MinOfNaturals ==
  ASSUME NEW S, S \subseteq Nat, S # {}
  PROVE  Min(S) \in S /\ \A x \in S : Min(S) <= x
  <1> DEFINE Less == {p \in Nat \X Nat : p[1] < p[2]}
  <1>1. IsWellFoundedOn(Less, Nat)
    BY NatLessThanWellFounded DEF OpToRel
  <1>2. \E x \in S : \A y \in S : ~(<<y, x>> \in Less)
    <2> HIDE DEF Less
    <2> QED
      BY <1>1, WFMin
  <1>3. PICK x \in S : \A y \in S : ~(<<y, x>> \in Less)
    BY <1>2
  <1>4. \A y \in S : x <= y
    <2> TAKE y \in S
    <2>1. y < x => <<y, x>> \in Less
      OBVIOUS
    <2> HIDE DEF Less
    <2> QED
      BY <1>3, <2>1
  <1> QED
    BY <1>4 DEF Min

LEMMA MaxOfNaturals ==
  ASSUME NEW S, S \subseteq Nat, S # {}, NEW n \in Nat, \A x \in S : x <= n
  PROVE  Max(S) \in S /\ \A x \in S : x <= Max(S)
  <1> DEFINE Bounds == {b \in Nat : \A x \in S : x <= b}
             m == Min(Bounds)
  <1>1. n \in Bounds
    OBVIOUS
  <1>2. Bounds \subseteq Nat /\ Bounds # {}
    BY <1>1
  <1>3. m \in Bounds /\ \A b \in Bounds : m <= b
    <2> HIDE DEF Bounds
    <2> QED
      BY <1>2, MinOfNaturals
  <1> HIDE DEF m
  <1>4. m \in S
    <2> SUFFICES ASSUME m \notin S PROVE FALSE
      OBVIOUS
    <2>1. m \in Nat /\ \A x \in S : x <= m /\ x # m
      BY <1>3
    <2>2. m # 0
      <3>1. PICK y \in S : TRUE
        OBVIOUS
      <3>2. y \in Nat /\ y <= m /\ y # m
        BY <2>1, <3>1
      <3> QED
        BY <2>1, <3>2
    <2>3. m - 1 \in Bounds
      BY <2>1, <2>2
    <2> QED
      BY <1>3, <2>1, <2>3
  <1>5. \A x \in S : m >= x
    BY <1>3
  <1>6. \E x \in S : \A y \in S : x >= y
    BY <1>4, <1>5
  <1>7. Max(S) \in S /\ \A y \in S : Max(S) >= y
    BY <1>6 DEF Max
  <1> QED
    BY <1>7

-----------------------------------------------------------------------------
(***************************************************************************)
(* The two-person gate, with every operation of every admin interleaved.   *)
(***************************************************************************)
Gated == {"release", "rowrelease", "retain", "retrieve"}

RequestShape == DOMAIN req = Supers /\ \A a \in Supers : DOMAIN req[a] = DOMAIN NoRequest
HoldShape == DOMAIN hold = Holds /\ \A h \in Holds : DOMAIN hold[h] = DOMAIN NoHold
ApprovalShape ==
  /\ DOMAIN appr = Approvals /\ DOMAIN used = Approvals
  /\ \A i \in Approvals : DOMAIN appr[i] = DOMAIN NoAppr /\ used[i] \in Nat

\* A row of audit_approval_request was asked for by an admin, and has let nothing through
\* unless it is CONSUMED.
ApprovalRows ==
  \A i \in Approvals : /\ appr[i].status # "none" => appr[i].asked \in Supers
                       /\ used[i] <= 1
                       /\ appr[i].status # "CONSUMED" => used[i] = 0
\* The approval a request has found is a row somebody wrote; past the gate it is somebody else's.
GateFound ==
  \A a \in Supers :
    /\ req[a].pc \in {"gate", "decide"} => req[a].op \in Gated
    /\ req[a].pc \in {"decide"} \cup Gated /\ (req[a].pc = "decide" => req[a].found # 0) =>
         req[a].found \in Approvals /\ appr[req[a].found].status # "none"
    /\ req[a].pc \in Gated => appr[req[a].found].asked # a

GateInv == RequestShape /\ HoldShape /\ ApprovalShape /\ ApprovalRows /\ GateFound /\ ReleasedByTwo

USE DEF holdVars, rest, ReqAt, ReqGo, ReqDone

LEMMA GateInit == HoldsInit => GateInv
  BY DEF HoldsInit, GateInv, RequestShape, HoldShape, ApprovalShape, ApprovalRows, GateFound, ReleasedByTwo,
         NoRequest, NoHold, NoAppr, Gated

\* A request that ends, and one that starts at the gate, holds no approval.
LEMMA RequestEnds ==
  ASSUME GateInv, NEW a \in Supers, req' = [req EXCEPT ![a] = NoRequest], UNCHANGED <<hold, appr, used>>
  PROVE  GateInv'
  BY DEF GateInv, RequestShape, HoldShape, ApprovalShape, ApprovalRows, GateFound, ReleasedByTwo, NoRequest, Gated

LEMMA GateKept ==
  ASSUME GateInv, NEW a \in Supers, Gate(a)
  PROVE  GateInv'
  <1> USE DEF GateInv, RequestShape, ApprovalShape, Gated
  <1>1. CASE twoPerson(a)
    <2> DEFINE S == OpenRequests(req[a].key)
    <2>1. S # {} => Min(S) \in S
      BY ApprovalsAssumption, MinOfNaturals DEF OpenRequests
    <2>2. \A i \in S : appr[i].status = "PENDING" /\ i \in Approvals
      BY DEF OpenRequests
    <2> DEFINE f == IF S = {} THEN 0 ELSE Min(S)
    <2>3. f # 0 => f \in Approvals /\ appr[f].status = "PENDING"
      BY <2>1, <2>2
    <2>4. req' = [req EXCEPT ![a].pc = "decide", ![a].found = f]
      BY <1>1 DEF twoPerson
    <2> HIDE DEF S, f
    <2>5. \A i \in Approvals : /\ DOMAIN appr'[i] = DOMAIN NoAppr
                               /\ appr'[i].asked = appr[i].asked
                               /\ appr'[i].status # "none" <=> appr[i].status # "none"
                               /\ appr'[i].status = "CONSUMED" <=> appr[i].status = "CONSUMED"
      BY <1>1 DEF twoPerson, NoAppr
    <2>6. DOMAIN appr' = Approvals /\ UNCHANGED <<used, hold>>
      BY <1>1 DEF twoPerson
    <2>7. RequestShape' /\ ApprovalShape' /\ HoldShape' /\ ReleasedByTwo' /\ ApprovalRows'
      BY <2>4, <2>5, <2>6 DEF NoRequest, HoldShape, ReleasedByTwo, ApprovalRows
    <2>8. GateFound'
      <3> SUFFICES ASSUME NEW b \in Supers
                   PROVE /\ req'[b].pc \in {"gate", "decide"} => req'[b].op \in Gated
                         /\ req'[b].pc \in {"decide"} \cup Gated /\ (req'[b].pc = "decide" => req'[b].found # 0) =>
                              req'[b].found \in Approvals /\ appr'[req'[b].found].status # "none"
                         /\ req'[b].pc \in Gated => appr'[req'[b].found].asked # b
        BY DEF GateFound
      <3>1. CASE b = a
        BY <3>1, <1>1, <2>3, <2>4, <2>5 DEF GateFound, NoRequest, twoPerson
      <3>2. CASE b # a
        BY <3>2, <2>4, <2>5 DEF GateFound, NoRequest
      <3> QED
        BY <3>1, <3>2
    <2> QED
      BY <2>7, <2>8
  <1>2. CASE FirstRequest(a)
    <2> DEFINE free == {i \in Approvals : appr[i].status = "none"}
               i == Min(free)
    <2>1. free # {} /\ req' = [req EXCEPT ![a] = NoRequest] /\ UNCHANGED <<hold, used>>
          /\ appr' = [appr EXCEPT ![i] = [NoAppr EXCEPT !.status = "PENDING", !.key = req[a].key, !.asked = a]]
      BY <1>2 DEF FirstRequest
    <2>2. i \in Approvals /\ appr[i].status = "none"
      BY <2>1, ApprovalsAssumption, MinOfNaturals
    <2> HIDE DEF i
    <2> QED
      BY <2>1, <2>2 DEF HoldShape, ReleasedByTwo, ApprovalRows, GateFound, NoRequest, NoAppr
  <1>3. CASE AwaitSecond(a) \/ ApprovalAlreadyUsed(a)
    BY <1>3, RequestEnds DEF AwaitSecond, ApprovalAlreadyUsed
  <1>4. CASE ConsumeApproval(a)
    <2>1. req[a].found \in Approvals /\ appr[req[a].found].asked # a /\ appr[req[a].found].status = "PENDING" /\ req[a].op \in Gated
      BY <1>4 DEF ConsumeApproval, OwnRequest, Claimable, GateFound
    <2> QED
      BY <1>4, <2>1 DEF ConsumeApproval, HoldShape, ReleasedByTwo, ApprovalRows, GateFound, NoRequest, NoAppr
  <1> QED
    BY <1>1, <1>2, <1>3, <1>4 DEF Gate

LEMMA ReleaseKept ==
  ASSUME GateInv, NEW a \in Supers, req[a].pc \in Gated, NEW hs, Release(a, hs), UNCHANGED <<appr, used>>,
         DOMAIN req' = Supers, DOMAIN req'[a] = DOMAIN NoRequest,
         req'[a].pc \notin {"gate", "decide"} \cup Gated, \A b \in Supers \ {a} : req'[b] = req[b]
  PROVE  GateInv'
  <1>1. appr[req[a].found].asked \in Supers \ {a}
    BY DEF GateInv, GateFound, ApprovalRows, Gated
  <1>2. HoldShape' /\ ReleasedByTwo'
    BY <1>1 DEF GateInv, Release, HoldShape, ReleasedByTwo, NoHold
  <1> QED
    BY <1>2 DEF GateInv, RequestShape, ApprovalShape, ApprovalRows, GateFound, Gated

LEMMA StepKept ==
  ASSUME GateInv, NEW a \in Supers, Step(a)
  PROVE  GateInv'
  <1> USE DEF GateInv, RequestShape, ApprovalShape, Gated
  <1>1. CASE Gate(a)
    BY <1>1, GateKept
  <1>2. CASE RowRelease(a)
    BY <1>2, ReleaseKept DEF RowRelease, NoRequest
  <1>3. CASE ReleaseHold(a)
    <2>1. CASE hold[req[a].arg].status = "ACTIVE"
      BY <1>3, <2>1, ReleaseKept DEF ReleaseHold, NoRequest
    <2>2. CASE hold[req[a].arg].status # "ACTIVE"
      BY <1>3, <2>2, RequestEnds DEF ReleaseHold
    <2> QED
      BY <2>1, <2>2
  <1>4. CASE RowClear(a)
    BY <1>4, RequestEnds DEF RowClear
  <1>5. CASE ClearHeld(a) \/ ReadOthers(a)
    BY <1>5 DEF ClearHeld, ReadOthers, HoldShape, ReleasedByTwo, ApprovalRows, GateFound, NoRequest
  <1>6. CASE Reapply(a)
    <2>1. CASE req[a].others = {}
      BY <1>6, <2>1, RequestEnds DEF Reapply
    <2>2. CASE req[a].others # {}
      <3>1. PICK o : req' = [req EXCEPT ![a].others = @ \ {o}]
        BY <1>6, <2>2 DEF Reapply
      <3> QED
        BY <1>6, <3>1 DEF Reapply, HoldShape, ReleasedByTwo, ApprovalRows, GateFound, NoRequest
    <2> QED
      BY <2>1, <2>2
  <1>7. CASE CommitHold(a)
    BY <1>7 DEF CommitHold, HoldShape, ReleasedByTwo, ApprovalRows, GateFound, NoRequest, NoHold
  <1> QED
    BY <1>1, <1>2, <1>3, <1>4, <1>5, <1>6, <1>7 DEF Step

LEMMA StartKept ==
  ASSUME GateInv, NEW a \in Supers, StartHold(a)
  PROVE  GateInv'
  <1> USE DEF GateInv, RequestShape, ApprovalShape, Gated, HoldShape, ReleasedByTwo, ApprovalRows, GateFound, NoRequest
  <1>1. ASSUME NEW h \in Holds, NEW r \in Rows, setRowLegalHold(a, r, h) PROVE GateInv'
    BY <1>1 DEF setRowLegalHold, NoHold
  <1>2. ASSUME NEW h \in Holds, NEW F \in SUBSET Rows, createLegalHold(a, h, F) PROVE GateInv'
    BY <1>2 DEF createLegalHold
  <1>3. ASSUME NEW r \in Rows, clearRowLegalHold(a, r) PROVE GateInv'
    BY <1>3 DEF clearRowLegalHold
  <1>4. ASSUME NEW h \in Holds, releaseLegalHold(a, h) PROVE GateInv'
    BY <1>4 DEF releaseLegalHold, StartGated
  <1> QED
    BY <1>1, <1>2, <1>3, <1>4 DEF StartHold

LEMMA OtherGatedKept ==
  ASSUME GateInv, GateNext
  PROVE  GateInv'
  <1> USE DEF GateInv, RequestShape, ApprovalShape, Gated, HoldShape, ReleasedByTwo, ApprovalRows, GateFound
  <1>1. ASSUME NEW a \in Supers, Gate(a) PROVE GateInv'
    BY <1>1, GateKept
  <1>2. ASSUME NEW a \in Supers, WriteRetention(a) \/ IssueLinks(a) \/ CrashRequest(a) PROVE GateInv'
    BY <1>2, RequestEnds DEF WriteRetention, IssueLinks, CrashRequest
  <1>3. ASSUME NEW a \in Supers, retrievePurgeArchive(a) PROVE GateInv'
    BY <1>3 DEF retrievePurgeArchive, StartGated, NoRequest
  <1>4. ASSUME NEW a \in Supers, NEW p \in Policies, updateRetention(a, p) PROVE GateInv'
    BY <1>4 DEF updateRetention, StartGated, NoRequest
  <1>5. ASSUME NEW i \in Approvals, Expires(i) PROVE GateInv'
    BY <1>5 DEF Expires, NoAppr
  <1> QED
    BY <1>1, <1>2, <1>3, <1>4, <1>5 DEF GateNext

LEMMA GateStep ==
  ASSUME GateInv, [HoldsNext]_holdVars
  PROVE  GateInv'
  <1>1. ASSUME NEW r \in Rows, PurgeRow(r) PROVE GateInv'
    BY <1>1 DEF PurgeRow, GateInv, RequestShape, ApprovalShape, HoldShape, ReleasedByTwo, ApprovalRows, GateFound
  <1>2. CASE UNCHANGED holdVars
    BY <1>2 DEF GateInv, RequestShape, ApprovalShape, HoldShape, ReleasedByTwo, ApprovalRows, GateFound
  <1> QED
    BY <1>1, <1>2, StepKept, StartKept, OtherGatedKept DEF HoldsNext

(***************************************************************************)
(* Whatever the admins do at the same moment, and wherever a process dies, *)
(* no hold is released without a second person, who approved it, and no    *)
(* approval lets two operations through (twoPerson's updateMany on         *)
(* PENDING).                                                               *)
(***************************************************************************)
THEOREM TwoPersonRule == HoldsSpec => [](ReleasedByTwo /\ ApprovalUsedOnce)
  <1>1. GateInv => ReleasedByTwo /\ ApprovalUsedOnce
    BY DEF GateInv, ApprovalRows, ApprovalUsedOnce
  <1> QED
    BY <1>1, GateInit, GateStep, PTL DEF HoldsSpec

-----------------------------------------------------------------------------
(***************************************************************************)
(* Requests one after the other: what the place of the request in flight   *)
(* says about the flags on the rows.                                       *)
(***************************************************************************)
OneRequest == \A a, b \in Supers : a # b => req[a].pc = "idle" \/ req[b].pc = "idle"
Covered(h) == holdWhere(h) \subseteq held
Settled == {"idle", "gate", "decide", "release", "rowrelease", "rowclear", "commit", "clear"}

CoverInv ==
  /\ OneRequest /\ rows \subseteq Rows
  /\ \A a \in Supers :
       /\ req[a].pc \in Settled \cup {"others", "reapply"}
       /\ req[a].pc \in {"gate", "decide"} => req[a].op \in {"release", "rowrelease"}
       /\ req[a].pc \in {"gate", "decide", "rowrelease"} /\ req[a].op = "rowrelease" =>
            \A h \in Active : req[a].arg \in holdWhere(h) => h \in req[a].others
       /\ req[a].pc = "rowrelease" => req[a].op = "rowrelease"
       /\ req[a].pc = "rowclear" => \A h \in Active : req[a].arg \notin holdWhere(h)
       /\ req[a].pc = "commit" => req[a].key \cap rows \subseteq held \cup req[a].others
       /\ req[a].pc \in {"others", "reapply"} =>
            \A h \in Active : holdWhere(h) \subseteq held \cup holdWhere(req[a].arg)
       /\ req[a].pc = "reapply" => \A h \in Active \ req[a].others : Covered(h)
  /\ (\A a \in Supers : req[a].pc \in Settled) => \A h \in Active : Covered(h)

\* Nobody but the request in flight has anything to keep.
LEMMA OthersIdle ==
  ASSUME OneRequest, NEW a \in Supers, req[a].pc # "idle", NEW b \in Supers, b # a
  PROVE  req[b].pc = "idle"
  BY DEF OneRequest

\* Releasing ends the holds it names and leaves what they covered to be read.
LEMMA Released ==
  ASSUME HoldShape, NEW a, NEW hs, Release(a, hs), rows' = rows
  PROVE  Active' = Active \ hs /\ \A h \in Holds : holdWhere(h)' = holdWhere(h)
  <1>1. ASSUME NEW h \in Holds
        PROVE  /\ hold'[h].filter = hold[h].filter
               /\ hold'[h].status = "ACTIVE" <=> (hold[h].status = "ACTIVE" /\ h \notin hs)
    <2>1. CASE h \in hs /\ hold[h].status = "ACTIVE"
      <3>1. hold'[h] = [hold[h] EXCEPT !.status = "RELEASED", !.by = a, !.asked = appr[req[a].found].asked]
        BY <2>1 DEF Release
      <3> QED
        BY <2>1, <3>1 DEF HoldShape, NoHold
    <2>2. CASE ~(h \in hs /\ hold[h].status = "ACTIVE")
      BY <2>2 DEF Release
    <2> QED
      BY <2>1, <2>2
  <1> QED
    BY <1>1 DEF Active, holdWhere

LEMMA CoverInit == HoldsInit => CoverInv
  BY DEF HoldsInit, CoverInv, OneRequest, Covered, Settled, Active, NoRequest, NoHold

LEMMA CoverStep ==
  ASSUME GateInv, CoverInv, NEW a \in Supers, Step(a)
  PROVE  CoverInv'
  <1>s. /\ DOMAIN req = Supers /\ \A b \in Supers : DOMAIN req[b] = DOMAIN NoRequest
        /\ DOMAIN hold = Holds /\ \A h \in Holds : DOMAIN hold[h] = DOMAIN NoHold
    BY DEF GateInv, RequestShape, HoldShape
  <1> USE DEF NoRequest, Settled, OneRequest
  <1>a. ASSUME Gate(a) PROVE CoverInv'
    <2>1. UNCHANGED <<rows, held, hold>> /\ req[a].pc \in {"gate", "decide"}
      BY <1>a DEF Gate, twoPerson, FirstRequest, AwaitSecond, ConsumeApproval, ApprovalAlreadyUsed, OwnRequest
    <2>2. \/ req' = [req EXCEPT ![a] = NoRequest]
          \/ req' = [req EXCEPT ![a].pc = req[a].op]
          \/ \E f : req' = [req EXCEPT ![a].pc = "decide", ![a].found = f]
      BY <1>a DEF Gate, twoPerson, FirstRequest, AwaitSecond, ConsumeApproval, ApprovalAlreadyUsed
    <2>3. Active' = Active /\ \A h \in Holds : holdWhere(h)' = holdWhere(h) /\ Covered(h)' = Covered(h)
      BY <2>1 DEF Active, holdWhere, Covered
    <2>4. Active \subseteq Holds /\ \A h \in Active : Covered(h)
      BY <2>1 DEF CoverInv, Active
    <2>5. OneRequest' /\ rows' \subseteq Rows
      BY <2>1, <2>2, <1>s DEF CoverInv
    <2>6. CASE req' = [req EXCEPT ![a] = NoRequest]
      BY <1>s, <2>1, <2>3, <2>4, <2>5, <2>6 DEF CoverInv
    <2>7. CASE req' = [req EXCEPT ![a].pc = req[a].op]
      BY <1>s, <2>1, <2>3, <2>4, <2>5, <2>7 DEF CoverInv
    <2>8. CASE \E f : req' = [req EXCEPT ![a].pc = "decide", ![a].found = f]
      BY <1>s, <2>1, <2>3, <2>4, <2>5, <2>8 DEF CoverInv
    <2> QED
      BY <2>2, <2>6, <2>7, <2>8
  <1> USE DEF CoverInv, Covered, Active, holdWhere
  <1>r. ASSUME NEW hs, Release(a, hs), rows' = rows
        PROVE  Active' = Active \ hs /\ \A h \in Holds : holdWhere(h)' = holdWhere(h)
    BY <1>r, Released DEF GateInv
  <1> HIDE DEF Active, holdWhere
  <1>b. CASE RowRelease(a)
    <2>1. Active' = Active \ req[a].others /\ \A h \in Holds : holdWhere(h)' = holdWhere(h)
      BY <1>b, <1>r DEF RowRelease
    <2> QED
      BY <1>s, <1>b, <2>1 DEF RowRelease, Active
  <1>c. CASE RowClear(a)
    BY <1>s, <1>c DEF RowClear, Active, holdWhere
  <1>d. CASE ReleaseHold(a)
    <2>1. Active' \subseteq Active /\ \A h \in Holds : holdWhere(h)' = holdWhere(h)
      <3>1. CASE hold[req[a].arg].status = "ACTIVE"
        BY <1>d, <1>r, <3>1 DEF ReleaseHold
      <3>2. CASE hold[req[a].arg].status # "ACTIVE"
        BY <1>d, <3>2 DEF ReleaseHold, Active, holdWhere
      <3> QED
        BY <3>1, <3>2
    <2>2. req' = [req EXCEPT ![a].pc = "clear"] \/ req' = [req EXCEPT ![a] = NoRequest]
      BY <1>d DEF ReleaseHold
    <2> QED
      BY <1>s, <1>d, <2>1, <2>2 DEF ReleaseHold, Active
  <1> USE DEF Active, holdWhere
  <1>e. CASE ClearHeld(a)
    BY <1>s, <1>e DEF ClearHeld
  <1>f. CASE ReadOthers(a)
    BY <1>s, <1>f DEF ReadOthers
  <1>g. CASE Reapply(a)
    BY <1>s, <1>g DEF Reapply, Reapplied
  <1>h. CASE CommitHold(a)
    BY <1>s, <1>h DEF CommitHold, NoHold
  <1> QED
    BY <1>a, <1>b, <1>c, <1>d, <1>e, <1>f, <1>g, <1>h DEF Step

LEMMA CoverStart ==
  ASSUME GateInv, CoverInv, NEW a \in Supers, \A b \in Supers : req[b].pc = "idle", StartHold(a)
  PROVE  CoverInv'
  <1>s. /\ DOMAIN req = Supers /\ \A b \in Supers : DOMAIN req[b] = DOMAIN NoRequest
        /\ DOMAIN hold = Holds /\ \A h \in Holds : DOMAIN hold[h] = DOMAIN NoHold
    BY DEF GateInv, RequestShape, HoldShape
  <1> USE DEF NoRequest, Settled, OneRequest, CoverInv, Covered, Active, holdWhere
  <1>1. ASSUME NEW h \in Holds, NEW r \in Rows, setRowLegalHold(a, r, h) PROVE CoverInv'
    BY <1>s, <1>1 DEF setRowLegalHold, NoHold
  <1>2. ASSUME NEW h \in Holds, NEW F \in SUBSET Rows, createLegalHold(a, h, F) PROVE CoverInv'
    BY <1>s, <1>2 DEF createLegalHold
  <1>3. ASSUME NEW r \in Rows, clearRowLegalHold(a, r) PROVE CoverInv'
    BY <1>s, <1>3 DEF clearRowLegalHold
  <1>4. ASSUME NEW h \in Holds, releaseLegalHold(a, h) PROVE CoverInv'
    BY <1>s, <1>4 DEF releaseLegalHold, StartGated
  <1> QED
    BY <1>1, <1>2, <1>3, <1>4 DEF StartHold

LEMMA CoverPurge ==
  ASSUME CoverInv, NEW r \in Rows, PurgeRow(r)
  PROVE  CoverInv'
  BY DEF PurgeRow, CoverInv, OneRequest, Covered, Active, holdWhere, Settled

(***************************************************************************)
(* Requests that do not overlap leave every row that an active hold covers *)
(* on hold, through any sequence of holds, releases and purges             *)
(* (releaseLegalHold clears by the filter and then goes over the others).  *)
(***************************************************************************)
THEOREM HoldsKept == SerialSpec => []HoldsProtect
  <1>1. GateInv /\ CoverInv /\ [SerialNext]_holdVars => GateInv' /\ CoverInv'
    <2> SUFFICES ASSUME GateInv, CoverInv, [SerialNext]_holdVars PROVE GateInv' /\ CoverInv'
      OBVIOUS
    <2>1. [HoldsNext]_holdVars
      BY DEF SerialNext, HoldsNext
    <2>2. ASSUME UNCHANGED holdVars PROVE CoverInv'
      BY <2>2 DEF CoverInv, OneRequest, Covered, Active, holdWhere
    <2> QED
      BY <2>1, <2>2, GateStep, CoverStep, CoverStart, CoverPurge DEF SerialNext
  <1>2. GateInv /\ CoverInv => HoldsProtect
    BY DEF CoverInv, CoveredRowsHeld, Covered, Settled, GateInv, ApprovalRows, ApprovalUsedOnce, HoldsProtect
  <1> QED
    BY <1>1, <1>2, GateInit, CoverInit, PTL DEF SerialSpec

-----------------------------------------------------------------------------
(***************************************************************************)
(* The chain.  A log l after n writes: rows are told apart by the number   *)
(* they were written as, which is their seq, each is linked to the row     *)
(* before it, and the last one written is there.                           *)
(***************************************************************************)
Fields == {"seq", "prev", "facts", "name", "held", "hash"}
LogOK(l, n) ==
  /\ \A r \in l : /\ DOMAIN r = Fields /\ r.facts \in 1..n /\ r.seq = r.facts
                  /\ r.hash = <<r.seq, r.prev, r.facts>>
  /\ \A r, x \in l : r.facts = x.facts => r = x
  /\ \A r, p \in l : r.seq = p.seq + 1 => r.prev = p.hash
  /\ n > 0 => \E r \in l : r.facts = n

LEMMA NewestIn ==
  ASSUME NEW l, l # {}, NEW n \in Nat, \A r \in l : r.seq \in 0..n
  PROVE  Newest(l) \in l /\ \A x \in l : x.seq <= Newest(l).seq
  <1> DEFINE S == {r.seq : r \in l}
  <1>1. S \subseteq Nat /\ S # {} /\ \A x \in S : x <= n
    OBVIOUS
  <1>2. Max(S) \in S /\ \A x \in S : x <= Max(S)
    <2> HIDE DEF S
    <2> QED
      BY <1>1, MaxOfNaturals
  <1>3. \E r \in l : \A x \in l : x.seq <= r.seq
    BY <1>2
  <1> QED
    BY <1>3 DEF Newest

LEMMA Appended ==
  ASSUME NEW l, wrote \in Nat, LogOK(l, wrote)
  PROVE  LogOK(l \cup {NextRow(l)}, wrote + 1)
  <1> DEFINE row == NextRow(l)
  <1>1. row.facts = wrote + 1 /\ DOMAIN row = Fields /\ row.hash = <<row.seq, row.prev, row.facts>>
    BY DEF NextRow, computeHash, Fields
  <1>2. row.seq = wrote + 1 /\ \A p \in l : p.seq = wrote => row.prev = p.hash
    <2>1. CASE l = {}
      BY <2>1 DEF LogOK, NextRow
    <2>2. CASE l # {}
      <3>1. \A r \in l : r.seq \in 0..wrote
        BY DEF LogOK
      <3>2. Newest(l) \in l /\ \A x \in l : x.seq <= Newest(l).seq
        BY <2>2, <3>1, NewestIn
      <3>3. Newest(l).seq = wrote /\ \A p \in l : p.seq = wrote => p = Newest(l)
        BY <2>2, <3>2 DEF LogOK
      <3> QED
        BY <2>2, <3>2, <3>3 DEF NextRow
    <2> QED
      BY <2>1, <2>2
  <1> HIDE DEF row
  <1>3. \A r \in l : r.facts \in 1..wrote /\ r.seq = r.facts
    BY DEF LogOK
  <1>4. LogOK(l \cup {row}, wrote + 1)
    BY <1>1, <1>2, <1>3 DEF LogOK
  <1> QED
    BY <1>4 DEF row

\* The flag and the name of a row may change; nothing else does.
Rewritten(l, k) ==
  /\ \A x \in k : \E r \in l : /\ x.facts = r.facts /\ x.seq = r.seq /\ x.prev = r.prev /\ x.hash = r.hash
                              /\ DOMAIN x = DOMAIN r
  /\ \A r \in l : \E x \in k : x.facts = r.facts
  /\ \A x, y \in k : x.facts = y.facts => x = y

LEMMA RewrittenOK ==
  ASSUME NEW l, NEW k, NEW n \in Nat, LogOK(l, n), Rewritten(l, k)
  PROVE  LogOK(k, n)
  <1>1. \A x \in k : /\ DOMAIN x = Fields /\ x.facts \in 1..n /\ x.seq = x.facts
                    /\ x.hash = <<x.seq, x.prev, x.facts>>
    BY DEF LogOK, Rewritten
  <1>2. \A r, p \in k : r.seq = p.seq + 1 => r.prev = p.hash
    BY DEF LogOK, Rewritten
  <1> QED
    BY <1>1, <1>2 DEF LogOK, Rewritten

LEMMA HeldRewritten ==
  ASSUME NEW n \in Nat, LogOK(log, n), NEW r \in log, NEW h, Hold(r, h)
  PROVE  Rewritten(log, log')
  <1> DEFINE x == [r EXCEPT !.held = h]
  <1>1. log' = (log \ {r}) \cup {x}
    BY DEF Hold
  <1>2. x.facts = r.facts /\ x.seq = r.seq /\ x.prev = r.prev /\ x.hash = r.hash /\ DOMAIN x = DOMAIN r
    BY DEF LogOK, Fields
  <1> HIDE DEF x
  <1> QED
    BY <1>1, <1>2 DEF LogOK, Rewritten

Nameless(l) == {IF r.held = "yes" THEN r ELSE [r EXCEPT !.name = "Anonymized user"] : r \in l}
LEMMA NamelessRewritten ==
  ASSUME NEW l, NEW n \in Nat, LogOK(l, n)
  PROVE  Rewritten(l, Nameless(l))
  <1> DEFINE New(r) == IF r.held = "yes" THEN r ELSE [r EXCEPT !.name = "Anonymized user"]
  <1>1. ASSUME NEW r \in l
        PROVE  /\ New(r).facts = r.facts /\ New(r).seq = r.seq /\ New(r).prev = r.prev /\ New(r).hash = r.hash
               /\ DOMAIN New(r) = DOMAIN r
    BY DEF LogOK, Fields
  <1>2. Nameless(l) = {New(r) : r \in l}
    BY DEF Nameless
  <1> HIDE DEF New
  <1> QED
    BY <1>1, <1>2 DEF LogOK, Rewritten

-----------------------------------------------------------------------------
(***************************************************************************)
(* Purges cannot reach the newest row: every cutoff is a moment before the *)
(* last row was written.                                                   *)
(***************************************************************************)
Busy == {"open", "scan", "mark", "select", "delete", "complete", "audit"}

ChainShape ==
  /\ wrote \in Nat
  /\ token \in [ConfirmTokens -> [cutoff : Nat \cup {None}]]
  /\ DOMAIN runs = ConfirmTokens /\ \A t \in ConfirmTokens : DOMAIN runs[t] = DOMAIN NoRun
  /\ DOMAIN proc = Purgers /\ \A w \in Purgers : DOMAIN proc[w] = DOMAIN NoPurge
  /\ DOMAIN sched = {"status", "cutoff"}
CutoffsPast ==
  /\ \A t \in ConfirmTokens : token[t].cutoff # None => token[t].cutoff \in Nat /\ token[t].cutoff < wrote
  /\ sched.status = "SCHEDULED" => sched.cutoff \in Nat /\ sched.cutoff < wrote
WorkersBusy ==
  \A w \in Purgers :
    /\ proc[w].pc \in Busy \cup {"idle", "due"}
    /\ proc[w].pc \in Busy => proc[w].t \in ConfirmTokens /\ Cutoff(w) # None
    /\ proc[w].pc = "delete" => \A n \in proc[w].ids : n \in Nat /\ n <= Cutoff(w)

SeqInv == ChainShape /\ LogOK(log, wrote) /\ CutoffsPast /\ WorkersBusy

\* A row is written: by an event, or as the record of another operation.
LEMMA Recorded ==
  ASSUME wrote \in Nat, LogOK(log, wrote), record
  PROVE  LogOK(log, wrote)' /\ wrote' = wrote + 1 /\ wrote' \in Nat /\ log \subseteq log'
  BY Appended DEF record

LEMMA ChainInitSeq == ChainInit => SeqInv
  BY DEF ChainInit, SeqInv, ChainShape, LogOK, CutoffsPast, WorkersBusy, Busy, NoToken, NoRun, NoPurge

\* A worker's request to start, and a request that ends.
LEMMA BatchIn ==
  ASSUME NEW S, NEW b \in Batches(S)
  PROVE  b \subseteq S
  BY DEF Batches, kSubset

USE DEF chainVars, purgeVars

LEMMA PurgeStepSeq ==
  ASSUME SeqInv, NEW w \in Purgers, PurgeStep(w)
  PROVE  SeqInv'
  <1>s. ChainShape
    BY DEF SeqInv
  <1>1. ASSUME AuditPurge(w) PROVE SeqInv'
    <2>1. LogOK(log, wrote)' /\ wrote' = wrote + 1 /\ wrote' \in Nat
      BY <1>1, Recorded DEF AuditPurge, auditSelf, SeqInv, ChainShape
    <2>2. sched' = sched \/ sched' = [sched EXCEPT !.status = "EXECUTED"]
      BY <1>1 DEF AuditPurge, SettleSchedule
    <2> QED
      BY <1>1, <2>1, <2>2 DEF AuditPurge, SeqInv, ChainShape, CutoffsPast, WorkersBusy, Cutoff, Busy, NoPurge
  <1>2. ASSUME DeleteBatch(w) PROVE SeqInv'
    <2> DEFINE gone == Deletable(proc[w].ids)
    <2>1. log' = log \ gone /\ UNCHANGED <<wrote, token, runs, sched>>
          /\ proc' = [proc EXCEPT ![w].pc = IF gone = {} THEN "complete" ELSE "select"]
      BY <1>2 DEF DeleteBatch, ProcGo
    <2>2. proc[w].pc = "delete" /\ \A r \in gone : r.facts \in proc[w].ids
      BY <1>2 DEF DeleteBatch, ProcAt, Deletable
    <2>3. Cutoff(w) \in Nat /\ Cutoff(w) < wrote
      BY <2>2 DEF SeqInv, WorkersBusy, CutoffsPast, Busy, Cutoff
    <2>4. \A r \in gone : r.facts # wrote
      BY <2>2, <2>3 DEF SeqInv, WorkersBusy, ChainShape
    <2> HIDE DEF gone
    <2>5. LogOK(log', wrote)
      BY <2>1, <2>4 DEF LogOK, SeqInv
    <2> QED
      BY <2>1, <2>2, <2>5 DEF SeqInv, ChainShape, CutoffsPast, WorkersBusy, Busy, Cutoff, NoPurge
  <1>3. ASSUME SelectIds(w) PROVE SeqInv'
    <2>1. PICK batch \in Batches(purgeWhere(w)) :
            proc' = [proc EXCEPT ![w].ids = Facts(batch), ![w].pc = IF batch = {} THEN "complete" ELSE "delete"]
      BY <1>3 DEF SelectIds
    <2>2. \A n \in Facts(batch) : n \in Nat /\ n <= Cutoff(w)
      BY <2>1, BatchIn DEF purgeWhere, Facts, SeqInv, LogOK
    <2>3. proc[w].pc = "select" /\ UNCHANGED <<log, wrote, token, runs, sched>>
      BY <1>3 DEF SelectIds, ProcAt
    <2> QED
      BY <2>1, <2>2, <2>3 DEF SeqInv, ChainShape, CutoffsPast, WorkersBusy, Busy, Cutoff, NoPurge
  <1>4. ASSUME failRun(w) \/ DeleteFails(w) PROVE SeqInv'
    <2>1. sched' = sched \/ sched' = [sched EXCEPT !.status = "FAILED"]
      BY <1>4 DEF failRun, DeleteFails, SettleSchedule
    <2>2. /\ proc' = [proc EXCEPT ![w] = NoPurge] /\ UNCHANGED <<log, wrote, token>>
          /\ runs' = [runs EXCEPT ![proc[w].t].status = "FAILED"]
      BY <1>4 DEF failRun, DeleteFails, SetStatus
    <2> QED
      BY <2>1, <2>2 DEF SeqInv, ChainShape, CutoffsPast, WorkersBusy, Busy, Cutoff, NoPurge, NoRun
  <1>5. ASSUME OpenArchive(w) \/ ScanBatch(w) \/ ScanEnd(w) \/ MarkArchived(w) \/ CompleteRun(w) PROVE SeqInv'
    <2>1. UNCHANGED <<log, wrote, token, sched>> /\ proc[w].pc \in Busy
      BY <1>5 DEF OpenArchive, ScanBatch, ScanEnd, MarkArchived, CompleteRun, ProcAt, Busy
    <2>2. \E f, r : \/ proc' = [proc EXCEPT ![w].pc = "scan", ![w].first = f]
                    \/ proc' = [proc EXCEPT ![w].read = r] /\ proc[w].pc = "scan"
                    \/ proc' = [proc EXCEPT ![w].pc = f] /\ f \in {"mark", "select", "audit"}
      BY <1>5, <1>s DEF OpenArchive, ScanBatch, ScanEnd, MarkArchived, CompleteRun, ProcGo, ProcAt, ChainShape, NoPurge
    <2>3. DOMAIN runs' = ConfirmTokens /\ \A t \in ConfirmTokens : DOMAIN runs'[t] = DOMAIN NoRun
      BY <1>5, <1>s DEF OpenArchive, ScanBatch, ScanEnd, MarkArchived, CompleteRun, SetStatus, ChainShape, NoRun
    <2> QED
      BY <2>1, <2>2, <2>3 DEF SeqInv, ChainShape, CutoffsPast, WorkersBusy, Busy, Cutoff, NoPurge
  <1>6. ASSUME CrashPurge(w) PROVE SeqInv'
    BY <1>6 DEF CrashPurge, SeqInv, ChainShape, CutoffsPast, WorkersBusy, Busy, Cutoff, NoPurge
  <1> QED
    BY <1>1, <1>2, <1>3, <1>4, <1>5, <1>6 DEF PurgeStep

LEMMA EventSeq ==
  ASSUME SeqInv, Event \/ cancelPurgeSchedule \/ saveIntegrityRun
  PROVE  SeqInv'
  <1>1. LogOK(log, wrote)' /\ wrote' = wrote + 1 /\ wrote' \in Nat
    BY Recorded DEF Event, cancelPurgeSchedule, saveIntegrityRun, auditSelf, SeqInv, ChainShape
  <1>2. UNCHANGED <<token, runs, proc>> /\ (sched' = sched \/ sched' = [sched EXCEPT !.status = "CANCELLED"])
    BY DEF Event, cancelPurgeSchedule, saveIntegrityRun
  <1> QED
    BY <1>1, <1>2 DEF SeqInv, ChainShape, CutoffsPast, WorkersBusy, Cutoff

LEMMA PreviewSeq ==
  ASSUME SeqInv, NEW t \in ConfirmTokens, NEW c \in 1..MaxRows, previewPurge(t, c)
  PROVE  SeqInv'
  <1>1. LogOK(log, wrote)' /\ wrote' = wrote + 1 /\ wrote' \in Nat
    BY Recorded DEF previewPurge, auditSelf, SeqInv, ChainShape
  <1>2. token[t].cutoff = None /\ c \in Nat
    BY DEF previewPurge, NoToken
  <1> QED
    BY <1>1, <1>2 DEF previewPurge, SeqInv, ChainShape, CutoffsPast, WorkersBusy, Cutoff

LEMMA ScheduleSeq ==
  ASSUME SeqInv, NEW c \in 1..MaxRows, schedulePurge(c)
  PROVE  SeqInv'
  <1>1. LogOK(log, wrote)' /\ wrote' = wrote + 1 /\ wrote' \in Nat
    BY Recorded DEF schedulePurge, auditSelf, SeqInv, ChainShape
  <1> QED
    BY <1>1 DEF schedulePurge, SeqInv, ChainShape, CutoffsPast, WorkersBusy, Cutoff

LEMMA StartSeq ==
  ASSUME SeqInv, NEW w \in Purgers,
         \/ runDueScheduledPurges(w) \/ ClaimLost(w) \/ \E t \in ConfirmTokens : purgeOlderThan(w, t)
  PROVE  SeqInv'
  <1> USE DEF SeqInv, ChainShape, CutoffsPast, WorkersBusy, Busy, Cutoff, NoPurge
  <1>1. ASSUME NEW t \in ConfirmTokens, purgeOlderThan(w, t) PROVE SeqInv'
    <2>1. token[t].cutoff # None
      BY <1>1 DEF purgeOlderThan, NoToken
    <2> QED
      BY <1>1, <2>1 DEF purgeOlderThan, NoRun
  <1>2. ASSUME runDueScheduledPurges(w) \/ ClaimLost(w) PROVE SeqInv'
    BY <1>2 DEF runDueScheduledPurges, ClaimLost, ProcGo
  <1> QED
    BY <1>1, <1>2

LEMMA ClaimSeq ==
  ASSUME SeqInv, NEW w \in Purgers, NEW t \in ConfirmTokens, ClaimSchedule(w, t)
  PROVE  SeqInv'
  <1>1. /\ token[t] = NoToken /\ sched.status = "SCHEDULED"
        /\ sched' = [sched EXCEPT !.status = "RUNNING"]
        /\ token' = [token EXCEPT ![t].cutoff = sched.cutoff]
        /\ runs' = [runs EXCEPT ![t].status = "STARTED", ![t].scheduled = "yes"]
        /\ proc' = [proc EXCEPT ![w] = [NoPurge EXCEPT !.pc = "open", !.t = t, !.scheduled = "yes"]]
        /\ log' = log /\ wrote' = wrote
    BY DEF ClaimSchedule
  <1>2. token[t].cutoff = None
    BY <1>1 DEF NoToken
  <1>3. sched.cutoff \in Nat /\ sched.cutoff < wrote
    BY <1>1 DEF SeqInv, CutoffsPast
  <1>4. sched.cutoff # None
    BY <1>3, SentinelAssumption
  <1>5. ChainShape' /\ token'[t].cutoff = sched.cutoff /\ (\A u \in ConfirmTokens : u # t => token'[u] = token[u])
    BY <1>1, <1>3 DEF SeqInv, ChainShape, NoRun, NoPurge
  <1>6. LogOK(log, wrote)' /\ CutoffsPast'
    BY <1>1, <1>3, <1>5 DEF SeqInv, CutoffsPast, ChainShape
  <1>7. WorkersBusy'
    <2>1. \A v \in Purgers : v # w => proc'[v] = proc[v] /\ (proc[v].pc \in Busy => proc[v].t # t)
      BY <1>1, <1>2 DEF SeqInv, ChainShape, WorkersBusy, Cutoff
    <2>2. proc'[w].pc = "open" /\ proc'[w].t = t
      BY <1>1 DEF SeqInv, ChainShape, NoPurge
    <2> QED
      BY <1>4, <1>5, <2>1, <2>2 DEF SeqInv, WorkersBusy, Busy, Cutoff
  <1> QED
    BY <1>5, <1>6, <1>7 DEF SeqInv

LEMMA LogSeq ==
  ASSUME SeqInv, anonymizeUser \/ (\E r \in log : setHold(r) \/ clearHold(r))
                 \/ verifyIntegrity \/ VerifyBatch \/ saveIntegrityRun
  PROVE  SeqInv'
  <1> USE DEF SeqInv, ChainShape, CutoffsPast, WorkersBusy, Cutoff
  <1>1. ASSUME anonymizeUser PROVE SeqInv'
    <2>1. LogOK(Nameless(log), wrote)
      BY NamelessRewritten, RewrittenOK
    <2>2. log' = Nameless(log) \cup {NextRow(Nameless(log))} /\ wrote' = wrote + 1
      BY <1>1 DEF anonymizeUser, Nameless
    <2>3. LogOK(log, wrote)' /\ wrote' \in Nat
      BY <2>1, <2>2, Appended
    <2>4. UNCHANGED purgeVars
      BY <1>1 DEF anonymizeUser
    <2> QED
      BY <2>2, <2>3, <2>4
  <1>2. ASSUME NEW r \in log, setHold(r) \/ clearHold(r) PROVE SeqInv'
    <2>1. Rewritten(log, log') /\ UNCHANGED <<wrote, purgeVars>>
      BY <1>2, HeldRewritten DEF setHold, clearHold
    <2>2. LogOK(log', wrote)
      BY <2>1, RewrittenOK
    <2> QED
      BY <2>1, <2>2
  <1>3. ASSUME verifyIntegrity \/ VerifyBatch PROVE SeqInv'
    BY <1>3 DEF verifyIntegrity, VerifyBatch
  <1> QED
    BY <1>1, <1>2, <1>3, EventSeq

LEMMA SeqStep ==
  ASSUME SeqInv, [ChainNext]_chainVars
  PROVE  SeqInv'
  <1>1. ASSUME UNCHANGED chainVars PROVE SeqInv'
    BY <1>1 DEF SeqInv, ChainShape, CutoffsPast, WorkersBusy, Cutoff
  <1> QED
    BY <1>1, PurgeStepSeq, EventSeq, PreviewSeq, ScheduleSeq, StartSeq, ClaimSeq, LogSeq DEF ChainNext, KeepNext, PurgesNext, PurgeNext, ScheduleNext

-----------------------------------------------------------------------------
(***************************************************************************)
(* The schedule row is claimed once: SCHEDULED is left by the claim and is *)
(* never entered again.                                                    *)
(***************************************************************************)
ScheduleInv ==
  /\ DOMAIN runs = ConfirmTokens /\ \A t \in ConfirmTokens : DOMAIN runs[t] = DOMAIN NoRun
  /\ DOMAIN sched = {"status", "cutoff"}
  /\ \A t \in ConfirmTokens : runs[t].scheduled = "yes" => sched.status \notin {"none", "SCHEDULED"}
  /\ \A t, u \in ConfirmTokens : runs[t].scheduled = "yes" /\ runs[u].scheduled = "yes" => t = u

LEMMA ScheduleStep ==
  ASSUME SeqInv, ScheduleInv, [ChainNext]_chainVars
  PROVE  ScheduleInv'
  <1> USE DEF ScheduleInv, NoRun
  <1>1. ASSUME NEW w \in Purgers, PurgeStep(w) PROVE ScheduleInv'
    <2>1. sched' = sched \/ \E x \in {"FAILED", "EXECUTED"} : sched' = [sched EXCEPT !.status = x]
      BY <1>1 DEF PurgeStep, OpenArchive, failRun, ScanBatch, ScanEnd, MarkArchived, SelectIds, DeleteBatch, DeleteFails,
                  CompleteRun, AuditPurge, CrashPurge, SettleSchedule
    <2>2. DOMAIN runs' = ConfirmTokens /\ \A t \in ConfirmTokens : DOMAIN runs'[t] = DOMAIN NoRun /\ runs'[t].scheduled = runs[t].scheduled
      <3>1. \/ runs' = runs \/ \E x : runs' = [runs EXCEPT ![proc[w].t].status = x]
            \/ \E x, lo, hi : runs' = [runs EXCEPT ![proc[w].t].status = x, ![proc[w].t].lo = lo, ![proc[w].t].hi = hi]
        BY <1>1 DEF PurgeStep, OpenArchive, failRun, ScanBatch, ScanEnd, MarkArchived, SelectIds, DeleteBatch, DeleteFails,
                    CompleteRun, AuditPurge, CrashPurge, SetStatus
      <3>2. \A x : runs' = [runs EXCEPT ![proc[w].t].status = x] =>
              DOMAIN runs' = ConfirmTokens /\ \A t \in ConfirmTokens : DOMAIN runs'[t] = DOMAIN NoRun /\ runs'[t].scheduled = runs[t].scheduled
        OBVIOUS
      <3>3. ASSUME NEW x, NEW lo, NEW hi, runs' = [runs EXCEPT ![proc[w].t].status = x, ![proc[w].t].lo = lo, ![proc[w].t].hi = hi]
            PROVE  DOMAIN runs' = ConfirmTokens /\ \A t \in ConfirmTokens : DOMAIN runs'[t] = DOMAIN NoRun /\ runs'[t].scheduled = runs[t].scheduled
        BY <3>3
      <3> QED
        BY <3>1, <3>2, <3>3
    <2> QED
      BY <2>1, <2>2
  <1>2. ASSUME NEW w \in Purgers, NEW t \in ConfirmTokens, purgeOlderThan(w, t) PROVE ScheduleInv'
    BY <1>2 DEF purgeOlderThan
  <1>3. ASSUME NEW w \in Purgers, NEW t \in ConfirmTokens, ClaimSchedule(w, t) PROVE ScheduleInv'
    BY <1>3 DEF ClaimSchedule
  <1>4. ASSUME NEW c, schedulePurge(c) PROVE ScheduleInv'
    BY <1>4 DEF schedulePurge
  <1>5. ASSUME cancelPurgeSchedule PROVE ScheduleInv'
    BY <1>5 DEF cancelPurgeSchedule
  <1>6. ASSUME UNCHANGED <<runs, sched>> PROVE ScheduleInv'
    BY <1>6
  <1>7. ASSUME NEW w \in Purgers, runDueScheduledPurges(w) \/ ClaimLost(w) PROVE UNCHANGED <<runs, sched>>
    BY <1>7 DEF runDueScheduledPurges, ClaimLost
  <1>8. ASSUME NEW t, NEW c, previewPurge(t, c) PROVE UNCHANGED <<runs, sched>>
    BY <1>8 DEF previewPurge
  <1>9. ASSUME Event \/ anonymizeUser \/ verifyIntegrity \/ VerifyBatch \/ saveIntegrityRun PROVE UNCHANGED <<runs, sched>>
    BY <1>9 DEF Event, anonymizeUser, verifyIntegrity, VerifyBatch, saveIntegrityRun
  <1>10. ASSUME NEW r, setHold(r) \/ clearHold(r) PROVE UNCHANGED <<runs, sched>>
    BY <1>10 DEF setHold, clearHold
  <1> HIDE DEF ScheduleInv
  <1> QED
    BY <1>1, <1>2, <1>3, <1>4, <1>5, <1>6, <1>7, <1>8, <1>9, <1>10 DEF ChainNext, KeepNext, PurgesNext, PurgeNext, ScheduleNext

LEMMA AtMostOne ==
  ASSUME NEW S, \A x, y \in S : x = y
  PROVE  Cardinality(S) <= 1
  <1>1. CASE S = {}
    BY <1>1, FS_EmptySet
  <1>2. CASE S # {}
    <2>1. PICK x \in S : TRUE
      BY <1>2
    <2>2. S = {x}
      BY <2>1
    <2> QED
      BY <2>2, FS_Singleton
  <1> QED
    BY <1>1, <1>2

(***************************************************************************)
(* With purges, schedules, holds set and lifted, anonymization and         *)
(* verification all at work, the number of a row is never used again (the  *)
(* chain does not start over), and a scheduled purge has one run           *)
(* (runDueScheduledPurges).                                                *)
(***************************************************************************)
THEOREM ChainNumbered == ChainSpec => [](SeqNeverReused /\ ScheduledOnce)
  <1>1. ChainInit => ScheduleInv
    BY DEF ChainInit, ScheduleInv, NoRun
  <1>2. SeqInv /\ ScheduleInv => SeqNeverReused /\ ScheduledOnce
    BY AtMostOne DEF SeqInv, LogOK, ScheduleInv, SeqNeverReused, ScheduledOnce
  <1> QED
    BY <1>1, <1>2, ChainInitSeq, SeqStep, ScheduleStep, PTL DEF ChainSpec

(***************************************************************************)
(* No step removes a row that is on hold at that moment (the delete of     *)
(* purgeOlderThan looks at the flag again).                                *)
(***************************************************************************)
THEOREM HeldRowsKept == ChainSpec => [][HeldRowsStay]_chainVars
  <1>1. SeqInv /\ [ChainNext]_chainVars => [HeldRowsStay]_chainVars
    <2> SUFFICES ASSUME SeqInv, ChainNext, NEW r \in log, r.held = "yes"
                 PROVE  \E x \in log' : x.facts = r.facts
      BY DEF HeldRowsStay
    <2>1. ASSUME record PROVE log \subseteq log'
      BY <2>1 DEF record
    <2>2. ASSUME NEW x \in log, setHold(x) \/ clearHold(x) PROVE \E y \in log' : y.facts = r.facts
      BY <2>2, HeldRewritten DEF setHold, clearHold, Rewritten, SeqInv, ChainShape
    <2>3. ASSUME anonymizeUser PROVE r \in log'
      BY <2>3 DEF anonymizeUser
    <2>4. ASSUME NEW w \in Purgers, DeleteBatch(w) PROVE r \in log'
      BY <2>4 DEF DeleteBatch, Deletable
    <2>5. ASSUME NEW w \in Purgers, PurgeStep(w), ~DeleteBatch(w) PROVE log' = log \/ record
      BY <2>5 DEF PurgeStep, OpenArchive, failRun, ScanBatch, ScanEnd, MarkArchived, SelectIds, DeleteFails,
                  CompleteRun, AuditPurge, CrashPurge, auditSelf
    <2>6. ASSUME NEW w \in Purgers, NEW t \in ConfirmTokens,
                 purgeOlderThan(w, t) \/ ClaimSchedule(w, t) \/ runDueScheduledPurges(w) \/ ClaimLost(w)
          PROVE  log' = log
      BY <2>6 DEF purgeOlderThan, ClaimSchedule, runDueScheduledPurges, ClaimLost
    <2>7. ASSUME NEW w \in Purgers, runDueScheduledPurges(w) \/ ClaimLost(w) PROVE log' = log
      BY <2>7 DEF runDueScheduledPurges, ClaimLost
    <2>8. ASSUME NEW t, NEW c, previewPurge(t, c) \/ schedulePurge(c) \/ cancelPurgeSchedule \/ Event \/ saveIntegrityRun
          PROVE  record
      BY <2>8 DEF previewPurge, schedulePurge, cancelPurgeSchedule, Event, saveIntegrityRun, auditSelf
    <2>9. ASSUME verifyIntegrity \/ VerifyBatch PROVE log' = log
      BY <2>9 DEF verifyIntegrity, VerifyBatch
    <2> QED
      BY <2>1, <2>2, <2>3, <2>4, <2>5, <2>6, <2>7, <2>8, <2>9 DEF ChainNext, KeepNext, PurgesNext, PurgeNext, ScheduleNext
  <1> QED
    BY <1>1, ChainInitSeq, SeqStep, PTL DEF ChainSpec

-----------------------------------------------------------------------------
(***************************************************************************)
(* While no hold is lifted, the rows a purge may delete only become fewer  *)
(* once it has opened its archive, so all it deletes it has read, archived *)
(* and given a range for.                                                  *)
(***************************************************************************)
Scanned == {"mark", "select", "delete", "complete", "audit"}
Ranged  == Scanned \ {"mark"}
InRange(n, t) == runs[t].hi > 0 /\ runs[t].lo <= n /\ n <= runs[t].hi

RunsFresh ==
  /\ \A t \in ConfirmTokens : runs[t].lo \in Nat /\ runs[t].hi \in Nat
  /\ \A t \in ConfirmTokens : token[t].cutoff = None => runs[t].hi = 0 /\ \A w \in Purgers : proc[w].pc \in Busy => proc[w].t # t
  /\ \A t \in ConfirmTokens : runs[t].status = "none" => runs[t].hi = 0 /\ \A w \in Purgers : proc[w].pc \in Busy => proc[w].t # t
  /\ \A v, w \in Purgers : proc[v].pc \in Busy /\ proc[w].pc \in Busy /\ proc[v].t = proc[w].t => v = w
ReadOK(w) ==
  /\ proc[w].pc \in {"open", "scan", "mark"} => runs[proc[w].t].hi = 0
  /\ proc[w].pc \in Busy => \A x \in proc[w].read : x.facts \in 1..wrote /\ x.seq = x.facts
  /\ proc[w].pc = "scan" => \A r \in purgeWhere(w) : r.facts \in Facts(proc[w].first)
  /\ proc[w].pc \in Scanned => /\ \A r \in purgeWhere(w) : r.facts \in Facts(proc[w].read)
                               /\ Facts(proc[w].read) \subseteq archive
  /\ proc[w].pc \in Ranged => \A n \in Facts(proc[w].read) : InRange(n, proc[w].t)
  /\ proc[w].pc = "delete" => proc[w].ids \subseteq Facts(proc[w].read)
DeletedOK ==
  /\ deleted \subseteq archive
  /\ \A n \in deleted : \E t \in ConfirmTokens : InRange(n, t)
  /\ \A n \in 1..wrote : n \in deleted \/ \E r \in log : r.facts = n

PurgeInv == RunsFresh /\ (\A w \in Purgers : ReadOK(w)) /\ DeletedOK

LEMMA PurgeInit == ChainInit => PurgeInv
  BY DEF ChainInit, PurgeInv, RunsFresh, ReadOK, DeletedOK, Busy, Scanned, Ranged, NoToken, NoRun, NoPurge

\* A scan of the log as it stands finds no break.
LEMMA PurgeVerifiable == SeqInv /\ PurgeInv => VerifiableNow
  <1> SUFFICES ASSUME SeqInv, PurgeInv, NEW r \in log
               PROVE  RowHolds(purgedSeqRanges, Before(log, r), r)
    BY DEF VerifiableNow
  <1>1. r.hash = computeHash(r.seq, r.prev, r.facts, r.name)
    BY DEF SeqInv, LogOK, computeHash
  <1>2. ASSUME NEW p \in Before(log, r)
        PROVE  IF r.seq = p.seq + 1 THEN r.prev = p.hash ELSE explainedByPurge(purgedSeqRanges, p.seq + 1, r.seq - 1)
    <2> DEFINE b == {x \in log : x.seq < r.seq}
    <2>1. b # {} /\ p = Newest(b)
      BY <1>2 DEF Before
    <2>0. wrote \in Nat /\ \A x \in b : x.seq \in 0..wrote
      BY DEF SeqInv, LogOK, ChainShape
    <2> HIDE DEF b
    <2>2. p \in b /\ \A x \in b : x.seq <= p.seq
      BY <2>0, <2>1, NewestIn
    <2> USE DEF b
    <2>3. p \in log /\ p.seq < r.seq /\ \A x \in log : x.seq < r.seq => x.seq <= p.seq
      BY <2>2
    <2>4. p.seq \in Nat /\ r.seq \in Nat /\ r.seq <= wrote
      BY <2>3 DEF SeqInv, LogOK, ChainShape
    <2>5. CASE r.seq = p.seq + 1
      BY <2>3, <2>5 DEF SeqInv, LogOK
    <2>6. CASE r.seq # p.seq + 1
      <3> SUFFICES ASSUME NEW n \in (p.seq + 1)..(r.seq - 1)
                   PROVE  \E g \in purgedSeqRanges : n \in g[1]..g[2]
        BY <2>6 DEF explainedByPurge
      <3>1. n \in 1..wrote /\ n > p.seq /\ n < r.seq
        BY <2>4 DEF SeqInv, ChainShape
      <3>2. \A x \in log : x.facts # n
        BY <2>3, <3>1 DEF SeqInv, LogOK
      <3>3. PICK t \in ConfirmTokens : InRange(n, t)
        BY <3>1, <3>2 DEF PurgeInv, DeletedOK
      <3>4. <<runs[t].lo, runs[t].hi>> \in purgedSeqRanges
        BY <3>3 DEF purgedSeqRanges, InRange
      <3>5. n \in runs[t].lo..runs[t].hi
        BY <3>1, <3>3 DEF InRange, PurgeInv, RunsFresh
      <3> QED
        BY <3>4, <3>5
    <2> QED
      BY <2>5, <2>6
  <1> QED
    BY <1>1, <1>2 DEF RowHolds

\* Rows written, named, or put on hold add nothing to what a worker may delete.
LEMMA LogGrowsKept ==
  ASSUME SeqInv, SeqInv', PurgeInv, UNCHANGED <<runs, archive, deleted>>, wrote' \in Nat, wrote <= wrote',
         \A v \in Purgers : proc'[v].pc \in Busy => proc'[v] = proc[v],
         \A t \in ConfirmTokens : token[t].cutoff # None => token'[t] = token[t],
         \A r \in log' : r.facts \in 1..wrote /\ r.held = "no" => \E x \in log : x.facts = r.facts /\ x.held = "no",
         \A n \in 1..wrote' : (\E x \in log : x.facts = n) \/ n > wrote => \E r \in log' : r.facts = n
  PROVE  PurgeInv'
  <1>s. ChainShape /\ WorkersBusy /\ CutoffsPast
    BY DEF SeqInv
  <1>1. RunsFresh'
    BY DEF PurgeInv, RunsFresh
  <1>2. DeletedOK'
    <2>1. ASSUME NEW n \in 1..wrote' PROVE n \in deleted \/ \E r \in log' : r.facts = n
      <3>1. n \in 1..wrote \/ n > wrote
        BY <1>s DEF ChainShape
      <3> QED
        BY <3>1 DEF PurgeInv, DeletedOK
    <2> QED
      BY <2>1 DEF PurgeInv, DeletedOK, InRange
  <1>3. ASSUME NEW w \in Purgers, proc[w].pc \in Busy, proc'[w] = proc[w]
        PROVE  \A r \in log' : r.facts <= Cutoff(w)' /\ r.held = "no" => \E x \in purgeWhere(w) : x.facts = r.facts
    <2>1. Cutoff(w)' = Cutoff(w) /\ Cutoff(w) \in Nat /\ Cutoff(w) < wrote
      BY <1>s, <1>3 DEF Cutoff, WorkersBusy, CutoffsPast
    <2>2. \A r \in log' : r.facts \in Nat \ {0}
      BY DEF SeqInv, LogOK, ChainShape
    <2>3. \A r \in log' : r.facts <= Cutoff(w) => r.facts \in 1..wrote
      BY <1>s, <2>1, <2>2 DEF ChainShape
    <2> QED
      BY <2>1, <2>3 DEF purgeWhere
  <1>4. ASSUME NEW w \in Purgers PROVE ReadOK(w)'
    <2>1. ReadOK(w)
      BY DEF PurgeInv
    <2>2. CASE proc'[w].pc \in Busy
      <3>1. proc'[w] = proc[w]
        BY <2>2
      <3>2. Facts(proc[w].read)' = Facts(proc[w].read) /\ Facts(proc[w].first)' = Facts(proc[w].first)
        BY <3>1 DEF Facts
      <3>3. \A r \in purgeWhere(w)' : \E x \in purgeWhere(w) : x.facts = r.facts
        BY <1>3, <2>2, <3>1 DEF purgeWhere
      <3> QED
        BY <1>s, <2>1, <2>2, <3>1, <3>2, <3>3 DEF ReadOK, InRange, Busy, Scanned, Ranged, ChainShape
    <2>3. CASE proc'[w].pc \notin Busy
      BY <2>3 DEF ReadOK, Busy, Scanned, Ranged
    <2> QED
      BY <2>2, <2>3
  <1> QED
    BY <1>1, <1>2, <1>4 DEF PurgeInv

LEMMA WriteKept ==
  ASSUME SeqInv, SeqInv', PurgeInv, record, UNCHANGED <<runs, archive, deleted>>,
         \A v \in Purgers : proc'[v].pc \in Busy => proc'[v] = proc[v],
         \A t \in ConfirmTokens : token[t].cutoff # None => token'[t] = token[t]
  PROVE  PurgeInv'
  <1>1. wrote \in Nat /\ wrote' = wrote + 1 /\ log' = log \cup {NextRow(log)} /\ NextRow(log).facts = wrote + 1
    BY DEF record, NextRow, SeqInv, ChainShape
  <1>2. \A r \in log' : r.facts \in 1..wrote /\ r.held = "no" => \E x \in log : x.facts = r.facts /\ x.held = "no"
    BY <1>1
  <1>3. \A n \in 1..wrote' : (\E x \in log : x.facts = n) \/ n > wrote => \E r \in log' : r.facts = n
    BY <1>1
  <1> QED
    BY <1>1, <1>2, <1>3, LogGrowsKept

LEMMA LogKept ==
  ASSUME SeqInv, SeqInv', PurgeInv,
         anonymizeUser \/ (\E r \in log : setHold(r)) \/ verifyIntegrity \/ VerifyBatch \/ saveIntegrityRun
  PROVE  PurgeInv'
  <1>1. ASSUME anonymizeUser PROVE PurgeInv'
    <2> DEFINE kept == Nameless(log)
    <2>1. wrote \in Nat /\ wrote' = wrote + 1 /\ log' = kept \cup {NextRow(kept)} /\ NextRow(kept).facts = wrote + 1
      BY <1>1 DEF anonymizeUser, NextRow, SeqInv, ChainShape, Nameless
    <2>2. \A r \in kept : \E x \in log : x.facts = r.facts /\ x.held = r.held
      BY DEF Nameless, SeqInv, LogOK, Fields
    <2>3. \A x \in log : \E r \in kept : r.facts = x.facts
      BY NamelessRewritten DEF SeqInv, ChainShape, Rewritten
    <2> HIDE DEF kept
    <2>4. \A r \in log' : r.facts \in 1..wrote /\ r.held = "no" => \E x \in log : x.facts = r.facts /\ x.held = "no"
      BY <2>1, <2>2
    <2>5. \A n \in 1..wrote' : (\E x \in log : x.facts = n) \/ n > wrote => \E r \in log' : r.facts = n
      BY <2>1, <2>3
    <2>6. UNCHANGED purgeVars
      BY <1>1 DEF anonymizeUser
    <2> QED
      BY <2>1, <2>4, <2>5, <2>6, LogGrowsKept
  <1>2. ASSUME NEW r \in log, setHold(r) PROVE PurgeInv'
    <2> DEFINE x == [r EXCEPT !.held = "yes"]
    <2>0. DOMAIN r = Fields
      BY DEF SeqInv, LogOK
    <2>1. log' = (log \ {r}) \cup {x} /\ x.facts = r.facts /\ x.held = "yes"
      BY <1>2, <2>0 DEF setHold, Hold, Fields
    <2> HIDE DEF x
    <2>2. wrote \in Nat /\ wrote' = wrote /\ UNCHANGED purgeVars
      BY <1>2 DEF setHold, SeqInv, ChainShape
    <2>3. \A q \in log' : q.facts \in 1..wrote /\ q.held = "no" => \E y \in log : y.facts = q.facts /\ y.held = "no"
      BY <2>1
    <2>4. \A n \in 1..wrote' : (\E y \in log : y.facts = n) \/ n > wrote => \E q \in log' : q.facts = n
      BY <2>1, <2>2
    <2> QED
      BY <2>2, <2>3, <2>4, LogGrowsKept
  <1>3. ASSUME verifyIntegrity \/ VerifyBatch PROVE PurgeInv'
    BY <1>3 DEF verifyIntegrity, VerifyBatch, PurgeInv, RunsFresh, ReadOK, DeletedOK, InRange, purgeWhere, Cutoff, Facts
  <1>4. ASSUME saveIntegrityRun PROVE PurgeInv'
    BY <1>4, WriteKept DEF saveIntegrityRun, auditSelf
  <1> QED
    BY <1>1, <1>2, <1>3, <1>4

\* A step of one worker leaves the others what they have: their runs are not its run.
LEMMA OwnRunKept ==
  ASSUME SeqInv, PurgeInv, NEW w \in Purgers, proc[w].pc \in Busy, UNCHANGED <<wrote, token>>,
         log' \subseteq log, archive \subseteq archive',
         DOMAIN proc' = Purgers, \A v \in Purgers : v # w => proc'[v] = proc[v],
         proc'[w].pc \in Busy => proc'[w].t = proc[w].t,
         DOMAIN runs' = ConfirmTokens, \A t \in ConfirmTokens : t # proc[w].t => runs'[t] = runs[t],
         runs'[proc[w].t].lo \in Nat, runs'[proc[w].t].hi \in Nat, runs'[proc[w].t].status # "none",
         ReadOK(w)', DeletedOK'
  PROVE  PurgeInv'
  <1>1. RunsFresh'
    BY DEF SeqInv, WorkersBusy, Cutoff, PurgeInv, RunsFresh
  <1>2. ASSUME NEW v \in Purgers, v # w PROVE ReadOK(v)'
    <2>1. proc'[v] = proc[v] /\ Facts(proc[v].read)' = Facts(proc[v].read) /\ Facts(proc[v].first)' = Facts(proc[v].first)
          /\ purgeWhere(v)' \subseteq purgeWhere(v)
      BY <1>2 DEF Facts, purgeWhere, Cutoff
    <2>2. proc[v].pc \in Busy => proc[v].t \in ConfirmTokens /\ runs'[proc[v].t] = runs[proc[v].t]
      BY <1>2 DEF PurgeInv, RunsFresh, SeqInv, WorkersBusy
    <2>3. ReadOK(v)
      BY DEF PurgeInv
    <2> QED
      BY <2>1, <2>2, <2>3 DEF ReadOK, InRange, Busy, Scanned, Ranged
  <1> QED
    BY <1>1, <1>2 DEF PurgeInv

LEMMA RunKept ==
  ASSUME SeqInv, PurgeInv, NEW w \in Purgers, proc[w].pc \in Busy
  PROVE  /\ proc[w].t \in ConfirmTokens /\ runs[proc[w].t].status # "none" /\ DOMAIN runs[proc[w].t] = DOMAIN NoRun
         /\ runs[proc[w].t].lo \in Nat /\ runs[proc[w].t].hi \in Nat
         /\ DOMAIN runs = ConfirmTokens /\ DOMAIN proc = Purgers /\ DOMAIN proc[w] = DOMAIN NoPurge /\ wrote \in Nat
         /\ ReadOK(w) /\ DeletedOK
  BY DEF SeqInv, ChainShape, WorkersBusy, PurgeInv, RunsFresh

\* A worker gives up, or its process dies: the range stays.
LEMMA StopKept ==
  ASSUME SeqInv, PurgeInv, NEW w \in Purgers, failRun(w) \/ DeleteFails(w) \/ CrashPurge(w)
  PROVE  PurgeInv'
  <1>1. CASE proc[w].pc \in Busy
    <2>1. /\ proc' = [proc EXCEPT ![w] = NoPurge] /\ UNCHANGED <<log, wrote, token, archive, deleted>>
          /\ runs' = runs \/ runs' = [runs EXCEPT ![proc[w].t].status = "FAILED"]
      BY DEF failRun, DeleteFails, CrashPurge, SetStatus
    <2>2. ReadOK(w)'
      BY <1>1, <2>1, RunKept DEF ReadOK, NoPurge, Busy, Scanned, Ranged
    <2>3. /\ DOMAIN runs' = ConfirmTokens /\ \A t \in ConfirmTokens : runs'[t].lo = runs[t].lo /\ runs'[t].hi = runs[t].hi
          /\ runs'[proc[w].t].status # "none" /\ \A t \in ConfirmTokens : t # proc[w].t => runs'[t] = runs[t]
      BY <1>1, <2>1, RunKept DEF NoRun, SeqInv, ChainShape
    <2>4. DeletedOK'
      BY <1>1, <2>1, <2>3, RunKept DEF DeletedOK, InRange
    <2>5. DOMAIN proc' = Purgers /\ proc'[w].pc \notin Busy /\ \A v \in Purgers : v # w => proc'[v] = proc[v]
      BY <1>1, <2>1, RunKept DEF NoPurge, Busy
    <2> QED
      BY <1>1, <2>1, <2>2, <2>3, <2>4, <2>5, RunKept, OwnRunKept
  <1>2. CASE proc[w].pc \notin Busy
    <2>1. CrashPurge(w)
      BY <1>2 DEF failRun, DeleteFails, Busy
    <2>2. \A v \in Purgers : proc'[v].pc \in Busy => proc'[v] = proc[v] /\ proc[v].pc \in Busy
      BY <1>2, <2>1 DEF CrashPurge, NoPurge, Busy, SeqInv, ChainShape
    <2>3. UNCHANGED <<log, wrote, token, runs, archive, deleted>>
      BY <2>1 DEF CrashPurge
    <2>4. RunsFresh' /\ DeletedOK'
      BY <2>2, <2>3 DEF PurgeInv, RunsFresh, DeletedOK, InRange
    <2>5. ASSUME NEW v \in Purgers PROVE ReadOK(v)'
      BY <2>2, <2>3 DEF PurgeInv, ReadOK, Facts, purgeWhere, Cutoff, InRange, Busy, Scanned, Ranged
    <2> QED
      BY <2>4, <2>5 DEF PurgeInv
  <1> QED
    BY <1>1, <1>2

LEMMA ScanKept ==
  ASSUME SeqInv, PurgeInv, NEW w \in Purgers, OpenArchive(w) \/ ScanBatch(w) \/ ScanEnd(w) \/ SelectIds(w)
  PROVE  PurgeInv'
  <1>b. proc[w].pc \in Busy
    BY DEF OpenArchive, ScanBatch, ScanEnd, SelectIds, ProcAt, Busy
  <1>r. /\ proc[w].t \in ConfirmTokens /\ runs[proc[w].t].status # "none"
        /\ runs[proc[w].t].lo \in Nat /\ runs[proc[w].t].hi \in Nat
        /\ DOMAIN runs = ConfirmTokens /\ DOMAIN proc = Purgers /\ DOMAIN proc[w] = DOMAIN NoPurge /\ wrote \in Nat
        /\ ReadOK(w) /\ DeletedOK
    BY <1>b, RunKept
  <1>u. UNCHANGED <<log, wrote, token, runs, deleted>>
    BY DEF OpenArchive, ScanBatch, ScanEnd, SelectIds
  <1>f. \A r \in log : r.facts \in 1..wrote /\ r.seq = r.facts
    BY DEF SeqInv, LogOK
  <1> SUFFICES /\ archive \subseteq archive' /\ ReadOK(w)'
               /\ DOMAIN proc' = Purgers /\ proc'[w].t = proc[w].t /\ \A v \in Purgers : v # w => proc'[v] = proc[v]
    <2>1. ASSUME archive \subseteq archive' PROVE DeletedOK'
      BY <1>r, <1>u, <2>1 DEF DeletedOK, InRange
    <2> QED
      BY <1>b, <1>r, <1>u, <2>1, OwnRunKept
  <1> USE DEF NoPurge
  <1>1. CASE OpenArchive(w)
    <2>1. proc' = [proc EXCEPT ![w].pc = "scan", ![w].first = purgeWhere(w)] /\ UNCHANGED archive /\ proc[w].pc = "open"
      BY <1>1 DEF OpenArchive, ProcAt
    <2>2. proc'[w].pc = "scan" /\ proc'[w].t = proc[w].t /\ proc'[w].first = purgeWhere(w) /\ proc'[w].read = proc[w].read
      BY <1>r, <2>1
    <2>3. purgeWhere(w)' = purgeWhere(w)
      BY <1>u, <2>2 DEF purgeWhere, Cutoff
    <2> QED
      BY <1>r, <1>u, <2>1, <2>2, <2>3 DEF ReadOK, Scanned, Ranged, Busy, Facts
  <1>2. CASE ScanBatch(w)
    <2>1. PICK batch \in Batches(Unread(w)) : proc' = [proc EXCEPT ![w].read = @ \cup batch]
      BY <1>2 DEF ScanBatch
    <2>2. batch \subseteq log
      BY <2>1, BatchIn DEF Unread, purgeWhere
    <2>3. proc[w].pc = "scan" /\ UNCHANGED archive
      BY <1>2 DEF ScanBatch, ProcAt
    <2>4. proc'[w].pc = "scan" /\ proc'[w].t = proc[w].t /\ proc'[w].first = proc[w].first /\ proc'[w].read = proc[w].read \cup batch
      BY <1>r, <2>1, <2>3
    <2>5. purgeWhere(w)' = purgeWhere(w) /\ Facts(proc[w].first)' = Facts(proc[w].first)
      BY <1>u, <2>4 DEF purgeWhere, Cutoff, Facts
    <2> QED
      BY <1>r, <1>u, <1>f, <2>1, <2>2, <2>3, <2>4, <2>5 DEF ReadOK, Scanned, Ranged, Busy
  <1>3. CASE ScanEnd(w)
    <2>1. /\ proc[w].pc = "scan" /\ Facts(Unread(w)) \cap Facts(proc[w].first) = {}
          /\ archive' = archive \cup Facts(proc[w].read) /\ proc' = [proc EXCEPT ![w].pc = "mark"]
      BY <1>3 DEF ScanEnd, ProcAt, ProcGo
    <2>2. proc'[w].pc = "mark" /\ proc'[w].t = proc[w].t /\ proc'[w].read = proc[w].read
      BY <1>r, <2>1
    <2>3. purgeWhere(w)' = purgeWhere(w) /\ Facts(proc[w].read)' = Facts(proc[w].read)
      BY <1>u, <2>2 DEF purgeWhere, Cutoff, Facts
    <2>4. \A r \in purgeWhere(w) : r.facts \in Facts(proc[w].read)
      BY <1>r, <2>1 DEF ReadOK, Unread, Facts
    <2> QED
      BY <1>r, <1>u, <2>1, <2>2, <2>3, <2>4 DEF ReadOK, Scanned, Ranged, Busy
  <1>4. CASE SelectIds(w)
    <2>1. PICK batch \in Batches(purgeWhere(w)) :
            proc' = [proc EXCEPT ![w].ids = Facts(batch), ![w].pc = IF batch = {} THEN "complete" ELSE "delete"]
      BY <1>4 DEF SelectIds
    <2>2. proc[w].pc = "select" /\ UNCHANGED archive
      BY <1>4 DEF SelectIds, ProcAt
    <2>3. proc'[w].pc \in {"complete", "delete"} /\ proc'[w].t = proc[w].t /\ proc'[w].read = proc[w].read /\ proc'[w].ids = Facts(batch)
      BY <1>r, <2>1
    <2>4. purgeWhere(w)' = purgeWhere(w) /\ Facts(proc[w].read)' = Facts(proc[w].read)
      BY <1>u, <2>3 DEF purgeWhere, Cutoff, Facts
    <2>5. Facts(batch) \subseteq Facts(proc[w].read)
      BY <1>r, <2>1, <2>2, BatchIn DEF ReadOK, Facts, Scanned
    <2> QED
      BY <1>r, <1>u, <2>1, <2>2, <2>3, <2>4, <2>5 DEF ReadOK, Scanned, Ranged, Busy, InRange
  <1> QED
    BY <1>1, <1>2, <1>3, <1>4

\* The range of the run is that of the rows read.
LEMMA MarkKept ==
  ASSUME SeqInv, PurgeInv, NEW w \in Purgers, MarkArchived(w) \/ CompleteRun(w)
  PROVE  PurgeInv'
  <1>b. proc[w].pc \in Busy
    BY DEF MarkArchived, CompleteRun, ProcAt, Busy
  <1> DEFINE t == proc[w].t
             seqs == {r.seq : r \in proc[w].read}
  <1>r. /\ t \in ConfirmTokens /\ runs[t].status # "none" /\ DOMAIN runs[t] = DOMAIN NoRun
        /\ runs[t].lo \in Nat /\ runs[t].hi \in Nat
        /\ DOMAIN runs = ConfirmTokens /\ DOMAIN proc = Purgers /\ DOMAIN proc[w] = DOMAIN NoPurge /\ wrote \in Nat
        /\ ReadOK(w) /\ DeletedOK
    BY <1>b, RunKept
  <1>u. UNCHANGED <<log, wrote, token, archive, deleted>>
    BY DEF MarkArchived, CompleteRun
  <1>1. CASE MarkArchived(w)
    <2> DEFINE lo == IF seqs = {} THEN 0 ELSE Min(seqs)
               hi == IF seqs = {} THEN 0 ELSE Max(seqs)
    <2>1. /\ runs' = [runs EXCEPT ![t].status = "ARCHIVED", ![t].lo = lo, ![t].hi = hi]
          /\ proc' = [proc EXCEPT ![w].pc = "select"] /\ proc[w].pc = "mark"
      BY <1>1 DEF MarkArchived, ProcAt, ProcGo
    <2>2. seqs = Facts(proc[w].read) /\ seqs \subseteq Nat /\ \A n \in seqs : n <= wrote /\ n > 0
      <3>1. \A x \in proc[w].read : x.facts \in 1..wrote /\ x.seq = x.facts
        BY <1>r, <2>1 DEF ReadOK, Busy
      <3>2. \A n : n \in seqs <=> \E x \in proc[w].read : n = x.facts
        BY <3>1
      <3>3. seqs = Facts(proc[w].read)
        BY <3>2 DEF Facts
      <3> QED
        BY <1>r, <3>1, <3>3 DEF Facts
    <2> HIDE DEF seqs
    <2>3. lo \in Nat /\ hi \in Nat /\ \A n \in seqs : lo <= n /\ n <= hi /\ hi > 0
      <3>1. CASE seqs = {}
        BY <3>1
      <3>2. CASE seqs # {}
        <4>1. Min(seqs) \in seqs /\ \A n \in seqs : Min(seqs) <= n
          BY <2>2, <3>2, MinOfNaturals
        <4>2. Max(seqs) \in seqs /\ \A n \in seqs : n <= Max(seqs)
          BY <1>r, <2>2, <3>2, MaxOfNaturals
        <4> QED
          BY <2>2, <3>2, <4>1, <4>2
      <3> QED
        BY <3>1, <3>2
    <2> HIDE DEF t, lo, hi
    <2>4. /\ DOMAIN runs' = ConfirmTokens /\ runs'[t].status = "ARCHIVED" /\ runs'[t].lo = lo /\ runs'[t].hi = hi
          /\ \A u \in ConfirmTokens : u # t => runs'[u] = runs[u]
      BY <1>r, <2>1 DEF NoRun
    <2>5. proc'[w].pc = "select" /\ proc'[w].t = t /\ proc'[w].read = proc[w].read
          /\ DOMAIN proc' = Purgers /\ \A v \in Purgers : v # w => proc'[v] = proc[v]
      BY <1>r, <2>1 DEF NoPurge, t
    <2>6. purgeWhere(w)' = purgeWhere(w) /\ Facts(proc[w].read)' = Facts(proc[w].read)
      BY <1>u, <2>5 DEF purgeWhere, Cutoff, Facts, t
    <2>7. ReadOK(w)'
      BY <1>r, <1>u, <2>1, <2>2, <2>3, <2>4, <2>5, <2>6 DEF ReadOK, InRange, Scanned, Ranged, Busy
    <2>8. DeletedOK'
      <3>1. runs[t].hi = 0
        BY <1>r, <2>1 DEF ReadOK, t
      <3>2. \A u \in ConfirmTokens : \A n : InRange(n, u) => InRange(n, u)'
        BY <2>4, <3>1 DEF InRange
      <3> QED
        BY <1>r, <1>u, <3>2 DEF DeletedOK
    <2> QED
      BY <1>b, <1>r, <1>u, <2>3, <2>4, <2>5, <2>7, <2>8, OwnRunKept DEF t
  <1>2. CASE CompleteRun(w)
    <2>1. runs' = [runs EXCEPT ![t].status = "COMPLETED"] /\ proc' = [proc EXCEPT ![w].pc = "audit"] /\ proc[w].pc = "complete"
      BY <1>2 DEF CompleteRun, ProcAt, ProcGo, SetStatus
    <2>2. /\ DOMAIN runs' = ConfirmTokens /\ runs'[t].status = "COMPLETED" /\ \A u \in ConfirmTokens : u # t => runs'[u] = runs[u]
          /\ \A u \in ConfirmTokens : runs'[u].lo = runs[u].lo /\ runs'[u].hi = runs[u].hi
      BY <1>r, <2>1 DEF NoRun
    <2>3. proc'[w].pc = "audit" /\ proc'[w].t = t /\ proc'[w].read = proc[w].read
          /\ DOMAIN proc' = Purgers /\ \A v \in Purgers : v # w => proc'[v] = proc[v]
      BY <1>r, <2>1 DEF NoPurge
    <2>4. purgeWhere(w)' = purgeWhere(w) /\ Facts(proc[w].read)' = Facts(proc[w].read)
      BY <1>u, <2>3 DEF purgeWhere, Cutoff, Facts
    <2>5. ReadOK(w)' /\ DeletedOK'
      BY <1>r, <1>u, <2>1, <2>2, <2>3, <2>4 DEF ReadOK, DeletedOK, InRange, Scanned, Ranged, Busy
    <2> QED
      BY <1>b, <1>r, <1>u, <2>2, <2>3, <2>5, OwnRunKept
  <1> QED
    BY <1>1, <1>2

LEMMA DeleteKept ==
  ASSUME SeqInv, PurgeInv, NEW w \in Purgers, DeleteBatch(w)
  PROVE  PurgeInv'
  <1> DEFINE gone == Deletable(proc[w].ids)
  <1>1. /\ proc[w].pc = "delete" /\ log' = log \ gone /\ deleted' = deleted \cup Facts(gone)
        /\ proc' = [proc EXCEPT ![w].pc = IF gone = {} THEN "complete" ELSE "select"]
        /\ UNCHANGED <<wrote, token, runs, archive>>
    BY DEF DeleteBatch, ProcAt, ProcGo
  <1>2. gone \subseteq log /\ Facts(gone) \subseteq proc[w].ids
    BY DEF Deletable, Facts
  <1>b. proc[w].pc \in Busy
    BY <1>1 DEF Busy
  <1>r. /\ proc[w].t \in ConfirmTokens /\ runs[proc[w].t].status # "none"
        /\ runs[proc[w].t].lo \in Nat /\ runs[proc[w].t].hi \in Nat
        /\ DOMAIN runs = ConfirmTokens /\ DOMAIN proc = Purgers /\ DOMAIN proc[w] = DOMAIN NoPurge /\ wrote \in Nat
        /\ ReadOK(w) /\ DeletedOK
    BY <1>b, RunKept
  <1> HIDE DEF gone
  <1>3. /\ proc'[w].pc \in {"complete", "select"} /\ proc'[w].t = proc[w].t /\ proc'[w].read = proc[w].read
        /\ DOMAIN proc' = Purgers /\ \A v \in Purgers : v # w => proc'[v] = proc[v]
    BY <1>1, <1>r DEF NoPurge
  <1>4. purgeWhere(w)' \subseteq purgeWhere(w) /\ Facts(proc[w].read)' = Facts(proc[w].read)
    BY <1>1, <1>3 DEF purgeWhere, Cutoff, Facts
  <1>5. ReadOK(w)'
    BY <1>1, <1>r, <1>3, <1>4 DEF ReadOK, InRange, Scanned, Ranged, Busy
  <1>6. DeletedOK'
    <2>1. \A n \in Facts(gone) : n \in archive /\ InRange(n, proc[w].t)
      BY <1>1, <1>2, <1>r DEF ReadOK, Scanned, Ranged
    <2>2. \A r \in log : r \in log' \/ r.facts \in deleted'
      BY <1>1 DEF Facts
    <2> QED
      BY <1>1, <1>r, <2>1, <2>2 DEF DeletedOK, InRange
  <1> QED
    BY <1>1, <1>b, <1>r, <1>3, <1>5, <1>6, OwnRunKept

\* A run starts, on request or on schedule, with a token that no run has used.
LEMMA RunStartKept ==
  ASSUME SeqInv, SeqInv', PurgeInv, NEW w \in Purgers, NEW t \in ConfirmTokens, proc[w].pc \notin Busy,
         UNCHANGED <<log, wrote, archive, deleted>>,
         runs[t].hi = 0, \A v \in Purgers : proc[v].pc \in Busy => proc[v].t # t,
         \A u \in ConfirmTokens : u # t => token'[u] = token[u] /\ runs'[u] = runs[u],
         token'[t].cutoff # None, runs'[t].status # "none", runs'[t].lo = runs[t].lo, runs'[t].hi = runs[t].hi,
         proc'[w].pc = "open", proc'[w].t = t, proc'[w].read = {},
         \A v \in Purgers : v # w => proc'[v] = proc[v]
  PROVE  PurgeInv'
  <1>1. RunsFresh'
    BY DEF PurgeInv, RunsFresh
  <1>2. DeletedOK'
    BY DEF PurgeInv, DeletedOK, InRange
  <1>3. ASSUME NEW v \in Purgers, v # w PROVE ReadOK(v)'
    <2>1. CASE proc[v].pc \in Busy
      <3>1. proc'[v] = proc[v] /\ proc[v].t \in ConfirmTokens /\ proc[v].t # t
        BY <1>3, <2>1 DEF SeqInv, WorkersBusy
      <3>2. purgeWhere(v)' = purgeWhere(v) /\ Facts(proc[v].read)' = Facts(proc[v].read) /\ Facts(proc[v].first)' = Facts(proc[v].first)
        BY <3>1 DEF purgeWhere, Cutoff, Facts
      <3> QED
        BY <2>1, <3>1, <3>2 DEF PurgeInv, ReadOK, InRange
    <2>2. CASE proc[v].pc \notin Busy
      BY <1>3, <2>2 DEF ReadOK, Busy, Scanned, Ranged
    <2> QED
      BY <2>1, <2>2
  <1>4. ReadOK(w)'
    BY DEF ReadOK, Scanned, Ranged, Busy
  <1> QED
    BY <1>1, <1>2, <1>3, <1>4 DEF PurgeInv

LEMMA RunsStartKept ==
  ASSUME SeqInv, SeqInv', PurgeInv, NEW w \in Purgers, NEW t \in ConfirmTokens, purgeOlderThan(w, t) \/ ClaimSchedule(w, t)
  PROVE  PurgeInv'
  <1>s. /\ token \in [ConfirmTokens -> [cutoff : Nat \cup {None}]] /\ DOMAIN runs = ConfirmTokens /\ DOMAIN runs[t] = DOMAIN NoRun
        /\ DOMAIN proc = Purgers /\ DOMAIN proc[w] = DOMAIN NoPurge
    BY DEF SeqInv, ChainShape
  <1>1. CASE purgeOlderThan(w, t)
    <2>1. /\ proc[w].pc = "idle" /\ token[t] # NoToken /\ runs[t] = NoRun
          /\ runs' = [runs EXCEPT ![t].status = "STARTED"]
          /\ proc' = [proc EXCEPT ![w] = [NoPurge EXCEPT !.pc = "open", !.t = t]]
          /\ UNCHANGED <<log, wrote, token, archive, deleted>>
      BY <1>1 DEF purgeOlderThan, ProcAt
    <2>2. token[t].cutoff # None
      BY <1>s, <2>1 DEF NoToken
    <2>3. runs[t].hi = 0 /\ \A v \in Purgers : proc[v].pc \in Busy => proc[v].t # t
      BY <2>1 DEF PurgeInv, RunsFresh, NoRun
    <2>4. runs'[t].status = "STARTED" /\ runs'[t].lo = runs[t].lo /\ runs'[t].hi = runs[t].hi /\ \A u \in ConfirmTokens : u # t => runs'[u] = runs[u]
      BY <1>s, <2>1 DEF NoRun
    <2>5. proc'[w].pc = "open" /\ proc'[w].t = t /\ proc'[w].read = {} /\ \A v \in Purgers : v # w => proc'[v] = proc[v]
      BY <1>s, <2>1 DEF NoPurge
    <2> QED
      BY <2>1, <2>2, <2>3, <2>4, <2>5, RunStartKept DEF Busy
  <1>2. CASE ClaimSchedule(w, t)
    <2>1. /\ proc[w].pc = "due" /\ sched.status = "SCHEDULED" /\ token[t] = NoToken
          /\ token' = [token EXCEPT ![t].cutoff = sched.cutoff]
          /\ runs' = [runs EXCEPT ![t].status = "STARTED", ![t].scheduled = "yes"]
          /\ proc' = [proc EXCEPT ![w] = [NoPurge EXCEPT !.pc = "open", !.t = t, !.scheduled = "yes"]]
          /\ UNCHANGED <<log, wrote, archive, deleted>>
      BY <1>2 DEF ClaimSchedule, ProcAt
    <2>2. sched.cutoff # None
      BY <2>1, SentinelAssumption DEF SeqInv, CutoffsPast
    <2>3. runs[t].hi = 0 /\ \A v \in Purgers : proc[v].pc \in Busy => proc[v].t # t
      BY <2>1 DEF PurgeInv, RunsFresh, NoToken
    <2>4. runs'[t].status = "STARTED" /\ runs'[t].lo = runs[t].lo /\ runs'[t].hi = runs[t].hi /\ \A u \in ConfirmTokens : u # t => runs'[u] = runs[u]
      BY <1>s, <2>1 DEF NoRun
    <2>5. proc'[w].pc = "open" /\ proc'[w].t = t /\ proc'[w].read = {} /\ \A v \in Purgers : v # w => proc'[v] = proc[v]
      BY <1>s, <2>1 DEF NoPurge
    <2>6. token'[t].cutoff # None /\ \A u \in ConfirmTokens : u # t => token'[u] = token[u]
      BY <1>s, <2>1, <2>2
    <2> QED
      BY <2>1, <2>3, <2>4, <2>5, <2>6, RunStartKept DEF Busy
  <1> QED
    BY <1>1, <1>2

LEMMA OtherKept ==
  ASSUME SeqInv, SeqInv', PurgeInv,
         \/ Event \/ cancelPurgeSchedule
         \/ \E c \in 1..MaxRows : schedulePurge(c) \/ \E t \in ConfirmTokens : previewPurge(t, c)
         \/ \E w \in Purgers : AuditPurge(w) \/ runDueScheduledPurges(w) \/ ClaimLost(w)
  PROVE  PurgeInv'
  <1>s. /\ token \in [ConfirmTokens -> [cutoff : Nat \cup {None}]]
        /\ DOMAIN proc = Purgers /\ \A w \in Purgers : DOMAIN proc[w] = DOMAIN NoPurge /\ wrote \in Nat
    BY DEF SeqInv, ChainShape
  <1>1. ASSUME Event \/ cancelPurgeSchedule \/ \E c \in 1..MaxRows : schedulePurge(c) PROVE PurgeInv'
    BY <1>1, WriteKept DEF Event, cancelPurgeSchedule, schedulePurge, auditSelf
  <1>2. ASSUME NEW c \in 1..MaxRows, NEW t \in ConfirmTokens, previewPurge(t, c) PROVE PurgeInv'
    <2>1. token[t].cutoff = None /\ token' = [token EXCEPT ![t].cutoff = c]
      BY <1>2 DEF previewPurge, NoToken
    <2> QED
      BY <1>2, <1>s, <2>1, WriteKept DEF previewPurge, auditSelf
  <1>3. ASSUME NEW w \in Purgers, AuditPurge(w) PROVE PurgeInv'
    <2>1. proc' = [proc EXCEPT ![w] = NoPurge] /\ record /\ UNCHANGED <<token, runs, archive, deleted>>
      BY <1>3 DEF AuditPurge, auditSelf
    <2>2. \A v \in Purgers : proc'[v].pc \in Busy => proc'[v] = proc[v]
      BY <1>s, <2>1 DEF Busy, NoPurge
    <2> QED
      BY <2>1, <2>2, WriteKept
  <1>4. ASSUME NEW w \in Purgers, runDueScheduledPurges(w) \/ ClaimLost(w) PROVE PurgeInv'
    <2>1. \/ proc' = [proc EXCEPT ![w] = NoPurge]
          \/ proc' = [proc EXCEPT ![w].pc = "due"]
      BY <1>4 DEF runDueScheduledPurges, ClaimLost, ProcGo
    <2>2. \A v \in Purgers : proc'[v].pc \in Busy => proc'[v] = proc[v]
      BY <1>s, <2>1 DEF Busy, NoPurge
    <2>3. UNCHANGED <<log, wrote, token, runs, archive, deleted>>
      BY <1>4 DEF runDueScheduledPurges, ClaimLost
    <2>4. \A n \in 1..wrote' : (\E x \in log : x.facts = n) \/ n > wrote => \E r \in log' : r.facts = n
      BY <1>s, <2>3
    <2> QED
      BY <1>s, <2>2, <2>3, <2>4, LogGrowsKept
  <1> QED
    BY <1>1, <1>2, <1>3, <1>4

LEMMA PurgeInvStep ==
  ASSUME SeqInv, PurgeInv, [KeepNext]_chainVars
  PROVE  PurgeInv'
  <1>1. SeqInv'
    BY SeqStep DEF ChainNext
  <1>2. ASSUME UNCHANGED chainVars PROVE PurgeInv'
    BY <1>2 DEF PurgeInv, RunsFresh, ReadOK, DeletedOK, InRange, purgeWhere, Cutoff, Facts
  <1>3. ASSUME NEW w \in Purgers, PurgeStep(w) PROVE PurgeInv'
    BY <1>1, <1>3, StopKept, ScanKept, MarkKept, DeleteKept, OtherKept DEF PurgeStep
  <1>4. ASSUME PurgeNext \/ ScheduleNext PROVE PurgeInv'
    BY <1>1, <1>3, <1>4, OtherKept, RunsStartKept, LogKept DEF PurgeNext, ScheduleNext
  <1> QED
    BY <1>1, <1>2, <1>4, LogKept DEF KeepNext, PurgesNext

(***************************************************************************)
(* While no hold is lifted, the log and its archives stay one verifiable   *)
(* record, with any number of purges at once, finished, failed or crashed  *)
(* between any two statements: a scan finds no break that a recorded range *)
(* does not explain, and every deleted row is in a finished archive.       *)
(***************************************************************************)
THEOREM PurgesExplained == KeepSpec => [](SeqNeverReused /\ VerifiableNow /\ DeletedIsArchived)
  <1>1. SeqInv /\ PurgeInv => SeqNeverReused /\ VerifiableNow /\ DeletedIsArchived
    BY PurgeVerifiable DEF SeqInv, LogOK, SeqNeverReused, PurgeInv, DeletedOK, DeletedIsArchived
  <1>2. SeqInv /\ PurgeInv /\ [KeepNext]_chainVars => SeqInv' /\ PurgeInv'
    BY SeqStep, PurgeInvStep DEF ChainNext
  <1> QED
    BY <1>1, <1>2, ChainInitSeq, PurgeInit, PTL DEF KeepSpec

-----------------------------------------------------------------------------
(***************************************************************************)
(* Verification in batches.  Without purges the log has every number, the  *)
(* batches are consecutive, and the row carried from one batch to the next *)
(* keeps its hash.                                                         *)
(***************************************************************************)
EveryRow(l, n) == \A i \in 1..n : \E r \in l : r.facts = i
Carried(l) ==
  /\ check.last \in Nat /\ (check.last > 0 => \E x \in l : x.seq = check.last)
  /\ \A p \in check.prev : p.seq = check.last /\ check.last > 0 /\ \E x \in l : x.seq = check.last /\ x.hash = p.hash

VerifyInv ==
  /\ SeqInv /\ EveryRow(log, wrote) /\ Carried(log) /\ deleted = {}
  /\ check.ok = "yes" /\ DOMAIN check = DOMAIN NoCheck

LEMMA LogFinite ==
  ASSUME NEW l, NEW n \in Nat, LogOK(l, n)
  PROVE  IsFiniteSet(l)
  <1> DEFINE f == [r \in l |-> r.facts]
  <1>1. f \in Injection(l, 1..n)
    BY DEF LogOK, Injection, IsInjective
  <1>2. IsFiniteSet(1..n)
    BY FS_Interval
  <1> HIDE DEF f
  <1> QED
    BY <1>1, <1>2, FS_Injection

LEMMA CarriedOver ==
  ASSUME NEW l, NEW k, NEW n \in Nat, LogOK(l, n), Rewritten(l, k), Carried(l)
  PROVE  Carried(k)
  <1>1. \A x \in l : \E y \in k : y.facts = x.facts /\ y.seq = x.seq /\ y.hash = x.hash
    BY DEF Rewritten, LogOK
  <1> QED
    BY <1>1 DEF Carried

LEMMA EveryRowRewritten ==
  ASSUME NEW l, NEW k, NEW n, EveryRow(l, n), Rewritten(l, k)
  PROVE  EveryRow(k, n)
  BY DEF EveryRow, Rewritten

LEMMA EveryRowAppended ==
  ASSUME NEW l, wrote \in Nat, LogOK(l, wrote), EveryRow(l, wrote), Carried(l)
  PROVE  EveryRow(l \cup {NextRow(l)}, wrote + 1) /\ Carried(l \cup {NextRow(l)})
  <1>1. NextRow(l).facts = wrote + 1
    BY DEF NextRow
  <1>2. \A i \in 1..(wrote + 1) : i \in 1..wrote \/ i = wrote + 1
    OBVIOUS
  <1> QED
    BY <1>1, <1>2 DEF EveryRow, Carried

LEMMA BatchHolds ==
  ASSUME VerifyInv, check.pc = "scan", VerifyBatch
  PROVE  VerifyInv'
  <1> DEFINE left  == {r \in log : r.seq > check.last}
             Upto(r) == {x \in left : x.seq <= r.seq}
             batch == {r \in left : Cardinality(Upto(r)) <= VERIFY_BATCH}
             Prev(r) == IF Before(batch, r) # {} THEN Before(batch, r) ELSE check.prev
  <1>s. /\ wrote \in Nat /\ check.last \in Nat
        /\ \A r \in log : r.seq \in 1..wrote /\ r.facts = r.seq /\ r.hash = <<r.seq, r.prev, r.facts>>
        /\ \A r, p \in log : r.seq = p.seq + 1 => r.prev = p.hash
        /\ \A i \in 1..wrote : \E r \in log : r.seq = i
    BY DEF VerifyInv, SeqInv, ChainShape, LogOK, EveryRow, Carried
  <1>1. \A r \in batch, x \in left : x.seq <= r.seq => x \in batch
    <2> TAKE r \in batch, x \in left
    <2> HAVE x.seq <= r.seq
    <2>1. IsFiniteSet(Upto(r))
      BY FS_Subset, LogFinite DEF VerifyInv, SeqInv, ChainShape
    <2>2. Upto(x) \subseteq Upto(r)
      BY <1>s
    <2>3. IsFiniteSet(Upto(x)) /\ Cardinality(Upto(x)) <= Cardinality(Upto(r))
      <3> HIDE DEF Upto
      <3> QED
        BY <2>1, <2>2, FS_Subset
    <2>4. Cardinality(Upto(x)) \in Nat /\ Cardinality(Upto(r)) \in Nat
      <3> HIDE DEF Upto
      <3> QED
        BY <2>1, <2>3, FS_CardinalityType
    <2>5. Cardinality(Upto(r)) <= VERIFY_BATCH
      OBVIOUS
    <2>6. Cardinality(Upto(x)) <= VERIFY_BATCH
      <3> HIDE DEF Upto
      <3> QED
        BY <2>3, <2>4, <2>5, BatchAssumption
    <2> QED
      BY <2>6
  <1>2. batch \subseteq left /\ left \subseteq log
    OBVIOUS
  <1>l. \A r : r \in left <=> r \in log /\ r.seq > check.last
    OBVIOUS
  <1>v. /\ IF batch = {} THEN check' = [check EXCEPT !.pc = "report"]
            ELSE IF \A r \in batch : RowHolds(check.ranges, Prev(r), r)
                 THEN check' = [check EXCEPT !.last = Newest(batch).seq, !.prev = {Newest(batch)}]
                 ELSE check' = [check EXCEPT !.pc = "report", !.ok = "no"]
        /\ UNCHANGED <<log, wrote, purgeVars>>
    BY DEF VerifyBatch
  <1> HIDE DEF left, batch
  <1>3. ASSUME NEW r \in batch PROVE RowHolds(check.ranges, Prev(r), r)
    <2>1. r.hash = computeHash(r.seq, r.prev, r.facts, r.name)
      BY <1>s, <1>2, <1>3 DEF computeHash
    <2>2. ASSUME NEW p \in Prev(r) PROVE r.seq = p.seq + 1 /\ r.prev = p.hash
      <3> DEFINE b == {x \in batch : x.seq < r.seq}
      <3>r. r \in log /\ r.seq \in 1..wrote /\ r.seq > check.last
        BY <1>s, <1>2, <1>l
      <3>1. CASE b # {}
        <4>1. p = Newest(b)
          BY <2>2, <3>1 DEF Before
        <4>2. \A x \in b : x.seq \in 0..wrote
          BY <1>s, <1>2
        <4>3. p \in b /\ \A x \in b : x.seq <= p.seq
          <5> HIDE DEF b
          <5> QED
            BY <1>s, <3>1, <4>1, <4>2, NewestIn
        <4>4. p \in log /\ p.seq \in 1..wrote /\ p.seq > check.last /\ p.seq < r.seq
          BY <1>s, <1>2, <1>l, <4>3
        <4>5. PICK y \in log : y.seq = r.seq - 1
          BY <1>s, <3>r, <4>4
        <4>6. y \in b
          BY <1>1, <1>s, <1>l, <3>r, <4>4, <4>5
        <4>7. r.seq = p.seq + 1
          BY <3>r, <4>3, <4>4, <4>5, <4>6
        <4> QED
          BY <1>s, <3>r, <4>4, <4>7
      <3>2. CASE b = {}
        <4>1. p \in check.prev
          BY <2>2, <3>2 DEF Before
        <4>2. p.seq = check.last /\ \E x \in log : x.seq = check.last /\ x.hash = p.hash
          BY <4>1 DEF VerifyInv, Carried
        <4>3. PICK y \in log : y.seq = check.last + 1
          BY <1>s, <3>r
        <4>4. y \in batch
          BY <1>1, <1>s, <1>l, <3>r, <4>3
        <4>5. r.seq = check.last + 1
          BY <1>s, <3>2, <3>r, <4>3, <4>4
        <4> QED
          BY <1>s, <3>r, <4>2, <4>5
      <3> QED
        BY <3>1, <3>2
    <2> HIDE DEF Prev
    <2> QED
      BY <2>1, <2>2 DEF RowHolds
  <1> HIDE DEF Prev
  <1>4. CASE batch = {}
    BY <1>v, <1>4 DEF VerifyInv, SeqInv, ChainShape, CutoffsPast, WorkersBusy, Cutoff, Carried, NoCheck
  <1>5. CASE batch # {}
    <2>1. \A r \in batch : r.seq \in 0..wrote
      BY <1>s, <1>2
    <2>2. Newest(batch) \in batch
      BY <1>s, <1>5, <2>1, NewestIn
    <2>3. Newest(batch) \in log /\ Newest(batch).seq \in Nat /\ Newest(batch).seq > 0
      BY <1>s, <1>2, <2>2
    <2>4. check' = [check EXCEPT !.last = Newest(batch).seq, !.prev = {Newest(batch)}]
      BY <1>v, <1>3, <1>5
    <2>5. /\ check'.last = Newest(batch).seq /\ check'.prev = {Newest(batch)} /\ check'.ok = "yes"
          /\ DOMAIN check' = DOMAIN NoCheck
      BY <2>4 DEF VerifyInv, NoCheck
    <2> QED
      BY <1>v, <2>3, <2>5 DEF VerifyInv, SeqInv, ChainShape, CutoffsPast, WorkersBusy, Cutoff, Carried
  <1> QED
    BY <1>4, <1>5

LEMMA VerifyStep ==
  ASSUME VerifyInv, [VerifyNext]_chainVars
  PROVE  VerifyInv'
  <1>s. SeqInv'
    BY SeqStep DEF VerifyInv, VerifyNext, ChainNext, KeepNext, PurgesNext, PurgeNext
  <1>w. wrote \in Nat /\ LogOK(log, wrote) /\ EveryRow(log, wrote) /\ Carried(log)
    BY DEF VerifyInv, SeqInv, ChainShape
  <1>1. ASSUME UNCHANGED chainVars PROVE VerifyInv'
    BY <1>s, <1>1 DEF VerifyInv, EveryRow, Carried
  <1>2. ASSUME Event PROVE VerifyInv'
    BY <1>s, <1>w, <1>2, EveryRowAppended DEF Event, record, VerifyInv, EveryRow, Carried
  <1>3. ASSUME anonymizeUser PROVE VerifyInv'
    <2>1. log' = Nameless(log) \cup {NextRow(Nameless(log))} /\ wrote' = wrote + 1 /\ UNCHANGED <<check, deleted>>
      BY <1>3 DEF anonymizeUser, Nameless
    <2>2. Rewritten(log, Nameless(log))
      BY <1>w, NamelessRewritten
    <2>3. LogOK(Nameless(log), wrote) /\ EveryRow(Nameless(log), wrote) /\ Carried(Nameless(log))
      BY <1>w, <2>2, RewrittenOK, EveryRowRewritten, CarriedOver
    <2>4. EveryRow(log', wrote') /\ Carried(log')
      BY <1>w, <2>1, <2>3, EveryRowAppended
    <2> QED
      BY <1>s, <2>1, <2>4 DEF VerifyInv, Carried
  <1>4. ASSUME NEW r \in log, setHold(r) \/ clearHold(r) PROVE VerifyInv'
    <2>1. Rewritten(log, log') /\ wrote' = wrote /\ UNCHANGED <<check, deleted>>
      BY <1>w, <1>4, HeldRewritten DEF setHold, clearHold
    <2>2. EveryRow(log', wrote) /\ Carried(log')
      BY <1>w, <2>1, EveryRowRewritten, CarriedOver
    <2> QED
      BY <1>s, <2>1, <2>2 DEF VerifyInv, Carried
  <1>5. ASSUME verifyIntegrity PROVE VerifyInv'
    BY <1>s, <1>5 DEF verifyIntegrity, VerifyInv, EveryRow, Carried, NoCheck
  <1>6. ASSUME VerifyBatch PROVE VerifyInv'
    BY <1>6, BatchHolds DEF VerifyBatch
  <1>7. ASSUME saveIntegrityRun PROVE VerifyInv'
    <2>1. log' = log \cup {NextRow(log)} /\ wrote' = wrote + 1 /\ check' = [NoCheck EXCEPT !.ok = check.ok] /\ deleted' = deleted
      BY <1>7 DEF saveIntegrityRun, auditSelf, record
    <2>2. EveryRow(log', wrote')
      BY <1>w, <2>1, EveryRowAppended
    <2> QED
      BY <1>s, <2>1, <2>2 DEF VerifyInv, Carried, NoCheck
  <1> QED
    BY <1>1, <1>2, <1>3, <1>4, <1>5, <1>6, <1>7 DEF VerifyNext

LEMMA EveryRowVerifiable == VerifyInv => VerifiableNow
  <1> SUFFICES ASSUME VerifyInv, NEW r \in log
               PROVE  RowHolds(purgedSeqRanges, Before(log, r), r)
    BY DEF VerifiableNow
  <1>s. /\ wrote \in Nat
        /\ \A x \in log : x.seq \in 1..wrote /\ x.facts = x.seq /\ x.hash = <<x.seq, x.prev, x.facts>>
        /\ \A x, p \in log : x.seq = p.seq + 1 => x.prev = p.hash
        /\ \A i \in 1..wrote : \E x \in log : x.seq = i
    BY DEF VerifyInv, SeqInv, ChainShape, LogOK, EveryRow
  <1>1. r.hash = computeHash(r.seq, r.prev, r.facts, r.name)
    BY <1>s DEF computeHash
  <1>2. ASSUME NEW p \in Before(log, r) PROVE r.seq = p.seq + 1 /\ r.prev = p.hash
    <2> DEFINE b == {x \in log : x.seq < r.seq}
    <2>1. b # {} /\ p = Newest(b)
      BY <1>2 DEF Before
    <2>2. \A x \in b : x.seq \in 0..wrote
      BY <1>s
    <2>3. p \in b /\ \A x \in b : x.seq <= p.seq
      <3> HIDE DEF b
      <3> QED
        BY <1>s, <2>1, <2>2, NewestIn
    <2>4. p \in log /\ p.seq \in 1..wrote /\ r.seq \in 1..wrote /\ p.seq < r.seq
      BY <1>s, <2>3
    <2>5. PICK y \in log : y.seq = r.seq - 1
      BY <1>s, <2>4
    <2>6. y.seq <= p.seq
      BY <1>s, <2>3, <2>4, <2>5
    <2>7. r.seq = p.seq + 1
      BY <1>s, <2>4, <2>5, <2>6
    <2> QED
      BY <1>s, <2>4, <2>7
  <1> QED
    BY <1>1, <1>2 DEF RowHolds

LEMMA PurgesKeepCheck ==
  ASSUME [PurgesNext]_chainVars
  PROVE  check' = check
  <1>1. ASSUME NEW w \in Purgers, PurgeStep(w) PROVE check' = check
    BY <1>1 DEF PurgeStep, OpenArchive, failRun, ScanBatch, ScanEnd, MarkArchived, SelectIds, DeleteBatch, DeleteFails,
                CompleteRun, AuditPurge, CrashPurge
  <1>2. ASSUME NEW w \in Purgers, NEW t \in ConfirmTokens, purgeOlderThan(w, t) \/ ClaimSchedule(w, t) PROVE check' = check
    BY <1>2 DEF purgeOlderThan, ClaimSchedule
  <1>3. ASSUME NEW w \in Purgers, runDueScheduledPurges(w) \/ ClaimLost(w) PROVE check' = check
    BY <1>3 DEF runDueScheduledPurges, ClaimLost
  <1>4. ASSUME NEW t, NEW c, previewPurge(t, c) PROVE check' = check
    BY <1>4 DEF previewPurge
  <1>5. ASSUME NEW c, schedulePurge(c) PROVE check' = check
    BY <1>5 DEF schedulePurge
  <1>6. ASSUME NEW r, setHold(r) PROVE check' = check
    BY <1>6 DEF setHold
  <1>7. ASSUME Event \/ cancelPurgeSchedule \/ anonymizeUser PROVE check' = check
    BY <1>7 DEF Event, cancelPurgeSchedule, anonymizeUser
  <1> QED
    BY <1>1, <1>2, <1>3, <1>4, <1>5, <1>6, <1>7 DEF PurgesNext, PurgeNext, ScheduleNext

(***************************************************************************)
(* The log and its archives stay one verifiable record.  Purges, requested *)
(* and scheduled, any number at once, leave no break when they finish,     *)
(* fail or die; and a verification in batches, beside writes, holds set    *)
(* and lifted, and anonymization, reports none.                            *)
(***************************************************************************)
THEOREM ChainVerifiable == PurgesSpec \/ VerifySpec => []ChainStaysVerifiable
  <1>1. PurgesSpec => []ChainStaysVerifiable
    <2>1. ChainInit => NoFalseAlarm
      BY DEF ChainInit, NoFalseAlarm, NoCheck
    <2>2. SeqInv /\ PurgeInv /\ NoFalseAlarm /\ [PurgesNext]_chainVars => SeqInv' /\ PurgeInv' /\ NoFalseAlarm'
      BY SeqStep, PurgeInvStep, PurgesKeepCheck DEF ChainNext, KeepNext, NoFalseAlarm
    <2>3. SeqInv /\ PurgeInv /\ NoFalseAlarm => ChainStaysVerifiable
      BY PurgeVerifiable DEF SeqInv, LogOK, SeqNeverReused, PurgeInv, DeletedOK, DeletedIsArchived, ChainStaysVerifiable
    <2> QED
      BY <2>1, <2>2, <2>3, ChainInitSeq, PurgeInit, PTL DEF PurgesSpec
  <1>2. VerifySpec => []ChainStaysVerifiable
    <2>1. ChainInit => VerifyInv
      BY ChainInitSeq DEF ChainInit, VerifyInv, EveryRow, Carried, NoCheck
    <2>2. VerifyInv => ChainStaysVerifiable
      BY EveryRowVerifiable DEF VerifyInv, SeqInv, LogOK, NoFalseAlarm, SeqNeverReused, DeletedIsArchived, ChainStaysVerifiable
    <2> QED
      BY <2>1, <2>2, VerifyStep, PTL DEF VerifySpec
  <1> QED
    BY <1>1, <1>2

-----------------------------------------------------------------------------
(***************************************************************************)
(* The readers of the log and its alert rules.  A rule counts as fired     *)
(* only while its cooldown lasts, and a claim is conditional on the        *)
(* cooldown being over; a read is answered after its audit row is written. *)
(***************************************************************************)
CONSTANTS Users, Admins, Areas, Filters, Workers, Jobs, Threshold, MAX_SAVED_FILTERS_PER_USER
VARIABLES entries, super, saved, alert, eval, fired, trigger, job, due, logged, delivered

Views == INSTANCE AuditViews WITH log <- entries

FiredInCooldown ==
  /\ DOMAIN alert = {"enabled", "last"} /\ fired \in {0, 1}
  /\ fired = 1 => alert.last = "recent" /\ alert.enabled # "none"

ViewsInv == FiredInCooldown /\ Views!NoUnloggedRead

LEMMA ViewsStep == ViewsInv /\ [Views!ViewsNext]_(Views!viewVars) => ViewsInv'
  <1> SUFFICES ASSUME ViewsInv, [Views!ViewsNext]_(Views!viewVars) PROVE ViewsInv'
    OBVIOUS
  <1> USE DEF ViewsInv, FiredInCooldown, Views!NoUnloggedRead
  <1>1. ASSUME UNCHANGED <<alert, fired, logged, delivered>> PROVE ViewsInv'
    BY <1>1
  <1>2. ASSUME UNCHANGED Views!alertVars, logged \subseteq logged', delivered' \subseteq delivered \cup logged' PROVE ViewsInv'
    BY <1>2 DEF Views!alertVars
  <1>3. CASE Views!RowStep
    BY <1>1, <1>3 DEF Views!RowStep, Views!write, Views!SetHold, Views!anonymizeUser, Views!ChangeRole,
       Views!alertVars, Views!accessVars
  <1>4. ASSUME NEW a, Views!ChangeRole(a) PROVE ViewsInv'
    BY <1>1, <1>4 DEF Views!ChangeRole, Views!alertVars, Views!accessVars
  <1>5. ASSUME NEW i, NEW u, NEW t, NEW a, NEW o, Views!write(i, u, t, a, o) PROVE ViewsInv'
    BY <1>1, <1>5 DEF Views!write, Views!alertVars, Views!accessVars
  <1>6. CASE Views!FilterStep
    <2>1. ASSUME NEW f, NEW r, Views!SaveFilter(f, r) PROVE ViewsInv'
      BY <1>1, <2>1 DEF Views!SaveFilter, Views!alertVars, Views!accessVars
    <2> HIDE DEF ViewsInv
    <2> QED
      BY <1>6, <2>1 DEF Views!FilterStep, Views!createSavedFilter, Views!updateSavedFilter, Views!deleteSavedFilter,
         Views!shareSavedFilter, Views!unshareSavedFilter
  <1>7. CASE Views!ReadNext
    <2>1. ASSUME NEW v, NEW what, Views!StartRead(v, what) PROVE ViewsInv'
      BY <1>1, <2>1 DEF Views!StartRead, Views!alertVars
    <2>2. ASSUME NEW r, Views!AnswerAudited(r) PROVE ViewsInv'
      BY <1>2, <2>2 DEF Views!AnswerAudited
    <2>3. ASSUME NEW v, NEW j, Views!startExportJob(v, j) PROVE ViewsInv'
      BY <1>2, <2>3 DEF Views!startExportJob, Views!SetJob
    <2>4. ASSUME NEW v, NEW j, Views!downloadExportJob(v, j) PROVE ViewsInv'
      BY <1>2, <2>4 DEF Views!downloadExportJob, Views!SetJob
    <2>5. ASSUME NEW v, NEW j, Views!getExportJob(v, j) \/ Views!execute(j) \/ Views!ExportDies(j) \/ Views!ExportAges(j)
          PROVE  ViewsInv'
      BY <1>2, <2>5 DEF Views!getExportJob, Views!execute, Views!ExportDies, Views!ExportAges, Views!SetJob
    <2>6. ASSUME NEW j, NEW st, Views!FinishExport(j, st) PROVE ViewsInv'
      BY <1>2, <2>6 DEF Views!FinishExport, Views!SetJob
    <2> HIDE DEF ViewsInv
    <2> QED
      BY <1>7, <2>1, <2>2, <2>3, <2>4, <2>5, <2>6 DEF Views!ReadNext, Views!findOne, Views!exportCsv, Views!listAllExports
  <1>8. CASE Views!AlertNext
    <2>1. CASE Views!createAlert \/ Views!deleteAlert
      BY <2>1 DEF Views!createAlert, Views!deleteAlert, Views!SetAlert, Views!NoAlert, Views!accessVars
    <2>2. ASSUME NEW e \in {"yes", "no"}, Views!setAlertEnabled(e) PROVE ViewsInv'
      BY <2>2 DEF Views!setAlertEnabled, Views!SetAlert, Views!accessVars
    <2>3. CASE Views!Cooldown
      BY <2>3 DEF Views!Cooldown, Views!accessVars
    <2>4. ASSUME NEW w \in Workers, Views!ClaimAlert(w) PROVE ViewsInv'
      BY <2>4 DEF Views!ClaimAlert, Views!accessVars
    <2>5. ASSUME NEW w \in Workers,
                 Views!evaluateAlerts(w) \/ Views!CreateTrigger(w) \/ Views!WorkerDies(w)
          PROVE  ViewsInv'
      BY <1>1, <2>5 DEF Views!evaluateAlerts, Views!CreateTrigger, Views!WorkerDies, Views!accessVars
    <2>6. CASE Views!acknowledgeTrigger
      BY <1>1, <2>6 DEF Views!acknowledgeTrigger, Views!accessVars
    <2> HIDE DEF ViewsInv
    <2> QED
      BY <1>5, <1>8, <2>1, <2>2, <2>3, <2>4, <2>5, <2>6 DEF Views!AlertNext
  <1>9. CASE UNCHANGED Views!viewVars
    BY <1>1, <1>9 DEF Views!viewVars
  <1> HIDE DEF ViewsInv
  <1> QED
    BY <1>3, <1>4, <1>5, <1>6, <1>7, <1>8, <1>9 DEF Views!ViewsNext, Views!ViewNext, Views!ShareNext

\* However many workers evaluate a rule, die in between, and however often it is disabled and
\* enabled, it fires at most once in a cooldown (evaluateAlerts); and whatever is delivered to a
\* reader has an audit row of that read, also when audit writes fail (findOne, exportCsv,
\* downloadExportJob).
THEOREM AlertsOnceReadsLogged == Views!ViewsSpec => [](Views!AlertOncePerCooldown /\ Views!NoUnloggedRead)
  <1>1. Views!ViewsInit => ViewsInv
    BY DEF Views!ViewsInit, Views!NoAlert, ViewsInv, FiredInCooldown, Views!NoUnloggedRead
  <1>2. ViewsInv => Views!AlertOncePerCooldown /\ Views!NoUnloggedRead
    BY DEF ViewsInv, FiredInCooldown, Views!AlertOncePerCooldown
  <1> QED
    BY <1>1, <1>2, ViewsStep, PTL DEF Views!ViewsSpec
=============================================================================
