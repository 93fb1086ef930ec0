---------------------------- MODULE PayoutProofs ----------------------------
(***************************************************************************)
(* Proofs about Payout, for any number of victims, transfers, concurrent   *)
(* senders and checkers.                                                   *)
(*                                                                         *)
(* The argument has three parts.  The row lock makes "no active transfer"  *)
(* stable from the moment a sender saw it until the sender commits         *)
(* (LockHeld, ClearSeen), which gives OneActivePerVictim.  And whatever a  *)
(* checker still holds is true of Chapa when it is applied (AnswersHold,   *)
(* which needs that a check only counts as aged once the sender is done),  *)
(* which gives MovedIsNotReleased.  And what a sender read of the balance  *)
(* bounds what it may record, so that the sums over the rows, which the    *)
(* lemmas of SumProofs take from one state to the next, stay within what   *)
(* was donated (NeverOverdrawn, MovedWithinDonations).                     *)
(***************************************************************************)
EXTENDS Payout, SumProofs, TLAPS

InTransaction == {"locked", "profile", "clear", "balance"}

\* Every identity a call in progress holds is one of an existing object.
References ==
    /\ \A w \in Workers :
         /\ worker[w].pc # "idle" => worker[w].victim \in Victims
         /\ worker[w].pc \in {"recorded", "waiting"} => worker[w].disb \in Disbursements
    /\ \A c \in Checkers :
         /\ check[c].pc # "idle" => check[c].disb \in Disbursements
         /\ check[c].pc = "answered" => check[c].answer \in CheckAnswer

\* A call inside the transaction holds the victim's row lock.
LockHeld ==
    \A w \in Workers : worker[w].pc \in InTransaction => rowLock[worker[w].victim] = w

\* What FindActive saw still holds until the transaction ends.
ClearSeen ==
    \A w \in Workers : worker[w].pc \in {"clear", "balance"} => ~HasActive(worker[w].victim)

\* What ReadProfile saw of pausing and blocking still holds, too.
PermittedSeen ==
    \A w \in Workers : worker[w].pc \in {"profile", "clear", "balance"} =>
        worker[w].victim \notin paused \cup blocked

\* Nobody knows of a row that does not exist yet.
FreshRows ==
    \A d \in Disbursements : disb[d].status = "none" =>
        /\ chapa[d] = "none"
        /\ \A w \in Workers : worker[w].disb # d
        /\ \A c \in Checkers : check[c].disb # d

\* A row is sent by the call that created it and by no other.
OneSender ==
    \A w, x \in Workers :
        worker[w].disb = worker[x].disb /\ worker[w].disb # None => w = x

\* A row that is about to be sent is unknown to Chapa and still active.
Unsent ==
    \A w \in Workers : worker[w].pc = "recorded" =>
        /\ chapa[worker[w].disb] = "none"
        /\ disb[worker[w].disb].status \in ACTIVE

\* A transfer that Chapa may still execute, or has executed, is not released.
LiveAtChapa ==
    \A d \in Disbursements :
        chapa[d] \in {"inTransit", "queued", "moved"} => disb[d].status \in ACTIVE \cup {"PAID"}

\* An answer that a checker has not applied yet is still true.
AnswersHold ==
    \A c \in Checkers : check[c].pc # "idle" =>
        /\ check[c].age = "aged" => SendOver(check[c].disb)
        /\ check[c].pc = "answered" =>
             LET s == chapa[check[c].disb] IN
             /\ check[c].answer = "success" => s \in {"moved", "reverted"}
             /\ check[c].answer = "failed" => s = "failed"
             /\ check[c].answer = "reverted" => s = "reverted"
             /\ check[c].answer = "4xx" /\ check[c].age = "aged" => s \in {"none", "lost", "refused"}

\* The inductive invariants: Locking for OneActivePerVictim and the action
\* properties, Sending (which builds on it) for MovedIsNotReleased.
Locking == ShapeOK /\ References /\ LockHeld /\ ClearSeen /\ PermittedSeen /\ OneActivePerVictim
Sending == FreshRows /\ OneSender /\ Unsent /\ LiveAtChapa /\ AnswersHold

-----------------------------------------------------------------------------
\* Ending a call frees the worker and its lock and touches no other call.
LEMMA LeaveEffect ==
    ASSUME ShapeOK, NEW w \in Workers, Leave(w)
    PROVE  /\ worker' \in [Workers -> WorkerState]
           /\ rowLock' \in [Victims -> Workers \cup {None}]
           /\ worker'[w] = IdleWorker
           /\ \A x \in Workers \ {w} : worker'[x] = worker[x]
           /\ \A v \in Victims : rowLock[v] # w => rowLock'[v] = rowLock[v]
<1>1. worker \in [Workers -> WorkerState] /\ rowLock \in [Victims -> Workers \cup {None}]
  BY DEF ShapeOK
<1>2. IdleWorker \in WorkerState
  BY DEF IdleWorker, WorkerState, WorkerPC
<1>q. QED
  BY <1>1, <1>2 DEF Leave

\* A guarded status change turns no finished row active, keeps the victim,
\* and never takes a row back to CREATED or from SUBMITTED to UNKNOWN.
Advances(d) ==
    /\ disb'[d].victim = disb[d].victim
    /\ disb[d].status \notin ACTIVE => disb'[d].status = disb[d].status
    /\ disb[d].status \in ACTIVE => disb'[d].status \in DisbursementStatus
    /\ disb'[d].status = "CREATED" => disb[d].status = "CREATED"
    /\ disb'[d].status = "UNKNOWN" => disb[d].status \in {"CREATED", "UNKNOWN"}

\* A guarded status change (updateMany) touches one row, its status only, and
\* never leaves PAID or FAILED.
LEMMA MoveStatusEffect ==
    ASSUME ShapeOK, NEW d \in Disbursements, NEW from \in SUBSET ACTIVE,
           NEW to \in DisbursementStatus \ {"CREATED"}, MoveStatus(d, from, to),
           to = "UNKNOWN" => from = {"CREATED"}
    PROVE  /\ disb' \in [Disbursements -> Row] /\ recent' \subseteq Disbursements
           /\ \A e \in Disbursements : Advances(e)
           /\ \A e \in Disbursements \ {d} : disb'[e] = disb[e]
           /\ disb'[d].status \in {disb[d].status, to}
<1>1. disb \in [Disbursements -> Row] /\ recent \subseteq Disbursements
  BY DEF ShapeOK
<1>2. CASE disb[d].status \in from
  <2>1. disb' = [disb EXCEPT ![d].status = to]
    BY <1>2 DEF MoveStatus
  <2>2. recent' \subseteq Disbursements
    BY <1>1, <1>2 DEF MoveStatus
  <2>3. disb' \in [Disbursements -> Row]
    BY <1>1, <2>1 DEF Row
  <2>4. disb'[d].status = to /\ disb'[d].victim = disb[d].victim
    BY <1>1, <2>1 DEF Row
  <2>5. \A e \in Disbursements \ {d} : disb'[e] = disb[e]
    BY <1>1, <2>1
  <2>6. \A e \in Disbursements : disb[e].status \in DisbursementStatus \cup {"none"}
    BY <1>1 DEF Row
  <2>7. \A e \in Disbursements : Advances(e)
    BY <1>2, <2>4, <2>5, <2>6 DEF Advances, ACTIVE, DisbursementStatus
  <2>q. QED
    BY <2>2, <2>3, <2>4, <2>5, <2>7
<1>3. CASE disb[d].status \notin from
  <2>1. disb' = disb /\ recent' = recent
    BY <1>3 DEF MoveStatus
  <2>2. \A e \in Disbursements : disb[e].status \in DisbursementStatus \cup {"none"}
    BY <1>1 DEF Row
  <2>q. QED
    BY <1>1, <2>1, <2>2 DEF Advances, ACTIVE, DisbursementStatus
<1>q. QED
  BY <1>2, <1>3

\* What applying a check can do to the rows.
LEMMA RecordAnswerEffect ==
    ASSUME ShapeOK, NEW d \in Disbursements, NEW answer \in CheckAnswer, NEW age,
           RecordAnswer(d, answer, age)
    PROVE  /\ disb' \in [Disbursements -> Row] /\ recent' \subseteq Disbursements
           /\ \A e \in Disbursements : Advances(e)
           /\ \A e \in Disbursements \ {d} : disb'[e] = disb[e]
           /\ answer = "success" => disb'[d].status \in {disb[d].status, "PAID"}
           /\ answer = "pending" => disb'[d].status \in {disb[d].status, "SUBMITTED"}
           /\ answer = "4xx" /\ age # "aged" => disb'[d].status = disb[d].status
<1>1. CASE answer = "success"
  <2>1. MoveStatus(d, ACTIVE, "PAID")
    BY <1>1 DEF RecordAnswer, MarkPaid
  <2>q. QED
    BY <1>1, <2>1, MoveStatusEffect DEF DisbursementStatus, ACTIVE
<1>2. CASE answer \in {"failed", "reverted"} \/ (answer = "4xx" /\ age = "aged")
  <2>1. MoveStatus(d, ACTIVE, "FAILED")
    BY <1>2 DEF RecordAnswer, MarkFailed
  <2>q. QED
    BY <1>2, <2>1, MoveStatusEffect DEF DisbursementStatus, ACTIVE
<1>3. CASE answer = "pending"
  <2>1. MoveStatus(d, {"CREATED", "UNKNOWN"}, "SUBMITTED")
    BY <1>3 DEF RecordAnswer
  <2>q. QED
    BY <1>3, <2>1, MoveStatusEffect DEF DisbursementStatus, ACTIVE
<1>4. CASE answer = "4xx" /\ age # "aged"
  <2>1. disb' = disb /\ recent' = recent
    BY <1>4 DEF RecordAnswer
  <2>2. disb \in [Disbursements -> Row] /\ recent \subseteq Disbursements
    BY DEF ShapeOK
  <2>3. \A e \in Disbursements : disb[e].status \in DisbursementStatus \cup {"none"}
    BY <2>2 DEF Row
  <2>q. QED
    BY <1>4, <2>1, <2>2, <2>3 DEF Advances, DisbursementStatus, ACTIVE
<1>q. QED
  BY <1>1, <1>2, <1>3, <1>4 DEF CheckAnswer

\* The variables keep their types.
LEMMA ShapeInductive ==
    ASSUME ShapeOK, References, [Next]_vars
    PROVE  ShapeOK'
<1>w. worker \in [Workers -> WorkerState]
  BY DEF ShapeOK
<1>c. check \in [Checkers -> CheckState]
  BY DEF ShapeOK
<1>1. ASSUME NEW w \in Workers, NEW v \in Victims, LockProfile(w, v) PROVE ShapeOK'
  <2>1. worker' = [worker EXCEPT ![w].pc = "locked", ![w].victim = v]
    BY <1>1 DEF LockProfile
  <2>2. worker' \in [Workers -> WorkerState]
    BY <1>w, <2>1 DEF WorkerState, WorkerPC
  <2>q. QED
    BY <1>1, <2>2 DEF LockProfile, ShapeOK, rows, profiles
<1>2. ASSUME NEW w \in Workers, ReadProfile(w) PROVE ShapeOK'
  <2>1. dest[worker[w].victim] \in Accounts \cup {None}
    BY <1>2 DEF ReadProfile, ShapeOK, References
  <2>2. worker' \in [Workers -> WorkerState]
    BY <1>2, <1>w, <2>1 DEF ReadProfile, WorkerState, WorkerPC
  <2>q. QED
    BY <1>2, <2>2 DEF ReadProfile, ShapeOK, rows, profiles
<1>3. ASSUME NEW w \in Workers, FindActive(w) PROVE ShapeOK'
  <2>2. worker' \in [Workers -> WorkerState]
    BY <1>3, <1>w DEF FindActive, WorkerState, WorkerPC
  <2>q. QED
    BY <1>3, <2>2 DEF FindActive, ShapeOK, rows, profiles
<1>4. ASSUME NEW w \in Workers, ReadRaised(w) PROVE ShapeOK'
  <2>1. raised[worker[w].victim] \in Nat
    BY <1>4 DEF ReadRaised, ShapeOK, References
  <2>2. worker' \in [Workers -> WorkerState]
    BY <1>4, <1>w, <2>1 DEF ReadRaised, WorkerState, WorkerPC
  <2>q. QED
    BY <1>4, <2>2 DEF ReadRaised, ShapeOK, rows, profiles
<1>5. ASSUME NEW w \in Workers, NEW d \in Disbursements, CreateTransfer(w, d) PROVE ShapeOK'
  <2>1. worker[w].victim \in Victims /\ worker[w].account \in Accounts \cup {None}
    BY <1>5, <1>w DEF CreateTransfer, References, WorkerState
  <2>2. worker' \in [Workers -> WorkerState]
    BY <1>5, <1>w DEF CreateTransfer, WorkerState, WorkerPC
  <2>3. disb' \in [Disbursements -> Row]
    <3>1. disb \in [Disbursements -> Row]
      BY DEF ShapeOK
    <3>q. QED
      BY <1>5, <2>1, <3>1 DEF CreateTransfer, Row, DisbursementStatus, ACTIVE
  <2>q. QED
    BY <1>5, <2>2, <2>3 DEF CreateTransfer, ShapeOK, rows, profiles
<1>6. ASSUME NEW w \in Workers, SkipPayout(w) PROVE ShapeOK'
  BY <1>6, LeaveEffect DEF SkipPayout, ShapeOK, rows, profiles
<1>7. ASSUME NEW w \in Workers, SendTransfer(w) PROVE ShapeOK'
  <2>2. worker' \in [Workers -> WorkerState]
    BY <1>7, <1>w DEF SendTransfer, WorkerState, WorkerPC
  <2>3. chapa' \in [Disbursements -> ChapaState]
    BY <1>7 DEF SendTransfer, ShapeOK, ChapaState
  <2>q. QED
    BY <1>7, <2>2, <2>3 DEF SendTransfer, ShapeOK, rows, profiles
<1>8. ASSUME NEW w \in Workers, TransferAccepted(w) PROVE ShapeOK'
  <2>1. worker[w].disb \in Disbursements
    BY <1>8 DEF TransferAccepted, References
  <2>2. disb' \in [Disbursements -> Row] /\ recent' \subseteq Disbursements
    BY <1>8, <2>1, MoveStatusEffect DEF TransferAccepted, MarkFailed,
       DisbursementStatus, ACTIVE
  <2>q. QED
    BY <1>8, <2>2, LeaveEffect DEF TransferAccepted, ShapeOK, rows, profiles
<1>9. ASSUME NEW w \in Workers, TransferRejected(w) PROVE ShapeOK'
  <2>1. worker[w].disb \in Disbursements
    BY <1>9 DEF TransferRejected, References
  <2>2. disb' \in [Disbursements -> Row] /\ recent' \subseteq Disbursements
    BY <1>9, <2>1, MoveStatusEffect DEF TransferRejected, MarkFailed,
       DisbursementStatus, ACTIVE
  <2>q. QED
    BY <1>9, <2>2, LeaveEffect DEF TransferRejected, ShapeOK, rows, profiles
<1>10. ASSUME NEW w \in Workers, TransferUncertain(w) PROVE ShapeOK'
  <2>1. worker[w].disb \in Disbursements
    BY <1>10 DEF TransferUncertain, References
  <2>2. disb' \in [Disbursements -> Row] /\ recent' \subseteq Disbursements
    BY <1>10, <2>1, MoveStatusEffect DEF TransferUncertain, MarkFailed,
       DisbursementStatus, ACTIVE
  <2>q. QED
    BY <1>10, <2>2, LeaveEffect DEF TransferUncertain, ShapeOK, rows, profiles
<1>11. ASSUME NEW w \in Workers, Crash(w) PROVE ShapeOK'
  BY <1>11, LeaveEffect DEF Crash, ShapeOK, rows, profiles
<1>12. ASSUME NEW c \in Checkers, NEW d \in Disbursements, NEW age \in {"fresh", "aged"}, BeginCheck(c, d, age)
        PROVE ShapeOK'
  <2>1. check' \in [Checkers -> CheckState]
    BY <1>12, <1>c DEF BeginCheck, CheckState, CheckAnswer, IdleCheck
  <2>q. QED
    BY <1>12, <2>1 DEF BeginCheck, ShapeOK, rows, profiles
<1>13. ASSUME NEW c \in Checkers, NEW a \in CheckAnswer, ChapaAnswers(c, a) PROVE ShapeOK'
  <2>1. check' \in [Checkers -> CheckState]
    BY <1>13, <1>c DEF ChapaAnswers, CheckState, CheckAnswer, IdleCheck
  <2>q. QED
    BY <1>13, <2>1 DEF ChapaAnswers, ShapeOK, rows, profiles
<1>14. ASSUME NEW c \in Checkers, GiveUpCheck(c) PROVE ShapeOK'
  <2>1. check' \in [Checkers -> CheckState]
    BY <1>14, <1>c DEF GiveUpCheck, CheckState, CheckAnswer, IdleCheck
  <2>q. QED
    BY <1>14, <2>1 DEF GiveUpCheck, ShapeOK, rows, profiles
<1>15. ASSUME NEW c \in Checkers, ApplyCheck(c) PROVE ShapeOK'
  <2>1. check' \in [Checkers -> CheckState]
    BY <1>15, <1>c DEF ApplyCheck, CheckState, IdleCheck
  <2>2. check[c].disb \in Disbursements /\ check[c].answer \in CheckAnswer
    BY <1>15 DEF ApplyCheck, References
  <2>3. disb' \in [Disbursements -> Row] /\ recent' \subseteq Disbursements
    BY <1>15, <2>2, RecordAnswerEffect DEF ApplyCheck
  <2>q. QED
    BY <1>15, <2>1, <2>3 DEF ApplyCheck, ShapeOK, rows, profiles
<1>16. ASSUME NEW d \in Disbursements, ApproveReadRow(d) PROVE ShapeOK'
  BY <1>16 DEF ApproveReadRow, ShapeOK, rows, profiles
<1>17. ASSUME NEW d \in Disbursements, ApproveReadProfile(d) PROVE ShapeOK'
  BY <1>17 DEF ApproveReadProfile, ShapeOK, rows, profiles
<1>18. ASSUME NEW d \in Disbursements, ApproveReadBalance(d) PROVE ShapeOK'
  BY <1>18 DEF ApproveReadBalance, ShapeOK, rows, profiles, ChapaState
<1>19. ASSUME NEW d \in Disbursements, DeliverRequest(d) PROVE ShapeOK'
  BY <1>19 DEF DeliverRequest, ShapeOK, rows, profiles, ChapaState
<1>20. ASSUME NEW d \in Disbursements, ChapaFails(d) PROVE ShapeOK'
  BY <1>20 DEF ChapaFails, ShapeOK, rows, profiles, ChapaState
<1>21. ASSUME NEW d \in Disbursements, ChapaReverts(d) PROVE ShapeOK'
  BY <1>21 DEF ChapaReverts, ShapeOK, rows, profiles, ChapaState
<1>22. ASSUME NEW d \in Disbursements, RetryWindowPasses(d) PROVE ShapeOK'
  BY <1>22 DEF RetryWindowPasses, ShapeOK, rows, profiles
<1>23. ASSUME NEW v \in Victims, Donate(v) PROVE ShapeOK'
  BY <1>23 DEF Donate, ShapeOK, rows, profiles
<1>24. ASSUME NEW v \in Victims, PausePayouts(v) PROVE ShapeOK'
  BY <1>24 DEF PausePayouts, ShapeOK, rows, profiles
<1>25. ASSUME NEW v \in Victims, ResumePayouts(v) PROVE ShapeOK'
  BY <1>25 DEF ResumePayouts, ShapeOK, rows, profiles
<1>26. ASSUME NEW v \in Victims, SetBlocked(v) PROVE ShapeOK'
  BY <1>26 DEF SetBlocked, ShapeOK, rows, profiles
<1>27. ASSUME NEW v \in Victims, EditCheckInFlight(v) PROVE ShapeOK'
  BY <1>27 DEF EditCheckInFlight, ShapeOK, rows, profiles
<1>28. ASSUME NEW v \in Victims, EditUpdateProfile(v) PROVE ShapeOK'
  BY <1>28 DEF EditUpdateProfile, ShapeOK, rows, profiles
<1>29. ASSUME NEW v \in Victims, EditConflict(v) PROVE ShapeOK'
  BY <1>29 DEF EditConflict, ShapeOK, rows, profiles
<1>30. ASSUME NEW v \in Victims, NEW a \in Accounts, EditUpsert(v, a) PROVE ShapeOK'
  BY <1>30 DEF EditUpsert, ShapeOK, rows, profiles
<1>31. ASSUME NEW v \in Victims, VerifyDestination(v) PROVE ShapeOK'
  BY <1>31 DEF VerifyDestination, ShapeOK, rows, profiles
<1>32. CASE UNCHANGED vars
  BY <1>32 DEF vars, ShapeOK, rows, profiles
<1>q. QED
  BY <1>1, <1>2, <1>3, <1>4, <1>5, <1>6, <1>7, <1>8, <1>9, <1>10, <1>11, <1>12, <1>13,
     <1>14, <1>15, <1>16, <1>17, <1>18, <1>19, <1>20, <1>21, <1>22, <1>23, <1>24, <1>25,
     <1>26, <1>27, <1>28, <1>29, <1>30, <1>31, <1>32
     DEF Next, RunForVictim, CheckDisbursement, ApproveTransfer, Provider, Admin

\* How one step of a call changes the calls' states.
Becomes(w, pc, victim, d) ==
    /\ worker'[w].pc = pc /\ worker'[w].victim = victim /\ worker'[w].disb = d
    /\ \A x \in Workers \ {w} : worker'[x] = worker[x]

\* A step of one runForVictim call leaves every other call as it was.
LEMMA WorkerEffect ==
    ASSUME ShapeOK, NEW w \in Workers
    PROVE  /\ \A v \in Victims : LockProfile(w, v) => Becomes(w, "locked", v, worker[w].disb)
           /\ ReadProfile(w) => Becomes(w, "profile", worker[w].victim, worker[w].disb)
           /\ FindActive(w) => Becomes(w, "clear", worker[w].victim, worker[w].disb)
           /\ ReadRaised(w) => Becomes(w, "balance", worker[w].victim, worker[w].disb)
           /\ \A d \in Disbursements :
                CreateTransfer(w, d) => Becomes(w, "recorded", worker[w].victim, d)
           /\ SendTransfer(w) => Becomes(w, "waiting", worker[w].victim, worker[w].disb)
           /\ Leave(w) => Becomes(w, "idle", None, None)
<1>1. worker \in [Workers -> WorkerState]
  BY DEF ShapeOK
<1>2. ASSUME NEW v \in Victims, LockProfile(w, v)
      PROVE  Becomes(w, "locked", v, worker[w].disb)
  <2>1. worker' = [worker EXCEPT ![w].pc = "locked", ![w].victim = v]
    BY <1>2 DEF LockProfile
  <2>q. QED
    BY <1>1, <2>1 DEF Becomes, WorkerState
<1>3. ReadProfile(w) => Becomes(w, "profile", worker[w].victim, worker[w].disb)
  BY <1>1 DEF ReadProfile, Becomes, WorkerState
<1>4. FindActive(w) => Becomes(w, "clear", worker[w].victim, worker[w].disb)
  BY <1>1 DEF FindActive, Becomes, WorkerState
<1>5. ReadRaised(w) => Becomes(w, "balance", worker[w].victim, worker[w].disb)
  BY <1>1 DEF ReadRaised, Becomes, WorkerState
<1>6. ASSUME NEW d \in Disbursements, CreateTransfer(w, d)
      PROVE  Becomes(w, "recorded", worker[w].victim, d)
  <2>1. worker' = [worker EXCEPT ![w].pc = "recorded", ![w].disb = d]
    BY <1>6 DEF CreateTransfer
  <2>q. QED
    BY <1>1, <2>1 DEF Becomes, WorkerState
<1>7. SendTransfer(w) => Becomes(w, "waiting", worker[w].victim, worker[w].disb)
  BY <1>1 DEF SendTransfer, Becomes, WorkerState
<1>8. Leave(w) => Becomes(w, "idle", None, None)
  BY LeaveEffect DEF Becomes, IdleWorker
<1>q. QED
  BY <1>2, <1>3, <1>4, <1>5, <1>6, <1>7, <1>8

\* Which actions change the calls, the checks, the rows and Chapa.
Leaves(w) == SkipPayout(w) \/ TransferAccepted(w) \/ TransferRejected(w)
                \/ TransferUncertain(w) \/ Crash(w)

\* Only the steps of runForVictim and a crash change the calls or the locks.
LEMMA WorkerCases ==
    ASSUME [Next]_vars
    PROVE  \/ UNCHANGED <<worker, rowLock>>
           \/ \E w \in Workers, v \in Victims : LockProfile(w, v)
           \/ \E w \in Workers, d \in Disbursements : CreateTransfer(w, d)
           \/ \E w \in Workers : ReadProfile(w) \/ FindActive(w) \/ ReadRaised(w)
                                   \/ SendTransfer(w) \/ Leaves(w)
<1>1. CASE UNCHANGED vars
  BY <1>1 DEF vars
<1>2. ASSUME NEW w \in Workers, RunForVictim(w) \/ Crash(w)
      PROVE  \/ \E v \in Victims : LockProfile(w, v)
             \/ \E d \in Disbursements : CreateTransfer(w, d)
             \/ ReadProfile(w) \/ FindActive(w) \/ ReadRaised(w) \/ SendTransfer(w) \/ Leaves(w)
  BY <1>2 DEF RunForVictim, Leaves
<1>3. ASSUME NEW c \in Checkers, CheckDisbursement(c) PROVE UNCHANGED <<worker, rowLock>>
  BY <1>3 DEF CheckDisbursement, BeginCheck, ChapaAnswers, GiveUpCheck, ApplyCheck
<1>4. ASSUME NEW d \in Disbursements, ApproveTransfer(d) \/ Provider(d) \/ RetryWindowPasses(d)
      PROVE  UNCHANGED <<worker, rowLock>>
  BY <1>4 DEF ApproveTransfer, ApproveReadRow, ApproveReadProfile, ApproveReadBalance, Provider,
              DeliverRequest, ChapaFails, ChapaReverts, RetryWindowPasses
<1>5. ASSUME NEW v \in Victims, Donate(v) \/ Admin(v) PROVE UNCHANGED <<worker, rowLock>>
  BY <1>5 DEF Donate, Admin, PausePayouts, ResumePayouts, SetBlocked, EditCheckInFlight,
              EditUpdateProfile, EditConflict, EditUpsert, VerifyDestination
<1>q. QED
  BY <1>1, <1>2, <1>3, <1>4, <1>5 DEF Next

\* Only the steps of checkDisbursement change the checks.
LEMMA CheckCases ==
    ASSUME [Next]_vars
    PROVE  UNCHANGED check \/ \E c \in Checkers : CheckDisbursement(c)
<1>1. CASE UNCHANGED vars
  BY <1>1 DEF vars
<1>2. ASSUME NEW w \in Workers, RunForVictim(w) \/ Crash(w) PROVE UNCHANGED check
  BY <1>2 DEF RunForVictim, LockProfile, ReadProfile, FindActive, ReadRaised, CreateTransfer,
              SkipPayout, SendTransfer, TransferAccepted, TransferRejected, TransferUncertain, Crash
<1>3. ASSUME NEW d \in Disbursements, ApproveTransfer(d) \/ Provider(d) \/ RetryWindowPasses(d)
      PROVE  UNCHANGED check
  BY <1>3 DEF ApproveTransfer, ApproveReadRow, ApproveReadProfile, ApproveReadBalance, Provider,
              DeliverRequest, ChapaFails, ChapaReverts, RetryWindowPasses
<1>4. ASSUME NEW v \in Victims, Donate(v) \/ Admin(v) PROVE UNCHANGED check
  BY <1>4 DEF Donate, Admin, PausePayouts, ResumePayouts, SetBlocked, EditCheckInFlight,
              EditUpdateProfile, EditConflict, EditUpsert, VerifyDestination
<1>q. QED
  BY <1>1, <1>2, <1>3, <1>4 DEF Next

\* Rows are created by CreateTransfer and otherwise only advance.
LEMMA RowCases ==
    ASSUME ShapeOK, References, [Next]_vars
    PROVE  \/ \E w \in Workers, d \in Disbursements : CreateTransfer(w, d)
           \/ \A d \in Disbursements : Advances(d)
<1>0. disb' = disb => \A d \in Disbursements : Advances(d)
  <2>1. \A d \in Disbursements : disb[d].status \in DisbursementStatus \cup {"none"}
    BY DEF ShapeOK, Row
  <2>q. QED
    BY <2>1 DEF Advances, DisbursementStatus, ACTIVE
<1>1. CASE UNCHANGED vars
  BY <1>0, <1>1 DEF vars, rows
<1>2. ASSUME NEW w \in Workers, RunForVictim(w) \/ Crash(w)
      PROVE  \/ \E d \in Disbursements : CreateTransfer(w, d)
             \/ \A d \in Disbursements : Advances(d)
  <2>1. CASE TransferAccepted(w) \/ TransferRejected(w) \/ TransferUncertain(w)
    <3>1. worker[w].disb \in Disbursements
      BY <2>1 DEF TransferAccepted, TransferRejected, TransferUncertain, References
    <3>q. QED
      BY <2>1, <3>1, MoveStatusEffect DEF TransferAccepted, TransferRejected, TransferUncertain,
         MarkFailed, DisbursementStatus, ACTIVE
  <2>2. CASE \/ \E v \in Victims : LockProfile(w, v)
             \/ ReadProfile(w) \/ FindActive(w) \/ ReadRaised(w)
             \/ SkipPayout(w) \/ SendTransfer(w) \/ Crash(w)
    <3>1. disb' = disb
      BY <2>2 DEF LockProfile, ReadProfile, FindActive, ReadRaised, SkipPayout, SendTransfer,
         Crash, rows
    <3>q. QED
      BY <1>0, <3>1
  <2>q. QED
    BY <1>2, <2>1, <2>2 DEF RunForVictim
<1>3. ASSUME NEW c \in Checkers, CheckDisbursement(c) PROVE \A d \in Disbursements : Advances(d)
  <2>1. CASE ApplyCheck(c)
    <3>1. check[c].disb \in Disbursements /\ check[c].answer \in CheckAnswer
      BY <2>1 DEF ApplyCheck, References
    <3>q. QED
      BY <2>1, <3>1, RecordAnswerEffect DEF ApplyCheck
  <2>2. CASE ~ApplyCheck(c)
    BY <1>0, <1>3, <2>2 DEF CheckDisbursement, BeginCheck, ChapaAnswers, GiveUpCheck, rows
  <2>q. QED
    BY <2>1, <2>2
<1>4. ASSUME NEW d \in Disbursements, ApproveTransfer(d) \/ Provider(d) \/ RetryWindowPasses(d)
      PROVE  disb' = disb
  BY <1>4 DEF ApproveTransfer, ApproveReadRow, ApproveReadProfile, ApproveReadBalance, Provider,
              DeliverRequest, ChapaFails, ChapaReverts, RetryWindowPasses, rows
<1>5. ASSUME NEW v \in Victims, Donate(v) \/ Admin(v) PROVE disb' = disb
  BY <1>5 DEF Donate, Admin, PausePayouts, ResumePayouts, SetBlocked, EditCheckInFlight,
              EditUpdateProfile, EditConflict, EditUpsert, VerifyDestination, rows
<1>q. QED
  BY <1>0, <1>1, <1>2, <1>3, <1>4, <1>5 DEF Next

\* The new row, and nothing else, is what CreateTransfer adds.
LEMMA CreateEffect ==
    ASSUME ShapeOK, NEW w \in Workers, NEW d \in Disbursements, CreateTransfer(w, d)
    PROVE  /\ disb[d].status = "none"
           /\ disb'[d].status = "CREATED" /\ disb'[d].victim = worker[w].victim
           /\ \A e \in Disbursements \ {d} : disb'[e] = disb[e]
<1>1. disb \in [Disbursements -> Row]
  BY DEF ShapeOK
<1>q. QED
  BY <1>1 DEF CreateTransfer

\* How one step of a check changes the checks' states.
Turns(c, pc, d, age, answer) ==
    /\ check'[c].pc = pc /\ check'[c].disb = d
    /\ check'[c].age = age /\ check'[c].answer = answer
    /\ \A x \in Checkers \ {c} : check'[x] = check[x]

\* A step of one checkDisbursement call leaves every other call as it was.
LEMMA CheckEffect ==
    ASSUME ShapeOK, NEW c \in Checkers
    PROVE  /\ \A d \in Disbursements, age \in {"fresh", "aged"} :
                BeginCheck(c, d, age) => Turns(c, "read", d, age, None)
           /\ \A a \in CheckAnswer :
                ChapaAnswers(c, a) => Turns(c, "answered", check[c].disb, check[c].age, a)
           /\ GiveUpCheck(c) \/ ApplyCheck(c) => Turns(c, "idle", None, "fresh", None)
<1>1. check \in [Checkers -> CheckState]
  BY DEF ShapeOK
<1>2. ASSUME NEW d \in Disbursements, NEW age \in {"fresh", "aged"}, BeginCheck(c, d, age)
      PROVE  Turns(c, "read", d, age, None)
  BY <1>1, <1>2 DEF BeginCheck, Turns
<1>3. ASSUME NEW a \in CheckAnswer, ChapaAnswers(c, a)
      PROVE  Turns(c, "answered", check[c].disb, check[c].age, a)
  <2>1. check' = [check EXCEPT ![c].pc = "answered", ![c].answer = a]
    BY <1>3 DEF ChapaAnswers
  <2>q. QED
    BY <1>1, <2>1 DEF Turns, CheckState
<1>4. GiveUpCheck(c) \/ ApplyCheck(c) => Turns(c, "idle", None, "fresh", None)
  BY <1>1 DEF GiveUpCheck, ApplyCheck, Turns, IdleCheck
<1>q. QED
  BY <1>2, <1>3, <1>4

\* The victim and the row a call works on always exist.
LEMMA ReferencesInductive ==
    ASSUME ShapeOK, References, [Next]_vars
    PROVE  References'
<1> DEFINE Good(x) == /\ worker'[x].pc # "idle" => worker'[x].victim \in Victims
                      /\ worker'[x].pc \in {"recorded", "waiting"} =>
                           worker'[x].disb \in Disbursements
<1>1. \A x \in Workers : Good(x)
  <2>1. CASE UNCHANGED <<worker, rowLock>>
    BY <2>1 DEF References
  <2>2. ASSUME NEW w \in Workers, NEW v \in Victims, LockProfile(w, v) PROVE \A x \in Workers : Good(x)
    BY <2>2, WorkerEffect DEF References, Becomes
  <2>3. ASSUME NEW w \in Workers, NEW d \in Disbursements, CreateTransfer(w, d)
        PROVE  \A x \in Workers : Good(x)
    <3>1. worker[w].victim \in Victims
      BY <2>3 DEF CreateTransfer, References
    <3>q. QED
      BY <2>3, <3>1, WorkerEffect DEF References, Becomes
  <2>4. ASSUME NEW w \in Workers, ReadProfile(w) \/ FindActive(w) \/ ReadRaised(w)
        PROVE  \A x \in Workers : Good(x)
    <3>1. worker[w].victim \in Victims
      BY <2>4 DEF ReadProfile, FindActive, ReadRaised, References
    <3>q. QED
      BY <2>4, <3>1, WorkerEffect DEF References, Becomes
  <2>5. ASSUME NEW w \in Workers, SendTransfer(w) PROVE \A x \in Workers : Good(x)
    <3>1. worker[w].victim \in Victims /\ worker[w].disb \in Disbursements
      BY <2>5 DEF SendTransfer, References
    <3>q. QED
      BY <2>5, <3>1, WorkerEffect DEF References, Becomes
  <2>6. ASSUME NEW w \in Workers, Leaves(w) PROVE \A x \in Workers : Good(x)
    <3>1. Leave(w)
      BY <2>6 DEF Leaves, SkipPayout, TransferAccepted, TransferRejected, TransferUncertain, Crash
    <3>q. QED
      BY <3>1, WorkerEffect DEF References, Becomes
  <2>q. QED
    BY <2>1, <2>2, <2>3, <2>4, <2>5, <2>6, WorkerCases
<1> DEFINE Known(x) == /\ check'[x].pc # "idle" => check'[x].disb \in Disbursements
                       /\ check'[x].pc = "answered" => check'[x].answer \in CheckAnswer
<1>2. \A x \in Checkers : Known(x)
  <2>1. CASE UNCHANGED check
    BY <2>1 DEF References
  <2>2. ASSUME NEW c \in Checkers, CheckDisbursement(c) PROVE \A x \in Checkers : Known(x)
    BY <2>2, CheckEffect DEF References, Turns, CheckDisbursement, ChapaAnswers
  <2>q. QED
    BY <2>1, <2>2, CheckCases
<1>q. QED
  BY <1>1, <1>2 DEF References

\* A call inside the transaction holds the row lock of its victim.
LEMMA LockInductive ==
    ASSUME ShapeOK, References, LockHeld, [Next]_vars
    PROVE  LockHeld'
<1> DEFINE Good(x) == worker'[x].pc \in InTransaction => rowLock'[worker'[x].victim] = x
<1>0. rowLock \in [Victims -> Workers \cup {None}]
  BY DEF ShapeOK
<1>1. CASE UNCHANGED <<worker, rowLock>>
  BY <1>1 DEF LockHeld
<1>2. ASSUME NEW w \in Workers, NEW v \in Victims, LockProfile(w, v) PROVE \A x \in Workers : Good(x)
  <2>1. Becomes(w, "locked", v, worker[w].disb)
    BY <1>2, WorkerEffect
  <2>2. rowLock' = [rowLock EXCEPT ![v] = w] /\ rowLock[v] = None
    BY <1>2 DEF LockProfile
  <2>q. QED
    BY <1>0, <2>1, <2>2, SentinelAssumption DEF LockHeld, Becomes, References, InTransaction
<1>3. ASSUME NEW w \in Workers, NEW d \in Disbursements, CreateTransfer(w, d)
      PROVE  \A x \in Workers : Good(x)
  <2>1. Becomes(w, "recorded", worker[w].victim, d)
    BY <1>3, WorkerEffect
  <2>2. rowLock' = [rowLock EXCEPT ![worker[w].victim] = None] /\ worker[w].pc = "balance"
    BY <1>3 DEF CreateTransfer
  <2>q. QED
    BY <1>0, <2>1, <2>2 DEF LockHeld, Becomes, References, InTransaction
<1>4. ASSUME NEW w \in Workers, ReadProfile(w) \/ FindActive(w) \/ ReadRaised(w)
      PROVE  \A x \in Workers : Good(x)
  <2>1. rowLock' = rowLock /\ worker[w].pc \in InTransaction
    BY <1>4 DEF ReadProfile, FindActive, ReadRaised, InTransaction
  <2>q. QED
    BY <1>4, <2>1, WorkerEffect DEF LockHeld, Becomes
<1>5. ASSUME NEW w \in Workers, SendTransfer(w) PROVE \A x \in Workers : Good(x)
  <2>1. rowLock' = rowLock
    BY <1>5 DEF SendTransfer
  <2>q. QED
    BY <1>5, <2>1, WorkerEffect DEF LockHeld, Becomes, InTransaction
<1>6. ASSUME NEW w \in Workers, Leaves(w) PROVE \A x \in Workers : Good(x)
  <2>1. Leave(w)
    BY <1>6 DEF Leaves, SkipPayout, TransferAccepted, TransferRejected, TransferUncertain, Crash
  <2>2. Becomes(w, "idle", None, None)
    BY <2>1, WorkerEffect
  <2>q. QED
    BY <2>1, <2>2, LeaveEffect DEF LockHeld, Becomes, References, InTransaction
<1>q. QED
  BY <1>1, <1>2, <1>3, <1>4, <1>5, <1>6, WorkerCases DEF LockHeld

\* The absence of an active transfer, read by FindActive, still holds when the
\* row is created: nobody else creates one under the lock.
LEMMA ClearSeenInductive ==
    ASSUME ShapeOK, References, LockHeld, ClearSeen, [Next]_vars
    PROVE  ClearSeen'
<1> SUFFICES ASSUME NEW x \in Workers, worker'[x].pc \in {"clear", "balance"},
                    NEW e \in Disbursements, disb'[e].victim = worker'[x].victim,
                    disb'[e].status \in ACTIVE
             PROVE  FALSE
  BY DEF ClearSeen, HasActive
<1> DEFINE KeepsOrFinds ==
         /\ worker'[x].victim = worker[x].victim
         /\ worker[x].pc \in {"clear", "balance"} \/ FindActive(x)
<1>1. KeepsOrFinds
  <2>1. CASE UNCHANGED <<worker, rowLock>>
    BY <2>1
  <2>2. ASSUME NEW w \in Workers, NEW v \in Victims, LockProfile(w, v) PROVE KeepsOrFinds
    BY <2>2, WorkerEffect DEF Becomes
  <2>3. ASSUME NEW w \in Workers, NEW d \in Disbursements, CreateTransfer(w, d) PROVE KeepsOrFinds
    BY <2>3, WorkerEffect DEF Becomes
  <2>4. ASSUME NEW w \in Workers, ReadProfile(w) \/ SendTransfer(w) \/ Leaves(w) PROVE KeepsOrFinds
    <3>1. Leaves(w) => Leave(w)
      BY DEF Leaves, SkipPayout, TransferAccepted, TransferRejected, TransferUncertain, Crash
    <3>q. QED
      BY <2>4, <3>1, WorkerEffect DEF Becomes
  <2>5. ASSUME NEW w \in Workers, FindActive(w) \/ ReadRaised(w) PROVE KeepsOrFinds
    <3>1. ReadRaised(w) => worker[w].pc = "clear"
      BY DEF ReadRaised
    <3>q. QED
      BY <2>5, <3>1, WorkerEffect DEF Becomes
  <2>q. QED
    BY <2>1, <2>2, <2>3, <2>4, <2>5, WorkerCases
<1>2. CASE FindActive(x)
  <2>1. ~HasActive(worker[x].victim) /\ disb' = disb
    BY <1>2 DEF FindActive, rows
  <2>2. worker'[x].victim = worker[x].victim
    BY <1>2, WorkerEffect DEF Becomes
  <2>q. QED
    BY <2>1, <2>2 DEF HasActive
<1>3. CASE worker'[x].victim = worker[x].victim /\ worker[x].pc \in {"clear", "balance"}
  <2>1. ~HasActive(worker[x].victim) /\ rowLock[worker[x].victim] = x
    BY <1>3 DEF ClearSeen, LockHeld, InTransaction
  <2>2. ASSUME NEW w \in Workers, NEW d \in Disbursements, CreateTransfer(w, d) PROVE FALSE
    <3>1. worker[w].pc = "balance" /\ rowLock[worker[w].victim] = w
      BY <2>2 DEF CreateTransfer, LockHeld, InTransaction
    <3>2. w # x
      BY <2>2, WorkerEffect DEF Becomes
    <3>3. worker[w].victim # worker[x].victim
      BY <2>1, <3>1, <3>2
    <3>q. QED
      BY <1>3, <2>1, <2>2, <3>3, CreateEffect DEF HasActive
  <2>3. ASSUME \A d \in Disbursements : Advances(d) PROVE FALSE
    BY <1>3, <2>1, <2>3 DEF Advances, HasActive
  <2>q. QED
    BY <2>2, <2>3, RowCases
<1>q. QED
  BY <1>1, <1>2, <1>3

\* Creating a row keeps at most one active transfer per victim.
LEMMA OneActiveInductive ==
    ASSUME ShapeOK, References, ClearSeen, OneActivePerVictim, [Next]_vars
    PROVE  OneActivePerVictim'
<1>1. ASSUME NEW w \in Workers, NEW d \in Disbursements, CreateTransfer(w, d)
      PROVE  OneActivePerVictim'
  <2>1. ~HasActive(worker[w].victim)
    BY <1>1 DEF CreateTransfer, ClearSeen
  <2>q. QED
    BY <1>1, <2>1, CreateEffect DEF OneActivePerVictim, HasActive
<1>2. ASSUME \A d \in Disbursements : Advances(d) PROVE OneActivePerVictim'
  BY <1>2 DEF Advances, OneActivePerVictim
<1>q. QED
  BY <1>1, <1>2, RowCases

\* The pause and block flags, read by ReadProfile, still hold until the commit:
\* their writers wait for the row lock.
LEMMA PermittedInductive ==
    ASSUME ShapeOK, References, LockHeld, PermittedSeen, [Next]_vars
    PROVE  PermittedSeen'
<1> DEFINE Barred == paused \cup blocked
<1>1. ASSUME UNCHANGED <<paused, blocked>> PROVE PermittedSeen'
  <2> DEFINE Good(x) == worker'[x].pc \in {"profile", "clear", "balance"} =>
                          worker'[x].victim \notin Barred
  <2>1. CASE UNCHANGED <<worker, rowLock>>
    BY <1>1, <2>1 DEF PermittedSeen
  <2>2. ASSUME NEW w \in Workers, NEW v \in Victims, LockProfile(w, v) PROVE \A x \in Workers : Good(x)
    BY <2>2, WorkerEffect DEF Becomes, PermittedSeen
  <2>3. ASSUME NEW w \in Workers, NEW d \in Disbursements, CreateTransfer(w, d)
        PROVE  \A x \in Workers : Good(x)
    BY <2>3, WorkerEffect DEF Becomes, PermittedSeen
  <2>4. ASSUME NEW w \in Workers, SendTransfer(w) \/ Leaves(w) PROVE \A x \in Workers : Good(x)
    <3>1. Leaves(w) => Leave(w)
      BY DEF Leaves, SkipPayout, TransferAccepted, TransferRejected, TransferUncertain, Crash
    <3>q. QED
      BY <2>4, <3>1, WorkerEffect DEF Becomes, PermittedSeen
  <2>5. ASSUME NEW w \in Workers, ReadProfile(w) \/ FindActive(w) \/ ReadRaised(w)
        PROVE  \A x \in Workers : Good(x)
    <3>1. worker[w].victim \notin Barred
      BY <2>5 DEF ReadProfile, MayPayOut, FindActive, ReadRaised, PermittedSeen
    <3>q. QED
      BY <2>5, <3>1, WorkerEffect DEF Becomes, PermittedSeen
  <2>q. QED
    BY <1>1, <2>1, <2>2, <2>3, <2>4, <2>5, WorkerCases DEF PermittedSeen
<1>2. ASSUME NEW v \in Victims, PausePayouts(v) \/ ResumePayouts(v) \/ SetBlocked(v)
      PROVE  PermittedSeen'
  <2>1. rowLock[v] = None /\ worker' = worker
    BY <1>2 DEF PausePayouts, ResumePayouts, SetBlocked
  <2>2. \A x \in Workers : worker[x].pc \in InTransaction => worker[x].victim # v
    BY <2>1, SentinelAssumption DEF LockHeld
  <2>3. (paused \cup blocked)' \subseteq Barred \cup {v}
    BY <1>2 DEF PausePayouts, ResumePayouts, SetBlocked
  <2>q. QED
    BY <2>1, <2>2, <2>3 DEF PermittedSeen, InTransaction
<1>3. \/ UNCHANGED <<paused, blocked>>
      \/ \E v \in Victims : PausePayouts(v) \/ ResumePayouts(v) \/ SetBlocked(v)
  <2>1. CASE UNCHANGED vars
    BY <2>1 DEF vars, profiles
  <2>2. ASSUME NEW w \in Workers, RunForVictim(w) \/ Crash(w) PROVE UNCHANGED <<paused, blocked>>
    BY <2>2 DEF RunForVictim, LockProfile, ReadProfile, FindActive, ReadRaised, CreateTransfer,
       SkipPayout, SendTransfer, TransferAccepted, TransferRejected, TransferUncertain, Crash,
       profiles
  <2>3. ASSUME NEW c \in Checkers, CheckDisbursement(c) PROVE UNCHANGED <<paused, blocked>>
    BY <2>3 DEF CheckDisbursement, BeginCheck, ChapaAnswers, GiveUpCheck, ApplyCheck, profiles
  <2>4. ASSUME NEW d \in Disbursements, ApproveTransfer(d) \/ Provider(d) \/ RetryWindowPasses(d)
        PROVE  UNCHANGED <<paused, blocked>>
    BY <2>4 DEF ApproveTransfer, ApproveReadRow, ApproveReadProfile, ApproveReadBalance,
       Provider, DeliverRequest, ChapaFails, ChapaReverts, RetryWindowPasses, profiles
  <2>5. ASSUME NEW v \in Victims, Donate(v) \/ Admin(v)
        PROVE  \/ UNCHANGED <<paused, blocked>>
               \/ PausePayouts(v) \/ ResumePayouts(v) \/ SetBlocked(v)
    BY <2>5 DEF Donate, Admin, EditCheckInFlight, EditUpdateProfile, EditConflict, EditUpsert,
       VerifyDestination
  <2>q. QED
    BY <2>1, <2>2, <2>3, <2>4, <2>5 DEF Next
<1>q. QED
  BY <1>1, <1>2, <1>3

\* The locking invariant holds initially.
LEMMA LockingInit == Init => Locking
<1> SUFFICES ASSUME Init PROVE Locking
  OBVIOUS
<1>1. ShapeOK
  BY DEF Init, ShapeOK, Row, WorkerState, WorkerPC, IdleWorker, CheckState, IdleCheck,
     ChapaState, DisbursementStatus
<1>2. References /\ LockHeld /\ ClearSeen /\ PermittedSeen
  BY DEF Init, References, LockHeld, ClearSeen, PermittedSeen, InTransaction, IdleWorker,
     IdleCheck
<1>3. OneActivePerVictim
  BY DEF Init, OneActivePerVictim, ACTIVE
<1>q. QED
  BY <1>1, <1>2, <1>3 DEF Locking

\* Every step keeps the locking invariant.
LEMMA LockingInductive == Locking /\ [Next]_vars => Locking'
  BY ShapeInductive, ReferencesInductive, LockInductive, ClearSeenInductive,
     PermittedInductive, OneActiveInductive DEF Locking

\* Whichever of the webhook, the timer and the admin button call runForVictim
\* at once, on however many instances, a victim never has two transfers that
\* may still move money.
THEOREM OneActive == Spec => []OneActivePerVictim
<1>1. Locking => OneActivePerVictim
  BY DEF Locking
<1>q. QED
  BY LockingInit, LockingInductive, <1>1, PTL DEF Spec

\* runForVictim never records a transfer for a profile that is paused, taken
\* down, on legal hold or deleted at the time of the commit.
THEOREM PauseRespected == Spec => NoTransferWhilePaused
<1> DEFINE Step == \A d \in Disbursements :
         disb[d].status = "none" /\ disb'[d].status = "CREATED" =>
             disb'[d].victim \notin paused \cup blocked
<1>1. Locking /\ [Next]_vars => Step
  <2> SUFFICES ASSUME Locking, [Next]_vars PROVE Step
    OBVIOUS
  <2>1. ASSUME NEW w \in Workers, NEW d \in Disbursements, CreateTransfer(w, d) PROVE Step
    <3>1. worker[w].victim \notin paused \cup blocked
      BY <2>1 DEF CreateTransfer, PermittedSeen, Locking
    <3>q. QED
      BY <2>1, <3>1, CreateEffect DEF Locking
  <2>2. ASSUME \A d \in Disbursements : Advances(d) PROVE Step
    BY <2>2 DEF Advances
  <2>q. QED
    BY <2>1, <2>2, RowCases DEF Locking
<1>q. QED
  BY LockingInit, LockingInductive, <1>1, PTL DEF Spec, NoTransferWhilePaused

\* PAID and FAILED are final, and no late answer takes a submitted transfer
\* back to CREATED or UNKNOWN.
THEOREM StatusForward == Spec => StatusMovesForward
<1> DEFINE Step == \A d \in Disbursements :
         /\ disb[d].status \in {"PAID", "FAILED"} => disb'[d].status = disb[d].status
         /\ disb[d].status = "SUBMITTED" => disb'[d].status \notin {"CREATED", "UNKNOWN"}
<1>1. Locking /\ [Next]_vars => Step
  <2> SUFFICES ASSUME Locking, [Next]_vars PROVE Step
    OBVIOUS
  <2>1. ASSUME NEW w \in Workers, NEW d \in Disbursements, CreateTransfer(w, d) PROVE Step
    BY <2>1, CreateEffect DEF Locking
  <2>2. ASSUME \A d \in Disbursements : Advances(d) PROVE Step
    BY <2>2 DEF Advances, ACTIVE
  <2>q. QED
    BY <2>1, <2>2, RowCases DEF Locking
<1>q. QED
  BY LockingInit, LockingInductive, <1>1, PTL DEF Spec, StatusMovesForward

-----------------------------------------------------------------------------
\* The second half: what Chapa knows, and the answers still to be applied.

\* Which steps change what Chapa knows of a transfer, and how.
LEMMA ChapaEffect ==
    ASSUME ShapeOK, References, [Next]_vars, NEW d \in Disbursements
    PROVE  \/ chapa'[d] = chapa[d]
           \/ chapa[d] = "inTransit" /\ chapa'[d] \in {"queued", "refused", "lost"}
           \/ chapa[d] = "queued" /\ chapa'[d] \in {"moved", "failed"}
           \/ chapa[d] = "moved" /\ chapa'[d] = "reverted"
           \/ chapa'[d] = "inTransit" /\ \E w \in Workers : SendTransfer(w) /\ worker[w].disb = d
<1> DEFINE Evolves == \/ chapa'[d] = chapa[d]
                      \/ chapa[d] = "inTransit" /\ chapa'[d] \in {"queued", "refused", "lost"}
                      \/ chapa[d] = "queued" /\ chapa'[d] \in {"moved", "failed"}
                      \/ chapa[d] = "moved" /\ chapa'[d] = "reverted"
<1>0. chapa \in [Disbursements -> ChapaState]
  BY DEF ShapeOK
<1>1. CASE UNCHANGED vars
  BY <1>1 DEF vars
<1>2. ASSUME NEW w \in Workers, SendTransfer(w)
      PROVE  chapa'[d] = chapa[d] \/ (chapa'[d] = "inTransit" /\ worker[w].disb = d)
  BY <1>0, <1>2 DEF SendTransfer
<1>3. ASSUME NEW w \in Workers, RunForVictim(w) \/ Crash(w), ~SendTransfer(w) PROVE chapa' = chapa
  BY <1>3 DEF RunForVictim, LockProfile, ReadProfile, FindActive, ReadRaised, CreateTransfer,
     SkipPayout, TransferAccepted, TransferRejected, TransferUncertain, Crash
<1>4. ASSUME NEW c \in Checkers, CheckDisbursement(c) PROVE chapa' = chapa
  BY <1>4 DEF CheckDisbursement, BeginCheck, ChapaAnswers, GiveUpCheck, ApplyCheck
<1>5. ASSUME NEW e \in Disbursements, ApproveTransfer(e) \/ Provider(e) \/ RetryWindowPasses(e)
      PROVE  Evolves
  BY <1>0, <1>5 DEF ApproveTransfer, ApproveReadRow, ApproveReadProfile, ApproveReadBalance,
     Provider, DeliverRequest, ChapaFails, ChapaReverts, RetryWindowPasses
<1>6. ASSUME NEW v \in Victims, Donate(v) \/ Admin(v) PROVE chapa' = chapa
  BY <1>6 DEF Donate, Admin, PausePayouts, ResumePayouts, SetBlocked, EditCheckInFlight,
     EditUpdateProfile, EditConflict, EditUpsert, VerifyDestination
<1>q. QED
  BY <1>1, <1>2, <1>3, <1>4, <1>5, <1>6 DEF Next

\* A call names a new row only by creating it.
LEMMA SenderEffect ==
    ASSUME ShapeOK, [Next]_vars, NEW x \in Workers
    PROVE  \/ /\ worker'[x].disb \in {worker[x].disb, None}
              /\ worker'[x].pc = "recorded" =>
                   worker[x].pc = "recorded" /\ worker'[x].disb = worker[x].disb
                     /\ ~SendTransfer(x)
           \/ \E d \in Disbursements : CreateTransfer(x, d) /\ worker'[x].disb = d
<1> DEFINE Keeps == /\ worker'[x].disb \in {worker[x].disb, None}
                    /\ worker'[x].pc = "recorded" =>
                         worker[x].pc = "recorded" /\ worker'[x].disb = worker[x].disb
                           /\ ~SendTransfer(x)
           Makes == \E d \in Disbursements : CreateTransfer(x, d) /\ worker'[x].disb = d
<1>0. SendTransfer(x) => worker'[x].pc # "recorded"
  BY WorkerEffect DEF Becomes
<1>1. CASE UNCHANGED <<worker, rowLock>>
  BY <1>0, <1>1
<1>2. ASSUME NEW w \in Workers, NEW v \in Victims, LockProfile(w, v) PROVE Keeps
  BY <1>0, <1>2, WorkerEffect DEF Becomes
<1>3. ASSUME NEW w \in Workers, NEW d \in Disbursements, CreateTransfer(w, d) PROVE Keeps \/ Makes
  <2>1. Becomes(w, "recorded", worker[w].victim, d)
    BY <1>3, WorkerEffect
  <2>2. CASE w = x
    BY <1>3, <2>1, <2>2 DEF Becomes
  <2>3. CASE w # x
    BY <1>0, <2>1, <2>3 DEF Becomes
  <2>q. QED
    BY <2>2, <2>3
<1>4. ASSUME NEW w \in Workers, ReadProfile(w) \/ FindActive(w) \/ ReadRaised(w) PROVE Keeps
  BY <1>0, <1>4, WorkerEffect DEF Becomes
<1>5. ASSUME NEW w \in Workers, SendTransfer(w) PROVE Keeps
  BY <1>0, <1>5, WorkerEffect DEF Becomes
<1>6. ASSUME NEW w \in Workers, Leaves(w) PROVE Keeps
  <2>1. Leave(w)
    BY <1>6 DEF Leaves, SkipPayout, TransferAccepted, TransferRejected, TransferUncertain, Crash
  <2>q. QED
    BY <1>0, <2>1, WorkerEffect DEF Becomes
<1>q. QED
  BY <1>1, <1>2, <1>3, <1>4, <1>5, <1>6, WorkerCases

\* A row that does not exist yet is unknown to Chapa, to callers and to checks.
LEMMA FreshRowsInductive ==
    ASSUME ShapeOK, References, FreshRows, [Next]_vars
    PROVE  FreshRows'
<1> SUFFICES ASSUME NEW d \in Disbursements, disb'[d].status = "none"
             PROVE  /\ chapa'[d] = "none"
                    /\ \A w \in Workers : worker'[w].disb # d
                    /\ \A c \in Checkers : check'[c].disb # d
  BY DEF FreshRows
<1>1. disb[d].status = "none"
  <2>1. ASSUME NEW w \in Workers, NEW e \in Disbursements, CreateTransfer(w, e)
        PROVE  disb[d].status = "none"
    BY <2>1, CreateEffect
  <2>2. ASSUME \A e \in Disbursements : Advances(e) PROVE disb[d].status = "none"
    BY <2>2 DEF Advances, ACTIVE, DisbursementStatus
  <2>q. QED
    BY <2>1, <2>2, RowCases
<1>2. /\ chapa[d] = "none"
      /\ \A w \in Workers : worker[w].disb # d
      /\ \A c \in Checkers : check[c].disb # d
  BY <1>1 DEF FreshRows
<1>3. chapa'[d] = "none"
  BY <1>2, ChapaEffect
<1>4. ASSUME NEW w \in Workers PROVE worker'[w].disb # d
  BY <1>2, SenderEffect, CreateEffect, SentinelAssumption
<1>5. ASSUME NEW c \in Checkers PROVE check'[c].disb # d
  <2>1. CASE UNCHANGED check
    BY <1>2, <2>1
  <2>2. ASSUME NEW x \in Checkers, CheckDisbursement(x) PROVE check'[c].disb # d
    <3>1. ASSUME NEW e \in Disbursements, NEW age \in {"fresh", "aged"}, BeginCheck(x, e, age)
          PROVE  check'[c].disb # d
      <4>1. e # d
        BY <1>1, <3>1 DEF BeginCheck, ACTIVE
      <4>q. QED
        BY <1>2, <3>1, <4>1, CheckEffect DEF Turns
    <3>2. ASSUME NEW a \in CheckAnswer, ChapaAnswers(x, a) PROVE check'[c].disb # d
      BY <1>2, <3>2, CheckEffect DEF Turns
    <3>3. CASE GiveUpCheck(x) \/ ApplyCheck(x)
      BY <1>2, <3>3, CheckEffect, SentinelAssumption DEF Turns
    <3>q. QED
      BY <2>2, <3>1, <3>2, <3>3 DEF CheckDisbursement
  <2>q. QED
    BY <2>1, <2>2, CheckCases
<1>q. QED
  BY <1>3, <1>4, <1>5

\* At most one call is sending a given transfer.
LEMMA OneSenderInductive ==
    ASSUME ShapeOK, References, FreshRows, OneSender, [Next]_vars
    PROVE  OneSender'
<1> SUFFICES ASSUME NEW w \in Workers, NEW x \in Workers,
                    worker'[w].disb = worker'[x].disb, worker'[w].disb # None
             PROVE  w = x
  BY DEF OneSender
<1>1. ASSUME NEW y \in Workers, NEW d \in Disbursements, CreateTransfer(y, d)
      PROVE  w = x
  <2>1. \A z \in Workers : worker[z].disb # d
    BY <1>1, CreateEffect DEF FreshRows
  <2>2. Becomes(y, "recorded", worker[y].victim, d)
    BY <1>1, WorkerEffect
  <2>q. QED
    BY <2>1, <2>2 DEF Becomes, OneSender
<1>2. ASSUME worker'[w].disb = worker[w].disb, worker'[x].disb = worker[x].disb PROVE w = x
  BY <1>2 DEF OneSender
<1>q. QED
  BY <1>1, <1>2, SenderEffect

\* A row stops being active only once Chapa's part is decided: it is marked
\* PAID after the money moved, and released when it cannot move any more.
LEMMA ReleaseEffect ==
    ASSUME ShapeOK, References, AnswersHold, [Next]_vars,
           NEW d \in Disbursements, disb[d].status \in ACTIVE, disb'[d].status \notin ACTIVE
    PROVE  /\ chapa' = chapa
           /\ chapa[d] \notin {"inTransit", "queued"}
           /\ chapa[d] = "moved" => disb'[d].status = "PAID"
           /\ chapa[d] = "none" => \A w \in Workers : worker[w].disb # d
<1> DEFINE Goal == /\ chapa' = chapa
                   /\ chapa[d] \notin {"inTransit", "queued"}
                   /\ chapa[d] = "moved" => disb'[d].status = "PAID"
                   /\ chapa[d] = "none" => \A w \in Workers : worker[w].disb # d
<1>1. CASE UNCHANGED vars
  BY <1>1 DEF vars, rows
<1>2. ASSUME NEW w \in Workers, RunForVictim(w) \/ Crash(w) PROVE Goal
  <2>1. CASE TransferRejected(w)
    <3>1. worker[w].disb \in Disbursements /\ chapa[worker[w].disb] = "refused" /\ chapa' = chapa
      BY <2>1 DEF TransferRejected, References
    <3>2. \A e \in Disbursements \ {worker[w].disb} : disb'[e] = disb[e]
      BY <2>1, <3>1, MoveStatusEffect DEF TransferRejected, MarkFailed, DisbursementStatus, ACTIVE
    <3>q. QED
      BY <3>1, <3>2
  <2>2. CASE TransferAccepted(w) \/ TransferUncertain(w)
    <3>1. worker[w].disb \in Disbursements
      BY <2>2 DEF TransferAccepted, TransferUncertain, References
    <3>2. \/ MoveStatus(worker[w].disb, {"CREATED"}, "SUBMITTED")
          \/ MoveStatus(worker[w].disb, {"CREATED"}, "UNKNOWN")
      BY <2>2 DEF TransferAccepted, TransferUncertain
    <3>3. /\ \A e \in Disbursements \ {worker[w].disb} : disb'[e] = disb[e]
          /\ disb'[worker[w].disb].status \in {disb[worker[w].disb].status, "SUBMITTED", "UNKNOWN"}
      BY <3>1, <3>2, MoveStatusEffect DEF DisbursementStatus, ACTIVE
    <3>q. QED
      BY <3>3 DEF ACTIVE
  <2>3. ASSUME NEW e \in Disbursements, CreateTransfer(w, e) PROVE Goal
    BY <2>3, CreateEffect DEF ACTIVE
  <2>4. CASE \/ \E v \in Victims : LockProfile(w, v)
             \/ ReadProfile(w) \/ FindActive(w) \/ ReadRaised(w)
             \/ SkipPayout(w) \/ SendTransfer(w) \/ Crash(w)
    BY <2>4 DEF LockProfile, ReadProfile, FindActive, ReadRaised, SkipPayout, SendTransfer,
       Crash, rows
  <2>q. QED
    BY <1>2, <2>1, <2>2, <2>3, <2>4 DEF RunForVictim
<1>3. ASSUME NEW c \in Checkers, CheckDisbursement(c) PROVE Goal
  <2>1. CASE ApplyCheck(c)
    <3>1. check[c].disb \in Disbursements /\ check[c].answer \in CheckAnswer /\ chapa' = chapa
      BY <2>1 DEF ApplyCheck, References
    <3>2. RecordAnswer(check[c].disb, check[c].answer, check[c].age)
      BY <2>1 DEF ApplyCheck
    <3>3. check[c].pc = "answered"
      BY <2>1 DEF ApplyCheck
    <3>4. check[c].disb = d
      BY <3>1, <3>2, RecordAnswerEffect
    <3>5. CASE check[c].answer = "success"
      BY <3>1, <3>2, <3>3, <3>4, <3>5, RecordAnswerEffect DEF AnswersHold, ACTIVE
    <3>6. CASE check[c].answer \in {"failed", "reverted"}
      BY <3>1, <3>3, <3>4, <3>6 DEF AnswersHold
    <3>7. CASE check[c].answer = "pending"
      BY <3>1, <3>2, <3>4, <3>7, RecordAnswerEffect DEF ACTIVE
    <3>8. CASE check[c].answer = "4xx"
      <4>1. check[c].age = "aged"
        BY <3>1, <3>2, <3>4, <3>8, RecordAnswerEffect
      <4>q. QED
        BY <3>1, <3>3, <3>4, <3>8, <4>1 DEF AnswersHold, SendOver
    <3>q. QED
      BY <3>1, <3>5, <3>6, <3>7, <3>8 DEF CheckAnswer
  <2>2. CASE ~ApplyCheck(c)
    BY <1>3, <2>2 DEF CheckDisbursement, BeginCheck, ChapaAnswers, GiveUpCheck, rows
  <2>q. QED
    BY <2>1, <2>2
<1>4. ASSUME NEW e \in Disbursements, ApproveTransfer(e) \/ Provider(e) \/ RetryWindowPasses(e)
      PROVE  disb' = disb
  BY <1>4 DEF ApproveTransfer, ApproveReadRow, ApproveReadProfile, ApproveReadBalance, Provider,
              DeliverRequest, ChapaFails, ChapaReverts, RetryWindowPasses, rows
<1>5. ASSUME NEW v \in Victims, Donate(v) \/ Admin(v) PROVE disb' = disb
  BY <1>5 DEF Donate, Admin, PausePayouts, ResumePayouts, SetBlocked, EditCheckInFlight,
              EditUpdateProfile, EditConflict, EditUpsert, VerifyDestination, rows
<1>q. QED
  BY <1>1, <1>2, <1>3, <1>4, <1>5 DEF Next

\* A recorded transfer has not been sent before its caller sends it.
LEMMA UnsentInductive ==
    ASSUME ShapeOK, References, FreshRows, OneSender, Unsent, AnswersHold, [Next]_vars
    PROVE  Unsent'
<1> SUFFICES ASSUME NEW w \in Workers, worker'[w].pc = "recorded"
             PROVE  /\ chapa'[worker'[w].disb] = "none"
                    /\ disb'[worker'[w].disb].status \in ACTIVE
  BY DEF Unsent
<1>1. ASSUME NEW d \in Disbursements, CreateTransfer(w, d), worker'[w].disb = d
      PROVE  chapa'[d] = "none" /\ disb'[d].status \in ACTIVE
  BY <1>1, CreateEffect DEF CreateTransfer, FreshRows, ACTIVE
<1>2. ASSUME worker[w].pc = "recorded", worker'[w].disb = worker[w].disb, ~SendTransfer(w)
      PROVE  chapa'[worker[w].disb] = "none" /\ disb'[worker[w].disb].status \in ACTIVE
  <2> DEFINE d == worker[w].disb
  <2>1. d \in Disbursements /\ d # None /\ chapa[d] = "none" /\ disb[d].status \in ACTIVE
    BY <1>2, SentinelAssumption DEF References, Unsent
  <2>2. \A x \in Workers : worker[x].disb = d => x = w
    BY <2>1 DEF OneSender
  <2>3. chapa'[d] = "none"
    BY <1>2, <2>1, <2>2, ChapaEffect
  <2>4. disb'[d].status \in ACTIVE
    BY <2>1, ReleaseEffect
  <2>q. QED
    BY <2>3, <2>4
<1>q. QED
  BY <1>1, <1>2, SenderEffect

\* A transfer Chapa may still execute is active in the database.
LEMMA LiveInductive ==
    ASSUME ShapeOK, References, Unsent, LiveAtChapa, AnswersHold, [Next]_vars
    PROVE  LiveAtChapa'
<1> SUFFICES ASSUME NEW d \in Disbursements, chapa'[d] \in {"inTransit", "queued", "moved"}
             PROVE  disb'[d].status \in ACTIVE \cup {"PAID"}
  BY DEF LiveAtChapa
<1>1. disb[d].status \in ACTIVE \cup {"PAID"}
  <2>1. CASE chapa[d] \in {"inTransit", "queued", "moved"}
    BY <2>1 DEF LiveAtChapa
  <2>2. ASSUME NEW w \in Workers, SendTransfer(w), worker[w].disb = d
        PROVE  disb[d].status \in ACTIVE
    BY <2>2 DEF SendTransfer, Unsent
  <2>q. QED
    BY <2>1, <2>2, ChapaEffect
<1>2. ASSUME NEW w \in Workers, NEW e \in Disbursements, CreateTransfer(w, e)
      PROVE  disb'[d].status \in ACTIVE \cup {"PAID"}
  BY <1>1, <1>2, CreateEffect DEF ACTIVE
<1>3. ASSUME \A e \in Disbursements : Advances(e)
      PROVE  disb'[d].status \in ACTIVE \cup {"PAID"}
  <2>1. CASE disb[d].status = "PAID"
    BY <1>3, <2>1 DEF Advances, ACTIVE
  <2>2. CASE disb[d].status \in ACTIVE
    BY <2>2, ReleaseEffect
  <2>q. QED
    BY <1>1, <2>1, <2>2
<1>q. QED
  BY <1>2, <1>3, RowCases

\* An answer or an aged read that a check still holds stays true until applied.
LEMMA AnswersInductive ==
    ASSUME ~Spurious4xx, ShapeOK, References, FreshRows, Unsent, AnswersHold, [Next]_vars
    PROVE  AnswersHold'
<1> DEFINE Over(d) == chapa'[d] # "inTransit" /\ \A w \in Workers : worker'[w].disb # d
           Good(x) == check'[x].pc # "idle" =>
             /\ check'[x].age = "aged" => Over(check'[x].disb)
             /\ check'[x].pc = "answered" =>
                  LET s == chapa'[check'[x].disb] IN
                  /\ check'[x].answer = "success" => s \in {"moved", "reverted"}
                  /\ check'[x].answer = "failed" => s = "failed"
                  /\ check'[x].answer = "reverted" => s = "reverted"
                  /\ check'[x].answer = "4xx" /\ check'[x].age = "aged" =>
                       s \in {"none", "lost", "refused"}
\* The end of the sending and everything definite Chapa says are stable.
<1>1. ASSUME NEW d \in Disbursements, disb[d].status # "none", SendOver(d) PROVE Over(d)
  <2>1. chapa[d] # "inTransit" /\ \A w \in Workers : worker[w].disb # d
    BY <1>1 DEF SendOver
  <2>2. chapa'[d] # "inTransit"
    BY <2>1, ChapaEffect
  <2>3. ASSUME NEW w \in Workers PROVE worker'[w].disb # d
    BY <1>1, <2>1, SenderEffect, CreateEffect, SentinelAssumption
  <2>q. QED
    BY <2>2, <2>3
<1>2. ASSUME NEW d \in Disbursements
      PROVE  /\ chapa[d] \in {"moved", "reverted"} => chapa'[d] \in {"moved", "reverted"}
             /\ chapa[d] \in {"failed", "reverted"} => chapa'[d] = chapa[d]
             /\ chapa[d] \in {"none", "lost", "refused"} /\ SendOver(d) => chapa'[d] = chapa[d]
  <2>1. ASSUME NEW w \in Workers, SendTransfer(w), worker[w].disb = d
        PROVE  chapa[d] = "none" /\ ~SendOver(d)
    BY <2>1 DEF SendTransfer, Unsent, SendOver
  <2>q. QED
    BY <2>1, ChapaEffect
<1>3. ASSUME NEW x \in Checkers, check'[x] = check[x] PROVE Good(x)
  <2>1. CASE check[x].pc = "idle"
    BY <1>3, <2>1
  <2>2. CASE check[x].pc # "idle"
    <3>1. check[x].disb \in Disbursements /\ disb[check[x].disb].status # "none"
      BY <2>2 DEF References, FreshRows
    <3>2. check[x].age = "aged" => SendOver(check[x].disb)
      BY <2>2 DEF AnswersHold
    <3>3. check[x].age = "aged" => Over(check[x].disb)
      BY <1>1, <3>1, <3>2
    <3>4. check[x].pc = "answered" =>
            LET s == chapa'[check[x].disb] IN
            /\ check[x].answer = "success" => s \in {"moved", "reverted"}
            /\ check[x].answer = "failed" => s = "failed"
            /\ check[x].answer = "reverted" => s = "reverted"
            /\ check[x].answer = "4xx" /\ check[x].age = "aged" => s \in {"none", "lost", "refused"}
      BY <1>2, <2>2, <3>1, <3>2 DEF AnswersHold
    <3>q. QED
      BY <1>3, <3>3, <3>4
  <2>q. QED
    BY <2>1, <2>2
<1>4. ASSUME NEW c \in Checkers, NEW d \in Disbursements, NEW age \in {"fresh", "aged"},
             BeginCheck(c, d, age)
      PROVE  Good(c)
  <2>1. disb[d].status # "none" /\ (age = "aged" => SendOver(d))
    BY <1>4 DEF BeginCheck, ACTIVE
  <2>2. Turns(c, "read", d, age, None)
    BY <1>4, CheckEffect
  <2>q. QED
    BY <1>1, <2>1, <2>2 DEF Turns
<1>5. ASSUME NEW c \in Checkers, NEW a \in CheckAnswer, ChapaAnswers(c, a) PROVE Good(c)
  <2> DEFINE d == check[c].disb
  <2>1. check[c].pc = "read" /\ a \in VerifyTransfer(d) /\ chapa' = chapa
    BY <1>5 DEF ChapaAnswers
  <2>2. d \in Disbursements /\ disb[d].status # "none" /\ (check[c].age = "aged" => SendOver(d))
    BY <2>1 DEF References, FreshRows, AnswersHold
  <2>3. Turns(c, "answered", d, check[c].age, a)
    BY <1>5, CheckEffect
  <2>4. check[c].age = "aged" => Over(d)
    BY <1>1, <2>2
  <2>5. chapa[d] \in ChapaState
    BY <2>2 DEF ShapeOK
  <2>6. /\ a = "success" => chapa[d] \in {"moved", "reverted"}
        /\ a = "failed" => chapa[d] = "failed"
        /\ a = "reverted" => chapa[d] = "reverted"
        /\ a = "4xx" /\ check[c].age = "aged" => chapa[d] \in {"none", "lost", "refused"}
    BY <2>1, <2>2, <2>5 DEF VerifyTransfer, ChapaState, SendOver
  <2>q. QED
    BY <2>1, <2>3, <2>4, <2>6 DEF Turns
<1>6. ASSUME NEW c \in Checkers, GiveUpCheck(c) \/ ApplyCheck(c) PROVE Good(c)
  BY <1>6, CheckEffect DEF Turns
<1>7. ASSUME NEW c \in Checkers, CheckDisbursement(c) PROVE \A x \in Checkers : Good(x)
  <2>1. \A x \in Checkers \ {c} : check'[x] = check[x]
    BY <1>7, CheckEffect DEF CheckDisbursement, Turns
  <2>2. Good(c)
    BY <1>4, <1>5, <1>6, <1>7 DEF CheckDisbursement
  <2>q. QED
    BY <1>3, <2>1, <2>2
<1>8. \A x \in Checkers : Good(x)
  BY <1>3, <1>7, CheckCases
<1>q. QED
  BY <1>8 DEF AnswersHold, SendOver

\* The sending invariant holds initially.
LEMMA SendingInit == Init => Sending
  BY SentinelAssumption DEF Init, Sending, FreshRows, OneSender, Unsent, LiveAtChapa, AnswersHold, IdleWorker,
     IdleCheck

\* Every step keeps the sending invariant when a 4xx always means "no record".
LEMMA SendingInductive ==
    ASSUME ~Spurious4xx
    PROVE  Locking /\ Sending /\ [Next]_vars => Sending'
  BY FreshRowsInductive, OneSenderInductive, UnsentInductive, LiveInductive, AnswersInductive
     DEF Locking, Sending

\* If Chapa answers 4xx only about transfers it has no record of, then a
\* transfer whose money has moved is never released for a second attempt,
\* whatever crashes, lost replies and late answers happen.
THEOREM MovedNotReleased == ASSUME ~Spurious4xx PROVE Spec => []MovedIsNotReleased
<1>1. Init => Locking /\ Sending
  BY LockingInit, SendingInit
<1>2. Locking /\ Sending /\ [Next]_vars => (Locking /\ Sending)'
  BY LockingInductive, SendingInductive
<1>3. Locking /\ Sending => MovedIsNotReleased
  BY DEF Sending, LiveAtChapa, MovedIsNotReleased
<1>q. QED
  BY <1>1, <1>2, <1>3, PTL DEF Spec

-----------------------------------------------------------------------------
(***************************************************************************)
(* The money: what the rows commit never exceeds what was donated.         *)
(***************************************************************************)
\* The rows whose amount getBalance counts as sent or on the way
Committed(v) == {d \in Disbursements :
                    disb[d].victim = v /\ disb[d].status \in ACTIVE \cup {"PAID"}}

\* The donations a sender read are still there when it records the transfer.
RaisedSeen ==
    \A w \in Workers : worker[w].pc = "balance" => worker[w].raised <= raised[worker[w].victim]

Money == amount \in [Disbursements -> Nat] /\ RaisedSeen /\ NeverOverdrawn

\* The sums over two disjoint sets of rows add up, for any amounts m.
LEMMA SplitSum ==
    ASSUME NEW m \in [Disbursements -> Nat],
           NEW P \in SUBSET Disbursements, NEW A \in SUBSET Disbursements, P \cap A = {}
    PROVE  /\ SumOver(m, P) + SumOver(m, A) = SumOver(m, P \cup A)
           /\ SumOver(m, P \cup A) \in Nat
<1>1. IsFiniteSet(P) /\ IsFiniteSet(A)
  BY FiniteAssumption, FS_Subset
<1>2. /\ \A d \in P \cup A : m[d] \in Nat
      /\ \A d \in P : m[d] \in Nat
      /\ \A d \in A : m[d] \in Nat
  OBVIOUS
<1>3. SumOver(m, P) \in Nat /\ SumOver(m, A) \in Nat
  BY <1>1, <1>2, SumNat
<1>4. SumOver(m, P \cup A) = SumOver(m, P) + SumOver(m, A)
  BY <1>1, <1>2, SumUnion
<1>q. QED
  BY <1>3, <1>4

LEMMA BalanceIsSum ==
    ASSUME NEW v
    PROVE  /\ amount \in [Disbursements -> Nat] =>
                /\ Sent(v) + OnTheWay(v) = SumOver(amount, Committed(v))
                /\ SumOver(amount, Committed(v)) \in Nat
           /\ amount' \in [Disbursements -> Nat] =>
                /\ Sent(v)' + OnTheWay(v)' = SumOver(amount', Committed(v)')
                /\ SumOver(amount', Committed(v)') \in Nat
<1>1. ASSUME amount \in [Disbursements -> Nat]
      PROVE  /\ Sent(v) + OnTheWay(v) = SumOver(amount, Committed(v))
             /\ SumOver(amount, Committed(v)) \in Nat
  <2> DEFINE P == {d \in Disbursements : disb[d].victim = v /\ disb[d].status \in {"PAID"}}
             A == {d \in Disbursements : disb[d].victim = v /\ disb[d].status \in ACTIVE}
  <2>1. Sent(v) = SumOver(amount, P) /\ OnTheWay(v) = SumOver(amount, A)
    BY DEF Sent, OnTheWay, AmountIn
  <2>2. /\ P \subseteq Disbursements /\ A \subseteq Disbursements /\ P \cap A = {}
        /\ P \cup A = Committed(v)
    BY DEF Committed, ACTIVE
  <2>3. /\ SumOver(amount, P) + SumOver(amount, A) = SumOver(amount, Committed(v))
        /\ SumOver(amount, Committed(v)) \in Nat
    <3> HIDE DEF P, A
    <3>1. /\ SumOver(amount, P) + SumOver(amount, A) = SumOver(amount, P \cup A)
          /\ SumOver(amount, P \cup A) \in Nat
      BY <1>1, <2>2, SplitSum
    <3>q. QED
      BY <2>2, <3>1, Zenon
  <2>q. QED
    BY <2>1, <2>3
<1>2. ASSUME amount' \in [Disbursements -> Nat]
      PROVE  /\ Sent(v)' + OnTheWay(v)' = SumOver(amount', Committed(v)')
             /\ SumOver(amount', Committed(v)') \in Nat
  <2> DEFINE P == {d \in Disbursements : disb'[d].victim = v /\ disb'[d].status \in {"PAID"}}
             A == {d \in Disbursements : disb'[d].victim = v /\ disb'[d].status \in ACTIVE}
  <2>1. Sent(v)' = SumOver(amount', P) /\ OnTheWay(v)' = SumOver(amount', A)
    BY DEF Sent, OnTheWay, AmountIn
  <2>2. /\ P \subseteq Disbursements /\ A \subseteq Disbursements /\ P \cap A = {}
        /\ P \cup A = Committed(v)'
    BY DEF Committed, ACTIVE
  <2>3. /\ SumOver(amount', P) + SumOver(amount', A) = SumOver(amount', Committed(v)')
        /\ SumOver(amount', Committed(v)') \in Nat
    <3> HIDE DEF P, A
    <3>1. /\ SumOver(amount', P) + SumOver(amount', A) = SumOver(amount', P \cup A)
          /\ SumOver(amount', P \cup A) \in Nat
      BY <1>2, <2>2, SplitSum
    <3>q. QED
      BY <2>2, <3>1, Zenon
  <2>q. QED
    BY <2>1, <2>3
<1>q. QED
  BY <1>1, <1>2

\* Only a new row has a new amount; donations only grow.
LEMMA AmountCases ==
    ASSUME ShapeOK, References, [Next]_vars
    PROVE  /\ \/ \E w \in Workers, d \in Disbursements : CreateTransfer(w, d)
              \/ UNCHANGED amount /\ \A d \in Disbursements : Advances(d)
           /\ \A v \in Victims : raised'[v] >= raised[v] /\ raised'[v] \in Nat
<1>1. CASE UNCHANGED vars
  BY <1>1, RowCases DEF vars, rows, profiles, ShapeOK, CreateTransfer
<1>2. ASSUME NEW w \in Workers, RunForVictim(w) \/ Crash(w)
      PROVE  /\ (\E d \in Disbursements : CreateTransfer(w, d)) \/ UNCHANGED amount
             /\ UNCHANGED raised
  BY <1>2 DEF RunForVictim, LockProfile, ReadProfile, FindActive, ReadRaised, CreateTransfer,
              SkipPayout, SendTransfer, TransferAccepted, TransferRejected, TransferUncertain, Crash,
              rows, profiles
<1>3. ASSUME NEW c \in Checkers, CheckDisbursement(c) PROVE UNCHANGED <<amount, raised>>
  BY <1>3 DEF CheckDisbursement, BeginCheck, ChapaAnswers, GiveUpCheck, ApplyCheck, rows, profiles
<1>4. ASSUME NEW d \in Disbursements, ApproveTransfer(d) \/ Provider(d) \/ RetryWindowPasses(d)
      PROVE  UNCHANGED <<amount, raised>>
  BY <1>4 DEF ApproveTransfer, ApproveReadRow, ApproveReadProfile, ApproveReadBalance, Provider,
              DeliverRequest, ChapaFails, ChapaReverts, RetryWindowPasses, rows, profiles
<1>5. ASSUME NEW v \in Victims, Admin(v) PROVE UNCHANGED <<amount, raised>>
  BY <1>5 DEF Admin, PausePayouts, ResumePayouts, SetBlocked, EditCheckInFlight,
              EditUpdateProfile, EditConflict, EditUpsert, VerifyDestination, rows
<1>6. ASSUME NEW v \in Victims, Donate(v)
      PROVE  UNCHANGED amount /\ raised' = [raised EXCEPT ![v] = @ + 1]
  BY <1>6 DEF Donate, rows
<1>7. /\ (\E w \in Workers, d \in Disbursements : CreateTransfer(w, d)) \/ UNCHANGED amount
      /\ UNCHANGED raised \/ \E v \in Victims : raised' = [raised EXCEPT ![v] = @ + 1]
  BY <1>1, <1>2, <1>3, <1>4, <1>5, <1>6 DEF Next, vars, rows, profiles
<1>8. \A v \in Victims : raised'[v] >= raised[v] /\ raised'[v] \in Nat
  BY <1>7 DEF ShapeOK
<1>q. QED
  BY <1>7, <1>8, RowCases

\* Recording a transfer adds its amount, and exactly that, to its victim's committed sum.
LEMMA CreateAdds ==
    ASSUME ShapeOK, References, Money, NEW w \in Workers, NEW d \in Disbursements,
           CreateTransfer(w, d), NEW u, u = worker[w].victim
    PROVE  /\ amount' \in [Disbursements -> Nat]
           /\ \A v \in Victims \ {u} : SumOver(amount', Committed(v)') = SumOver(amount, Committed(v))
           /\ SumOver(amount', Committed(u)') <= raised[u]
<1> DEFINE seen == worker[w].raised
           sum == SumOver(amount, Committed(u))
           unsent == Waiting(u, seen)
<1>1. u \in Victims /\ seen \in Nat /\ raised[u] \in Nat /\ seen <= raised[u]
  BY DEF CreateTransfer, References, ShapeOK, WorkerState, Money, RaisedSeen
<1>2. /\ sum \in Nat /\ sum <= raised[u]
      /\ unsent = IF seen < sum THEN 0 ELSE seen - sum
  BY <1>1, BalanceIsSum DEF Money, NeverOverdrawn, Waiting
<1> HIDE DEF seen, sum, unsent
<1>3. unsent \in Nat /\ sum + unsent <= raised[u]
  BY <1>1, <1>2
<1>4. /\ disb[d].status = "none" /\ disb'[d].status = "CREATED" /\ disb'[d].victim = u
      /\ \A e \in Disbursements \ {d} : disb'[e] = disb[e]
  BY CreateEffect
<1>5. amount' = [amount EXCEPT ![d] = unsent]
  BY DEF CreateTransfer, seen, unsent
<1>6. /\ amount' \in [Disbursements -> Nat] /\ amount'[d] = unsent
      /\ \A e \in Disbursements \ {d} : amount'[e] = amount[e]
  BY <1>3, <1>5 DEF Money
<1>7. ASSUME NEW v \in Victims, v # u
      PROVE  SumOver(amount', Committed(v)') = SumOver(amount, Committed(v))
  <2>1. Committed(v)' = Committed(v)
    BY <1>4, <1>7 DEF Committed, ACTIVE
  <2>2. IsFiniteSet(Committed(v))
    BY FiniteAssumption, FS_Subset DEF Committed
  <2>3. \A e \in Committed(v) : amount'[e] = amount[e]
    BY <1>4, <1>6 DEF Committed, ACTIVE
  <2>q. QED
    BY <2>1, <2>2, <2>3, SumSame
<1>8. SumOver(amount', Committed(u)') = unsent + sum
  <2> DEFINE N == Committed(u)'
             O == Committed(u)
  <2>1. N \ {d} = O /\ d \in N /\ N \subseteq Disbursements /\ O \subseteq Disbursements
    BY <1>4 DEF Committed, ACTIVE
  <2>2. IsFiniteSet(N) /\ IsFiniteSet(O)
    BY <2>1, FiniteAssumption, FS_Subset
  <2>3. \A e \in N : amount'[e] \in Nat
    BY <1>6, <2>1
  <2>4. \A e \in O : amount'[e] = amount[e]
    BY <1>6, <2>1
  <2> HIDE DEF N, O
  <2>5. SumOver(amount', N) = amount'[d] + SumOver(amount', N \ {d})
    BY <2>1, <2>2, <2>3, SumRemove
  <2>6. SumOver(amount', O) = SumOver(amount, O)
    BY <2>2, <2>4, SumSame
  <2>q. QED
    BY <1>6, <2>1, <2>5, <2>6 DEF N, O, sum
<1>q. QED
  BY <1>2, <1>3, <1>6, <1>7, <1>8

\* A row that only advances leaves no victim with more committed than before.
LEMMA AdvanceShrinks ==
    ASSUME amount \in [Disbursements -> Nat], UNCHANGED amount,
           \A d \in Disbursements : Advances(d), NEW v \in Victims
    PROVE  SumOver(amount', Committed(v)') <= SumOver(amount, Committed(v))
<1>1. Committed(v)' \subseteq Committed(v)
  BY DEF Committed, Advances
<1>2. IsFiniteSet(Committed(v)) /\ \A d \in Committed(v) : amount[d] \in Nat
  BY FiniteAssumption, FS_Subset DEF Committed
<1>q. QED
  BY <1>1, <1>2, SumSubset

\* What ReadRaised saw stays below the donations, which only grow.
LEMMA RaisedSeenInductive ==
    ASSUME ShapeOK, References, RaisedSeen, [Next]_vars
    PROVE  RaisedSeen'
<1> SUFFICES ASSUME NEW x \in Workers, worker'[x].pc = "balance"
             PROVE  worker'[x].raised <= raised'[worker'[x].victim]
  BY DEF RaisedSeen
<1>1. \A v \in Victims : raised[v] \in Nat /\ raised'[v] \in Nat /\ raised'[v] >= raised[v]
  BY AmountCases DEF ShapeOK
<1>2. CASE worker'[x] = worker[x]
  <2>1. worker[x].victim \in Victims /\ worker[x].raised \in Nat
    BY <1>2 DEF References, ShapeOK, WorkerState
  <2>q. QED
    BY <1>1, <1>2, <2>1 DEF RaisedSeen
<1>3. CASE ReadRaised(x)
  <2>1. worker[x].victim \in Victims
    BY <1>3 DEF ReadRaised, References
  <2>2. worker'[x].victim = worker[x].victim /\ worker'[x].raised = raised[worker[x].victim]
    <3>1. worker \in [Workers -> WorkerState]
      BY DEF ShapeOK
    <3>q. QED
      BY <1>3, <3>1 DEF ReadRaised, WorkerState
  <2>q. QED
    BY <1>1, <2>1, <2>2
<1>4. worker'[x] = worker[x] \/ ReadRaised(x)
  <2>1. ASSUME NEW w \in Workers, ReadProfile(w) \/ FindActive(w) \/ ReadRaised(w) \/ SendTransfer(w)
                                    \/ Leaves(w)
        PROVE  worker'[x] = worker[x] \/ ReadRaised(x)
    <3>1. Leaves(w) => Leave(w)
      BY DEF Leaves, SkipPayout, TransferAccepted, TransferRejected, TransferUncertain, Crash
    <3>q. QED
      BY <2>1, <3>1, WorkerEffect DEF Becomes
  <2>q. QED
    BY <2>1, WorkerCases, WorkerEffect DEF Becomes
<1>q. QED
  BY <1>2, <1>3, <1>4

LEMMA MoneyInductive ==
    ASSUME Locking, Money, [Next]_vars
    PROVE  Money'
<1>0. ShapeOK /\ References /\ amount \in [Disbursements -> Nat] /\ RaisedSeen
  BY DEF Locking, Money
<1>1. RaisedSeen'
  BY <1>0, RaisedSeenInductive
<1>2. \A v \in Victims : /\ SumOver(amount, Committed(v)) \in Nat
                         /\ SumOver(amount, Committed(v)) <= raised[v]
  BY <1>0, BalanceIsSum DEF Money, NeverOverdrawn
<1>3. \A v \in Victims : /\ raised[v] \in Nat /\ raised'[v] \in Nat /\ raised'[v] >= raised[v]
  BY <1>0, AmountCases DEF ShapeOK
<1>4. CASE \E w \in Workers, d \in Disbursements : CreateTransfer(w, d)
  <2>1. PICK w \in Workers, d \in Disbursements : CreateTransfer(w, d)
    BY <1>4
  <2>2. PICK u : u = worker[w].victim
    OBVIOUS
  <2>3. /\ amount' \in [Disbursements -> Nat]
        /\ \A v \in Victims \ {u} : SumOver(amount', Committed(v)') = SumOver(amount, Committed(v))
        /\ SumOver(amount', Committed(u)') <= raised[u]
    BY <1>0, <2>1, <2>2, CreateAdds
  <2>4. \A v \in Victims : SumOver(amount', Committed(v)') <= raised[v]
    BY <1>2, <2>3
  <2>5. NeverOverdrawn'
    BY <1>3, <2>3, <2>4, BalanceIsSum DEF NeverOverdrawn
  <2>q. QED
    BY <1>1, <2>3, <2>5 DEF Money
<1>5. CASE UNCHANGED amount /\ \A d \in Disbursements : Advances(d)
  <2>1. \A v \in Victims : SumOver(amount', Committed(v)') <= SumOver(amount, Committed(v))
    BY <1>0, <1>5, AdvanceShrinks
  <2>2. amount' \in [Disbursements -> Nat]
    BY <1>0, <1>5
  <2>3. NeverOverdrawn'
    BY <1>2, <1>3, <2>1, <2>2, BalanceIsSum DEF NeverOverdrawn
  <2>q. QED
    BY <1>1, <2>2, <2>3 DEF Money
<1>q. QED
  BY <1>0, <1>4, <1>5, AmountCases

LEMMA MoneyInit == Init => Money
<1> SUFFICES ASSUME Init PROVE Money
  OBVIOUS
<1>1. amount \in [Disbursements -> Nat] /\ RaisedSeen
  BY DEF Init, RaisedSeen, IdleWorker
<1>2. ASSUME NEW v \in Victims PROVE Committed(v) = {} /\ raised[v] = 0
  BY DEF Init, Committed, ACTIVE
<1>3. NeverOverdrawn
  <2> SUFFICES ASSUME NEW v \in Victims PROVE Sent(v) + OnTheWay(v) <= raised[v]
    BY DEF NeverOverdrawn
  <2>1. Sent(v) + OnTheWay(v) = SumOver(amount, Committed(v))
    BY <1>1, BalanceIsSum
  <2>q. QED
    BY <1>2, <2>1, SumEmpty
<1>q. QED
  BY <1>1, <1>3 DEF Money

\* Types, the amounts included: a recorded amount is never negative.
THEOREM PayoutTyped == Spec => []TypeOK
<1>1. Locking /\ Money => TypeOK
  BY DEF Locking, Money, TypeOK
<1>2. Locking /\ Money /\ [Next]_vars => Money'
  BY MoneyInductive
<1>q. QED
  BY LockingInit, LockingInductive, MoneyInit, <1>1, <1>2, PTL DEF Spec

\* No donation is sent twice: what runForVictim recorded as sent or on the way for a victim, over any
\* number of transfers, retries and releases, never exceeds the confirmed donations.
THEOREM NoOverdraft == Spec => []NeverOverdrawn
<1>1. Money => NeverOverdrawn
  BY DEF Money
<1>2. Locking /\ Money /\ [Next]_vars => Money'
  BY MoneyInductive
<1>q. QED
  BY LockingInit, LockingInductive, MoneyInit, <1>1, <1>2, PTL DEF Spec

\* And what Chapa really moved does not, either, as long as its 4xx answers about a transfer mean
\* that it has no such transfer.
THEOREM MovedOnlyDonated == ASSUME ~Spurious4xx PROVE Spec => []MovedWithinDonations
<1>1. Init => Locking /\ Sending
  BY LockingInit, SendingInit
<1>2. Locking /\ Sending /\ [Next]_vars => (Locking /\ Sending)'
  BY LockingInductive, SendingInductive
<1>3. Locking /\ Money /\ [Next]_vars => Money'
  BY MoneyInductive
<1>4. Locking /\ Sending /\ Money => MovedWithinDonations
  <2> SUFFICES ASSUME Locking, Sending, Money, NEW v \in Victims
               PROVE  SumOver(amount, {d \in Disbursements : disb[d].victim = v /\ chapa[d] = "moved"})
                        <= raised[v]
    BY DEF MovedWithinDonations
  <2> DEFINE M == {d \in Disbursements : disb[d].victim = v /\ chapa[d] = "moved"}
  <2>1. M \subseteq Committed(v)
    BY DEF Sending, LiveAtChapa, Committed
  <2>2. /\ IsFiniteSet(Committed(v)) /\ IsFiniteSet(M)
        /\ \A d \in Committed(v) : amount[d] \in Nat
        /\ \A d \in M : amount[d] \in Nat
    BY FiniteAssumption, FS_Subset DEF Committed, Money
  <2> HIDE DEF M
  <2>3. SumOver(amount, M) <= SumOver(amount, Committed(v)) /\ SumOver(amount, M) \in Nat
    BY <2>1, <2>2, SumSubset, SumNat
  <2>4. SumOver(amount, Committed(v)) <= raised[v] /\ SumOver(amount, Committed(v)) \in Nat
    BY BalanceIsSum DEF Money, NeverOverdrawn
  <2>5. raised[v] \in Nat
    BY DEF Locking, ShapeOK
  <2>6. SumOver(amount, M) <= raised[v]
    BY <2>3, <2>4, <2>5
  <2>q. QED
    BY <2>6 DEF M
<1>q. QED
  BY <1>1, <1>2, <1>3, <1>4, MoneyInit, PTL DEF Spec
=============================================================================
