# A verification project for the Ehte backend

Ehte is a NestJS service for confidential reports, missing persons, victim
profiles with donations, public posts and information submissions.  Its state
lives in PostgreSQL (through Prisma), with Redis for caches and locks, MinIO for
media and Chapa as payment provider.  Several instances run at once; requests,
webhooks and timers interleave at the granularity of single SQL statements.
This directory models the parts of it whose correctness depends on those
interleavings, checks them with TLC on small instances and proves the most
important results with TLAPS for every instance.

## 1. The system

| part | state it keeps | operations | what is hard |
|---|---|---|---|
| Payouts (`payments/service/payout.service.ts`) | disbursement rows, profile flags, destination | `runForVictim`, `checkDisbursement`, `sweep`, `approveTransfer`, pause/resume | two callers seeing the same unsent money; crashes and lost answers around the transfer request; late answers |
| Donations (`donation.service.ts`, `chapa-webhook.service.ts`, `payments-admin.service.ts`) | payment rows, `totalRaised`, cached checkout URL | `start`, `settlePayment`, `resolveReview`, `reconcileProfileTotal` | webhook, return page and admin settling at once; repeated starts; refund racing accept |
| Victim profiles (`core/victim-profile`) | review gates, status, publication, takedown, legal hold, flags, appeals | review steps, approve, publish, takedown, complete, reopen, anonymize, decide | optimistic locking on `updatedAt` over read-check-write handlers |
| Reports, missing persons, information submissions, posts (`core/*`) | workflow status, assignment, grants, questions, appeals, media | submit, claim, review, publish, merge, close, anonymize | handlers that write by id what they decided from an earlier read; retried submissions; many lists over one rule |
| Users, authentication, roles (`auth`, `core/user`) | OTPs, lockout counters, sessions, two-factor challenges, role grants | login, refresh, reset, phone and e-mail change, promotion, assignment requests | races on counters and one-time codes; revocation |
| Notifications (`misc/notification`) | inbox rows, broadcasts, deliveries, devices, streams, idempotency keys | create, plan, fan out, stop, retry, approve | stale claims taken over from live workers, crashes between pages |
| Audit log (`misc/audit-log`) | hash chain, holds, approvals, purge runs, filters, alerts | record, verify, purge, hold, release, show, export | purges beside writes and holds; two-person rules; one masking rule in many views |
| Entity cache, cron lock (`infrastructure/redis`) | versioned entries, lock keys | `wrap*`, invalidation, `runExclusive` | a reload racing an invalidation; expiry; Redis failing |
| Media scanning (`media`, `infrastructure/clamav`) | scan rows, objects | claim, scan, block, fail | stale locks, crashes between two stores |
| Shared features, USSD, adapters, HTTP layer | CRUD rows, none | | mostly single statements or pure I/O |

How they interact: `settlePayment` calls `runForVictim` once money is recorded;
the sweep calls `checkDisbursement` and `runForVictim`; Chapa calls back into
`handleEvent` and `approveTransfer`; admins change profile flags and the bank
account that both read.  Audit rows and notifications are emitted through an
in-process event emitter and do not feed back, except that `verifyBankDetails`
reads the audit log.  The workflows, the account services and the platform
services share no rows with each other that their rules depend on, which is why
each is a module of its own and the modules that check them run one at a time.

## 2. Modules

### Payout

State: one record per disbursement row (`disb`, `amount`, `recent`), the profile
(`raised`, `paused`, `blocked`, `dest`, `verified`, `edit`), the PostgreSQL row lock
of `victim_profile` (`rowLock`), the local variables of each running call
(`worker`, `check`, `appr`) and what Chapa knows (`chapa`, external).

* `runForVictim`: `LockProfile` (SELECT ... FOR UPDATE), `ReadProfile`, `FindActive`,
  `ReadRaised`, `CreateTransfer` (the second balance query, the insert and the
  commit, which nobody can observe separately) or `SkipPayout` for each early
  return; then `SendTransfer` and one of `TransferAccepted`, `TransferRejected`,
  `TransferUncertain`.  `Crash` ends a call anywhere.
* `checkDisbursement`: `BeginCheck`, `ChapaAnswers`, `ApplyCheck` or `GiveUpCheck`.  A row
  is "aged" after `processingTimeoutMinutes`; since a request ends within seconds,
  an aged row has no sender any more (`SendOver`).
* `approveTransfer`: three queries, `ApproveReadRow`, `ApproveReadProfile`,
  `ApproveReadBalance`; any doubt lets Chapa fail the transfer (`ChapaFails`).
* Admins: `PausePayouts`, `ResumePayouts`, `SetBlocked` (takedown, legal hold,
  deletion) wait for the row lock as any UPDATE of that row does; `EditCheckInFlight`,
  `EditUpdateProfile`, `EditConflict`, `EditUpsert` are the statements of
  `updateBankDetails`; the destination is another row, so its upsert does not wait.

### DonationLedger and Donation

`DonationLedger` is what the donation code promises: each donation is counted at
most once and for good, and the displayed total moves only by the amount just
counted or to the exact sum.  `Donation` is the code: `start` (`StartCreate`,
`StartRepeat`, `ReadCheckoutUrl`, `InitializeAnswers`, `StartFinish`, `StartCrash`),
`settlePayment` (`BeginSettle` as `VerifyForPayer`, `HandleEvent` or `AcceptReview`;
`VerifyAnswers`, `SettleGivesUp`, `SettleFinish`), `resolveReview` REFUND (`RefundRead`,
`RefundClaim`, `RefundAnswers`, `RefundFinish`, `RefundCrash`) and
`reconcileProfileTotal` (`AuditRead`, `AuditSum`, `AuditFinish`).  `fresh` is the set of
readers whose copy of the profile's `updatedAt` is still current, which is all
that `conditionalUpdate` compares.  `Entry` is the refinement mapping.

`Sums` has the one aggregate both use, the sum of a column over some rows.

In PROJECT.json a helper without a map entry of its own stands for lines named by the
operation that uses it.

Names of the form `Definition_Fault` (and `_NoGuard`, `_Unguarded` and the like in the
payment modules) are deliberately wrong variants of a definition, kept next to it: a
property that does not fail when the variant replaces the definition says nothing
about it.

### VictimProfile

One profile row and everything that changes it.  `on` is the set of boolean and
nullable-timestamp columns that are true or set, `status` its status column,
`claimedBy`, `childFirst`, `proposedBy` and `proposedFlag` the columns of the same
meaning; `bank` stands for the payout destination.  `childSecond` (who confirmed
second; the code keeps no such column) and `text` (has privacy review seen the
current text) are history variables the properties need.

Why one action per handler is faithful: almost every handler reads the row,
checks it and writes it back through `conditionalUpdate`, whose WHERE clause asks
that `updatedAt` is still what was read.  The write therefore succeeds only if the
row, and so every checked condition, is unchanged, and the handler takes effect
at that write or answers 409 and changes nothing.  The one other thing read, the
destination in `hasBankDetails`, moves between the read and the write only by an
`updateBankDetails` whose effect on `bank` may as well be ordered after the write.
Three handlers write without the condition and are split into the steps others
can come between: `adminEdit` (`AdminEditText`, `AdminEditReread`, `AdminEditStatus`),
`updateBankDetails` (`BankEditProfile`, `BankEditUpsert`) and `anonymize`
(`AnonymizeCheck`, `AnonymizeWrite`).  Two writes within the same millisecond would
share an `updatedAt`; the model assumes they do not.

Actions by service: creator (`Create`, `UpdateMine`, `WithdrawMine`, `ResubmitMine`),
review (`Claim`, `Unclaim`, `UpdateGates`, `Publish`, `Unpublish`, `Reject`, `Resubmit`,
`RequestChanges`, `Update`), child safety and consent (`ChildFirstConfirm`,
`ChildSecondConfirm`, `ChildReverse`, `RevokeConsent`, `RecordConsent`,
`ProposeChildFlag`, `ConfirmChildFlag`, `ProposalExpires`), lifecycle (`Takedown`,
`LiftTakedown`, `PauseDonations`, `ResumeDonations`, `Complete`, `Reopen`, `Feature`,
`Unfeature`, `SoftDelete`, `Restore`, `SetLegalHold`, `Remove`).  `softDelete`, `remove`
and `anonymize` refuse while money is owed to the victim; since that may be so at
any time, the refusal is the action not being taken.

### ProfileModeration

Flags and appeals on one profile, whose status other handlers change meanwhile.
A flag is claimed before its action on the profile and put back when that
fails; an appeal is decided after it.

### Accounts: AuthBase, UserAuth, AdminAuth, UserAccount, TwoFactor, StaffRoles

`AuthBase` holds what the services share: one account row, its login counter, the
one-time codes, the sessions and the requests in flight, with `OtpUtil`,
`LockoutUtil` and `TokenUtil`.  A refresh reads its session (`RefreshRead`), claims it
(`RefreshClaim`, the UPDATE) and inserts the next one and commits (`RefreshRotate`); in
between the session is "claimed", which reads still find live and writes wait for.  A
statement that ends sessions takes effect where it begins, since that is the snapshot
it sees: a claimed session becomes "awaited" and goes when its transaction ends, and the
session that transaction inserts is not touched.  `recordFailedLogin` is one step for the
Redis count, the row update and the reset (lockout.util.ts:29-61), so that a count left
over the limit by a crash between them is not told apart.
`UserAuth` (users), `AdminAuth` (invitations, promotions,
admins' own handlers) and `UserAccount` (phone change, admins' actions, deletion)
extend it.  A handler that decides on a row it read is two actions, `...Read` and
the write (`...Claim`, `...Wrong`, `...Write`).  `TwoFactor` has the challenges, codes
and recovery codes of one account, a code being its time step.  `StaffRoles` has
the holders of one custom and the built-in roles, requests and temporary
assignments.

### Workflows: ReportCase, ReportAccess, ReportFiling, MissingPerson, InformationSubmission, Post

A request loads a row (`Load`, kept in `seen`) and a handler acts on what was loaded.
A write whose WHERE names the expected status compares with `seen`; a write by id
does not, and overwrites whatever is there.  Lists, searches, counts, figures and
exports are sets of rows, one operator per endpoint, built from the module's
version of the shared filter, so that "hidden from every list" quantifies over the
endpoints of the code.  Endpoints that do not use that filter have operators of their
own, outside the properties.  `ReportCase` is the status workflow (one of its two admins
a super admin, who may also write on reports assigned to others), `ReportAccess` who sees
what, `ReportFiling` submission and evidence.

### Notifications: Broadcast, Notification

`Broadcast`: one broadcast, its workers (`startDueBroadcasts`, `ReadClaimed`, `NextPage`,
`createMany`, `planDeliveriesSafely`, `Touch`, `LastPage`, `Complete`), the admins who stop,
retry, edit and approve it, and the delivery queue.  `ClaimAges` lets a live worker be
taken for dead.  `Notification`: rows from events and admins, the lists over them,
planning, devices, streams and idempotency keys.

### Audit log: AuditChain, AuditHolds, AuditViews

`AuditChain`: rows with their numbers and digests, purges in their statements (select,
archive, delete, complete, with crashes), schedules, batched verification.
`AuditHolds`: holds over rows and the two-person gate.  `AuditViews`: what every view
shows of a row to whom, saved filters, exports and alert rules.  `Sentinel` declares the
null of a column, `None`, for the modules that are extended together.

### EntityCache, CronLock, MediaScan

`EntityCache`: one value, its copies and the readers and writers of several processes,
for the four ways the cache guards a late write-back (`Protocol`).  A failed invalidation
is queued under the time of the first failure of its key (`queue`, `firstAt`), or finds no
room (`enqueueNoRoom`, then `purgeAll`); an entry that got too old is dropped with what
failed after it (`retryDropped`).  `CronLock`: the lock key and the runs under it.
`MediaScan`: one uploaded object, its scan row and the workers; a lock may go stale under
a live worker.  The presigned URL takes files until it ends, also after a verdict; `late`
says that the stored file came after the scans that count had read the key.

## 3. Runs

| run | instance | what it shows |
|---|---|---|
| `payout` | 1 victim, 2 rows, 2 callers, 1 checker, donations up to 2 | `OneActivePerVictim`, `NeverOverdrawn`, `MovedIsNotReleased`, `MovedWithinDonations`, `NoTransferWhilePaused`, `StatusMovesForward` |
| `donation` | 1 donation with a key, 2 starters, 2 settlers, 2 refunders; 2 donations with a reconciliation | `RaisedIsCollected`, `NotRefundedAndRaised`, `RefundedMeansReturned`, `FailedHasNoPage`, and `ImplementsLedger`: the code implements `DonationLedger` |
| `profile` | 2 admins, one a super admin, all handlers in two groups | `PublishedIsReviewed`, `ChildReviewedByTwo`, `PublishedTextWasSeen`, `ClosedTakesNoDonations` |
| `accounts` | `MCAccounts`: 9 configurations | `RevokedStaysRevoked`, `CodesWorkOnce`, `AccountsConsistent` |
| `workflows` | `MCWorkflows`: 25 configurations | `SubmittedOnce`, `WorkflowsConsistent`, `DecisionsStand`, `FilteredListsFollowRules`, `CasesShownByDecision` |
| `platform` | `MCPlatform`: 26 configurations | `BroadcastReachesAllOnce`, `StepsFollowRules`, `OneEffectPerKey`, `PlatformConsistent`, `ChainStaysVerifiable`, `HoldsProtect`, `ViewsMaskedAndLogged`, `CacheCoherent`, `ModerationMatchesEffect` |
| `liveness` | `MCLiveness`: 4 configurations | `EveryTransferResolves`, `CollectedIsSettled`, `BroadcastSettles`, `ScanSettles`, `VerdictFitsScanned` |
| `donation_keyed`, `donation_refund_lost`, `profile_takedown`, `phone_change`, `broadcast_swap` | | findings, below |

`MCAccounts`, `MCWorkflows`, `MCPlatform` and `MCLiveness` join modules that share no state.  A
behaviour picks a `kind` in its first state, takes the steps of that configuration
only.  `RevokedStaysRevoked`, `CodesWorkOnce`, `BroadcastReachesAllOnce`, `CacheCoherent`,
`ChainStaysVerifiable`, `HoldsProtect`, `VerdictFitsScanned` and `ScanSettles` are the
definitions of the modules themselves, the very ones the theorems of section 4 are about: their modules are extended, the .cfg gives
their constants, and their state stays as it starts in the kinds of the others.  The
other properties are conjunctions of properties of the modules, each asked of its own
kinds.  All are grouped by what they promise:

| property | parts (module) |
|---|---|
| `RevokedStaysRevoked` | `EndedStaysEnded`, `OneLivePerFamily`, `VoidNeverAccepted` (AuthBase) |
| `CodesWorkOnce` | `ChallengeSignsInOnce`, `RecoveryCodeOnce` (TwoFactor) |
| `AccountsConsistent` | type invariants; `OneVerdict`, `TemporaryIsHeld` (StaffRoles) |
| `SubmittedOnce` | `OneReportPerKey`, `DraftBecomesReport` (ReportFiling), `OneCasePerKey` (MissingPerson), `OneTipPerKey` (InformationSubmission) |
| `WorkflowsConsistent` | type invariants; `QueueGivesOnce`, `MergeDepthOne` (ReportCase), `OneClaimant` (InformationSubmission) |
| `DecisionsStand` | `TerminalStep` (ReportCase), `RevokeStep` (ReportAccess), `AnswerStays` (InformationSubmission), `FollowsTransitionMap`, `DecisionStays` (Post) |
| `FilteredListsFollowRules` | `ListingsHideRestricted` (ReportAccess), `AdminListsHideRemoved` (MissingPerson), `RemovedTipHidden`, `AnonymizedLeavesNoTrace` (InformationSubmission), `UnreadCountMatches` (Post) |
| `CasesShownByDecision` | `TakenDownStaysDown`, `TwoAdminsApproveChild` (MissingPerson) |
| `BroadcastReachesAllOnce` | `OneCopyPerUser`, `CompletedReachedAll`, `NoSendBeforeApproval` (Broadcast) |
| `StepsFollowRules` | `HeldUntilRetried` (Broadcast), `SecurityPlannedNow` (Notification), `HeldRowsStay` (AuditChain) |
| `OneEffectPerKey` | `KeyedEventOnce`, `OneAnswerPerKey` (Notification), `ScheduledOnce` (AuditChain), `AlertOncePerCooldown` (AuditViews), `OneRunPerPeriod` (CronLock) |
| `PlatformConsistent` | type invariants; `MyListsAgree`, `CategoriesPartition`, `DevicesWithinCap` (Notification), `DashboardAgrees` (AuditViews) |
| `ChainStaysVerifiable` | `SeqNeverReused`, `VerifiableNow`, `NoFalseAlarm`, `DeletedIsArchived` (AuditChain) |
| `HoldsProtect` | `CoveredRowsHeld`, `ReleasedByTwo`, `ApprovalUsedOnce` (AuditHolds) |
| `ViewsMaskedAndLogged` | `AnonymizedRowsNameless`, `AddressForSuperOnly`, `NoUnloggedRead` (AuditViews) |
| `CacheCoherent` | `InvalidationRespected`, `OwnWritesSeen` (EntityCache) |
| `ModerationMatchesEffect` | `OverturnedWasReviewed`, `OnlyOwnClaimPutBack` (ProfileModeration) |
| `VerdictFitsScanned` | `UsableWasScanned`, `BlockedIsRemoved` (MediaScan) |
| `BroadcastSettles` | `BroadcastSettles`, `DeliveriesSettle` (Broadcast) |

Each part has a faulty variant that breaks it, listed as a mutant of its conjunction.

Three of them say less than their subject suggests, because the code does:
`FilteredListsFollowRules` is about the lists and figures built on the shared filters
(`visibilityWhere`, `statsWhere`, `ADMIN_BASE_WHERE`, `deletedAt: null`), not about the admin
endpoints without one; `RevokedStaysRevoked` not about a refresh whose transaction is open
when the sessions are ended; `VerdictFitsScanned` is about the file that was judged, not
about one that replaces it.  What happens in these cases is listed at the end of this
section.

The kinds of one module give it different small constants and different groups of
handlers (`...Next`), so that each question is asked where its actors meet, and
together they call every handler.

Bounds.  One victim suffices for payouts because no action touches two victims'
rows; two disbursement rows are the least for "a second transfer", two callers
for a race; `MaxRaised` = 2 with `MinTransfer` = 1 lets two transfers of different
size happen and lets a donation arrive between the two balance queries.  For
donations, amounts {1, 2} with 2 asked give exact and mismatched payments; two
settlers and two refunders give every pairwise race; two donations with a
reconciliation let an increment land between any two of its statements.  Two
admins are the least for two-person rules and races between reviewers; more
admins add no new roles (and the proofs cover any number).  `Handlers` names the
optional handlers an instance of `VictimProfile` calls.  Elsewhere two requests or
workers on one row give every pairwise race of the handlers, since a handler
touches a row it loaded and no third; two or three rows are used where a property
relates rows (merges, keys, numbers of the chain); page and batch sizes are 1, so
that two users or rows already make several pages; `MaxFaults` and `MaxFailures` (at
most 2) bound crashes, failing calls and stale claims, enough for a fault during the recovery
from a fault, and for a second failure of a key that is queued already; the scan, whose
failures all lead to `recordFailure`, has one fault and a lock that may go stale any number
of times.  `MaxWrites`, `MaxTokens`, `MaxAttempts`, `MaxSends` and `MaxRows` cap counters.

Fairness, all of it stated in `MCLiveness`.  Payouts: a running call ends (request
timeouts, or a crash); Chapa decides what it has queued; the sweep, a timer every
five minutes, starts a check of an aged transfer again and again and one of them
gets a clear answer in the end (strong fairness, since other checks and timeouts
intervene).  No particular check is assumed to succeed, nor the sender to survive.
Donations: a settling call ends, with an answer or without, and Chapa delivers its
webhook.  Nothing asks a second time: the code has no job that does, so
`CollectedIsSettled` says that one webhook is enough whatever other calls run, unless its
verification throws or its process dies (`hook` = "cut"); then the payment may stay PENDING.
Broadcasts and scans: the scheduler's tick keeps coming on every instance, calls
answer or time out, locks age; faults are finite.  Safety properties are checked
without any fairness.

`CHECK_DEADLOCK FALSE` appears where a finite set of donations, rows or attempts is
used up and every call may have ended.

### What the violation runs show

Five places where a comment of the source promises more than the code does, each
with a counterexample:

* `donation_keyed` (`FailedHasNoCheckout`): two starts with one key on two instances; the
  creator is refused because the repeat opened the checkout, and marks the payment
  FAILED although its page is open.  `FailedHasNoPage`, checked by `donation`, is the part
  that holds for a payment without a repeated start.
* `donation_refund_lost` (`NotRefundedAndRaised`): a refund whose answer is lost returns
  the payment to review, where ACCEPT counts it as raised.
* `profile_takedown` (`TakedownHidesProfile`): gates and publish ignore `takedownAt`, so a
  profile can be approved and shown again before the takedown is lifted.
* `phone_change` (`PhoneWasProven`): a second `changePhoneInitiate` within the cooldown
  replaces the pending number and hands out the code sent to the first one.
* `broadcast_swap` (`ApprovedTextOnly`): an edit that loaded the broadcast before it was
  approved keeps the approval, and its text is sent.

### Further disagreements and limits met while modelling

Visible in the modules, without a run of their own.

Payments and profiles:
* `checkDisbursement` releases a transfer on any definite 4xx (payout.service.ts:226), also
  one that does not mean "no such transfer".  `Spurious4xx` turns this on; the theorem
  `MovedNotReleased` assumes it away.
* A crash between claiming a payment as REFUNDED and asking Chapa
  (payments-admin.service.ts:254) leaves it REFUNDED and unreturned.  The fault
  "refundCrash" turns this on; `RefundedMeansReturned` is checked without it.
* `updateBankDetails` looks for transfers in flight without the row lock
  (victim-profile-funding.service.ts:154); `approveTransfer` rejects what slips through.
  An approval and a publish between its two writes leave a published profile whose
  account is unverified.
* `anonymize` writes without the lock (victim-profile-admin-ops.service.ts:582), also over
  a profile meanwhile reopened or put under legal hold.
* After a failed verification "the caller (or the next webhook/job run) simply tries again"
  (chapa-webhook.service.ts:97); no job settles payments.  Unless Chapa repeats the
  webhook or the donor comes back to the page, collected money stays unrecorded, which
  `CollectedIsSettled` excepts.
* `restore` (victim-profile-admin-ops.service.ts:301) says the profile comes back
  unapproved; gates can be set while it is deleted.  `STATUS_TRANSITIONS` lists no way out of
  WITHDRAWN; `updateGates` leaves it.  The admin update writes the child flag with one admin.
* Two appeals of one profile, or one beside `resubmitMine`, can be open at once
  (victim-profile-moderation.service.ts:59, victim-profile-mine.service.ts:426).

Accounts:
* A refresh updates and inserts in one READ COMMITTED transaction (auth.service.ts:1303-1332).  A
  statement that ends every session and begins while it is open (logout-all :1651, the reuse
  alarm :1238, password change and reset :1611, :1162, demotion, deactivation, admins' actions)
  does not see the inserted session, which stays live, against "every session is revoked"
  (:1237).  `RevokedStaysRevoked` leaves that login out.
* The last super admin is protected by a count in READ COMMITTED (user-roles.service.ts:201 and
  three others): two removals at once leave none.
* `unlinkSocial` (auth.service.ts:2190) can leave an account without a way to sign in;
  cancelling an invitation deletes an admin who has just registered
  (admin-auth.service.ts:726); a sign-in that began before a lock clears it
  (lockout.util.ts:72); two pending role requests for one user are possible
  (role.service.ts:1172); nothing calls `expireTemporaryAssignments` (role.service.ts:1421).

Workflows (writes by id after an earlier read):
* Reports: `flagUrgent` gives a closed report a working status
  (report-reporter.service.ts:499); merges write without comparing
  (report-lifecycle.service.ts:116), so that opposite merges at once make a cycle and a
  late one closes a report rejected and merged meanwhile; replies to information
  requests and evidence lists overwrite each other; exports that die stay PROCESSING
  (report-export.service.ts:177).
* Lists without the shared filter, outside `FilteredListsFollowRules`: of the reports
  `findAllForAdmin` (report-workflow.service.ts:50), `findStalePending` (:106), `getStats`
  (report-stats.service.ts:18), `findOneForAdmin` and `getHistory` show or count restricted and
  deleted ones to every admin, `findAssignedToMe` (:83) deleted ones to their assignee; of
  the missing persons `findAllForAdmin` (missing-person-admin-ops.service.ts:37),
  `findStalePending` (missing-person-review.service.ts:206), `listRepeatRejections`
  (missing-person-inbox.service.ts:201) and `getStats` (missing-person-stats.service.ts:22) deleted and
  merged ones; of the tips the decisions in `getStatsByAdmin`
  (information-submission-stats.service.ts:369), the pending appeals and `findOne` removed ones.
* Missing persons: the owner's update and removal act on a case approved meanwhile
  (missing-person-submission.service.ts:279, :447); opposite merges retire both cases
  (missing-person-duplicates.service.ts:127); reopening a child's case approves it with one
  admin (missing-person-review.service.ts:613); an accepted appeal publishes a case that was
  deleted meanwhile (missing-person-moderation.service.ts:315).
* Information submissions: status, claim and closing are written unconditionally
  (information-submission-review.service.ts:62, -workflow:93, :125); duplicates may point at each
  other (-review:282).
* Posts: an author's edit or deletion lands after submission or approval
  (post-submission.service.ts:356, :512); an official post about a child is approved by one admin
  (:238); two appeals can be open (post-mine.service.ts:102).

Platform:
* Notifications: a batch planned after a stop is still sent, and the progress write of an
  overtaken worker reopens a finished broadcast until it is claimed again
  (notification.service.ts:1077); after a stream is evicted another may stay open and unfed
  (:690); a crash keeps an idempotency key for a day, a result that cannot be stored lets the
  send be repeated (:4111); deliveries are at least once.
* Audit log: verification beside a purge reports a break (audit-log.service.ts:1103, against
  the comment at 1225); a row whose hold is released between archive and delete is deleted
  without being archived (:1380; `PurgeNext` only sets holds); two releases at once re-apply
  or drop each other's rows (:2218); a crash leaves a scheduled purge RUNNING (:1630) or
  loses an alert (:1728); the cap on saved filters is check then create (:976); an
  anonymized name still shows in `summarizeUser`, `summarizeEntity` and
  `statsSensitiveAccess` (:3331), which `AnonymizedRowsNameless` therefore leaves out.
* Export jobs: FAILED may overwrite COMPLETED and the reverse (export-job.service.ts:249).
* Cache: a failed invalidation is given up 20 minutes after the first failure of its key
  (cache.service.ts:523), with it the writes that failed shortly before (:509 keeps the first
  time), and is not queued at all when the queue is full (:505), when reads go on without a
  bypass; the old copy then lives out its time, against the comment at 17, and taxonomy
  entries live longer (1800 s) than the 20 minutes anyway.  `OwnWritesSeen` excepts these writes.
  A success that overlaps a failure of the same process drops the queued retry
  (cache.service.ts:496, `Overlap` = "yes"); session checks are cached without a generation
  (:605, `Protocol` = "plain").
* Scans: a presigned URL works for 600 s and any number of times (minio.service.ts:196): a file
  found CLEAN can be replaced under its key while the row stays CLEAN, and a blocked key can get
  a file again; nothing scans it.  A late failure turns a verdict into FAILED
  (media-scan.service.ts:97).

## 4. Proofs

Each theorem is about the specification of a module itself, for every value of the
constants.  The runs check the same definitions on small instances, either by name or
as a part of one of the joint properties of section 3.

| module | theorem | shows | assuming |
|---|---|---|---|
| `PayoutProofs` | `PayoutTyped` | `[]TypeOK` | |
| | `OneActive` | `[]OneActivePerVictim` | |
| | `PauseRespected` | `NoTransferWhilePaused` | |
| | `StatusForward` | `StatusMovesForward` | |
| | `NoOverdraft` | `[]NeverOverdrawn` | |
| | `MovedNotReleased`, `MovedOnlyDonated` | `[]MovedIsNotReleased`, `[]MovedWithinDonations` | `~Spurious4xx` |
| `DonationProofs` | `DonationTyped` | `[]TypeOK` | |
| | `RaisedFromChapa` | `[]RaisedIsCollected` | |
| | `RefundNeverRaised` | `[]NotRefundedAndRaised` | no lost refund answer |
| | `RefundedWasReturned` | `[]RefundedMeansReturned` | no crash inside a refund |
| | `FailedIsUnpayable` | `[]FailedHasNoCheckout` | no key, or one start at a time |
| | `DonationLedgerRefined` | `ImplementsLedger` | |
| | `TotalStaysExact` | the displayed total is the sum of the paid donations | it starts so (`Drift` = {0}) |
| `VictimProfileProofs` | `ProfileTypeCorrect` | `[]TypeOK` | |
| | `PublishedReviewed`, `ClosedNoDonations` | `[]PublishedIsReviewed`, `[]ClosedTakesNoDonations` | |
| | `ChildReviewByTwo`, `PublishedTextSeen` | `[]ChildReviewedByTwo`, `[]PublishedTextWasSeen` | |
| `AuthProofs` | `RevokedForGood` | `[]RevokedStaysRevoked` under `UserSpec`, `AdminSpec`, `AccountSpec` | |
| | `SignsInOnce` | `[]CodesWorkOnce` under `TwoFactorSpec` | |
| | `RolesConsistent` | `[](OneVerdict /\ TemporaryIsHeld)` under `StaffSpec` | |
| `PlatformProofs` | `ReachesAllOnce` | `[]BroadcastReachesAllOnce` | a page holds a user |
| | `HeldStaysHeld` | `[][HeldUntilRetried]_bcVars` | |
| | `InvalidationHolds` | `[]InvalidationRespected` | a guarded protocol |
| | `Coherence` | `[]CacheCoherent` | also `Overlap` = "no" |
| | `NotificationsConsistent` | `[](KeyedEventOnce /\ OneAnswerPerKey /\ CategoriesPartition)` | finitely many rows |
| `AuditProofs` | `TwoPersonRule` | `[](ReleasedByTwo /\ ApprovalUsedOnce)`, all requests at once | |
| | `HoldsKept` | `[]HoldsProtect` | one request at a time (`SerialSpec`) |
| | `ChainNumbered` | `[](SeqNeverReused /\ ScheduledOnce)`, everything at once | |
| | `HeldRowsKept` | `[][HeldRowsStay]_chainVars`, everything at once | |
| | `PurgesExplained` | `[](SeqNeverReused /\ VerifiableNow /\ DeletedIsArchived)` | no hold is lifted (`KeepSpec`) |
| | `ChainVerifiable` | `[]ChainStaysVerifiable` | also no verification beside a purge (`PurgesSpec`, `VerifySpec`) |
| | `AlertsOnceReadsLogged` | `[](AlertOncePerCooldown /\ NoUnloggedRead)` under `ViewsSpec` | |
| `WorkflowProofs` | `DecisionsClaimed` | `[][TerminalStep]_caseVars` | no merges (`DeskSpec`) |
| | `DecisionsSurviveMerges` | `[][TerminalStep]_caseVars` | one request at a time |
| | `QueueGivesToOne` | `[]QueueGivesOnce` | |
| | `MergesStayFlat` | `[]MergeDepthOne` | one request at a time |
| | `ReportsFiledOnce` | `[](OneReportPerKey /\ DraftBecomesReport)` | |
| | `RevokeEndsAccess` | `[][RevokeStep]_accessVars` | |
| | `OneCaseForAKey` | `[]OneCasePerKey` | |
| | `ChildNeedsTwoAdmins` | `[][TwoAdminsApproveChild]_mpVars` | review and desk only (`ReviewSpec`) |
| | `TakedownHolds` | `[]TakenDownStaysDown` | one request at a time |
| | `TipsStoredAndClaimedOnce` | `[](OneTipPerKey /\ OneClaimant)` | |
| | `FirstAnswerStays` | `[][AnswerStays]_tipVars` | |
| | `AnonymizedIsForgotten` | `[]AnonymizedLeavesNoTrace` | one request at a time |
| | `ModerationSound` | `[]OverturnedWasReviewed /\ [][OnlyOwnClaimPutBack]_modVars` | |
| | `PostsFollowMap` | `[][FollowsTransitionMap]_postVars /\ [][DecisionStays]_postVars` | |
| | `UnreadCounterExact` | `[]UnreadCountMatches` | finitely many posts |
| | `OneRun` | `[]OneRunPerPeriod` | |
| | `VerdictsHold` | `[]VerdictFitsScanned` | |

Each hypothesis about the system's behaviour is the negation of something the code does
not exclude and that section 3 reports: `Spurious4xx`, a lost refund answer, a refund
crash, two starts on one key, an invalidation that fails while another is answered, a hold lifted between archive
and delete, a verification beside a purge, two releases of holds at once, reopening a
child's case with one admin. "One request at a time" stands where a handler writes by id
what it decided on a copy read before: two merges that each read the other's report as a
root make a cycle, a late merge closes a report rejected and merged meanwhile, an edit
or a restore that loaded a missing person's row before it was taken down writes its old
marks back, and a reply that loaded a tip before it was anonymized stores the
informant's name again. The theorems say that this is the only way: with each request
run to its end, in any order and any number, the rule holds. The runs check these
properties under the same restriction, and those without it with two requests at once.  `RevokedForGood`,
`Coherence` and `VerdictsHold` need no hypothesis about the cases that section 3 excepts (a
refresh open at the wipe, a dropped or unqueued retry, a replaced file): these are steps of
the specifications, and the history variables `ended`, `own` and `late` leave out of the
property just what they affect.

Otherwise the proofs use named assumptions that exclude no behaviour: `None` is not an
element of the sets it completes nor a number (`Sentinel`), the bounds are numbers and
batches and pages hold at least one row, finitely many rows exist, the ids of codes,
sessions and approvals are numbers (they are handed out in order), the ids of questions
are not the names of operations, and the providers are the three of `SocialProvider`.

The arguments, and why the properties alone are not inductive:

* Payouts.  `Locking` adds to the types that a call's references exist (`References`), that
  a call inside the transaction holds the row lock (`LockHeld`), and that what it read
  under the lock still holds (`ClearSeen`, `PermittedSeen`): nothing in
  `OneActivePerVictim` says that the caller's earlier query is still true when it inserts.
  `Sending` links the database to Chapa: a row nobody created is known to nobody
  (`FreshRows`), is sent by its creator only (`OneSender`), once (`Unsent`); a transfer
  Chapa may execute is not released (`LiveAtChapa`); an answer not yet applied is still
  true (`AnswersHold`).  For the amounts, what a caller read of the donations is at most
  what was donated, and what it read of the transfers is still their sum at the commit.
* Sums.  `SumOver` (module `Sums`) is the `_sum` aggregate.  `SumProofs` has what the money
  proofs need of it: how a sum changes when one row changes, enters or leaves, and that
  it is monotone.  They are proved by induction over finite sets in set form (the set of
  subsets for which the equation holds contains every finite set), which needs no
  operator parameter.
* Donations.  `Collecting` carries what a settling call heard from Chapa until it is
  recorded; `OneClaim` says that the REFUNDED claim of a payment is held by one refund, and
  `ReturnedIsKnown`, `RefundedIsHeld` tie the claim to what Chapa gave back.  The
  refinement maps a row to its ledger entry (`Entry`) and shows of each action that it
  is a ledger step or stutters; the reconciliation needs `SumIsCurrent`: a reader whose
  copy of `updatedAt` is current has the current sum.  `Starting` is about one start at a time.
* Profiles.  `Safe` replaces `PublishedIsReviewed` by two links, a published profile is
  approved and an approved one has every other gate, because publish only looks at the
  gates: that no handler lowers a gate and leaves the approval standing is what has to be
  preserved.  `PublishedTextWasSeen` rests in the same way on `SeenByPrivacy`.
* Accounts.  The three services have some eighty actions and few ways to touch sessions,
  codes and requests.  `AuthMove` lists these: a login, a claim of a session by a refresh, its
  rotation or rollback, an end of sessions; codes
  handed out in order while others are withdrawn, a claim, a wrong guess, ageing; a
  request that starts or ends.  `AuthKept` shows once that a move keeps `AuthInv`, and there
  is one lemma per helper and per group of handlers that the actions are moves.
  `AuthInv` says that families begin with sessions that exist, so a new login's is not one
  that was ended, that a family has one session a read finds live, which is the claimed one while
  its refresh is open, that a void code is used or out of attempts, and what a request in
  flight holds.  Two-factor has its own, `TwoFactorInv`: whatever signed in is consumed.
* Broadcasts, with fan-out, faults, approvals, stops and queue all in one next-state
  relation (`BroadcastNext`; the runs take them in groups).  `WalkOK` says which users have
  their copy at each place of `runBroadcast`, for every worker, also one that was
  overtaken; `SignOK` that an unapproved large broadcast has no worker, no row, and no
  admin who saw it in a state from which it goes on; `QueueInv` that a worker that is
  sending has the row to itself.
* Cache.  `CacheInv` bounds every value that may still be offered to a reader (in Redis, in a
  process, on its way back from the database) by the generation under which it can be
  written, so that what is accepted is new enough (`Enough`).  `OwnKept` is the condition under
  which that covers the reader's own writes as well: the entity or scoped
  protocol, and no call that fails while another of its process is being answered.  While an
  entry is queued its process looks at no copy; a drop lowers `own` to the entry's first
  failure, and by then no copy or load is older than that.
* Staff roles.  `AnsweredOnce`: a request nobody has answered has no verdict, and the answer
  claims it while it is PENDING.  `GrantsKept` bounds the states of a temporary assignment,
  so that taking a role away ends the assignment with it.
* Notifications.  `NotesOK`: a row about a keyed event carries that event's dedupe key, in
  every handler that creates rows, and no two rows of a user do.  `KeysOK`: a request in the
  middle of a keyed send holds the key alone, and what was answered is what is stored.
* Audit log, holds.  `GateInv`: an approval that has let nothing through is not CONSUMED, and
  the one a request carries past the gate was asked for by somebody else, which
  `ReleasedByTwo` needs at the later write.  `CoverInv` says what the place of the request in
  flight means for the flags, as hold and flags are written one after the other.
* Audit log, chain.  `SeqInv`: numbers follow the order of writing and a purge has its cutoff
  in the past, so the last row, from which the next number comes, is never deleted.
  `PurgeInv` says what a worker has read by its place in the purge (`ReadOK`): what it deletes
  was archived in a range its run records, and what is gone lies in a recorded range
  (`DeletedOK`).  Then each remaining row links to the one before it or starts after such a
  range.  `VerifyInv` says the same of the batch that a verification carries.
* Audit log, views.  An alert that fired is in its cooldown until it may fire again.
* Reports.  A status is written against the status that was loaded, so a decision is never
  overwritten (`CaseRows`, `ClaimedWrite`) but by `flagUrgent`, which `TerminalStep` excepts.  `HandedOut`: a free report was given to nobody.
  `MergesFlat`: between the load and the write of a merge both reports are roots and the
  children read are all there are.  `FiledOnce`: the draft goes only after its own insert.
  `GrantRows`: a row that grants nothing names no report.
* Missing persons.  `KeysUnique`: a write keeps the key of the row it writes, in the table and
  in every copy, across all handlers.  `FirstWasMade`: the first confirmation in a row or
  in a copy was made by that admin.  `TakenDown`: the copy agrees with the row about the
  takedown, the state to return to included.
* Information submissions.  `TipsKept`: a tip without assignee has no claimant, and an answered
  question was asked.  `Forgotten`: the copy names whom the row names.
* Moderation.  `ClaimsHeld`: a request that acts for a flag holds it as ACTIONED in its own name
  until it has acted or put it back.
* Posts.  `PostRows`: statuses are those of the map, and reads are pairs of posts that exist
  and admins, so that counting them counts the posts (`UnreadIsExact`).
* Jobs.  Of the tokens that took the lock within the ttl and did not throw there is at
  most the one in Redis (`OnlyTheLock`).  As long as the stored file is not `late`, a worker's
  phase bounds what it can be (`PhaseBounds`): a file that comes while a worker is past its
  first look is late, and a worker that looks again makes it one that counts.  A row goes only
  when it has expired, by when the URL has ended (`RowForFile`).

Some inductive invariants were checked with TLC on small instances before they were
proved; the others were proved directly, and TLC checks what follows from them.

Only model-checked:

* liveness (fairness and ENABLED are out of the prover's reach);
* `ListingsHideRestricted`, `AdminListsHideRemoved`, `RemovedTipHidden`, `MyListsAgree`,
  `AddressForSuperOnly`, `AnonymizedRowsNameless` and `DashboardAgrees`, which compare views of one
  state: no step has to preserve them, and TLC compares them on every state it reaches;
* `DevicesWithinCap`: devices are kept in a sequence, and how many of them a selection
  leaves would need induction over data;
* `SecurityPlannedNow`, which one action settles;
* `FailedHasNoPage` by that name: it is `FailedHasNoCheckout` in the configuration with one start,
  the statement of `FailedIsUnpayable`;
* the joint properties of the MC modules as such, and the type invariants in them: the
  theorems are about their parts.

`InvalidationRespected` and `OwnWritesSeen` are not claimed for the unguarded protocol.

## 5. Not modelled, and the plan

Left out of the modelled parts: listing and reporting endpoints that only format,
the emission of audit and notification events by the other services, amounts'
decimal representation (integers stand for Decimal(14,2), which adds exactly),
Chapa's signature check, the sweep's `take` limits, hashes and signatures (a code
is right or wrong, a digest is the tuple of what it covers), templates and texts.
`Broadcast` takes a fixed audience: a user skipped because the row of the cursor left it
between two pages is outside the model.

Not modelled at all: the shared features (help desk, legal pages, content,
announcements, API clients, follows, notes, webhooks, blocking, workspace), which
are single-statement CRUD and for which a property would restate the statement;
USSD and app access, which render menus over the other services; the adapters and
the HTTP layer, which keep no state.

What a next step would add: the last super admin (a count in READ COMMITTED) and the refund
crash as configurations of their own, once the code decides what it wants there; deliveries
of `Broadcast` with more than one attempt per channel; and the hypotheses "one request at a
time" of section 4, which can go when the writes by id compare with what was loaded.
