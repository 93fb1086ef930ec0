----------------------------- MODULE MCLiveness -----------------------------
(***************************************************************************)
(* What must eventually happen, for TLC: transfers resolve, collected      *)
(* donations are recorded, broadcasts and their deliveries settle, uploads *)
(* are scanned.  A behaviour picks one of the four and leaves the state of *)
(* the others alone; a fairness condition binds only its own kind.         *)
(***************************************************************************)
EXTENDS MediaScan

CONSTANT None

VARIABLES kind,
  hook,  \* history: what became of Chapa's webhook, "none", "asking", "heard" or "cut" (verify threw)
  disb, sum, recent, raised, hold, blocked, dest, verified, edit, rowLock, payer, check, appr, chapa,
  pay, amount, total, fresh, page, start, settle, refund, audit, cached, live,
  checkout, collected, foreign, returned, hooked,
  bc, run, seen, inbox, delivery, sender, paused, handed, signed, broke

Out   == INSTANCE Payout WITH Victims <- {"v"}, Disbursements <- {"d"}, Workers <- {"w"}, Checkers <- {"c"},
           Accounts <- {"a"}, MinTransfer <- 1, MaxRaised <- 1, Spurious4xx <- FALSE,
           amount <- sum, paused <- hold, worker <- payer
Don   == INSTANCE Donation WITH Refs <- {"p"}, Keyed <- {}, Starters <- {"r"}, Settlers <- {"s"}, Refunders <- {},
           Auditors <- {}, Asked <- 2, Collectable <- {1, 2}, Drift <- {0}, Faults <- {}, url <- page
Cast  == INSTANCE Broadcast WITH NUsers <- 1, BATCH_SIZE <- 1, Workers <- {"w1", "w2"}, Admins <- {"a"}, Author <- "a",
           Texts <- {"t"}, MaxFaults <- 2, MAX_BROADCAST_ATTEMPTS <- 2, MAX_DELIVERY_ATTEMPTS <- 2, faults <- broke

outVars  == <<disb, sum, recent, raised, hold, blocked, dest, verified, edit, rowLock, payer, check, appr, chapa>>
donVars  == <<pay, amount, total, fresh, page, start, settle, refund, audit, cached, live,
              checkout, collected, foreign, returned, hooked>>
castVars == <<bc, run, seen, inbox, delivery, sender, paused, handed, signed, broke>>

Init == kind \in {"payout", "donation", "broadcast", "scan"}
        /\ hook = "none" /\ Out!Init /\ Don!Init /\ Cast!BroadcastInit /\ ScanInit

DonNext ==
  \/ Don!HandleEvent("s", "p") /\ hook' = "asking"
  \/ Don!SettleFinish("s") /\ hook' = (IF hook = "asking" THEN "heard" ELSE hook)
  \/ Don!SettleGivesUp("s") /\ hook' = (IF hook = "asking" THEN "cut" ELSE hook)
  \/ /\ Don!Start("r") \/ Don!VerifyForPayer("s", "p") \/ Don!AcceptReview("s", "p")
        \/ Don!VerifyAnswers("s") \/ Don!Donor("p")
     /\ UNCHANGED hook

Next ==
  /\ UNCHANGED kind /\ (kind # "donation" => UNCHANGED hook)
  /\ \/ kind = "payout"    /\ Out!Next      /\ UNCHANGED <<donVars, castVars, scanVars>>
     \/ kind = "donation"  /\ DonNext       /\ UNCHANGED <<outVars, castVars, scanVars>>
     \/ kind = "broadcast" /\ Cast!LiveNext /\ UNCHANGED <<outVars, donVars, scanVars>>
     \/ kind = "scan"      /\ ScanNext      /\ UNCHANGED <<outVars, donVars, castVars>>

vars == <<kind, hook, outVars, donVars, castVars, scanVars>>

\* Requests end within their timeout, the timer checks an unresolved transfer every five
\* minutes, Chapa decides what it has queued and a definite answer gets through in the end.
PayoutFairness ==
  /\ WF_outVars(kind = "payout" /\ payer["w"].pc # "idle" /\ (Out!RunForVictim("w") \/ Out!Crash("w")))
  /\ WF_outVars(kind = "payout" /\ Out!DeliverRequest("d"))
  /\ WF_outVars(kind = "payout" /\ chapa["d"] = "queued" /\ (Out!ApproveTransfer("d") \/ Out!ChapaFails("d")))
  /\ WF_outVars(kind = "payout" /\ check["c"].pc # "idle" /\ Out!CheckDisbursement("c"))
  /\ SF_outVars(kind = "payout" /\ Out!BeginCheck("c", "d", "aged"))
  /\ SF_outVars(kind = "payout" /\ Out!AgedCheckOf("c", "d") /\ \E a \in Out!CheckAnswer : Out!ChapaAnswers("c", a))
  /\ SF_outVars(kind = "payout" /\ Out!AgedCheckOf("c", "d") /\ Out!ApplyCheck("c"))

\* A settling call ends, with an answer or without, and Chapa delivers its webhook once.
DonationFairness ==
  /\ WF_donVars(kind = "donation" /\ Don!SettleStep("s"))
  /\ SF_donVars(kind = "donation" /\ Don!HandleEvent("s", "p"))

\* The scheduler's tick keeps coming on every instance, and time passes; faults are finite.
BroadcastFairness ==
  /\ WF_castVars(kind = "broadcast" /\ Cast!DeadClaimAges)
  /\ \A w \in {"w1", "w2"} :
       /\ WF_castVars(kind = "broadcast" /\ Cast!FanOut(w))
       /\ WF_castVars(kind = "broadcast" /\ Cast!processDeliveries(w))

\* The worker's tick keeps coming, its calls answer or time out, and time passes.
ScanFairness ==
  /\ WF_scanVars(kind = "scan" /\ UrlEnds) /\ WF_scanVars(kind = "scan" /\ RowExpires)
  /\ WF_scanVars(kind = "scan" /\ staleLock)
  /\ \A w \in {"w1", "w2"} :
       WF_scanVars(kind = "scan" /\ (claim(w) \/ processOne(w)))

Spec == Init /\ [][Next]_vars /\ PayoutFairness /\ DonationFairness /\ BroadcastFairness /\ ScanFairness

\* Every recorded transfer is eventually PAID or FAILED (runForVictim, checkDisbursement).
EveryTransferResolves == Out!EveryTransferResolves
\* One webhook is enough: money that Chapa collected is recorded or put up for review, whatever
\* other calls run meanwhile, unless the verification of that webhook throws or its process dies
\* (settlePayment).  Then it may stay PENDING: nothing in the code is sure to ask again.
CollectedIsSettled ==
  checkout["p"] = "paid" /\ pay["p"] = "PENDING" ~> pay["p"] # "PENDING" \/ hook = "cut"
\* A broadcast ends and stays ended, and its delivery queue drains, with workers that die
\* and claims that age (startDueBroadcasts, runBroadcast, recoverStuckDeliveries).
BroadcastSettles == Cast!BroadcastSettles /\ Cast!DeliveriesSettle
=============================================================================
