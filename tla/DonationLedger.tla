--------------------------- MODULE DonationLedger ---------------------------
(***************************************************************************)
(* What the donation code promises about money, without saying how: every  *)
(* donation is counted at most once, for good, and the displayed total     *)
(* moves only by the amount just counted or to the exact total.            *)
(***************************************************************************)
EXTENDS Naturals, Sums

CONSTANT Refs       \* donations
VARIABLES entry,    \* absent, open, counted or closed
          amount,   \* amount of each donation
          raised    \* the displayed total (VictimProfile.totalRaised)

ledger == <<entry, amount, raised>>

Counted == {p \in Refs : entry[p] = "counted"}

Init ==
    /\ entry = [p \in Refs |-> "absent"]
    /\ amount \in [Refs -> Nat]
    /\ raised \in Nat

\* A donation is started, given up, or taken up again.
Track(p, from, to) ==
    /\ entry[p] \in from
    /\ entry' = [entry EXCEPT ![p] = to]
    /\ UNCHANGED <<amount, raised>>

Count(p) ==
    /\ entry[p] = "open"
    /\ entry' = [entry EXCEPT ![p] = "counted"]
    /\ amount' \in [Refs -> Nat]
    /\ \A q \in Refs \ {p} : amount'[q] = amount[q]
    /\ raised' = raised + amount'[p]

Correct ==
    /\ raised' = SumOver(amount, Counted)
    /\ UNCHANGED <<entry, amount>>

Next ==
    \/ \E p \in Refs :
         \/ Track(p, {"absent", "closed"}, "open")
         \/ Track(p, {"open"}, "closed")
         \/ Count(p)
    \/ Correct

Spec == Init /\ [][Next]_ledger
=============================================================================
