----------------------------- MODULE MCDonation -----------------------------
(***************************************************************************)
(* Donation for TLC.  A behaviour is of one of two kinds: "one" donation   *)
(* with every call running twice, or "total", two donations and a          *)
(* reconciliation, with one start and one settlement at a time.            *)
(***************************************************************************)
EXTENDS Donation, TLC

CONSTANTS p1, p2, r1, r2, s1, s2, b1, b2, x1

VARIABLE kind

Symmetry == Permutations({p1, p2}) \cup Permutations({r1, r2}) \cup Permutations({s1, s2})
                \cup Permutations({b1, b2})

OneDonation == /\ Cardinality({p \in Refs : pay[p] # "none"}) <= 1
               /\ \A x \in Auditors : audit[x] = "idle"
OneCallEach == /\ Cardinality({r \in Starters : start[r].pc # "idle"}) <= 1
               /\ Cardinality({s \in Settlers : settle[s].pc # "idle"}) <= 1
               /\ \A a \in Refunders : refund[a].pc = "idle"

KindInit == Init /\ (kind = "total" \/ (kind = "one" /\ total = 0))
KindNext ==
    /\ Next
    /\ UNCHANGED kind
    /\ kind = "one" => OneDonation'
    /\ kind = "total" => OneCallEach'
KindSpec == KindInit /\ [][KindNext]_<<vars, kind>>

\* With one start call at a time a failed payment has no checkout page left to pay, whatever
\* crashed or got lost (start, donation.service.ts); two at a time break it.
FailedHasNoPage == kind = "total" => FailedHasNoCheckout
=============================================================================
