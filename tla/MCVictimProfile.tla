-------------------------- MODULE MCVictimProfile ---------------------------
(***************************************************************************)
(* VictimProfile for TLC.  A behaviour is of one of two kinds, which keeps *)
(* apart handlers whose columns do not meet: "review" (claims, children,   *)
(* child-flag proposals, featuring) and "edit" (adminEdit, legal hold,     *)
(* deletion, anonymisation).  Everything else happens in both.             *)
(***************************************************************************)
EXTENDS VictimProfile, TLC

CONSTANTS a1, a2

VARIABLE kind

Symmetry == Permutations({a1, a2})

InReview == edit = "idle" /\ anon = "idle" /\ {"legalHold", "deletedAt"} \cap on = {}
InEdit == claimedBy = None /\ proposedBy = None /\ {"isFeatured", "involvesChild"} \cap on = {}

KindInit == Init /\ kind \in {"review", "edit"}
KindNext ==
    /\ Next
    /\ UNCHANGED kind
    /\ kind = "review" => InReview'
    /\ kind = "edit" => InEdit'
KindSpec == KindInit /\ [][KindNext]_<<vars, kind>>
=============================================================================
