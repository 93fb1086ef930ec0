------------------------- MODULE ProfileModeration --------------------------
(***************************************************************************)
(* victim-profile-moderation.service.ts: flags of readers and appeals of   *)
(* the creator on one victim profile.  The handlers read the flag or the   *)
(* appeal and the profile, then write: a flag is claimed before its action *)
(* on the profile, an appeal is decided after it.  The profile itself is   *)
(* reduced to its status and the donations switch (see VictimProfile);     *)
(* unpublish, pauseDonations and resubmit re-read it and write it under    *)
(* the optimistic lock, so each is one step that may fail.                 *)
(***************************************************************************)
EXTENDS Naturals, FiniteSets

CONSTANTS Flags, Appeals, Requests, PROFILE_MAX_APPEALS, None

VARIABLES
  prof,     \* the profile: status, and whether donations are paused
  flag,     \* flag rows; "by" is resolvedById
  appeal,   \* appeal rows; "by" is decidedById
  call,     \* requests in flight
  reviewed  \* history: requests whose resubmit put the profile back into review

modVars == <<prof, flag, appeal, call, reviewed>>

NoFlag == [status |-> "none", by |-> None]
NoAppeal == [status |-> "none", by |-> None]
Idle == [pc |-> "idle", on |-> None, choice |-> "none", seen |-> "none"]

ModerationInit ==
  /\ prof = [status |-> "PUBLISHED", paused |-> "no"]
  /\ flag = [f \in Flags |-> NoFlag] /\ appeal = [a \in Appeals |-> NoAppeal]
  /\ call = [q \in Requests |-> Idle] /\ reviewed = {}

Done(q) == call' = [call EXCEPT ![q] = Idle]
Go(q, pc) == call' = [call EXCEPT ![q].pc = pc]

\* What the handlers of VictimProfile do to the row meanwhile.
OtherHandlers(s, p) ==
  /\ <<prof.status, s>> \in {<<"PUBLISHED", "UNPUBLISHED">>, <<"UNPUBLISHED", "REVIEW">>, <<"REVIEW", "PUBLISHED">>,
                             <<"REVIEW", "REJECTED">>, <<"UNPUBLISHED", "REJECTED">>, <<"PUBLISHED", "PUBLISHED">>}
  /\ prof' = [status |-> s, paused |-> p] /\ UNCHANGED <<flag, appeal, call, reviewed>>

-----------------------------------------------------------------------------
(* Flags. *)

\* The unique key (profile, reporter) makes a second flag of one reader fail.
flagProfile(f) ==
  /\ prof.status = "PUBLISHED" /\ flag[f].status = "none"
  /\ flag' = [flag EXCEPT ![f].status = "OPEN"] /\ UNCHANGED <<prof, appeal, call, reviewed>>
resolveFlag(q, f, choice) ==
  /\ call[q].pc = "idle" /\ flag[f].status = "OPEN"
  /\ call' = [call EXCEPT ![q] = [pc |-> "claim", on |-> f, choice |-> choice,
                                  seen |-> IF choice = "UNPUBLISH" THEN prof.status ELSE prof.paused]]
  /\ UNCHANGED <<prof, flag, appeal, reviewed>>
Claimable_Fault(q) == TRUE
Claimable(q) == flag[call[q].on].status = "OPEN"
\* Two admins cannot both act on it; the profile as read before decides whether there is something to do.
ClaimFlag(q) ==
  /\ call[q].pc = "claim"
  /\ IF ~Claimable(q) THEN Done(q) /\ UNCHANGED flag
     ELSE /\ flag' = [flag EXCEPT ![call[q].on] = [status |-> IF call[q].choice = "DISMISS" THEN "DISMISSED" ELSE "ACTIONED",
                                                   by |-> q]]
          /\ IF (call[q].choice = "UNPUBLISH" /\ call[q].seen = "PUBLISHED")
                  \/ (call[q].choice = "PAUSE_DONATIONS" /\ call[q].seen = "no")
             THEN Go(q, "act") ELSE Done(q)
  /\ UNCHANGED <<prof, appeal, reviewed>>
ActOnProfile(q) ==
  /\ call[q].pc = "act"
  /\ IF call[q].choice = "UNPUBLISH"
     THEN prof.status = "PUBLISHED" /\ prof' = [prof EXCEPT !.status = "UNPUBLISHED"]
     ELSE prof.paused = "no" /\ prof' = [prof EXCEPT !.paused = "yes"]
  /\ Done(q) /\ UNCHANGED <<flag, appeal, reviewed>>
\* Refused, a conflict with another writer, or the database fails.
ActionFails(q) == call[q].pc = "act" /\ Go(q, "putBack") /\ UNCHANGED <<prof, flag, appeal, reviewed>>
PutBack(q) ==
  /\ call[q].pc = "putBack" /\ flag' = [flag EXCEPT ![call[q].on] = [status |-> "OPEN", by |-> None]]
  /\ Done(q) /\ UNCHANGED <<prof, appeal, reviewed>>

-----------------------------------------------------------------------------
(* Appeals. *)

OpenAppeals == {a \in Appeals : appeal[a].status = "OPEN"}
createAppeal(q) ==
  /\ call[q].pc = "idle" /\ prof.status = "REJECTED" /\ OpenAppeals = {}
  /\ Cardinality({a \in Appeals : appeal[a].status # "none"}) < PROFILE_MAX_APPEALS
  /\ call' = [call EXCEPT ![q] = [Idle EXCEPT !.pc = "create"]] /\ UNCHANGED <<prof, flag, appeal, reviewed>>
InsertAppeal(q, a) ==
  /\ call[q].pc = "create" /\ appeal[a].status = "none"
  /\ appeal' = [appeal EXCEPT ![a].status = "OPEN"] /\ Done(q) /\ UNCHANGED <<prof, flag, reviewed>>
\* No appeal is open when it looks; the write asks only that the profile has not changed.
resubmitMine(q) ==
  /\ call[q].pc = "idle" /\ prof.status = "REJECTED" /\ OpenAppeals = {}
  /\ call' = [call EXCEPT ![q] = [Idle EXCEPT !.pc = "mine"]] /\ UNCHANGED <<prof, flag, appeal, reviewed>>
WriteResubmitMine(q) ==
  /\ call[q].pc = "mine" /\ prof.status = "REJECTED"
  /\ prof' = [prof EXCEPT !.status = "REVIEW"] /\ Done(q) /\ UNCHANGED <<flag, appeal, reviewed>>
FirstStep_Fault(choice) == "decide"
\* The rejection is lifted before the appeal is decided.
FirstStep(choice) == IF choice = "OVERTURN_REJECTION" THEN "resubmit" ELSE "decide"
\* The admin who rejected may not decide; that only narrows who asks.
decideAppeal(q, a, choice) ==
  /\ call[q].pc = "idle" /\ appeal[a].status = "OPEN"
  /\ choice = "OVERTURN_REJECTION" => prof.status = "REJECTED"
  /\ call' = [call EXCEPT ![q] = [pc |-> FirstStep(choice), on |-> a, choice |-> choice, seen |-> prof.status]]
  /\ UNCHANGED <<prof, flag, appeal, reviewed>>
resubmit(q) ==
  /\ call[q].pc = "resubmit"
  /\ IF prof.status = "REJECTED"
     THEN prof' = [prof EXCEPT !.status = "REVIEW"] /\ reviewed' = reviewed \cup {<<q, call[q].on>>} /\ Go(q, "decide")
     ELSE UNCHANGED <<prof, reviewed>> /\ Done(q)
  /\ UNCHANGED <<flag, appeal>>
Decidable(a) == appeal[a].status = "OPEN"
Decide(q) ==
  /\ call[q].pc = "decide"
  /\ appeal' = IF ~Decidable(call[q].on) THEN appeal
               ELSE [appeal EXCEPT ![call[q].on] = [status |-> IF call[q].choice = "OVERTURN_REJECTION" THEN "OVERTURNED" ELSE "UPHELD",
                                                    by |-> q]]
  /\ Done(q) /\ UNCHANGED <<prof, flag, reviewed>>
\* The process ends, or the database fails between two statements.
Dies(q) == call[q].pc # "idle" /\ Done(q) /\ UNCHANGED <<prof, flag, appeal, reviewed>>

FlagNext ==
  \/ \E s \in {"PUBLISHED", "UNPUBLISHED", "REVIEW"}, p \in {"yes", "no"} : OtherHandlers(s, p)
  \/ \E f \in Flags : flagProfile(f)
  \/ \E q \in Requests :
       \/ \E f \in Flags, c \in {"DISMISS", "UNPUBLISH", "PAUSE_DONATIONS"} : resolveFlag(q, f, c)
       \/ ClaimFlag(q) \/ ActOnProfile(q) \/ ActionFails(q) \/ PutBack(q) \/ Dies(q)
AppealNext ==
  \/ \E s \in {"PUBLISHED", "UNPUBLISHED", "REVIEW", "REJECTED"} : OtherHandlers(s, "no")
  \/ \E q \in Requests :
       \/ resubmitMine(q) \/ WriteResubmitMine(q) \/ createAppeal(q) \/ \E a \in Appeals : InsertAppeal(q, a)
       \/ \E a \in Appeals, c \in {"OVERTURN_REJECTION", "UPHOLD"} : decideAppeal(q, a, c)
       \/ resubmit(q) \/ Decide(q) \/ Dies(q)
ModerationNext == FlagNext \/ AppealNext
ModerationSpec == ModerationInit /\ [][ModerationNext]_modVars

ModerationTypeOK ==
  /\ prof.status \in {"PUBLISHED", "UNPUBLISHED", "REVIEW", "REJECTED"}
  /\ \A f \in Flags : flag[f].status \in {"none", "OPEN", "DISMISSED", "ACTIONED"}
  /\ \A a \in Appeals : appeal[a].status \in {"none", "OPEN", "UPHELD", "OVERTURNED"}

\* A failed action puts its flag back without a condition (187): it takes back its own claim
\* and never the resolution another admin has given meanwhile.
OnlyOwnClaimPutBack ==
  \A f \in Flags : (flag[f].by # None /\ flag'[f] # flag[f]) =>
    flag'[f].status = "OPEN" /\ call[flag[f].by].pc = "putBack" /\ call[flag[f].by].on = f

\* An appeal that reads OVERTURNED did put the profile back into review (292), whoever decided
\* it, whatever other admins and the creator did to the profile at the same time.
OverturnedWasReviewed == \A a \in Appeals : appeal[a].status = "OVERTURNED" => <<appeal[a].by, a>> \in reviewed
=============================================================================
