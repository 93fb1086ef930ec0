----------------------------- MODULE MCAccounts -----------------------------
(***************************************************************************)
(* The account services for TLC.  A behaviour picks one of the small       *)
(* configurations below and stays in it: the one-time codes, the sessions  *)
(* or the sign-in methods of a user, an admin account, a phone change, the *)
(* admins' actions on an account, two-factor, the staff roles.             *)
(***************************************************************************)
EXTENDS AuthBase, TwoFactor, TLC

VARIABLES kind,
  contact, sentTo, unproven, deletion,
  role, held, off, ask, temp, reviewer, verdicts

accountRest == <<contact, sentTo, unproven, deletion>>
staff       == <<role, held, off, ask, temp, reviewer, verdicts>>

UCodes   == INSTANCE UserAuth WITH Requests <- {"r"}, Sessions <- {1}, Providers <- {}
USess    == INSTANCE UserAuth WITH Otps <- {1}, Providers <- {}
UMethods == INSTANCE UserAuth WITH Otps <- {}, Sessions <- {1}, MaxLoginAttempts <- 2
Admin    == INSTANCE AdminAuth WITH Sessions <- {1}, Providers <- {}
Phone    == INSTANCE UserAccount WITH Requests <- {"r"}, Sessions <- {1}, Providers <- {}, Phones <- {"p1", "p2"}, Anon <- "anon"
AdminOps == INSTANCE UserAccount WITH Requests <- {"r"}, Otps <- {}, Sessions <- {1, 2}, Providers <- {"google"},
                                      Phones <- {"p1"}, Anon <- "anon"
Roles    == INSTANCE StaffRoles WITH Staff <- Requests, Asks <- {"q1"}, Nobody <- None, call <- reviewer

NoAuth      == AuthInit /\ row = {}
NoRest      == contact = None /\ sentTo = None /\ unproven = {} /\ deletion = None
NoStaff     == role = {} /\ held = None /\ off = {} /\ ask = None /\ temp = None /\ reviewer = None /\ verdicts = None

Init ==
  \/ kind = "codes"   /\ UCodes!UserInit      /\ NoRest /\ TwoFactorInit /\ NoStaff
  \/ kind = "sess"    /\ USess!UserInit       /\ NoRest /\ TwoFactorInit /\ NoStaff
  \/ kind = "methods" /\ UMethods!UserInit    /\ NoRest /\ TwoFactorInit /\ NoStaff
  \/ kind = "admin"   /\ Admin!AdminInit      /\ NoRest /\ TwoFactorInit /\ NoStaff
  \/ kind = "phone"   /\ Phone!AccountInit    /\ TwoFactorInit /\ NoStaff
  \/ kind = "ops"     /\ AdminOps!AccountInit /\ TwoFactorInit /\ NoStaff
  \/ kind = "2fa"     /\ TwoFactorInit       /\ NoAuth /\ NoRest /\ NoStaff
  \/ kind \in {"grants", "builtin"} /\ Roles!StaffInit /\ NoAuth /\ NoRest /\ TwoFactorInit

Next ==
  /\ UNCHANGED kind
  /\ \/ kind = "codes"   /\ UCodes!UserNext       /\ UNCHANGED <<accountRest, twoFactorVars, staff>>
     \/ kind = "sess"    /\ USess!UserNext        /\ UNCHANGED <<accountRest, twoFactorVars, staff>>
     \/ kind = "methods" /\ UMethods!UserNext     /\ UNCHANGED <<accountRest, twoFactorVars, staff>>
     \/ kind = "admin"   /\ Admin!AdminNext       /\ UNCHANGED <<accountRest, twoFactorVars, staff>>
     \/ kind = "phone"   /\ Phone!PhoneNext       /\ UNCHANGED <<twoFactorVars, staff>>
     \/ kind = "ops"     /\ AdminOps!AdminOpsNext /\ UNCHANGED <<twoFactorVars, staff>>
     \/ kind = "2fa"     /\ TwoFactorNext         /\ UNCHANGED <<authVars, accountRest, staff>>
     \/ kind = "grants"  /\ Roles!GrantNext       /\ UNCHANGED <<authVars, accountRest, twoFactorVars>>
     \/ kind = "builtin" /\ Roles!BuiltInNext     /\ UNCHANGED <<authVars, accountRest, twoFactorVars>>

vars == <<kind, authVars, accountRest, twoFactorVars, staff>>
Spec == Init /\ [][Next]_vars

Symmetry == Permutations(Requests)

\* Every account service keeps its rows well formed (see the services' own AuthTypeOK,
\* TwoFactorTypeOK and StaffTypeOK).
AccountsTypeOK ==
  CASE kind = "codes" -> UCodes!AuthTypeOK  [] kind = "sess" -> USess!AuthTypeOK
    [] kind = "methods" -> UMethods!AuthTypeOK [] kind = "admin" -> Admin!AuthTypeOK
    [] kind = "phone" -> Phone!AuthTypeOK   [] kind = "ops" -> AdminOps!AuthTypeOK
    [] kind = "2fa" -> TwoFactorTypeOK [] OTHER -> Roles!StaffTypeOK

\* The rows are well formed and agree with each other: a request to assign a role gets one
\* answer, be it approved, rejected or cancelled by the archive of the role, and an ACTIVE
\* temporary assignment is of a role the member holds (RoleService).
AccountsConsistent ==
  /\ AccountsTypeOK
  /\ kind \in {"grants", "builtin"} => Roles!OneVerdict /\ Roles!TemporaryIsHeld
=============================================================================
