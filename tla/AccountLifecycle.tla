----------------------------- MODULE AccountLifecycle -----------------------------
(***************************************************************************)
(* The three services that change an account.  An execution of the system  *)
(* is about one user: a hire that is to be onboarded, by one operation or  *)
(* by two at once, or an employee who is offboarded and helped meanwhile.  *)
(***************************************************************************)
EXTENDS AccountServices

CONSTANTS
    Hirers,   \* processes that call OnboardingService
    Sku,      \* target_sku_id of the plan
    Tries     \* requests that are made for one licence or group

ASSUME LifecycleOK ==
    /\ Sku \in Skus
    /\ Tries \in Nat \ {0}

VARIABLES
    person,   \* the hire in the tenant
    hire,     \* calls of OnboardingService
    hiring    \* whether this execution is about the hire

lifeVars == <<vars, person, hire, hiring>>

Onb == INSTANCE Onboarding WITH user <- person

LifeInit ==
    /\ hiring \in BOOLEAN
    /\ Init /\ Onb!Init
    /\ hiring => user = CHOOSE u \in GraphUsers : TRUE
    /\ ~hiring => person = Onb!Absent

Hire ==
    /\ hiring
    /\ Onb!Next
    /\ UNCHANGED <<user, call, fix, hiring>>

Employ ==
    /\ ~hiring
    /\ Next
    /\ UNCHANGED <<person, hire, hiring>>

LifeNext == Hire \/ Employ

LifeSpec == LifeInit /\ [][LifeNext]_lifeVars
-------------------------------------------------------------------------------
LifeTypeOK == TypeOK /\ Onb!TypeOK

\* The promises of the services: see their modules.  "verified" of a hire is true of the
\* tenant, whichever requests failed.
OnboardingIsSound == Onb!SuccessIsSound

\* A failure that a service reports is one: while no request fails, a call of any of the
\* three that nobody disturbed succeeds.
CleanCallsSucceed == OffboardingSucceeds /\ RemediationSucceeds /\ Onb!CleanCallSucceeds

\* A call that is repeated changes nothing that was achieved; and an offboarding that
\* revoked no session is such a repetition.
OnlyRerunsAreQuiet == OffboardingIsQuiet /\ Onb!RerunIsQuiet /\ OffboardingRevokes
==================================================================================
