----------------------------- MODULE AccountServices -----------------------------
(***************************************************************************)
(* Offboarding and remediation at work on one user at once.  The operation *)
(* queue and the command line call either service without looking at the   *)
(* other; all they share is the user in the tenant.                        *)
(***************************************************************************)
EXTENDS GraphUser

CONSTANTS
    Offboarders,     \* processes that call OffboardingService
    Helpdesk,        \* processes that call RemediationService
    LabGroups,       \* groups whose name starts with LAB-
    ProtectedGroups, \* protected_group_ids
    RemovableSkus,   \* removable_sku_ids
    NoTarget,        \* the target of an action that has none
    Requests         \* what the helpdesk is asked for, a subset of Rem!Tickets

VARIABLES
    call,   \* calls of OffboardingService
    fix     \* calls of RemediationService

vars == <<user, mishaps, call, fix>>

Off == INSTANCE Offboarding WITH Callers <- Offboarders
Rem == INSTANCE Remediation WITH Callers <- Helpdesk

ASSUME RequestsOK ==
    /\ Requests \subseteq Rem!Tickets
    /\ NoTarget \notin Groups \cup Skus
    /\ Groups \cap Skus = {}

Init == Off!Init /\ Rem!Init

\* A caller of one service takes a step; the calls of the other may notice.
OffboardingStep == (\E c \in Offboarders : Off!Step(c)) /\ Rem!Elsewhere
RemediationStep == (\E c \in Helpdesk : Rem!Step(c)) /\ Off!Elsewhere

StartOffboarding ==
    /\ \E c \in Offboarders, mode \in Off!Modes, named \in BOOLEAN : Off!Begin(c, mode, named)
    /\ UNCHANGED fix

StartRemediation ==
    /\ \E c \in Helpdesk, t \in Requests, mode \in Rem!Modes, named \in BOOLEAN :
            Rem!Begin(c, t, mode, named)
    /\ UNCHANGED call

Next == OffboardingStep \/ RemediationStep \/ StartOffboarding \/ StartRemediation

Spec == Init /\ [][Next]_vars
-------------------------------------------------------------------------------
TypeOK == Off!TypeOK /\ Rem!TypeOK

\* The promises of the two services, kept in each other's presence; see there.
OffboardingIsSound   == Off!SuccessIsSound
OffboardingSucceeds  == Off!CleanCallSucceeds
OffboardingIsQuiet   == Off!RerunIsQuiet
OffboardingRevokes   == Off!SuccessRevoked
OffboardingTakesOnly == Off!TakesOnlyRemovable
RemediationIsSound   == Rem!SuccessIsSound
RemediationSucceeds  == Rem!CleanCallSucceeds
==================================================================================
