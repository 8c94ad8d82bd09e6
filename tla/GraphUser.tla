-------------------------------- MODULE GraphUser --------------------------------
(***************************************************************************)
(* One synthetic user in Microsoft Graph and the requests that read and    *)
(* change it, as far as the services of this repository use them.  The     *)
(* tenant is not code of this repository: what it answers is taken from    *)
(* what its clients rely on.                                               *)
(***************************************************************************)
EXTENDS Naturals

CONSTANTS
    Groups,      \* groups of the tenant
    Skus,        \* licences (SKUs) of the tenant
    MaxMishaps   \* bound: how often a request fails

ASSUME GraphConstantsOK == MaxMishaps \in Nat

VARIABLES
    user,     \* the user object and its memberships
    mishaps   \* failed requests so far

\* What the two requests of a capture return of a user.  Sessions and passwords cannot
\* be read, so they are not part of it.
GraphUsers == [enabled : BOOLEAN, groups : SUBSET Groups, skus : SUBSET Skus]

\* What is left of a capture that failed: {"error"} has no lists, and its
\* accountEnabled is None, which "is not False".
Unread == [enabled |-> TRUE, groups |-> {}, skus |-> {}]

Mishap ==
    /\ mishaps < MaxMishaps
    /\ mishaps' = mishaps + 1

\* A read is answered, or raises.
Read(ok) ==
    /\ UNCHANGED user
    /\ IF ok THEN UNCHANGED mishaps ELSE Mishap

\* A write is carried out; or Graph rejects it (a member that is none, a licence that
\* is not assigned); or it is lost, or carried out and its answer lost, both of which
\* raise once the retries are spent.
Write(valid, new, ok) ==
    \/ ok /\ valid /\ user' = new /\ UNCHANGED mishaps
    \/ ~ok /\ ~valid /\ UNCHANGED <<user, mishaps>>
    \/ ~ok /\ Mishap /\ UNCHANGED user
    \/ ~ok /\ Mishap /\ valid /\ user' = new
==================================================================================
