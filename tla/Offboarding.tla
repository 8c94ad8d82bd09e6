------------------------------- MODULE Offboarding -------------------------------
(***************************************************************************)
(* OffboardingService.execute_offboarding: capture, revoke, disable,       *)
(* remove groups, remove licences, read back.  Several callers (operation  *)
(* workers, the command line) may offboard one user at once, and others    *)
(* may change the user in between.                                         *)
(***************************************************************************)
EXTENDS GraphUser

CONSTANTS
    Callers,         \* processes that call the service
    LabGroups,       \* groups whose name starts with LAB-
    ProtectedGroups, \* protected_group_ids
    RemovableSkus    \* removable_sku_ids; all of Skus stands for None

VARIABLE
    call   \* call[c]: the call that c is making or has made last

vars == <<user, mishaps, call>>

Modes   == {"execute", "dry_run", "unapproved"}
Phases  == {"idle", "user", "groups", "work", "verify", "done"}
Results == Modes \cup {"none", "refused", "failed", "partial", "success"}
Tasks   == {"revoke", "disable", "licences"}

Calls ==
    [pc : Phases,
     mode : Modes,
     pre : GraphUsers,           \* pre_state
     work : SUBSET Tasks,       \* tasks still to be done
     todo : SUBSET Groups,      \* groups still to be removed
     errors : BOOLEAN,          \* mutation_errors is not empty
     good : BOOLEAN,            \* verification of the user half of the read-back
     result : Results,          \* status
     revoked : BOOLEAN,         \* sessions_revoked
     wrote : BOOLEAN,           \* history: it has sent a mutation
     undisturbed : BOOLEAN]     \* history: nobody else changed the user since it began

Fresh(mode) ==
    [pc |-> "user", mode |-> mode, pre |-> Unread, work |-> {}, todo |-> {},
     errors |-> FALSE, good |-> FALSE, result |-> "none", revoked |-> FALSE,
     wrote |-> FALSE, undisturbed |-> TRUE]
-------------------------------------------------------------------------------
\* Mutant: the protected groups are forgotten.
RemovableUnprotected(v) == v.groups \cap LabGroups

\* _removable_groups: named LAB-* and not protected.
RemovableGroups(v) == (v.groups \cap LabGroups) \ ProtectedGroups

\* _preserved_group_ids: all the others.
PreservedGroups(v) == v.groups \ RemovableGroups(v)

\* _split_removable_skus
RemovableOf(v) == v.skus \cap RemovableSkus
PreservedOf(v) == v.skus \ RemovableSkus

\* Mutant: only the sign-in state counts.
NeededEnabled(v) == v.enabled

\* Mutant: there is always something to do.
NeededAlways(v) == v = v

\* offboarding_needed
Needed(v) == v.enabled \/ RemovableGroups(v) # {} \/ RemovableOf(v) # {}
-------------------------------------------------------------------------------
Init ==
    /\ user \in GraphUsers
    /\ mishaps = 0
    /\ call = [c \in Callers |-> [Fresh("execute") EXCEPT !.pc = "idle"]]

\* A call that is not c's notices when the user is changed under it.
Notice(r) == [r EXCEPT !.undisturbed = r.undisturbed /\ user' = user]

\* The state of c's call becomes r.
Becomes(c, r) ==
    call' = [d \in Callers |->
                IF d = c THEN r ELSE Notice(call[d])]

\* The call returns; of what it knew, only what a success was about is kept.
End(r, result) ==
    [pc |-> "done", mode |-> "execute",
     pre |-> IF result = "success" THEN r.pre ELSE Unread,
     revoked |-> IF result = "success" THEN r.revoked ELSE FALSE,
     work |-> {}, todo |-> {}, errors |-> FALSE, good |-> FALSE, result |-> result,
     wrote |-> FALSE, undisturbed |-> r.undisturbed]

\* The call is made; a target that is not named as a synthetic user is refused.
Begin(c, mode, named) ==
    /\ call[c].pc \in {"idle", "done"}
    /\ UNCHANGED <<user, mishaps>>
    /\ Becomes(c, IF named THEN Fresh(mode) ELSE End(Fresh(mode), "refused"))

\* _capture_state, the user object.  Without an id there is nobody to offboard.
CaptureUser(c) ==
    LET r == call[c] IN
    /\ r.pc = "user"
    /\ \E ok \in BOOLEAN :
        /\ Read(ok)
        /\ Becomes(c, IF ok THEN [r EXCEPT !.pc = "groups", !.pre = [user EXCEPT !.groups = {}]]
                            ELSE End(r, "failed"))

\* What is to be done for a user that was captured as v.
Plan(r, v) ==
    [r EXCEPT !.pc = "work", !.pre = v,
              !.todo = RemovableGroups(v),
              !.work = {t \in Tasks :
                          \/ t = "revoke" /\ Needed(v)
                          \/ t = "disable" /\ v.enabled
                          \/ t = "licences" /\ RemovableOf(v) # {}}]

\* _capture_state, the memberships; a plan ends the call, an execution begins.
CaptureGroups(c) ==
    LET r == call[c]
        v == [r.pre EXCEPT !.groups = user.groups]
    IN
    /\ r.pc = "groups"
    /\ \E ok \in BOOLEAN :
        /\ Read(ok)
        /\ Becomes(c, IF ~ok THEN End(r, "failed")
                      ELSE IF r.mode = "execute" THEN Plan(r, v)
                      ELSE End(r, r.mode))
-------------------------------------------------------------------------------
\* Step of an execution that has sent a mutation.
Sent(r, ok) == [r EXCEPT !.wrote = TRUE, !.errors = r.errors \/ ~ok]

Revoke(c) ==
    LET r == [call[c] EXCEPT !.work = @ \ {"revoke"}] IN
    /\ call[c].pc = "work"
    /\ "revoke" \in call[c].work
    /\ \E ok \in BOOLEAN :
        /\ Write(TRUE, user, ok)
        /\ Becomes(c, [Sent(r, ok) EXCEPT !.revoked = ok])

Disable(c) ==
    LET r == [call[c] EXCEPT !.work = @ \ {"disable"}] IN
    /\ call[c].pc = "work"
    /\ "disable" \in call[c].work
    /\ "revoke" \notin call[c].work
    /\ \E ok \in BOOLEAN :
        /\ Write(TRUE, [user EXCEPT !.enabled = FALSE], ok)
        /\ Becomes(c, Sent(r, ok))

\* The groups go one by one, in any order; the code's is that of the answer.
RemoveGroup(c) ==
    /\ call[c].pc = "work"
    /\ call[c].work \cap {"revoke", "disable"} = {}
    /\ \E g \in call[c].todo, ok \in BOOLEAN :
        /\ Write(g \in user.groups, [user EXCEPT !.groups = @ \ {g}], ok)
        /\ Becomes(c, Sent([call[c] EXCEPT !.todo = @ \ {g}], ok))

\* One request takes all removable licences; Graph rejects it if one is not assigned.
RemoveLicences(c) ==
    LET r == [call[c] EXCEPT !.work = {}]
        gone == RemovableOf(call[c].pre)
    IN
    /\ call[c].pc = "work"
    /\ call[c].work = {"licences"}
    /\ call[c].todo = {}
    /\ \E ok \in BOOLEAN :
        /\ Write(gone \subseteq user.skus, [user EXCEPT !.skus = @ \ gone], ok)
        /\ Becomes(c, Sent(r, ok))
-------------------------------------------------------------------------------
\* Mutant: the read-back looks at the sign-in state only.
UserVerifiedLightly(r, v) == ~v.enabled

\* Mutant: the revocation of sessions is part of the verdict.
UserVerifiedRevoked(r, v) ==
    /\ r.revoked
    /\ ~r.errors
    /\ ~v.enabled
    /\ RemovableOf(r.pre) \cap v.skus = {}
    /\ PreservedOf(r.pre) \subseteq v.skus

\* The user half of the verification, and the mutations' own errors.
UserVerified(r, v) ==
    /\ ~r.errors
    /\ ~v.enabled
    /\ RemovableOf(r.pre) \cap v.skus = {}
    /\ PreservedOf(r.pre) \subseteq v.skus

\* Mutant: the read-back does not wait for the groups.
ReadBackEarly(c) ==
    LET r == call[c] IN
    /\ r.pc = "work"
    /\ r.work = {}
    /\ \E ok \in BOOLEAN :
        /\ Read(ok)
        /\ Becomes(c, IF ok THEN [r EXCEPT !.pc = "verify", !.good = UserVerified(r, user)]
                            ELSE End(r, "partial"))

\* The read-back, the user object.  Unreadable, it is not verified.
ReadBackUser(c) ==
    LET r == call[c] IN
    /\ r.pc = "work"
    /\ r.work = {}
    /\ r.todo = {}
    /\ \E ok \in BOOLEAN :
        /\ Read(ok)
        /\ Becomes(c, IF ok THEN [r EXCEPT !.pc = "verify", !.good = UserVerified(r, user)]
                            ELSE End(r, "partial"))

\* The read-back, the memberships, and the verdict.
ReadBackGroups(c) ==
    LET r == call[c]
        verified ==
            /\ r.good
            /\ RemovableGroups(r.pre) \cap user.groups = {}
            /\ PreservedGroups(r.pre) \subseteq user.groups
    IN
    /\ r.pc = "verify"
    /\ \E ok \in BOOLEAN :
        /\ Read(ok)
        /\ Becomes(c, End(r, IF ok /\ verified THEN "success" ELSE "partial"))
-------------------------------------------------------------------------------
Step(c) ==
    \/ CaptureUser(c) \/ CaptureGroups(c)
    \/ Revoke(c) \/ Disable(c) \/ RemoveGroup(c) \/ RemoveLicences(c)
    \/ ReadBackUser(c) \/ ReadBackGroups(c)

\* Somebody else is at work on the user; the calls are not touched.
Elsewhere == call' = [c \in Callers |-> Notice(call[c])]

Environment ==
    /\ user' \in GraphUsers
    /\ mishaps' \in {mishaps, mishaps + 1}
    /\ Elsewhere

Next ==
    \/ \E c \in Callers, mode \in Modes, named \in BOOLEAN : Begin(c, mode, named)
    \/ \E c \in Callers : Step(c)
    \/ Environment

Spec == Init /\ [][Next]_vars
-------------------------------------------------------------------------------
TypeOK ==
    /\ user \in GraphUsers
    /\ mishaps \in Nat
    /\ call \in [Callers -> Calls]
    /\ \A c \in Callers :
        /\ call[c].result # "none" <=> call[c].pc = "done"
        /\ call[c].pc # "work" => call[c].work = {} /\ call[c].todo = {}

Takable == LabGroups \ ProtectedGroups

\* Nothing is left to be taken from user u.
Offboarded(u) ==
    /\ ~u.enabled
    /\ u.groups \cap Takable = {}
    /\ u.skus \cap RemovableSkus = {}

\* A "success" is true: unless somebody else changed the user, it is disabled, has
\* lost everything removable and kept the rest, whatever requests failed on the way.
SuccessIsSound ==
    \A c \in Callers :
        call[c].result = "success" /\ call[c].undisturbed =>
            /\ Offboarded(user)
            /\ call[c].pre.groups \ Takable \subseteq user.groups
            /\ call[c].pre.skus \ RemovableSkus \subseteq user.skus

\* And "partial" and "failed" are not invented: while no request fails, an execution
\* that nobody disturbed is a success.
CleanCallSucceeds ==
    \A c \in Callers :
        mishaps = 0 /\ call[c].undisturbed => call[c].result \notin {"partial", "failed"}

\* "Re-running offboarding reads current Graph state first and avoids unnecessary
\* mutations": a user found offboarded is left alone.
RerunIsQuiet ==
    \A c \in Callers :
        call[c].wrote => ~Offboarded(call[c].pre)

\* A user that was not yet offboarded is not reported as offboarded by a call that did
\* not revoke its sessions.
SuccessRevoked ==
    \A c \in Callers :
        call[c].result = "success" => call[c].revoked \/ Offboarded(call[c].pre)

\* Whatever is stale by the time of a mutation, the service only ever takes away, and
\* only unprotected LAB-* groups, removable licences and the right to sign in.
Acts(c) == <<call'[c].pc, call'[c].work, call'[c].todo>> # <<call[c].pc, call[c].work, call[c].todo>>

TakesOnlyRemovable ==
    [][\A c \in Callers : Acts(c) =>
        /\ user'.groups \subseteq user.groups
        /\ user'.skus \subseteq user.skus
        /\ user'.enabled => user.enabled
        /\ user.groups \ user'.groups \subseteq Takable
        /\ user.skus \ user'.skus \subseteq RemovableSkus]_vars
==================================================================================
