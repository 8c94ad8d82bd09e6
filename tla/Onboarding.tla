------------------------------- MODULE Onboarding -------------------------------
(***************************************************************************)
(* OnboardingService.execute_onboarding: look for the user, create or      *)
(* repair it, set the manager, assign the licence, add to the groups, read *)
(* back.  A hire is executed again when it failed, and two operations may  *)
(* be about one user.                                                      *)
(***************************************************************************)
EXTENDS GraphUser

CONSTANTS
    Hirers,   \* processes that call the service
    Sku,      \* target_sku_id
    Tries     \* requests that are made for one licence or group

VARIABLE hire   \* hire[c]: the call that c is making or has made last

vars == <<user, mishaps, hire>>

\* The user of the plan.  `profile`: enabled, with the planned title, department and
\* location.  `Groups` are the planned groups.
Managers == {"none", "boss", "other"}
People   == [there : BOOLEAN, profile : BOOLEAN, manager : Managers, groups : SUBSET Groups, skus : SUBSET Skus]
Absent   == [there |-> FALSE, profile |-> FALSE, manager |-> "none", groups |-> {}, skus |-> {}]
Created  == [Absent EXCEPT !.there = TRUE, !.profile = TRUE]

\* "incomplete": the plan has no manager, no licence or fewer than two groups.
Modes   == {"execute", "incomplete", "unapproved"}
Phases  == {"idle", "exists", "create", "repair", "groups", "manager", "lookup", "assign", "licence", "join",
            "back", "backGroups", "backManager", "done"}
Results == {"none", "refused", "incomplete", "failed", "unapproved", "verified"}   \* an incomplete plan is "failed" in the code

Calls ==
    [pc : Phases,
     known : People,       \* what was read of the user: before the changes, then after
     boss : BOOLEAN,       \* manager_id is known
     todo : SUBSET Groups, \* groups to be joined
     tries : 0..Tries,
     result : Results,     \* stage
     began : People,       \* history: the user when the call was made
     wrote : BOOLEAN,      \* history: it has sent a change
     undisturbed : BOOLEAN]

Fresh == [pc |-> "exists", known |-> Absent, boss |-> FALSE, todo |-> {}, tries |-> 0, result |-> "none",
          began |-> Absent, wrote |-> FALSE, undisturbed |-> TRUE]

Init ==
    /\ user \in {p \in People : p.there} \cup {Absent}
    /\ mishaps = 0
    /\ hire = [c \in Hirers |-> [Fresh EXCEPT !.pc = "idle"]]

Notice(r) == [r EXCEPT !.undisturbed = r.undisturbed /\ user' = user]

Becomes(c, r) == hire' = [d \in Hirers |-> IF d = c THEN r ELSE Notice(hire[d])]

\* The call returns.
End(r, result) ==
    [Fresh EXCEPT !.pc = "done", !.result = result, !.boss = r.boss, !.undisturbed = r.undisturbed]

\* The naming guard, then the errors of the plan, then the approval.
Begin(c, mode, named) ==
    /\ hire[c].pc \in {"idle", "done"}
    /\ UNCHANGED <<user, mishaps>>
    /\ Becomes(c, IF ~named THEN End(Fresh, "refused")
                  ELSE CASE mode = "incomplete" -> End(Fresh, "incomplete")
                         [] mode = "unapproved" -> End(Fresh, "unapproved")
                         [] OTHER               -> [Fresh EXCEPT !.began = user])

\* ONBOARD_CHECK_EXISTS: an error counts as nobody.
CheckExists(c) ==
    LET r == hire[c]
        known == [user EXCEPT !.groups = {}, !.manager = "none"] IN
    /\ r.pc = "exists"
    /\ \E ok \in BOOLEAN :
        /\ Read(ok)
        /\ Becomes(c, IF ok /\ user.there
                      THEN [r EXCEPT !.pc = IF known.profile THEN "groups" ELSE "repair", !.known = known]
                      ELSE [r EXCEPT !.pc = "create"])

Sent(r) == [r EXCEPT !.wrote = TRUE]

\* The name may be taken after all.
CreateUser(c) ==
    LET r == Sent(hire[c]) IN
    /\ hire[c].pc = "create"
    /\ \E ok \in BOOLEAN :
        /\ Write(~user.there, Created, ok)
        /\ Becomes(c, IF ok THEN [r EXCEPT !.pc = "lookup"] ELSE End(r, "failed"))

\* A repair that fails is noted.
RepairProfile(c) ==
    /\ hire[c].pc = "repair"
    /\ \E ok \in BOOLEAN :
        /\ Write(user.there, [user EXCEPT !.profile = TRUE], ok)
        /\ Becomes(c, [Sent(hire[c]) EXCEPT !.pc = "groups"])

\* What an existing user has; what cannot be read counts as absent.
CheckGroups(c) ==
    /\ hire[c].pc = "groups"
    /\ \E ok \in BOOLEAN :
        /\ Read(ok)
        /\ Becomes(c, [hire[c] EXCEPT !.pc = "manager", !.known.groups = IF ok THEN user.groups ELSE {}])

CheckManager(c) ==
    /\ hire[c].pc = "manager"
    /\ \E ok \in BOOLEAN :
        /\ Read(ok)
        /\ Becomes(c, [hire[c] EXCEPT !.pc = "lookup", !.known.manager = IF ok THEN user.manager ELSE "none"])
-------------------------------------------------------------------------------
\* Mutant: what the user has is asked for again.
ProvideAll(r) == [r EXCEPT !.pc = "licence", !.todo = Groups, !.tries = 0]

\* On to the licence, if it is missing, or the groups.
Provide(r) == [r EXCEPT !.pc = IF Sku \in r.known.skus THEN "join" ELSE "licence",
                        !.todo = Groups \ r.known.groups, !.tries = 0]

\* The id of the planned manager; without it the manager is left as it is.
LookUpManager(c) ==
    LET r == hire[c] IN
    /\ r.pc = "lookup"
    /\ \E ok \in BOOLEAN :
        /\ Read(ok)
        /\ Becomes(c, IF ~ok THEN Provide(r)
                      ELSE IF r.known.manager = "boss" THEN Provide([r EXCEPT !.boss = TRUE])
                      ELSE [r EXCEPT !.boss = TRUE, !.pc = "assign"])

SetManager(c) ==
    /\ hire[c].pc = "assign"
    /\ \E ok \in BOOLEAN :
        /\ Write(user.there, [user EXCEPT !.manager = "boss"], ok)
        /\ Becomes(c, Provide(Sent(hire[c])))

\* Three requests, until one is answered.
AssignLicence(c) ==
    LET r == Sent(hire[c]) IN
    /\ hire[c].pc = "licence"
    /\ \E ok \in BOOLEAN :
        /\ Write(user.there, [user EXCEPT !.skus = @ \cup {Sku}], ok)
        /\ Becomes(c, IF ok \/ r.tries + 1 = Tries THEN [r EXCEPT !.pc = "join", !.tries = 0]
                      ELSE [r EXCEPT !.tries = @ + 1])

\* Group by group, three requests for each.
Join(c) ==
    LET r == Sent(hire[c])
        g == CHOOSE g \in hire[c].todo : TRUE IN
    /\ hire[c].pc = "join" /\ hire[c].todo # {}
    /\ \E ok \in BOOLEAN :
        /\ Write(user.there /\ g \notin user.groups, [user EXCEPT !.groups = @ \cup {g}], ok)
        /\ Becomes(c, IF ok \/ r.tries + 1 = Tries THEN [r EXCEPT !.todo = @ \ {g}, !.tries = 0]
                      ELSE [r EXCEPT !.tries = @ + 1])
-------------------------------------------------------------------------------
\* The three requests of the read-back.
ReadBackUser(c) ==
    LET r == hire[c] IN
    /\ r.pc = "join" /\ r.todo = {}
    /\ \E ok \in BOOLEAN :
        /\ Read(ok)
        /\ Becomes(c, IF ok /\ user.there
                      THEN [r EXCEPT !.pc = "backGroups", !.known = [user EXCEPT !.groups = {}, !.manager = "none"]]
                      ELSE End(r, "failed"))

ReadBackGroups(c) ==
    LET r == hire[c] IN
    /\ r.pc = "backGroups"
    /\ \E ok \in BOOLEAN :
        /\ Read(ok)
        /\ Becomes(c, IF ok THEN [r EXCEPT !.pc = "backManager", !.known.groups = user.groups]
                      ELSE End(r, "failed"))

\* Mutant: a manager who could not be read back is not asked for.
VerifiedUnmanaged(known, boss) ==
    /\ known.profile
    /\ Sku \in known.skus
    /\ Groups \subseteq known.groups
    /\ boss \/ known.manager # "none"

\* "Verify against all planned attributes": any manager will do if the planned one could
\* not be looked up.
Verified(known, boss) ==
    /\ known.profile
    /\ Sku \in known.skus
    /\ Groups \subseteq known.groups
    /\ known.manager # "none" /\ (boss => known.manager = "boss")

ReadBackManager(c) ==
    LET r == hire[c] IN
    /\ r.pc = "backManager"
    /\ \E ok \in BOOLEAN :
        LET known == [r.known EXCEPT !.manager = IF ok THEN user.manager ELSE "none"] IN
        /\ Read(ok)
        /\ Becomes(c, End(r, IF Verified(known, r.boss) THEN "verified" ELSE "failed"))
-------------------------------------------------------------------------------
Step(c) ==
    \/ CheckExists(c) \/ CreateUser(c) \/ RepairProfile(c) \/ CheckGroups(c) \/ CheckManager(c)
    \/ LookUpManager(c) \/ SetManager(c) \/ AssignLicence(c) \/ Join(c)
    \/ ReadBackUser(c) \/ ReadBackGroups(c) \/ ReadBackManager(c)

Next ==
    \/ \E c \in Hirers, mode \in Modes, named \in BOOLEAN : Begin(c, mode, named)
    \/ \E c \in Hirers : Step(c)

Spec == Init /\ [][Next]_vars
-------------------------------------------------------------------------------
TypeOK ==
    /\ user \in People
    /\ hire \in [Hirers -> Calls]
    /\ \A c \in Hirers : hire[c].result # "none" <=> hire[c].pc = "done"

\* User u has all that was planned, but for the manager.
Equipped(u) == u.there /\ u.profile /\ Sku \in u.skus /\ Groups \subseteq u.groups

\* A hire that is reported as verified is there, with all that was planned, whichever
\* requests failed on the way; its manager is the planned one if that one could be found.
SuccessIsSound ==
    \A c \in Hirers :
        hire[c].result = "verified" /\ hire[c].undisturbed =>
            Equipped(user) /\ (IF hire[c].boss THEN user.manager = "boss" ELSE user.manager # "none")

\* While no request fails, a hire of a complete and approved plan that nobody disturbed is
\* not reported as failed.
CleanCallSucceeds ==
    \A c \in Hirers :
        mishaps = 0 /\ hire[c].undisturbed => hire[c].result # "failed"

\* A hire that is executed again changes nothing that is already as planned.
RerunIsQuiet ==
    \A c \in Hirers :
        hire[c].wrote /\ hire[c].undisturbed /\ mishaps = 0 =>
            ~(Equipped(hire[c].began) /\ hire[c].began.manager = "boss")
==================================================================================
