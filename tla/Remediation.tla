------------------------------- MODULE Remediation -------------------------------
(***************************************************************************)
(* RemediationService.execute_remediation: one of eight helpdesk actions   *)
(* on a user, with validation, capture, at most one mutation and a         *)
(* read-back.  Several callers may be at work on one user.                 *)
(***************************************************************************)
EXTENDS GraphUser

CONSTANTS
    Callers,     \* processes that call the service
    LabGroups,   \* groups whose name starts with LAB-
    NoTarget     \* the target of an action that has none

VARIABLE
    fix   \* fix[c]: the call that c is making or has made last

vars == <<user, mishaps, fix>>

Plain == {"block_signin", "unblock_signin", "revoke_sessions", "reset_password"}

\* What can be asked for; a call without the target its action requires is refused.
Tickets ==
    [action : Plain, target : {NoTarget}]
    \cup [action : {"add_group", "remove_group"}, target : Groups \cup {NoTarget}]
    \cup [action : {"assign_license", "remove_license"}, target : Skus \cup {NoTarget}]

Modes   == {"execute", "dry_run", "unapproved"}
Phases  == {"idle", "discover", "user", "groups", "write", "check", "verify", "done"}
Results == Modes \cup {"none", "refused", "failed", "unverified", "success"}

Fixes ==
    [pc : Phases,
     ticket : Tickets,
     mode : Modes,
     free : BOOLEAN,          \* available_units > 0 when the licences were listed
     pre : GraphUsers,         \* pre_state
     good : BOOLEAN,          \* verification of the user half of the read-back
     result : Results,        \* status; "unverified" is a "failed" after the read-back
     undisturbed : BOOLEAN]   \* history: nobody else changed the user since it began

Fresh(ticket, mode) ==
    [pc |-> IF ticket.target = NoTarget THEN "user" ELSE "discover",
     ticket |-> ticket, mode |-> mode, free |-> TRUE, pre |-> Unread, good |-> FALSE,
     result |-> "none", undisturbed |-> TRUE]

Idle ==
    [Fresh([action |-> "block_signin", target |-> NoTarget], "execute") EXCEPT !.pc = "idle"]
-------------------------------------------------------------------------------
\* Mutant: somebody who is a member is added, who is none is removed.
MutatesSwapped(t, v) ==
    CASE t.action = "block_signin"    -> v.enabled
      [] t.action = "unblock_signin"  -> ~v.enabled
      [] t.action = "add_group"       -> t.target \in v.groups
      [] t.action = "remove_group"    -> t.target \notin v.groups
      [] t.action = "assign_license"  -> t.target \notin v.skus
      [] t.action = "remove_license"  -> t.target \in v.skus
      [] OTHER                        -> TRUE

\* Mutant: the state before is not consulted.
MutatesAlways(t, v) == TRUE

\* Does action t mutate a user captured as v?
Mutates(t, v) ==
    CASE t.action = "block_signin"    -> v.enabled
      [] t.action = "unblock_signin"  -> ~v.enabled
      [] t.action = "add_group"       -> t.target \notin v.groups
      [] t.action = "remove_group"    -> t.target \in v.groups
      [] t.action = "assign_license"  -> t.target \notin v.skus
      [] t.action = "remove_license"  -> t.target \in v.skus
      [] OTHER                        -> TRUE

\* What the mutation of t makes of user u.
Effect(t, u) ==
    CASE t.action = "block_signin"    -> [u EXCEPT !.enabled = FALSE]
      [] t.action = "unblock_signin"  -> [u EXCEPT !.enabled = TRUE]
      [] t.action = "add_group"       -> [u EXCEPT !.groups = @ \cup {t.target}]
      [] t.action = "remove_group"    -> [u EXCEPT !.groups = @ \ {t.target}]
      [] t.action = "assign_license"  -> [u EXCEPT !.skus = @ \cup {t.target}]
      [] t.action = "remove_license"  -> [u EXCEPT !.skus = @ \ {t.target}]
      [] OTHER                        -> u

\* Graph rejects to add a member, to remove who is none, and likewise for a licence
\* that is not there.
Accepted(t, u) ==
    /\ t.action = "add_group" => t.target \notin u.groups
    /\ t.action = "remove_group" => t.target \in u.groups
    /\ t.action = "remove_license" => t.target \in u.skus

\* Verification of the user half of a read-back v; it is Unread, accountEnabled None,
\* unless "read".  Sessions and passwords cannot be read: a readable user will do.
UserVerified(t, v, read) ==
    /\ t.action = "block_signin" => read /\ ~v.enabled
    /\ t.action = "unblock_signin" => read /\ v.enabled
    /\ t.action = "assign_license" => t.target \in v.skus
    /\ t.action = "remove_license" => t.target \notin v.skus
    /\ t.action \in {"revoke_sessions", "reset_password"} => read

\* Verification of its memberships.
GroupsVerified(t, v) ==
    /\ t.action = "add_group" => t.target \in v.groups
    /\ t.action = "remove_group" => t.target \notin v.groups
-------------------------------------------------------------------------------
Init ==
    /\ user \in GraphUsers
    /\ mishaps = 0
    /\ fix = [c \in Callers |-> Idle]

\* A call that is not c's notices when the user is changed under it.
Notice(r) == [r EXCEPT !.undisturbed = r.undisturbed /\ user' = user]

\* The state of c's call becomes r.
Becomes(c, r) ==
    fix' = [d \in Callers |->
               IF d = c THEN r ELSE Notice(fix[d])]

\* The call returns; of what it knew, only what a success was about is kept.
End(r, result) ==
    [pc |-> "done", ticket |-> IF result = "success" THEN r.ticket ELSE Idle.ticket,
     mode |-> "execute", free |-> TRUE, pre |-> Unread, good |-> FALSE,
     result |-> result, undisturbed |-> r.undisturbed]

\* The call is made.  A missing target is refused, and unless it is a dry run so is a
\* user that is not named as a synthetic one.
Begin(c, ticket, mode, named) ==
    LET complete == ticket.action \in Plain \/ ticket.target # NoTarget IN
    /\ fix[c].pc \in {"idle", "done"}
    /\ UNCHANGED <<user, mishaps>>
    /\ Becomes(c, IF complete /\ (named \/ mode = "dry_run")
                  THEN Fresh(ticket, mode)
                  ELSE End(Fresh(ticket, mode), "refused"))

\* discover_lab_groups or discover_skus: the target must be a LAB-* group or a licence
\* of the tenant.  A failed discovery finds nothing, or raises.
Discover(c) ==
    LET r == fix[c] IN
    /\ r.pc = "discover"
    /\ \E ok, free \in BOOLEAN :
        /\ Read(ok)
        /\ r.ticket.action # "assign_license" => free
        /\ Becomes(c, IF ok /\ r.ticket.target \in LabGroups \cup Skus
                      THEN [r EXCEPT !.pc = "user", !.free = free]
                      ELSE End(r, "refused"))

\* _capture_user_state, the user object.
CaptureUser(c) ==
    LET r == fix[c] IN
    /\ r.pc = "user"
    /\ \E ok \in BOOLEAN :
        /\ Read(ok)
        /\ Becomes(c, IF ok THEN [r EXCEPT !.pc = "groups", !.pre = [user EXCEPT !.groups = {}]]
                            ELSE End(r, "failed"))

\* _capture_user_state, the memberships; then the capacity, the mode, and what to do.
\* pre_state is not consulted after that.
CaptureGroups(c) ==
    LET r == fix[c]
        t == r.ticket
        pre == [r.pre EXCEPT !.groups = user.groups]
        full == t.action = "assign_license" /\ t.target \notin pre.skus /\ ~r.free
    IN
    /\ r.pc = "groups"
    /\ \E ok \in BOOLEAN :
        /\ Read(ok)
        /\ Becomes(c, IF ~ok THEN End(r, "failed")
                      ELSE IF full THEN End(r, "refused")
                      ELSE IF r.mode # "execute" THEN End(r, r.mode)
                      ELSE [r EXCEPT !.pc = IF Mutates(t, pre) THEN "write" ELSE "check",
                                    !.pre = Unread, !.free = TRUE])

\* The mutation.  An exception ends the call.
Mutate(c) ==
    LET r == fix[c] IN
    /\ r.pc = "write"
    /\ \E ok \in BOOLEAN :
        /\ Write(Accepted(r.ticket, user), Effect(r.ticket, user), ok)
        /\ Becomes(c, IF ok THEN [r EXCEPT !.pc = "check"] ELSE End(r, "failed"))

\* The verdict on a read-back v.
Verdict(r, good, v) ==
    End(r, IF good /\ GroupsVerified(r.ticket, v) THEN "success" ELSE "unverified")

\* The verdict on a read-back that failed.
Unreadable(r) == Verdict(r, UserVerified(r.ticket, Unread, FALSE), Unread)

\* The read-back, the user object.
ReadBackUser(c) ==
    LET r == fix[c] IN
    /\ r.pc = "check"
    /\ \E ok \in BOOLEAN :
        /\ Read(ok)
        /\ Becomes(c, IF ok THEN [r EXCEPT !.pc = "verify",
                                          !.good = UserVerified(r.ticket, user, TRUE)]
                            ELSE Unreadable(r))

\* The read-back, the memberships.
ReadBackGroups(c) ==
    LET r == fix[c] IN
    /\ r.pc = "verify"
    /\ \E ok \in BOOLEAN :
        /\ Read(ok)
        /\ Becomes(c, IF ok THEN Verdict(r, r.good, user) ELSE Unreadable(r))
-------------------------------------------------------------------------------
Step(c) ==
    \/ Discover(c) \/ CaptureUser(c) \/ CaptureGroups(c)
    \/ Mutate(c) \/ ReadBackUser(c) \/ ReadBackGroups(c)

\* Somebody else is at work on the user; the calls are not touched.
Elsewhere == fix' = [c \in Callers |-> Notice(fix[c])]

Environment ==
    /\ user' \in GraphUsers
    /\ mishaps' \in {mishaps, mishaps + 1}
    /\ Elsewhere

Next ==
    \/ \E c \in Callers, t \in Tickets, mode \in Modes, named \in BOOLEAN :
            Begin(c, t, mode, named)
    \/ \E c \in Callers : Step(c)
    \/ Environment

Spec == Init /\ [][Next]_vars
-------------------------------------------------------------------------------
TypeOK ==
    /\ user \in GraphUsers
    /\ mishaps \in Nat
    /\ fix \in [Callers -> Fixes]
    /\ \A c \in Callers : fix[c].result # "none" <=> fix[c].pc = "done"

\* The user is as the ticket wants it.
Fixed(t, u) ==
    CASE t.action = "block_signin"    -> ~u.enabled
      [] t.action = "unblock_signin"  -> u.enabled
      [] t.action = "add_group"       -> t.target \in u.groups
      [] t.action = "remove_group"    -> t.target \notin u.groups
      [] t.action = "assign_license"  -> t.target \in u.skus
      [] t.action = "remove_license"  -> t.target \notin u.skus
      [] OTHER                        -> TRUE

\* A "success" is true: unless somebody else changed the user, it is as the ticket
\* wants it, also where the verdict rests on a read-back that failed.
SuccessIsSound ==
    \A c \in Callers :
        fix[c].result = "success" /\ fix[c].undisturbed => Fixed(fix[c].ticket, user)

\* A "failed" is not invented: while no request fails, an execution that nobody
\* disturbed is a success.
CleanCallSucceeds ==
    \A c \in Callers :
        mishaps = 0 /\ fix[c].undisturbed => fix[c].result \notin {"failed", "unverified"}
==================================================================================
