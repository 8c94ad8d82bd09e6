----------------------------- MODULE LifecycleProofs -----------------------------
(***************************************************************************)
(* Proofs about the three services that change an account, for any         *)
(* groups, licences, callers and number of failed requests.                *)
(* First offboarding and remediation at work on one user: each service is  *)
(* proved correct in an arbitrary environment, and the other service is    *)
(* then shown to be one.  Then onboarding: what a call knows of the hire,  *)
(* what it knows if no request has failed, and what it leaves alone.       *)
(***************************************************************************)
EXTENDS AccountLifecycle, TLAPS

-------------------------------------------------------------------------------
(* Offboarding                                                             *)

\* What a call r knows of a user u that nobody else has changed since it began: the
\* capture is an upper bound of what is left, and a verdict is founded.
OffKnows(r, u) ==
    /\ r.pc = "groups" => r.pre.skus = u.skus
    /\ r.pc \in {"work", "verify"} => u.groups \subseteq r.pre.groups /\ u.skus \subseteq r.pre.skus
    /\ r.pc = "verify" /\ r.good =>
        /\ ~u.enabled
        /\ u.skus \cap RemovableSkus = {}
        /\ r.pre.skus \ RemovableSkus \subseteq u.skus
    /\ r.result = "success" =>
        /\ Off!Offboarded(u)
        /\ r.pre.groups \ Off!Takable \subseteq u.groups
        /\ r.pre.skus \ RemovableSkus \subseteq u.skus

\* What a call r is about to do and has done is warranted by its capture: mutations
\* only if there is something to take, and no verdict without a revocation.
OffHonest(r) ==
    /\ r.todo \subseteq Off!Takable
    /\ r.wrote => ~Off!Offboarded(r.pre)
    /\ r.work # {} \/ r.todo # {} => ~Off!Offboarded(r.pre)
    /\ r.pc = "work" /\ "revoke" \notin r.work /\ ~r.errors =>
            r.revoked \/ Off!Offboarded(r.pre)
    /\ r.pc = "verify" /\ r.good => r.revoked \/ Off!Offboarded(r.pre)
    /\ r.result = "success" => r.revoked \/ Off!Offboarded(r.pre)
    /\ r.pc \in {"user", "groups"} => ~r.wrote

\* A call r is in order for a user u.
OffFine(r, u) ==
    /\ r \in Off!Calls
    /\ r.result # "none" <=> r.pc = "done"
    /\ r.pc # "work" => r.work = {} /\ r.todo = {}
    /\ r.undisturbed => OffKnows(r, u)
    /\ OffHonest(r)

\* The inductive invariant of the service.
OffInv ==
    /\ user \in GraphUsers
    /\ mishaps \in Nat
    /\ call \in [Offboarders -> Off!Calls]
    /\ \A c \in Offboarders : OffFine(call[c], user)

\* What the invariant is for.
LEMMA OffInvImplies ==
  OffInv => Off!TypeOK /\ Off!SuccessIsSound /\ Off!RerunIsQuiet /\ Off!SuccessRevoked
  BY DEF OffInv, OffFine, OffKnows, OffHonest, Off!TypeOK, Off!SuccessIsSound,
     Off!RerunIsQuiet, Off!SuccessRevoked, GraphUsers, Off!GraphUsers

\* The types of the fields of a call.
LEMMA CallFields ==
  ASSUME NEW r \in Off!Calls
  PROVE  /\ r.pc \in Off!Phases /\ r.mode \in Off!Modes /\ r.pre \in GraphUsers
         /\ r.work \in SUBSET Off!Tasks /\ r.todo \in SUBSET Groups
         /\ r.errors \in BOOLEAN /\ r.good \in BOOLEAN /\ r.result \in Off!Results
         /\ r.revoked \in BOOLEAN /\ r.wrote \in BOOLEAN /\ r.undisturbed \in BOOLEAN
  BY DEF Off!Calls, GraphUsers, Off!GraphUsers

\* A call that notices a change, or that there was none, stays in order.
LEMMA NoticeFine ==
  ASSUME NEW r, OffFine(r, user)
  PROVE  OffFine(Off!Notice(r), user')
  <1>1. Off!Notice(r) \in Off!Calls
    BY DEF OffFine, Off!Notice, Off!Calls
  <1>2. QED
    BY <1>1 DEF OffFine, Off!Notice, OffKnows, OffHonest, Off!Calls

\* A step that leaves the acting call in order leaves all of them in order.
LEMMA BecomesFine ==
  ASSUME OffInv, NEW c \in Offboarders, NEW r, Off!Becomes(c, r), OffFine(r, user'),
         user' \in GraphUsers, mishaps' \in Nat
  PROVE  OffInv'
  <1>1. \A d \in Offboarders : OffFine(Off!Notice(call[d]), user')
    BY NoticeFine DEF OffInv
  <1>2. call' = [d \in Offboarders |-> IF d = c THEN r ELSE Off!Notice(call[d])]
    BY DEF Off!Becomes
  <1>3. \A d \in Offboarders : OffFine(call'[d], user')
    BY <1>1, <1>2
  <1>4. call' \in [Offboarders -> Off!Calls]
    BY <1>2, <1>3 DEF OffFine
  <1>5. QED BY <1>3, <1>4 DEF OffInv

\* Whatever the environment does to the user, the calls stay in order.
LEMMA ElsewhereFine ==
  ASSUME OffInv, Off!Elsewhere, user' \in GraphUsers, mishaps' \in Nat
  PROVE  OffInv'
  <1>1. \A d \in Offboarders : OffFine(Off!Notice(call[d]), user')
    BY NoticeFine DEF OffInv
  <1>2. call' = [d \in Offboarders |-> Off!Notice(call[d])]
    BY DEF Off!Elsewhere
  <1>3. \A d \in Offboarders : OffFine(call'[d], user')
    BY <1>1, <1>2
  <1>4. call' \in [Offboarders -> Off!Calls]
    BY <1>2, <1>3 DEF OffFine
  <1>5. QED BY <1>3, <1>4 DEF OffInv

\* A read leaves the user as it is, and a write leaves it a user.
LEMMA ReadKeeps ==
  ASSUME OffInv, NEW ok \in BOOLEAN, Off!Read(ok)
  PROVE  user' = user /\ user' \in GraphUsers /\ mishaps' \in Nat
  BY DEF OffInv, Off!Read, Off!Mishap

\* A write leaves the user as it was or makes it what it should become.
LEMMA WriteKeeps ==
  ASSUME OffInv, NEW ok \in BOOLEAN, NEW valid \in BOOLEAN, NEW new \in GraphUsers,
         Off!Write(valid, new, ok)
  PROVE  /\ user' \in GraphUsers
         /\ mishaps' \in Nat
         /\ user' = user \/ user' = new
         /\ ok => user' = new
  BY DEF OffInv, Off!Write, Off!Mishap

\* A call that returns anything but a success is in order.
LEMMA EndFine ==
  ASSUME NEW r \in Off!Calls, NEW u, NEW result \in Off!Results \ {"none", "success"}
  PROVE  OffFine(Off!End(r, result), u)
  <1> DEFINE e == Off!End(r, result)
  <1>1. /\ e.pc = "done" /\ e.pre = Off!Unread /\ e.work = {} /\ ~e.wrote
        /\ e.todo = {} /\ e.result = result /\ e.undisturbed = r.undisturbed
    BY DEF Off!End, Off!Fresh
  <1>2. e \in Off!Calls
    BY CallFields DEF Off!End, Off!Fresh, Off!Calls, Off!Phases, Off!Modes, Off!Results,
       Off!Tasks, Off!GraphUsers, Off!Unread
  <1>3. QED
    BY <1>1, <1>2 DEF OffFine, OffKnows, OffHonest

\* A call of offboarding begins; one lemma per request of it follows.
LEMMA BeginKeeps ==
  ASSUME OffInv, NEW c \in Offboarders, NEW mode \in Off!Modes, NEW named \in BOOLEAN,
         Off!Begin(c, mode, named)
  PROVE  OffInv'
  <1>1. Off!Fresh(mode) \in Off!Calls
    BY DEF Off!Fresh, Off!Calls, Off!Phases, Off!Modes, Off!Results, Off!Tasks,
       Off!GraphUsers, Off!Unread
  <1>2. OffFine(Off!Fresh(mode), user')
    BY <1>1 DEF OffFine, OffKnows, OffHonest, Off!Fresh
  <1>3. OffFine(Off!End(Off!Fresh(mode), "refused"), user')
    BY <1>1, EndFine DEF Off!Results
  <1>4. user' \in GraphUsers /\ mishaps' \in Nat
    BY DEF OffInv, Off!Begin
  <1>5. QED
    BY <1>2, <1>3, <1>4, BecomesFine DEF Off!Begin

LEMMA CaptureUserKeeps ==
  ASSUME OffInv, NEW c \in Offboarders, Off!CaptureUser(c)
  PROVE  OffInv'
  <1> DEFINE r == call[c]
             s == [r EXCEPT !.pc = "groups", !.pre = [user EXCEPT !.groups = {}]]
  <1>1. r \in Off!Calls /\ r.pc = "user" /\ OffFine(r, user)
    BY DEF OffInv, Off!CaptureUser
  <1>2. PICK ok \in BOOLEAN :
          /\ Off!Read(ok)
          /\ Off!Becomes(c, IF ok THEN s ELSE Off!End(r, "failed"))
    BY DEF Off!CaptureUser
  <1>3. user' = user /\ user' \in GraphUsers /\ mishaps' \in Nat
    BY <1>2, ReadKeeps
  <1>4. CASE ok
    <2>1. /\ [user EXCEPT !.groups = {}] \in GraphUsers
          /\ [user EXCEPT !.groups = {}].skus = user.skus
      BY DEF OffInv, GraphUsers
    <2>2. s \in Off!Calls
      BY <1>1, <2>1 DEF Off!Calls, Off!Phases, GraphUsers, Off!GraphUsers
    <2>3. /\ s.pc = "groups" /\ s.pre.skus = user.skus /\ s.result = r.result
          /\ s.work = r.work /\ s.todo = r.todo /\ s.wrote = r.wrote
          /\ s.undisturbed = r.undisturbed
      BY <1>1, <2>1, CallFields DEF Off!Calls
    <2>4. OffFine(s, user')
      BY <1>1, <1>3, <2>2, <2>3 DEF OffFine, OffKnows, OffHonest
    <2>5. QED BY <1>2, <1>3, <1>4, <2>4, BecomesFine
  <1>5. CASE ~ok
    <2>1. OffFine(Off!End(r, "failed"), user')
      BY <1>1, EndFine DEF Off!Results
    <2>2. QED BY <1>2, <1>3, <1>5, <2>1, BecomesFine
  <1>6. QED BY <1>4, <1>5

LEMMA CaptureGroupsKeeps ==
  ASSUME OffInv, NEW c \in Offboarders, Off!CaptureGroups(c)
  PROVE  OffInv'
  <1> DEFINE r == call[c]
             v == [r.pre EXCEPT !.groups = user.groups]
             todo == {t \in Off!Tasks :
                          \/ t = "revoke" /\ Off!Needed(v)
                          \/ t = "disable" /\ v.enabled
                          \/ t = "licences" /\ Off!RemovableOf(v) # {}}
             s == [r EXCEPT !.pc = "work", !.pre = v, !.todo = Off!RemovableGroups(v),
                            !.work = todo]
  <1>1. r \in Off!Calls /\ r.pc = "groups" /\ OffFine(r, user)
    BY DEF OffInv, Off!CaptureGroups
  <1>2. PICK ok \in BOOLEAN :
          /\ Off!Read(ok)
          /\ Off!Becomes(c, IF ~ok THEN Off!End(r, "failed")
                            ELSE IF r.mode = "execute" THEN s
                            ELSE Off!End(r, r.mode))
    BY DEF Off!CaptureGroups, Off!Plan
  <1>3. user' = user /\ user' \in GraphUsers /\ mishaps' \in Nat
    BY <1>2, ReadKeeps
  <1>4. CASE ok /\ r.mode = "execute"
    <2>1. v \in GraphUsers /\ v.groups = user.groups /\ v.skus = r.pre.skus
      BY <1>1, CallFields DEF OffInv, GraphUsers
    <2>2. Off!RemovableGroups(v) \subseteq Groups /\ Off!RemovableGroups(v) \subseteq Off!Takable
      BY <2>1 DEF Off!RemovableGroups, Off!Takable, GraphUsers
    <2>3. todo \subseteq Off!Tasks
      OBVIOUS
    <2> HIDE DEF v
    <2>4. Off!Needed(v) <=> ~Off!Offboarded(v)
      BY DEF Off!Needed, Off!Offboarded, Off!RemovableGroups, Off!RemovableOf, Off!Takable
    <2>5. /\ todo # {} => Off!Needed(v)
          /\ Off!RemovableGroups(v) # {} => Off!Needed(v)
          /\ "revoke" \notin todo => ~Off!Needed(v)
      <3>1. "revoke" \in Off!Tasks
        BY DEF Off!Tasks
      <3>2. QED BY <3>1 DEF Off!Needed
    <2> HIDE DEF todo
    <2>6. s \in Off!Calls
      BY <1>1, <2>1, <2>2, <2>3, CallFields DEF Off!Calls, Off!Phases, GraphUsers, Off!GraphUsers
    <2>7. /\ s.pc = "work" /\ s.pre = v /\ s.result = r.result /\ s.work = todo
          /\ s.todo = Off!RemovableGroups(v) /\ s.wrote = r.wrote
          /\ s.undisturbed = r.undisturbed
      BY <1>1, CallFields DEF Off!Calls
    <2>8. OffFine(s, user')
      BY <1>1, <1>3, <2>1, <2>2, <2>6, <2>7, <2>4, <2>5 DEF OffFine, OffKnows, OffHonest
    <2> HIDE DEF s
    <2>9. Off!Becomes(c, s)
      BY <1>2, <1>4
    <2>10. QED BY <1>3, <2>8, <2>9, BecomesFine
  <1>5. CASE ~(ok /\ r.mode = "execute")
    <2>1. r.mode \in Off!Results \ {"none", "success"}
      BY <1>1, CallFields DEF Off!Modes, Off!Results
    <2>2. /\ OffFine(Off!End(r, "failed"), user')
          /\ OffFine(Off!End(r, r.mode), user')
      BY <1>1, <2>1, EndFine DEF Off!Results
    <2> HIDE DEF v, todo, s
    <2>3. Off!Becomes(c, Off!End(r, "failed")) \/ Off!Becomes(c, Off!End(r, r.mode))
      BY <1>2, <1>5
    <2>4. QED BY <1>3, <2>2, <2>3, BecomesFine
  <1>6. QED BY <1>4, <1>5

\* A mutation takes away, and goes on with what is left to be done.
LEMMA MutationKeeps ==
  ASSUME OffInv, NEW c \in Offboarders, call[c].pc = "work",
         NEW s \in Off!Calls, Off!Becomes(c, s),
         s.pc = "work", s.pre = call[c].pre, s.result = call[c].result,
         s.undisturbed = call[c].undisturbed, OffHonest(s),
         user' \in GraphUsers, mishaps' \in Nat,
         user'.groups \subseteq user.groups, user'.skus \subseteq user.skus
  PROVE  OffInv'
  <1>1. OffFine(call[c], user)
    BY DEF OffInv
  <1>2. OffFine(s, user')
    BY <1>1 DEF OffFine, OffKnows
  <1>3. QED BY <1>2, BecomesFine

\* What having sent a mutation makes of the call's own record q.
LEMMA SentFields ==
  ASSUME NEW q \in Off!Calls, NEW ok \in BOOLEAN
  PROVE  LET s == Off!Sent(q, ok) IN
         /\ s \in Off!Calls
         /\ s.pc = q.pc /\ s.pre = q.pre /\ s.result = q.result
         /\ s.undisturbed = q.undisturbed /\ s.work = q.work /\ s.todo = q.todo
         /\ s.revoked = q.revoked /\ (~s.errors => ~q.errors /\ ok)
  <1>1. \A e \in BOOLEAN :
          LET s == [q EXCEPT !.wrote = TRUE, !.errors = e]
          IN  /\ s \in Off!Calls
              /\ s.pc = q.pc /\ s.pre = q.pre /\ s.result = q.result
              /\ s.undisturbed = q.undisturbed /\ s.work = q.work /\ s.todo = q.todo
              /\ s.revoked = q.revoked /\ s.errors = e
    BY DEF Off!Calls
  <1>2. (q.errors \/ ~ok) \in BOOLEAN
    OBVIOUS
  <1>3. QED BY <1>1, <1>2 DEF Off!Sent

\* A mutation after the revocation is as warranted as what the call was about to do.
LEMMA SentHonest ==
  ASSUME NEW r \in Off!Calls, OffHonest(r), r.pc = "work", r.result # "success",
         r.work # {} \/ r.todo # {}, "revoke" \notin r.work,
         NEW q \in Off!Calls, q.pc = r.pc, q.pre = r.pre, q.result = r.result,
         q.revoked = r.revoked, q.errors = r.errors,
         q.work \subseteq r.work, q.todo \subseteq r.todo,
         NEW ok \in BOOLEAN
  PROVE  OffHonest(Off!Sent(q, ok))
  <1> DEFINE s == Off!Sent(q, ok)
  <1>1. /\ s.pc = "work" /\ s.pre = r.pre /\ s.result = r.result /\ s.work = q.work
        /\ s.todo = q.todo /\ s.revoked = r.revoked /\ (~s.errors => ~r.errors)
    BY SentFields
  <1> HIDE DEF s
  <1>2. OffHonest(s)
    BY <1>1 DEF OffHonest
  <1>3. QED BY <1>2 DEF s

LEMMA RevokeKeeps ==
  ASSUME OffInv, NEW c \in Offboarders, Off!Revoke(c)
  PROVE  OffInv'
  <1> DEFINE r == call[c]
             q == [r EXCEPT !.work = @ \ {"revoke"}]
  <1>1. r \in Off!Calls /\ r.pc = "work" /\ "revoke" \in r.work /\ OffHonest(r)
    BY DEF OffInv, OffFine, Off!Revoke
  <1>2. PICK ok \in BOOLEAN :
          /\ Off!Write(TRUE, user, ok)
          /\ Off!Becomes(c, [Off!Sent(q, ok) EXCEPT !.revoked = ok])
    BY DEF Off!Revoke
  <1>3. user \in GraphUsers
    BY DEF OffInv
  <1>4. user' = user /\ user' \in GraphUsers /\ mishaps' \in Nat
    BY <1>2, <1>3, WriteKeeps
  <1>5. /\ q \in Off!Calls /\ q.pc = r.pc /\ q.pre = r.pre /\ q.result = r.result
        /\ q.undisturbed = r.undisturbed /\ q.work = r.work \ {"revoke"} /\ q.todo = r.todo
    BY <1>1 DEF Off!Calls
  <1> DEFINE p == Off!Sent(q, ok)
             s == [p EXCEPT !.revoked = ok]
  <1>6. /\ p \in Off!Calls /\ p.pc = r.pc /\ p.pre = r.pre /\ p.result = r.result
        /\ p.undisturbed = r.undisturbed /\ p.work = q.work /\ p.todo = r.todo
        /\ (~p.errors => ok)
    <2> HIDE DEF q
    <2>1. QED BY <1>5, SentFields
  <1> HIDE DEF p
  <1>7. /\ s \in Off!Calls /\ s.pc = r.pc /\ s.pre = r.pre /\ s.result = r.result
        /\ s.undisturbed = r.undisturbed /\ s.work = p.work /\ s.todo = p.todo
        /\ s.errors = p.errors /\ s.revoked = ok
    BY <1>6 DEF Off!Calls
  <1>8. s.result # "success"
    BY <1>1, <1>7 DEF OffInv, OffFine
  <1>9. Off!Becomes(c, s)
    BY <1>2 DEF p
  <1> HIDE DEF s
  <1>10. OffHonest(s)
    BY <1>1, <1>6, <1>7, <1>8 DEF OffHonest
  <1>11. QED BY <1>1, <1>4, <1>7, <1>9, <1>10, MutationKeeps

LEMMA DisableKeeps ==
  ASSUME OffInv, NEW c \in Offboarders, Off!Disable(c)
  PROVE  OffInv'
  <1> DEFINE r == call[c]
             q == [r EXCEPT !.work = @ \ {"disable"}]
             new == [user EXCEPT !.enabled = FALSE]
  <1>1. r \in Off!Calls /\ r.pc = "work" /\ OffFine(r, user) /\ OffHonest(r)
    BY DEF OffInv, OffFine, Off!Disable
  <1>2. "disable" \in r.work /\ "revoke" \notin r.work /\ r.result # "success"
    BY <1>1 DEF Off!Disable, OffFine
  <1>3. PICK ok \in BOOLEAN : Off!Write(TRUE, new, ok) /\ Off!Becomes(c, Off!Sent(q, ok))
    BY DEF Off!Disable
  <1>4. new \in GraphUsers /\ new.groups = user.groups /\ new.skus = user.skus
    BY DEF OffInv, GraphUsers
  <1>5. /\ user' \in GraphUsers /\ mishaps' \in Nat
        /\ user'.groups \subseteq user.groups /\ user'.skus \subseteq user.skus
    <2> HIDE DEF new
    <2>1. QED BY <1>3, <1>4, WriteKeeps
  <1>6. /\ q \in Off!Calls /\ q.pc = r.pc /\ q.pre = r.pre /\ q.result = r.result
        /\ q.undisturbed = r.undisturbed /\ q.errors = r.errors /\ q.revoked = r.revoked
        /\ q.work \subseteq r.work /\ q.todo = r.todo
    BY <1>1 DEF Off!Calls
  <1> HIDE DEF q
  <1>7. OffHonest(Off!Sent(q, ok))
    BY <1>1, <1>3, <1>6, <1>2, SentHonest
  <1>8. QED BY <1>1, <1>3, <1>5, <1>6, <1>7, SentFields, MutationKeeps

LEMMA RemoveGroupKeeps ==
  ASSUME OffInv, NEW c \in Offboarders, Off!RemoveGroup(c)
  PROVE  OffInv'
  <1>1. PICK g \in call[c].todo, ok \in BOOLEAN :
          /\ Off!Write(g \in user.groups, [user EXCEPT !.groups = @ \ {g}], ok)
          /\ Off!Becomes(c, Off!Sent([call[c] EXCEPT !.todo = @ \ {g}], ok))
    BY DEF Off!RemoveGroup
  <1> DEFINE r == call[c]
             q == [r EXCEPT !.todo = @ \ {g}]
             new == [user EXCEPT !.groups = @ \ {g}]
  <1>2. r \in Off!Calls /\ r.pc = "work" /\ OffFine(r, user) /\ OffHonest(r)
    BY DEF OffInv, OffFine, Off!RemoveGroup
  <1>3. g \in r.todo /\ "revoke" \notin r.work /\ r.result # "success"
    BY <1>2 DEF Off!RemoveGroup, OffFine
  <1>4. new \in GraphUsers /\ new.groups \subseteq user.groups /\ new.skus = user.skus
    BY DEF OffInv, GraphUsers
  <1>5. /\ user' \in GraphUsers /\ mishaps' \in Nat
        /\ user'.groups \subseteq user.groups /\ user'.skus \subseteq user.skus
    <2>1. Off!Write(g \in user.groups, new, ok) /\ (g \in user.groups) \in BOOLEAN
      BY <1>1
    <2> HIDE DEF new
    <2>2. QED BY <1>4, <2>1, WriteKeeps
  <1>6. /\ q \in Off!Calls /\ q.pc = r.pc /\ q.pre = r.pre /\ q.result = r.result
        /\ q.undisturbed = r.undisturbed /\ q.errors = r.errors /\ q.revoked = r.revoked
        /\ q.work = r.work /\ q.todo \subseteq r.todo
    BY <1>2 DEF Off!Calls
  <1>7. Off!Becomes(c, Off!Sent(q, ok))
    BY <1>1
  <1> HIDE DEF q
  <1>8. OffHonest(Off!Sent(q, ok))
    BY <1>1, <1>2, <1>6, <1>3, SentHonest
  <1>9. QED BY <1>2, <1>5, <1>6, <1>7, <1>8, SentFields, MutationKeeps

LEMMA RemoveLicencesKeeps ==
  ASSUME OffInv, NEW c \in Offboarders, Off!RemoveLicences(c)
  PROVE  OffInv'
  <1> DEFINE r == call[c]
             gone == Off!RemovableOf(r.pre)
             q == [r EXCEPT !.work = {}]
             new == [user EXCEPT !.skus = @ \ gone]
  <1>1. r \in Off!Calls /\ r.pc = "work" /\ OffFine(r, user) /\ OffHonest(r)
    BY DEF OffInv, OffFine, Off!RemoveLicences
  <1>2. r.work # {} /\ "revoke" \notin r.work /\ r.result # "success"
    BY <1>1 DEF Off!RemoveLicences, OffFine
  <1>3. PICK ok \in BOOLEAN :
          /\ Off!Write(gone \subseteq user.skus, new, ok)
          /\ Off!Becomes(c, Off!Sent(q, ok))
    BY DEF Off!RemoveLicences
  <1>4. new \in GraphUsers /\ new.groups = user.groups /\ new.skus \subseteq user.skus
    BY DEF OffInv, GraphUsers
  <1>5. /\ user' \in GraphUsers /\ mishaps' \in Nat
        /\ user'.groups \subseteq user.groups /\ user'.skus \subseteq user.skus
    <2>1. (gone \subseteq user.skus) \in BOOLEAN
      OBVIOUS
    <2> HIDE DEF new, gone
    <2>2. QED BY <1>3, <1>4, <2>1, WriteKeeps
  <1>6. /\ q \in Off!Calls /\ q.pc = r.pc /\ q.pre = r.pre /\ q.result = r.result
        /\ q.undisturbed = r.undisturbed /\ q.errors = r.errors /\ q.revoked = r.revoked
        /\ q.work \subseteq r.work /\ q.todo = r.todo
    BY <1>1 DEF Off!Calls
  <1> HIDE DEF q
  <1>7. OffHonest(Off!Sent(q, ok))
    BY <1>1, <1>3, <1>6, <1>2, SentHonest
  <1>8. QED BY <1>1, <1>3, <1>5, <1>6, <1>7, SentFields, MutationKeeps

LEMMA ReadBackUserKeeps ==
  ASSUME OffInv, NEW c \in Offboarders, Off!ReadBackUser(c)
  PROVE  OffInv'
  <1> DEFINE r == call[c]
             good == Off!UserVerified(r, user)
             s == [r EXCEPT !.pc = "verify", !.good = good]
  <1>1. /\ r \in Off!Calls /\ r.pc = "work" /\ r.work = {} /\ r.todo = {}
        /\ OffFine(r, user)
    BY DEF OffInv, Off!ReadBackUser
  <1>2. PICK ok \in BOOLEAN :
          Off!Read(ok) /\ Off!Becomes(c, IF ok THEN s ELSE Off!End(r, "partial"))
    BY DEF Off!ReadBackUser
  <1>3. user' = user /\ user' \in GraphUsers /\ mishaps' \in Nat
    BY <1>2, ReadKeeps
  <1>4. OffFine(Off!End(r, "partial"), user')
    BY <1>1, EndFine DEF Off!Results
  <1>5. /\ good \in BOOLEAN
        /\ good => /\ ~r.errors
                   /\ ~user.enabled
                   /\ r.pre.skus \cap RemovableSkus \cap user.skus = {}
                   /\ r.pre.skus \ RemovableSkus \subseteq user.skus
    BY DEF Off!UserVerified, Off!RemovableOf, Off!PreservedOf
  <1>6. OffFine(s, user')
    <2> HIDE DEF good
    <2>1. s \in Off!Calls
      BY <1>1, <1>5 DEF Off!Calls, Off!Phases
    <2>2. /\ s.pc = "verify" /\ s.good = good /\ s.pre = r.pre /\ s.result = r.result
          /\ s.work = {} /\ s.todo = {} /\ s.undisturbed = r.undisturbed
          /\ s.revoked = r.revoked /\ s.wrote = r.wrote
      BY <1>1 DEF Off!Calls
    <2>3. QED BY <1>1, <1>3, <1>5, <2>1, <2>2 DEF OffFine, OffKnows, OffHonest
  <1>7. Off!Becomes(c, s) \/ Off!Becomes(c, Off!End(r, "partial"))
    BY <1>2
  <1> HIDE DEF s
  <1>8. QED BY <1>3, <1>4, <1>6, <1>7, BecomesFine

LEMMA ReadBackGroupsKeeps ==
  ASSUME OffInv, NEW c \in Offboarders, Off!ReadBackGroups(c)
  PROVE  OffInv'
  <1> DEFINE r == call[c]
             verified == /\ r.good
                         /\ Off!RemovableGroups(r.pre) \cap user.groups = {}
                         /\ Off!PreservedGroups(r.pre) \subseteq user.groups
  <1>1. r \in Off!Calls /\ r.pc = "verify" /\ OffFine(r, user)
    BY DEF OffInv, Off!ReadBackGroups
  <1>2. PICK ok \in BOOLEAN :
          /\ Off!Read(ok)
          /\ Off!Becomes(c, Off!End(r, IF ok /\ verified THEN "success" ELSE "partial"))
    BY DEF Off!ReadBackGroups
  <1>3. user' = user /\ user' \in GraphUsers /\ mishaps' \in Nat
    BY <1>2, ReadKeeps
  <1>4. CASE verified
    <2> DEFINE e == Off!End(r, "success")
    <2>1. /\ e.pc = "done" /\ e.pre = r.pre /\ e.result = "success" /\ e.work = {}
          /\ e.todo = {} /\ e.undisturbed = r.undisturbed /\ e.revoked = r.revoked
          /\ ~e.wrote
      BY DEF Off!End
    <2>2. e \in Off!Calls
      BY <1>1, CallFields DEF Off!End, Off!Calls, Off!Phases, Off!Modes, Off!Results,
         Off!Tasks, GraphUsers, Off!GraphUsers
    <2>3. r.undisturbed =>
            /\ Off!Offboarded(user)
            /\ r.pre.groups \ Off!Takable \subseteq user.groups
            /\ r.pre.skus \ RemovableSkus \subseteq user.skus
      BY <1>1, <1>4 DEF OffFine, OffKnows, Off!Offboarded, Off!Takable,
         Off!RemovableGroups, Off!PreservedGroups
    <2>4. OffFine(e, user')
      BY <1>1, <1>3, <1>4, <2>1, <2>2, <2>3 DEF OffFine, OffKnows, OffHonest
    <2>5. OffFine(Off!End(r, "partial"), user')
      BY <1>1, EndFine DEF Off!Results
    <2> HIDE DEF e, verified
    <2>6. Off!Becomes(c, e) \/ Off!Becomes(c, Off!End(r, "partial"))
      BY <1>2 DEF e
    <2>7. QED BY <1>3, <2>4, <2>5, <2>6, BecomesFine
  <1>5. CASE ~verified
    <2>1. OffFine(Off!End(r, "partial"), user')
      BY <1>1, EndFine DEF Off!Results
    <2> HIDE DEF verified
    <2>2. QED BY <1>2, <1>3, <1>5, <2>1, BecomesFine
  <1>6. QED BY <1>4, <1>5

\* The initial states are in order.
LEMMA OffInvInit == Off!Init => OffInv
  <1> SUFFICES ASSUME Off!Init PROVE OffInv
    OBVIOUS
  <1> DEFINE r == [Off!Fresh("execute") EXCEPT !.pc = "idle"]
  <1>1. r \in Off!Calls
    BY DEF Off!Fresh, Off!Calls, Off!Phases, Off!Modes, Off!Results, Off!Tasks,
       Off!GraphUsers, Off!Unread
  <1>2. OffFine(r, user)
    BY <1>1 DEF OffFine, OffKnows, OffHonest, Off!Fresh
  <1>3. call = [c \in Offboarders |-> r] /\ user \in GraphUsers /\ mishaps \in Nat
    BY DEF Off!Init, GraphUsers, Off!GraphUsers
  <1> HIDE DEF r
  <1>4. QED BY <1>1, <1>2, <1>3 DEF OffInv

\* Every step of the service, and every step of anybody else, keeps the invariant.
LEMMA OffInvStep == OffInv /\ [Off!Next]_(Off!vars) => OffInv'
  <1> SUFFICES ASSUME OffInv, [Off!Next]_(Off!vars) PROVE OffInv'
    OBVIOUS
  <1>1. CASE UNCHANGED Off!vars
    BY <1>1 DEF Off!vars, OffInv
  <1>2. ASSUME NEW c \in Offboarders, NEW mode \in Off!Modes, NEW named \in BOOLEAN,
               Off!Begin(c, mode, named)
        PROVE  OffInv'
    BY <1>2, BeginKeeps
  <1>3. ASSUME NEW c \in Offboarders, Off!Step(c) PROVE OffInv'
    BY <1>3, CaptureUserKeeps, CaptureGroupsKeeps, RevokeKeeps, DisableKeeps,
       RemoveGroupKeeps, RemoveLicencesKeeps, ReadBackUserKeeps, ReadBackGroupsKeeps
       DEF Off!Step
  <1>4. ASSUME Off!Environment PROVE OffInv'
    <2>1. user' \in GraphUsers /\ mishaps' \in Nat /\ Off!Elsewhere
      BY <1>4 DEF Off!Environment, OffInv, GraphUsers, Off!GraphUsers
    <2>2. QED BY <2>1, ElsewhereFine
  <1>5. QED BY <1>1, <1>2, <1>3, <1>4 DEF Off!Next

\* Whoever else is at work on the user, and whatever requests fail: an offboarding that
\* reports success has disabled the user, has taken everything removable and has kept
\* the rest, as far as nobody else changed it meanwhile.
THEOREM OffboardingSoundAnywhere ==
  Off!Spec => []( /\ Off!TypeOK /\ Off!SuccessIsSound
                  /\ Off!RerunIsQuiet /\ Off!SuccessRevoked)
  <1>1. Off!Init => OffInv
    BY OffInvInit
  <1>2. QED BY <1>1, OffInvStep, OffInvImplies, PTL DEF Off!Spec

\* Whatever has changed since the capture, a step of an offboarding takes from the user
\* only what it may take: never a protected or a real group, never a licence that is to
\* be kept.
LEMMA TakesOnly ==
  ASSUME OffInv, [Off!Next]_(Off!vars), NEW c \in Offboarders, Off!Acts(c)
  PROVE  /\ user'.groups \subseteq user.groups
         /\ user'.skus \subseteq user.skus
         /\ user'.enabled => user.enabled
         /\ user.groups \ user'.groups \subseteq Off!Takable
         /\ user.skus \ user'.skus \subseteq RemovableSkus
  <1> USE DEF Off!Read, Off!Write
  <1>1. user \in GraphUsers /\ OffFine(call[c], user)
    BY DEF OffInv
  <1>2. call'[c] # Off!Notice(call[c])
    <2>1. call[c] \in Off!Calls
      BY DEF OffInv
    <2>2. LET n == Off!Notice(call[c]) IN
            n.pc = call[c].pc /\ n.work = call[c].work /\ n.todo = call[c].todo
      BY <2>1 DEF Off!Notice, Off!Calls
    <2>3. QED BY <2>2 DEF Off!Acts
  <1>3. ASSUME NEW d \in Offboarders, NEW r, Off!Becomes(d, r) PROVE d = c
    BY <1>2, <1>3 DEF Off!Becomes
  <1>4. CASE UNCHANGED user
    BY <1>4
  <1>5. CASE Off!Disable(c)
    <2>1. user' = user \/ user' = [user EXCEPT !.enabled = FALSE]
      BY <1>5 DEF Off!Disable
    <2>2. QED BY <1>1, <2>1 DEF GraphUsers
  <1>6. CASE Off!RemoveGroup(c)
    <2>1. PICK g \in call[c].todo : user' = user \/ user' = [user EXCEPT !.groups = @ \ {g}]
      BY <1>6 DEF Off!RemoveGroup
    <2>2. g \in Off!Takable
      BY <1>1 DEF OffFine, OffHonest
    <2>3. QED BY <1>1, <2>1, <2>2 DEF GraphUsers
  <1>7. CASE Off!RemoveLicences(c)
    <2> DEFINE gone == Off!RemovableOf(call[c].pre)
    <2>1. user' = user \/ user' = [user EXCEPT !.skus = @ \ gone]
      BY <1>7 DEF Off!RemoveLicences
    <2>2. gone \subseteq RemovableSkus
      BY DEF Off!RemovableOf
    <2> HIDE DEF gone
    <2>3. QED BY <1>1, <2>1, <2>2 DEF GraphUsers
  <1>8. ASSUME NEW d \in Offboarders, Off!Step(d)
        PROVE  \/ UNCHANGED user
               \/ Off!Disable(c) \/ Off!RemoveGroup(c) \/ Off!RemoveLicences(c)
    <2>1. CASE Off!Disable(d) \/ Off!RemoveGroup(d) \/ Off!RemoveLicences(d)
      <3>1. d = c
        BY <1>3, <2>1 DEF Off!Disable, Off!RemoveGroup, Off!RemoveLicences
      <3>2. QED BY <2>1, <3>1
    <2>2. CASE Off!CaptureUser(d) \/ Off!CaptureGroups(d) \/ Off!Revoke(d)
               \/ Off!ReadBackUser(d) \/ Off!ReadBackGroups(d)
      BY <2>2 DEF Off!CaptureUser, Off!CaptureGroups, Off!Revoke, Off!ReadBackUser,
         Off!ReadBackGroups
    <2>3. QED BY <1>8, <2>1, <2>2 DEF Off!Step
  <1>9. ~Off!Environment
    BY <1>2 DEF Off!Environment, Off!Elsewhere
  <1>10. QED
    BY <1>4, <1>5, <1>6, <1>7, <1>8, <1>9 DEF Off!Next, Off!Begin, Off!vars

-------------------------------------------------------------------------------
(* Remediation                                                             *)

\* The action has the target it requires.
Complete(t) == t.action \in Rem!Plain \/ t.target # NoTarget

\* What a call r knows of a user u that nobody else has changed since it began: once
\* the mutation is behind it, the user is as the ticket wants it.
RemKnows(r, u) ==
    /\ r.pc = "groups" => r.pre.enabled = u.enabled /\ r.pre.skus = u.skus
    /\ r.pc \in {"check", "verify"} \/ r.result = "success" => Rem!Fixed(r.ticket, u)

\* A call r is in order for a user u.
RemFine(r, u) ==
    /\ r \in Rem!Fixes
    /\ r.result # "none" <=> r.pc = "done"
    /\ Complete(r.ticket)
    /\ r.undisturbed => RemKnows(r, u)

\* The inductive invariant of the service.
RemInv ==
    /\ user \in GraphUsers
    /\ mishaps \in Nat
    /\ fix \in [Helpdesk -> Rem!Fixes]
    /\ \A c \in Helpdesk : RemFine(fix[c], user)

\* What the invariant is for.
LEMMA RemInvImplies == RemInv => Rem!TypeOK /\ Rem!SuccessIsSound
  BY DEF RemInv, RemFine, RemKnows, Rem!TypeOK, Rem!SuccessIsSound, GraphUsers, Rem!GraphUsers

\* The mutation of a ticket gives it what it wants, and a user that needs no mutation
\* is as it wants it.
LEMMA EffectFixes ==
  ASSUME NEW t \in Rem!Tickets, Complete(t), NEW u \in GraphUsers
  PROVE  /\ Rem!Effect(t, u) \in GraphUsers
         /\ Rem!Fixed(t, Rem!Effect(t, u))
         /\ ~Rem!Mutates(t, u) => Rem!Fixed(t, u)
  <1> USE DEF Rem!Effect, Rem!Fixed, Rem!Mutates, GraphUsers
  <1>1. CASE t.action \in Rem!Plain
    BY <1>1 DEF Rem!Plain
  <1>2. CASE t.action \in {"add_group", "remove_group"} /\ t.target \in Groups
    BY <1>2
  <1>3. CASE t.action \in {"assign_license", "remove_license"} /\ t.target \in Skus
    BY <1>3
  <1>4. QED BY <1>1, <1>2, <1>3 DEF Rem!Tickets, Complete, Rem!Plain

\* A call that notices what others did is in order.
LEMMA FixNoticeFine ==
  ASSUME NEW r, RemFine(r, user)
  PROVE  RemFine(Rem!Notice(r), user')
  <1>1. Rem!Notice(r) \in Rem!Fixes
    BY DEF RemFine, Rem!Notice, Rem!Fixes
  <1>2. QED
    BY <1>1 DEF RemFine, Rem!Notice, RemKnows, Rem!Fixes

\* A step that leaves the acting call in order leaves all of them in order.
LEMMA FixBecomesFine ==
  ASSUME RemInv, NEW c \in Helpdesk, NEW r, Rem!Becomes(c, r), RemFine(r, user'),
         user' \in GraphUsers, mishaps' \in Nat
  PROVE  RemInv'
  <1>1. \A d \in Helpdesk : RemFine(Rem!Notice(fix[d]), user')
    BY FixNoticeFine DEF RemInv
  <1>2. fix' = [d \in Helpdesk |-> IF d = c THEN r ELSE Rem!Notice(fix[d])]
    BY DEF Rem!Becomes
  <1>3. \A d \in Helpdesk : RemFine(fix'[d], user')
    BY <1>1, <1>2
  <1>4. fix' \in [Helpdesk -> Rem!Fixes]
    BY <1>2, <1>3 DEF RemFine
  <1>5. QED BY <1>3, <1>4 DEF RemInv

\* Whatever the environment does to the user, the calls stay in order.
LEMMA FixElsewhereFine ==
  ASSUME RemInv, Rem!Elsewhere, user' \in GraphUsers, mishaps' \in Nat
  PROVE  RemInv'
  <1>1. \A d \in Helpdesk : RemFine(Rem!Notice(fix[d]), user')
    BY FixNoticeFine DEF RemInv
  <1>2. fix' = [d \in Helpdesk |-> Rem!Notice(fix[d])]
    BY DEF Rem!Elsewhere
  <1>3. \A d \in Helpdesk : RemFine(fix'[d], user')
    BY <1>1, <1>2
  <1>4. fix' \in [Helpdesk -> Rem!Fixes]
    BY <1>2, <1>3 DEF RemFine
  <1>5. QED BY <1>3, <1>4 DEF RemInv

\* A read changes nothing.
LEMMA FixReadKeeps ==
  ASSUME RemInv, NEW ok \in BOOLEAN, Rem!Read(ok)
  PROVE  user' = user /\ user' \in GraphUsers /\ mishaps' \in Nat
  BY DEF RemInv, Rem!Read, Rem!Mishap

\* The ticket of a call that has not begun.
LEMMA IdleTicket == Rem!Idle.ticket \in Rem!Tickets /\ Complete(Rem!Idle.ticket)
  <1>1. Rem!Idle.ticket = [action |-> "block_signin", target |-> NoTarget]
    BY DEF Rem!Idle, Rem!Fresh
  <1>2. QED BY <1>1 DEF Rem!Tickets, Rem!Plain, Complete

\* A call that begins is in order, and so is one that returns: with a success only if
\* the user is as the ticket wants it.
LEMMA FreshFine ==
  ASSUME NEW t \in Rem!Tickets, NEW mode \in Rem!Modes, NEW u
  PROVE  /\ Rem!Fresh(t, mode) \in Rem!Fixes
         /\ Complete(t) => RemFine(Rem!Fresh(t, mode), u)
  <1>1. Rem!Fresh(t, mode) \in Rem!Fixes
    BY DEF Rem!Fresh, Rem!Fixes, Rem!Phases, Rem!Modes, Rem!Results, Rem!GraphUsers, Rem!Unread
  <1>2. QED BY <1>1 DEF RemFine, RemKnows, Rem!Fresh

\* A call that ends with a warranted result is in order.
LEMMA FixEndFine ==
  ASSUME NEW r \in Rem!Fixes, NEW u, NEW result \in Rem!Results \ {"none"},
         result = "success" => Complete(r.ticket) /\ (r.undisturbed => Rem!Fixed(r.ticket, u))
  PROVE  RemFine(Rem!End(r, result), u)
  <1> DEFINE e == Rem!End(r, result)
  <1>1. /\ e.pc = "done" /\ e.result = result /\ e.undisturbed = r.undisturbed
        /\ e.ticket = IF result = "success" THEN r.ticket ELSE Rem!Idle.ticket
    BY DEF Rem!End
  <1>2. r.ticket \in Rem!Tickets /\ r.undisturbed \in BOOLEAN
    BY DEF Rem!Fixes
  <1>3. e \in Rem!Fixes
    BY <1>2, IdleTicket DEF Rem!End, Rem!Fixes, Rem!Phases, Rem!Modes, Rem!Results,
       Rem!GraphUsers, Rem!Unread
  <1> HIDE DEF e
  <1>4. RemFine(e, u)
    BY <1>1, <1>2, <1>3, IdleTicket DEF RemFine, RemKnows
  <1>5. QED BY <1>4 DEF e

\* A call of remediation begins; one lemma per request of it follows.
LEMMA FixBeginKeeps ==
  ASSUME RemInv, NEW c \in Helpdesk, NEW t \in Rem!Tickets, NEW mode \in Rem!Modes,
         NEW named \in BOOLEAN, Rem!Begin(c, t, mode, named)
  PROVE  RemInv'
  <1> DEFINE begins == Complete(t) /\ (named \/ mode = "dry_run")
  <1>1. Rem!Becomes(c, IF begins THEN Rem!Fresh(t, mode)
                                 ELSE Rem!End(Rem!Fresh(t, mode), "refused"))
    BY DEF Rem!Begin, Complete
  <1>2. begins => RemFine(Rem!Fresh(t, mode), user')
    BY FreshFine
  <1>3. RemFine(Rem!End(Rem!Fresh(t, mode), "refused"), user')
    BY FreshFine, FixEndFine DEF Rem!Results
  <1>4. user' \in GraphUsers /\ mishaps' \in Nat
    BY DEF RemInv, Rem!Begin
  <1> HIDE DEF begins
  <1>5. QED BY <1>1, <1>2, <1>3, <1>4, FixBecomesFine

LEMMA DiscoverKeeps ==
  ASSUME RemInv, NEW c \in Helpdesk, Rem!Discover(c)
  PROVE  RemInv'
  <1> DEFINE r == fix[c]
  <1>1. r \in Rem!Fixes /\ r.pc = "discover" /\ RemFine(r, user)
    BY DEF RemInv, Rem!Discover
  <1>2. PICK ok \in BOOLEAN, free \in BOOLEAN :
          /\ Rem!Read(ok)
          /\ \/ Rem!Becomes(c, [r EXCEPT !.pc = "user", !.free = free])
             \/ Rem!Becomes(c, Rem!End(r, "refused"))
    BY DEF Rem!Discover
  <1>3. user' = user /\ user' \in GraphUsers /\ mishaps' \in Nat
    BY <1>2, FixReadKeeps
  <1> DEFINE s == [r EXCEPT !.pc = "user", !.free = free]
  <1>4. /\ s \in Rem!Fixes /\ s.pc = "user" /\ s.result = r.result
        /\ s.ticket = r.ticket /\ s.undisturbed = r.undisturbed
    BY <1>1 DEF Rem!Fixes, Rem!Phases
  <1> HIDE DEF s
  <1>5. RemFine(s, user')
    BY <1>1, <1>4 DEF RemFine, RemKnows
  <1>6. RemFine(Rem!End(r, "refused"), user')
    BY <1>1, FixEndFine DEF Rem!Results
  <1>7. QED BY <1>2, <1>3, <1>5, <1>6, FixBecomesFine DEF s

LEMMA FixCaptureUserKeeps ==
  ASSUME RemInv, NEW c \in Helpdesk, Rem!CaptureUser(c)
  PROVE  RemInv'
  <1> DEFINE r == fix[c]
             v == [user EXCEPT !.groups = {}]
             s == [r EXCEPT !.pc = "groups", !.pre = v]
  <1>1. r \in Rem!Fixes /\ r.pc = "user" /\ RemFine(r, user)
    BY DEF RemInv, Rem!CaptureUser
  <1>2. PICK ok \in BOOLEAN :
          /\ Rem!Read(ok)
          /\ Rem!Becomes(c, s) \/ Rem!Becomes(c, Rem!End(r, "failed"))
    BY DEF Rem!CaptureUser
  <1>3. user' = user /\ user' \in GraphUsers /\ mishaps' \in Nat
    BY <1>2, FixReadKeeps
  <1>4. v \in Rem!GraphUsers /\ v.enabled = user.enabled /\ v.skus = user.skus
    BY DEF RemInv, GraphUsers, Rem!GraphUsers
  <1> HIDE DEF v
  <1>5. /\ s \in Rem!Fixes /\ s.pc = "groups" /\ s.result = r.result /\ s.pre = v
        /\ s.ticket = r.ticket /\ s.undisturbed = r.undisturbed
    BY <1>1, <1>4 DEF Rem!Fixes, Rem!Phases
  <1> HIDE DEF s
  <1>6. RemFine(s, user')
    BY <1>1, <1>3, <1>4, <1>5 DEF RemFine, RemKnows
  <1>7. RemFine(Rem!End(r, "failed"), user')
    BY <1>1, FixEndFine DEF Rem!Results
  <1>8. QED BY <1>2, <1>3, <1>6, <1>7, FixBecomesFine

LEMMA FixCaptureGroupsKeeps ==
  ASSUME RemInv, NEW c \in Helpdesk, Rem!CaptureGroups(c)
  PROVE  RemInv'
  <1> DEFINE r == fix[c]
             t == r.ticket
             pre == [r.pre EXCEPT !.groups = user.groups]
             next == IF Rem!Mutates(t, pre) THEN "write" ELSE "check"
             s == [r EXCEPT !.pc = next, !.pre = Rem!Unread, !.free = TRUE]
  <1>1. r \in Rem!Fixes /\ r.pc = "groups" /\ RemFine(r, user)
    BY DEF RemInv, Rem!CaptureGroups
  <1>2. PICK ok \in BOOLEAN :
          /\ Rem!Read(ok)
          /\ \/ Rem!Becomes(c, Rem!End(r, "failed"))
             \/ Rem!Becomes(c, Rem!End(r, "refused"))
             \/ Rem!Becomes(c, Rem!End(r, r.mode)) /\ r.mode # "execute"
             \/ Rem!Becomes(c, s)
    BY DEF Rem!CaptureGroups
  <1>3. user' = user /\ user' \in GraphUsers /\ mishaps' \in Nat
    BY <1>2, FixReadKeeps
  <1>4. /\ t \in Rem!Tickets /\ Complete(t) /\ r.pre \in GraphUsers
        /\ r.mode \in Rem!Results \ {"none", "success"}
    BY <1>1 DEF RemFine, Rem!Fixes, Rem!Modes, Rem!Results, GraphUsers, Rem!GraphUsers
  <1>5. r.undisturbed => pre = user
    BY <1>1, <1>4 DEF RemInv, RemFine, RemKnows, GraphUsers
  <1>6. r.undisturbed /\ next = "check" => Rem!Fixed(t, user)
    <2>1. user \in GraphUsers
      BY DEF RemInv
    <2> HIDE DEF pre, t
    <2>2. QED BY <1>4, <1>5, <2>1, EffectFixes
  <1>7. next \in {"write", "check"}
    OBVIOUS
  <1> HIDE DEF next, pre
  <1>8. /\ s \in Rem!Fixes /\ s.pc = next /\ s.result = r.result
        /\ s.ticket = t /\ s.undisturbed = r.undisturbed
    BY <1>1, <1>7 DEF Rem!Fixes, Rem!Phases, Rem!Unread, Rem!GraphUsers
  <1> HIDE DEF s
  <1>9. RemFine(s, user')
    BY <1>1, <1>3, <1>6, <1>7, <1>8 DEF RemFine, RemKnows
  <1>10. /\ RemFine(Rem!End(r, "failed"), user')
         /\ RemFine(Rem!End(r, "refused"), user')
         /\ RemFine(Rem!End(r, r.mode), user')
    BY <1>1, <1>4, FixEndFine DEF Rem!Results
  <1>11. QED BY <1>2, <1>3, <1>9, <1>10, FixBecomesFine

LEMMA MutateKeeps ==
  ASSUME RemInv, NEW c \in Helpdesk, Rem!Mutate(c)
  PROVE  RemInv'
  <1> DEFINE r == fix[c]
             t == r.ticket
             new == Rem!Effect(t, user)
             s == [r EXCEPT !.pc = "check"]
  <1>1. r \in Rem!Fixes /\ r.pc = "write" /\ RemFine(r, user)
    BY DEF RemInv, Rem!Mutate
  <1>2. PICK ok \in BOOLEAN :
          /\ Rem!Write(Rem!Accepted(t, user), new, ok)
          /\ Rem!Becomes(c, IF ok THEN s ELSE Rem!End(r, "failed"))
    BY DEF Rem!Mutate
  <1>3. new \in GraphUsers /\ Rem!Fixed(t, new)
    BY <1>1, EffectFixes DEF RemInv, RemFine, Rem!Fixes
  <1> HIDE DEF new
  <1>4. user' \in GraphUsers /\ mishaps' \in Nat /\ (ok => user' = new)
    BY <1>2, <1>3 DEF RemInv, Rem!Write, Rem!Mishap
  <1>5. /\ s \in Rem!Fixes /\ s.pc = "check" /\ s.result = r.result
        /\ s.ticket = t /\ s.undisturbed = r.undisturbed
    BY <1>1 DEF Rem!Fixes, Rem!Phases
  <1> HIDE DEF s
  <1>6. ok => RemFine(s, user')
    BY <1>1, <1>3, <1>4, <1>5 DEF RemFine, RemKnows
  <1>7. RemFine(Rem!End(r, "failed"), user')
    BY <1>1, FixEndFine DEF Rem!Results
  <1>8. QED BY <1>2, <1>4, <1>6, <1>7, FixBecomesFine

\* The verdict adds nothing to what the call knows already.
LEMMA VerdictFine ==
  ASSUME NEW r, NEW good, NEW v, NEW u, RemFine(r, u), r.pc \in {"check", "verify"}
  PROVE  RemFine(Rem!Verdict(r, good, v), u)
  <1>1. RemFine(Rem!End(r, "success"), u) /\ RemFine(Rem!End(r, "unverified"), u)
    BY FixEndFine DEF RemFine, RemKnows, Rem!Results
  <1>2. QED BY <1>1 DEF Rem!Verdict

LEMMA FixReadBackUserKeeps ==
  ASSUME RemInv, NEW c \in Helpdesk, Rem!ReadBackUser(c)
  PROVE  RemInv'
  <1> DEFINE r == fix[c]
             good == Rem!UserVerified(r.ticket, user, TRUE)
             s == [r EXCEPT !.pc = "verify", !.good = good]
  <1>1. r \in Rem!Fixes /\ r.pc = "check" /\ RemFine(r, user)
    BY DEF RemInv, Rem!ReadBackUser
  <1>2. PICK ok \in BOOLEAN :
          /\ Rem!Read(ok)
          /\ Rem!Becomes(c, s) \/ Rem!Becomes(c, Rem!Unreadable(r))
    BY DEF Rem!ReadBackUser
  <1>3. user' = user /\ user' \in GraphUsers /\ mishaps' \in Nat
    BY <1>2, FixReadKeeps
  <1>4. good \in BOOLEAN
    BY <1>1 DEF Rem!UserVerified, RemInv, GraphUsers
  <1> HIDE DEF good
  <1>5. /\ s \in Rem!Fixes /\ s.pc = "verify" /\ s.result = r.result
        /\ s.ticket = r.ticket /\ s.undisturbed = r.undisturbed
    BY <1>1, <1>4 DEF Rem!Fixes, Rem!Phases
  <1> HIDE DEF s
  <1>6. RemFine(s, user')
    BY <1>1, <1>3, <1>5 DEF RemFine, RemKnows
  <1>7. RemFine(Rem!Unreadable(r), user')
    BY <1>1, <1>3, VerdictFine DEF Rem!Unreadable
  <1>8. QED BY <1>2, <1>3, <1>6, <1>7, FixBecomesFine

LEMMA FixReadBackGroupsKeeps ==
  ASSUME RemInv, NEW c \in Helpdesk, Rem!ReadBackGroups(c)
  PROVE  RemInv'
  <1> DEFINE r == fix[c]
  <1>1. r.pc = "verify" /\ RemFine(r, user)
    BY DEF RemInv, Rem!ReadBackGroups
  <1>2. PICK ok \in BOOLEAN :
          /\ Rem!Read(ok)
          /\ \/ Rem!Becomes(c, Rem!Verdict(r, r.good, user))
             \/ Rem!Becomes(c, Rem!Unreadable(r))
    BY DEF Rem!ReadBackGroups
  <1>3. user' = user /\ user' \in GraphUsers /\ mishaps' \in Nat
    BY <1>2, FixReadKeeps
  <1>4. /\ RemFine(Rem!Verdict(r, r.good, user), user')
        /\ RemFine(Rem!Unreadable(r), user')
    BY <1>1, <1>3, VerdictFine DEF Rem!Unreadable
  <1>5. QED BY <1>2, <1>3, <1>4, FixBecomesFine

\* The initial states are in order.
LEMMA RemInvInit == Rem!Init => RemInv
  <1> SUFFICES ASSUME Rem!Init PROVE RemInv
    OBVIOUS
  <1> DEFINE i == Rem!Idle
  <1>1. /\ i.pc = "idle" /\ i.result = "none" /\ i.pre = Rem!Unread /\ i.good = FALSE
        /\ i.ticket \in Rem!Tickets /\ Complete(i.ticket)
    BY IdleTicket DEF Rem!Idle, Rem!Fresh
  <1>2. i \in Rem!Fixes
    BY <1>1 DEF Rem!Idle, Rem!Fresh, Rem!Fixes, Rem!Phases, Rem!Modes, Rem!Results,
       Rem!GraphUsers, Rem!Unread
  <1> HIDE DEF i
  <1>3. RemFine(i, user)
    BY <1>1, <1>2 DEF RemFine, RemKnows
  <1>4. fix = [c \in Helpdesk |-> i] /\ user \in GraphUsers /\ mishaps \in Nat
    BY DEF Rem!Init, GraphUsers, Rem!GraphUsers, i
  <1>5. QED BY <1>2, <1>3, <1>4 DEF RemInv

\* Every step of the service, and every step of anybody else, keeps the invariant.
LEMMA RemInvStep == RemInv /\ [Rem!Next]_(Rem!vars) => RemInv'
  <1> SUFFICES ASSUME RemInv, [Rem!Next]_(Rem!vars) PROVE RemInv'
    OBVIOUS
  <1>1. CASE UNCHANGED Rem!vars
    BY <1>1 DEF Rem!vars, RemInv
  <1>2. ASSUME NEW c \in Helpdesk, NEW t \in Rem!Tickets, NEW mode \in Rem!Modes,
               NEW named \in BOOLEAN, Rem!Begin(c, t, mode, named)
        PROVE  RemInv'
    BY <1>2, FixBeginKeeps
  <1>3. ASSUME NEW c \in Helpdesk, Rem!Step(c) PROVE RemInv'
    BY <1>3, DiscoverKeeps, FixCaptureUserKeeps, FixCaptureGroupsKeeps, MutateKeeps,
       FixReadBackUserKeeps, FixReadBackGroupsKeeps DEF Rem!Step
  <1>4. ASSUME Rem!Environment PROVE RemInv'
    <2>1. user' \in GraphUsers /\ mishaps' \in Nat /\ Rem!Elsewhere
      BY <1>4 DEF Rem!Environment, RemInv, GraphUsers, Rem!GraphUsers
    <2>2. QED BY <2>1, FixElsewhereFine
  <1>5. QED BY <1>1, <1>2, <1>3, <1>4 DEF Rem!Next

\* Whoever else is at work on the user, and whatever requests fail: a remediation that
\* reports success has left the user as its ticket wants it, as far as nobody else
\* changed it meanwhile; also if the read-back itself failed.
THEOREM RemediationSoundAnywhere == Rem!Spec => [](Rem!TypeOK /\ Rem!SuccessIsSound)
  <1>1. Rem!Init => RemInv
    BY RemInvInit
  <1>2. QED BY <1>1, RemInvStep, RemInvImplies, PTL DEF Rem!Spec

-------------------------------------------------------------------------------
(* The two services together                                               *)

\* A request is one failure at most.
LEMMA RequestCounts ==
  ASSUME NEW c \in Offboarders \cup Helpdesk,
         (c \in Offboarders /\ Off!Step(c)) \/ (c \in Helpdesk /\ Rem!Step(c))
  PROVE  mishaps' \in {mishaps, mishaps + 1}
  <1>1. CASE c \in Offboarders /\ Off!Step(c)
    BY <1>1 DEF Off!Step, Off!CaptureUser, Off!CaptureGroups, Off!Revoke, Off!Disable,
       Off!RemoveGroup, Off!RemoveLicences, Off!ReadBackUser, Off!ReadBackGroups,
       Off!Read, Off!Write, Off!Mishap
  <1>2. CASE c \in Helpdesk /\ Rem!Step(c)
    BY <1>2 DEF Rem!Step, Rem!Discover, Rem!CaptureUser, Rem!CaptureGroups, Rem!Mutate,
       Rem!ReadBackUser, Rem!ReadBackGroups, Rem!Read, Rem!Write, Rem!Mishap
  <1>3. QED BY <1>1, <1>2

\* To either service the other one is a part of its environment.
LEMMA StepsAreBoth ==
  OffInv /\ RemInv /\ [Next]_vars => [Off!Next]_(Off!vars) /\ [Rem!Next]_(Rem!vars)
  <1> SUFFICES ASSUME OffInv, RemInv, [Next]_vars
               PROVE  [Off!Next]_(Off!vars) /\ [Rem!Next]_(Rem!vars)
    OBVIOUS
  <1>1. CASE UNCHANGED vars
    BY <1>1 DEF vars, Off!vars, Rem!vars
  <1>2. CASE OffboardingStep
    <2>1. PICK c \in Offboarders : Off!Step(c) /\ Rem!Elsewhere
      BY <1>2 DEF OffboardingStep
    <2>2. Off!Next
      BY <2>1 DEF Off!Next
    <2>3. OffInv'
      BY <2>2, OffInvStep
    <2>4. mishaps' \in {mishaps, mishaps + 1}
      BY <2>1, RequestCounts
    <2>5. Rem!Environment
      BY <2>1, <2>3, <2>4 DEF Rem!Environment, OffInv, GraphUsers, Rem!GraphUsers
    <2>6. QED BY <2>2, <2>5 DEF Rem!Next
  <1>3. CASE RemediationStep
    <2>1. PICK c \in Helpdesk : Rem!Step(c) /\ Off!Elsewhere
      BY <1>3 DEF RemediationStep
    <2>2. Rem!Next
      BY <2>1 DEF Rem!Next
    <2>3. RemInv'
      BY <2>2, RemInvStep
    <2>4. mishaps' \in {mishaps, mishaps + 1}
      BY <2>1, RequestCounts
    <2>5. Off!Environment
      BY <2>1, <2>3, <2>4 DEF Off!Environment, RemInv, GraphUsers, Off!GraphUsers
    <2>6. QED BY <2>2, <2>5 DEF Off!Next
  <1>4. CASE StartOffboarding
    <2>1. Off!Next
      BY <1>4 DEF StartOffboarding, Off!Next
    <2>2. UNCHANGED Rem!vars
      BY <1>4 DEF StartOffboarding, Off!Begin, Rem!vars
    <2>3. QED BY <2>1, <2>2
  <1>5. CASE StartRemediation
    <2>1. Rem!Next
      BY <1>5, RequestsOK DEF StartRemediation, Rem!Next
    <2>2. UNCHANGED Off!vars
      BY <1>5 DEF StartRemediation, Rem!Begin, Off!vars
    <2>3. QED BY <2>1, <2>2
  <1>6. QED BY <1>1, <1>2, <1>3, <1>4, <1>5 DEF Next

\* Both invariants hold of the composition.
LEMMA BothInvariants == Spec => [](OffInv /\ RemInv)
  <1>1. Init => OffInv /\ RemInv
    BY OffInvInit, RemInvInit DEF Init
  <1>2. OffInv /\ RemInv /\ [Next]_vars => OffInv' /\ RemInv'
    BY StepsAreBoth, OffInvStep, RemInvStep
  <1>3. QED BY <1>1, <1>2, PTL DEF Spec

\* The composition implements either service in an environment, so what is proved of
\* them there is true here.
THEOREM ServicesCompose == Spec => Off!Spec /\ Rem!Spec
  <1>1. Init => Off!Init /\ Rem!Init
    BY DEF Init
  <1>2. QED BY <1>1, BothInvariants, StepsAreBoth, PTL DEF Spec, Off!Spec, Rem!Spec

\* All variables of the two services keep their types.
THEOREM AccountsTypeCorrect == Spec => []TypeOK
  <1>1. OffInv /\ RemInv => TypeOK
    BY OffInvImplies, RemInvImplies DEF TypeOK
  <1>2. QED BY <1>1, BothInvariants, PTL

\* However the calls interleave and whatever requests fail, an offboarding's success is
\* true, a user found offboarded is left alone, and no success lacks a revocation that
\* was due.
THEOREM OffboardingHolds ==
  Spec => [](OffboardingIsSound /\ OffboardingIsQuiet /\ OffboardingRevokes)
  <1>1. OffInv => OffboardingIsSound /\ OffboardingIsQuiet /\ OffboardingRevokes
    BY OffInvImplies DEF OffboardingIsSound, OffboardingIsQuiet, OffboardingRevokes
  <1>2. QED BY <1>1, BothInvariants, PTL

\* However stale its capture, a step of an offboarding takes only what may be taken.
THEOREM OffboardingNeverTakesMore == Spec => OffboardingTakesOnly
  <1> DEFINE Harmless ==
        \A c \in Offboarders : Off!Acts(c) =>
            /\ user'.groups \subseteq user.groups
            /\ user'.skus \subseteq user.skus
            /\ user'.enabled => user.enabled
            /\ user.groups \ user'.groups \subseteq Off!Takable
            /\ user.skus \ user'.skus \subseteq RemovableSkus
  <1>1. OffInv /\ RemInv /\ [Next]_vars => [Harmless]_(Off!vars)
    BY StepsAreBoth, TakesOnly
  <1> HIDE DEF Harmless
  <1>2. Spec => [][Harmless]_(Off!vars)
    BY <1>1, BothInvariants, PTL DEF Spec
  <1>3. QED BY <1>2 DEF OffboardingTakesOnly, Off!TakesOnlyRemovable, Harmless

\* However the calls interleave and whatever requests fail, a remediation's success is
\* true.
THEOREM RemediationHolds == Spec => []RemediationIsSound
  <1>1. RemInv => RemediationIsSound
    BY RemInvImplies DEF RemediationIsSound
  <1>2. QED BY <1>1, BothInvariants, PTL

-------------------------------------------------------------------------------
(* Onboarding                                                              *)

\* A hire with all that was planned.
Settled(u) == Onb!Equipped(u) /\ u.manager = "boss"

\* What a call r knows of a hire u that nobody else has changed since it began, whatever
\* requests failed: what it read back, and its verdict.
OnbKnows(r, u) ==
    /\ r.pc \in {"backGroups", "backManager"} =>
        u.there /\ r.known.profile = u.profile /\ r.known.skus = u.skus
    /\ r.pc = "backManager" => r.known.groups = u.groups
    /\ r.result = "verified" =>
        Onb!Equipped(u) /\ (IF r.boss THEN u.manager = "boss" ELSE u.manager # "none")

\* What it knows if no request has failed either: what it has achieved so far.
Present == {"repair", "groups", "manager", "lookup", "assign", "licence", "join", "backGroups", "backManager"}

OnbPlain(r, u) ==
    /\ r.result # "failed"
    /\ r.pc \in {"exists", "create"} => r.known = Onb!Absent
    /\ r.pc = "create" => ~u.there
    /\ r.pc \in Present => u.there /\ r.known.skus \subseteq u.skus /\ r.known.groups \subseteq u.groups
    /\ r.pc \in Present \ {"repair"} => u.profile
    /\ r.pc = "lookup" => (r.known.manager = "boss" => u.manager = "boss")
    /\ r.pc \in {"assign", "licence", "join", "backGroups", "backManager"} => r.boss
    /\ r.pc \in {"licence", "join", "backGroups", "backManager"} =>
        u.manager = "boss" /\ Groups \subseteq u.groups \cup r.todo
    /\ r.pc \in {"join", "backGroups", "backManager"} => Sku \in u.skus
    /\ r.pc \in {"backGroups", "backManager"} => Groups \subseteq u.groups

\* And that it has left alone a hire that was as planned.
OnbQuiet(r, u) ==
    Settled(r.began) =>
        /\ ~r.wrote
        /\ u = r.began
        /\ r.pc \in {"exists", "groups", "manager", "lookup", "join", "backGroups", "backManager"}
        /\ r.pc \in {"groups", "manager", "lookup"} => Sku \in r.known.skus
        /\ r.pc \in {"manager", "lookup"} => Groups \subseteq r.known.groups
        /\ r.pc = "lookup" => r.known.manager = "boss"
        /\ r.pc = "join" => r.todo = {}

\* A call r is in order for a hire u, after m failed requests.
OnbFine(r, u, m) ==
    /\ r \in Onb!Calls
    /\ r.result # "none" <=> r.pc = "done"
    /\ r.tries < Tries
    /\ r.undisturbed => OnbKnows(r, u)
    /\ r.undisturbed /\ m = 0 => OnbPlain(r, u) /\ OnbQuiet(r, u)

\* The inductive invariant of the service.
OnbInv ==
    /\ person \in Onb!People
    /\ mishaps \in Nat
    /\ hire \in [Hirers -> Onb!Calls]
    /\ \A c \in Hirers : OnbFine(hire[c], person, mishaps)

\* The types of the fields of a call.
LEMMA HireFields ==
  ASSUME NEW r \in Onb!Calls
  PROVE  /\ r.pc \in Onb!Phases /\ r.known \in Onb!People /\ r.boss \in BOOLEAN
         /\ r.todo \in SUBSET Groups /\ r.tries \in 0..Tries /\ r.result \in Onb!Results
         /\ r.began \in Onb!People /\ r.wrote \in BOOLEAN /\ r.undisturbed \in BOOLEAN
  BY DEF Onb!Calls

\* The types of the parts of a hire.
LEMMA PersonFields ==
  ASSUME NEW u \in Onb!People
  PROVE  /\ u.there \in BOOLEAN /\ u.profile \in BOOLEAN /\ u.manager \in Onb!Managers
         /\ u.groups \in SUBSET Groups /\ u.skus \in SUBSET Skus
  BY DEF Onb!People

\* Nobody, a hire as it is created, and a call that has just begun.
LEMMA AbsentType ==
  /\ Onb!Absent \in Onb!People /\ ~Settled(Onb!Absent)
  /\ Onb!Absent.skus = {} /\ Onb!Absent.groups = {} /\ Onb!Absent.manager = "none"
  /\ Onb!Created \in Onb!People
  /\ Onb!Created.there /\ Onb!Created.profile
  <1>1. /\ Onb!Absent \in Onb!People /\ ~Onb!Absent.there
        /\ Onb!Absent.skus = {} /\ Onb!Absent.groups = {} /\ Onb!Absent.manager = "none"
    BY DEF Onb!Absent, Onb!People, Onb!Managers
  <1>2. /\ Onb!Created \in Onb!People /\ Onb!Created.there /\ Onb!Created.profile
    BY DEF Onb!Created, Onb!Absent, Onb!People, Onb!Managers
  <1> QED BY <1>1, <1>2 DEF Settled, Onb!Equipped

\* The fields of a call that has just begun.
LEMMA FreshHire ==
  /\ Onb!Fresh \in Onb!Calls /\ Onb!Fresh.pc = "exists" /\ Onb!Fresh.result = "none"
  /\ Onb!Fresh.tries = 0 /\ Onb!Fresh.began = Onb!Absent /\ Onb!Fresh.undisturbed = TRUE
  /\ Onb!Fresh.wrote = FALSE /\ Onb!Fresh.known = Onb!Absent
  BY AbsentType, LifecycleOK DEF Onb!Fresh, Onb!Calls, Onb!Phases, Onb!Results

\* A call that notices a change, or that there was none, stays in order.
LEMMA HireNotice ==
  ASSUME NEW r, OnbFine(r, person, mishaps), mishaps \in Nat, mishaps' \in Nat, mishaps' >= mishaps
  PROVE  OnbFine(Onb!Notice(r), person', mishaps')
  <1> DEFINE n == Onb!Notice(r)
  <1>1. r \in Onb!Calls /\ r.undisturbed \in BOOLEAN
    BY HireFields DEF OnbFine
  <1>2. /\ n \in Onb!Calls /\ n.pc = r.pc /\ n.known = r.known /\ n.boss = r.boss /\ n.todo = r.todo
        /\ n.tries = r.tries /\ n.result = r.result /\ n.began = r.began /\ n.wrote = r.wrote
        /\ n.undisturbed = (r.undisturbed /\ person' = person)
    BY <1>1 DEF Onb!Notice, Onb!Calls
  <1> HIDE DEF n
  <1>3. /\ n.result # "none" <=> n.pc = "done"
        /\ n.tries < Tries
    BY <1>2 DEF OnbFine
  <1>4. ASSUME n.undisturbed PROVE r.undisturbed /\ person' = person
    BY <1>2, <1>4
  <1>5. ASSUME n.undisturbed PROVE OnbKnows(n, person')
    <2>1. OnbKnows(r, person)
      BY <1>4, <1>5 DEF OnbFine
    <2> QED BY <1>2, <1>4, <1>5, <2>1 DEF OnbKnows
  <1>6. ASSUME n.undisturbed, mishaps' = 0 PROVE OnbPlain(n, person') /\ OnbQuiet(n, person')
    <2>1. mishaps = 0
      BY <1>6
    <2>2. OnbPlain(r, person) /\ OnbQuiet(r, person)
      BY <1>4, <1>6, <2>1 DEF OnbFine
    <2> QED BY <1>2, <1>4, <1>6, <2>2 DEF OnbPlain, OnbQuiet
  <1> QED BY <1>2, <1>3, <1>5, <1>6 DEF OnbFine, n

\* A step that leaves the acting call in order leaves all of them in order.
LEMMA HireBecomes ==
  ASSUME OnbInv, NEW c \in Hirers, NEW r, Onb!Becomes(c, r), OnbFine(r, person', mishaps'),
         person' \in Onb!People, mishaps' \in Nat, mishaps' >= mishaps
  PROVE  OnbInv'
  <1>1. \A d \in Hirers : OnbFine(Onb!Notice(hire[d]), person', mishaps')
    BY HireNotice DEF OnbInv
  <1>2. hire' = [d \in Hirers |-> IF d = c THEN r ELSE Onb!Notice(hire[d])]
    BY DEF Onb!Becomes
  <1>3. \A d \in Hirers : OnbFine(hire'[d], person', mishaps')
    BY <1>1, <1>2
  <1>4. hire' \in [Hirers -> Onb!Calls]
    BY <1>2, <1>3 DEF OnbFine
  <1> QED BY <1>3, <1>4 DEF OnbInv

\* A read leaves the hire as it is, and a write leaves it a hire; while no request fails,
\* a read is answered, and a write fails only if it is not valid.
LEMMA HireRead ==
  ASSUME OnbInv, NEW ok \in BOOLEAN, Onb!Read(ok)
  PROVE  /\ person' = person /\ person' \in Onb!People
         /\ mishaps' \in Nat /\ mishaps' >= mishaps /\ (mishaps' = 0 => ok)
  BY DEF OnbInv, Onb!Read, Onb!Mishap

\* A write that is said to work has made the hire what it should become.
LEMMA HireWrite ==
  ASSUME OnbInv, NEW ok \in BOOLEAN, NEW valid \in BOOLEAN, NEW new \in Onb!People,
         Onb!Write(valid, new, ok)
  PROVE  /\ person' \in Onb!People
         /\ mishaps' \in Nat /\ mishaps' >= mishaps
         /\ ok => person' = new /\ valid
         /\ mishaps' = 0 /\ ~ok => ~valid /\ person' = person
  BY DEF OnbInv, Onb!Write, Onb!Mishap

\* A call that returns anything but "verified", or "failed" without reason, is in order.
LEMMA HireEnd ==
  ASSUME NEW r \in Onb!Calls, NEW result \in Onb!Results \ {"none"}, NEW u, NEW m,
         result = "verified" /\ r.undisturbed =>
            Onb!Equipped(u) /\ (IF r.boss THEN u.manager = "boss" ELSE u.manager # "none"),
         result = "failed" => ~(r.undisturbed /\ m = 0)
  PROVE  OnbFine(Onb!End(r, result), u, m)
  <1> DEFINE e == Onb!End(r, result)
  <1>1. r.boss \in BOOLEAN /\ r.undisturbed \in BOOLEAN
    BY HireFields
  <1>2. ASSUME NEW x, x = [Onb!Fresh EXCEPT !.pc = "done", !.result = result, !.boss = r.boss,
                                            !.undisturbed = r.undisturbed]
        PROVE  x = [pc |-> "done", known |-> Onb!Absent, boss |-> r.boss, todo |-> {}, tries |-> 0,
                    result |-> result, began |-> Onb!Absent, wrote |-> FALSE,
                    undisturbed |-> r.undisturbed]
    BY <1>2, Zenon DEF Onb!Fresh
  <1>3. e = [pc |-> "done", known |-> Onb!Absent, boss |-> r.boss, todo |-> {}, tries |-> 0,
             result |-> result, began |-> Onb!Absent, wrote |-> FALSE,
             undisturbed |-> r.undisturbed]
    BY <1>2 DEF Onb!End
  <1> HIDE DEF e
  <1>4. /\ e.pc = "done" /\ e.boss = r.boss /\ e.result = result /\ e.tries = 0
        /\ e.began = Onb!Absent /\ e.undisturbed = r.undisturbed
    BY <1>3
  <1>5. e \in Onb!Calls
    BY <1>1, <1>3, AbsentType, LifecycleOK DEF Onb!Calls, Onb!Phases
  <1>6. e.undisturbed => OnbKnows(e, u)
    <2>1. ASSUME r.undisturbed, result = "verified"
          PROVE  Onb!Equipped(u) /\ (IF e.boss THEN u.manager = "boss" ELSE u.manager # "none")
      BY <1>4, <2>1
    <2> QED BY <1>4, <2>1 DEF OnbKnows
  <1>7. ~Settled(e.began)
    BY <1>4, AbsentType
  <1>8. e.undisturbed /\ m = 0 => OnbPlain(e, u) /\ OnbQuiet(e, u)
    BY <1>4, <1>7 DEF OnbPlain, OnbQuiet, Present
  <1>9. 0 < Tries
    BY LifecycleOK
  <1> QED BY <1>4, <1>5, <1>6, <1>8, <1>9 DEF OnbFine, e

\* A call of onboarding begins; one lemma per request of it follows.
LEMMA HireBeginKeeps ==
  ASSUME OnbInv, NEW c \in Hirers, NEW mode \in Onb!Modes, NEW named \in BOOLEAN,
         Onb!Begin(c, mode, named)
  PROVE  OnbInv'
  <1>1. person' = person /\ mishaps' = mishaps /\ person \in Onb!People /\ mishaps \in Nat
    BY DEF Onb!Begin, OnbInv
  <1>2. \A result \in {"refused", "incomplete", "unapproved"} :
           OnbFine(Onb!End(Onb!Fresh, result), person', mishaps')
    BY FreshHire, HireEnd DEF Onb!Results
  <1> DEFINE b == [Onb!Fresh EXCEPT !.began = person]
  <1>3. /\ b \in Onb!Calls /\ b.pc = "exists" /\ b.result = "none" /\ b.tries = 0
        /\ b.began = person /\ b.wrote = FALSE /\ b.known = Onb!Absent
    BY <1>1, FreshHire DEF Onb!Calls
  <1>4. Onb!Becomes(c, IF ~named THEN Onb!End(Onb!Fresh, "refused")
                       ELSE CASE mode = "incomplete" -> Onb!End(Onb!Fresh, "incomplete")
                              [] mode = "unapproved" -> Onb!End(Onb!Fresh, "unapproved")
                              [] OTHER               -> b)
    BY DEF Onb!Begin
  <1> HIDE DEF b
  <1>5. OnbFine(b, person', mishaps')
    BY <1>1, <1>3, LifecycleOK DEF OnbFine, OnbKnows, OnbPlain, OnbQuiet, Present
  <1>6. PICK r : Onb!Becomes(c, r) /\ OnbFine(r, person', mishaps')
    BY <1>2, <1>4, <1>5, Zenon
  <1> QED BY <1>1, <1>6, HireBecomes

\* The call that acts, as the invariant has it.
LEMMA Acting ==
  ASSUME OnbInv, NEW c \in Hirers
  PROVE  /\ hire[c] \in Onb!Calls /\ hire[c].known \in Onb!People /\ hire[c].tries < Tries
         /\ hire[c].undisturbed \in BOOLEAN /\ hire[c].tries \in 0..Tries
         /\ hire[c].result # "none" <=> hire[c].pc = "done"
         /\ person \in Onb!People /\ mishaps \in Nat
         /\ hire[c].undisturbed => OnbKnows(hire[c], person)
         /\ hire[c].undisturbed /\ mishaps = 0 => OnbPlain(hire[c], person) /\ OnbQuiet(hire[c], person)
  BY HireFields DEF OnbInv, OnbFine

LEMMA CheckExistsKeeps ==
  ASSUME OnbInv, NEW c \in Hirers, Onb!CheckExists(c)
  PROVE  OnbInv'
  <1> DEFINE r == hire[c]
             known == [person EXCEPT !.groups = {}, !.manager = "none"]
             found == [r EXCEPT !.pc = IF known.profile THEN "groups" ELSE "repair", !.known = known]
             absent == [r EXCEPT !.pc = "create"]
  <1>1. PICK ok \in BOOLEAN :
           Onb!Read(ok) /\ Onb!Becomes(c, IF ok /\ person.there THEN found ELSE absent)
    BY DEF Onb!CheckExists
  <1>2. r.pc = "exists"
    BY DEF Onb!CheckExists
  <1>3. /\ person' = person /\ person' \in Onb!People
        /\ mishaps' \in Nat /\ mishaps' >= mishaps /\ (mishaps' = 0 => ok)
    BY <1>1, HireRead
  <1>4. /\ known \in Onb!People /\ known.profile = person.profile /\ known.skus = person.skus
        /\ known.groups = {}
    BY <1>3 DEF Onb!People, Onb!Managers
  <1> HIDE DEF known
  <1>5. /\ found \in Onb!Calls /\ found.pc = (IF person.profile THEN "groups" ELSE "repair")
        /\ found.known = known /\ found.result = r.result /\ found.tries = r.tries
        /\ found.began = r.began /\ found.wrote = r.wrote /\ found.undisturbed = r.undisturbed
    BY <1>4, Acting DEF Onb!Calls, Onb!Phases
  <1>6. /\ absent \in Onb!Calls /\ absent.pc = "create" /\ absent.result = r.result
        /\ absent.tries = r.tries /\ absent.known = r.known
        /\ absent.began = r.began /\ absent.wrote = r.wrote /\ absent.undisturbed = r.undisturbed
    BY Acting DEF Onb!Calls, Onb!Phases
  <1>7. mishaps' = 0 => mishaps = 0
    BY <1>3, Acting
  <1>8. OnbInv'
    <2>1. CASE ok /\ person.there
      <3>1. OnbFine(found, person', mishaps')
        <4>1. found.result = "none" /\ found.tries < Tries /\ found.pc \in {"groups", "repair"}
          BY <1>2, <1>5, Acting
        <4>2. OnbKnows(found, person')
          BY <4>1 DEF OnbKnows
        <4>3. OnbPlain(found, person')
          BY <1>3, <1>4, <1>5, <2>1, <4>1, PersonFields DEF OnbPlain, Present
        <4>4. ASSUME r.undisturbed, mishaps' = 0 PROVE OnbQuiet(found, person')
          <5>1. OnbQuiet(r, person)
            BY <1>7, <4>4, Acting
          <5> QED BY <1>2, <1>3, <1>4, <1>5, <5>1 DEF OnbQuiet, Settled, Onb!Equipped
        <4> QED BY <1>5, <4>1, <4>2, <4>3, <4>4 DEF OnbFine
      <3> HIDE DEF found
      <3> QED BY <1>1, <1>3, <2>1, <3>1, HireBecomes
    <2>2. CASE ~(ok /\ person.there)
      <3>1. OnbFine(absent, person', mishaps')
        <4>1. absent.result = "none" /\ absent.tries < Tries
          BY <1>2, <1>6, Acting
        <4>2. OnbKnows(absent, person')
          BY <1>6, <4>1 DEF OnbKnows
        <4>3. mishaps' = 0 => ~person.there
          BY <1>3, <2>2
        <4>4. ASSUME r.undisturbed, mishaps' = 0 PROVE OnbPlain(absent, person')
          <5>1. OnbPlain(r, person)
            BY <1>7, <4>4, Acting
          <5> QED BY <1>2, <1>3, <1>6, <4>1, <4>3, <4>4, <5>1 DEF OnbPlain, Present
        <4>5. ASSUME r.undisturbed, mishaps' = 0 PROVE OnbQuiet(absent, person')
          <5>1. OnbQuiet(r, person)
            BY <1>7, <4>5, Acting
          <5> QED BY <1>2, <1>3, <1>6, <4>3, <4>5, <5>1 DEF OnbQuiet, Settled, Onb!Equipped
        <4> QED BY <1>6, <4>1, <4>2, <4>4, <4>5 DEF OnbFine
      <3> HIDE DEF absent
      <3> QED BY <1>1, <1>3, <2>2, <3>1, HireBecomes
    <2> QED BY <2>1, <2>2
  <1> QED BY <1>8

\* A call that has sent a mutation is otherwise what it was.
LEMMA SentHire ==
  ASSUME NEW r \in Onb!Calls
  PROVE  LET s == Onb!Sent(r) IN
         /\ s \in Onb!Calls /\ s.pc = r.pc /\ s.known = r.known /\ s.boss = r.boss /\ s.todo = r.todo
         /\ s.tries = r.tries /\ s.result = r.result /\ s.began = r.began /\ s.wrote = TRUE
         /\ s.undisturbed = r.undisturbed
  BY DEF Onb!Sent, Onb!Calls

LEMMA CreateUserKeeps ==
  ASSUME OnbInv, NEW c \in Hirers, Onb!CreateUser(c)
  PROVE  OnbInv'
  <1> DEFINE r == hire[c]
             s == Onb!Sent(r)
             made == [s EXCEPT !.pc = "lookup"]
  <1>1. PICK ok \in BOOLEAN :
           /\ Onb!Write(~person.there, Onb!Created, ok)
           /\ Onb!Becomes(c, IF ok THEN made ELSE Onb!End(s, "failed"))
    BY DEF Onb!CreateUser
  <1>2. r.pc = "create"
    BY DEF Onb!CreateUser
  <1>3. /\ person' \in Onb!People /\ mishaps' \in Nat /\ mishaps' >= mishaps
        /\ ok => person' = Onb!Created
        /\ mishaps' = 0 /\ ~ok => person.there
    BY <1>1, HireWrite, AbsentType, Acting, PersonFields
  <1>4. /\ s \in Onb!Calls /\ s.undisturbed = r.undisturbed /\ s.known = r.known /\ s.tries = r.tries
        /\ s.began = r.began /\ s.result = r.result
    BY Acting, SentHire
  <1> HIDE DEF s
  <1>5. mishaps' = 0 => mishaps = 0
    BY <1>3, Acting
  <1>6. ASSUME r.undisturbed, mishaps' = 0
        PROVE  ~person.there /\ ~Settled(r.began) /\ r.known = Onb!Absent
    <2>1. OnbPlain(r, person) /\ OnbQuiet(r, person)
      BY <1>5, <1>6, Acting
    <2>2. person.there => FALSE
      BY <1>2, <2>1 DEF OnbPlain
    <2> QED BY <1>2, <2>1, <2>2 DEF OnbPlain, OnbQuiet
  <1>7. CASE ok
    <2>1. /\ made \in Onb!Calls /\ made.pc = "lookup" /\ made.known = r.known /\ made.tries = r.tries
          /\ made.began = r.began /\ made.result = r.result /\ made.undisturbed = r.undisturbed
      BY <1>4 DEF Onb!Calls, Onb!Phases
    <2> HIDE DEF made
    <2>2. made.result = "none" /\ made.tries < Tries
      BY <1>2, <2>1, Acting
    <2>3. OnbKnows(made, person')
      BY <2>1, <2>2 DEF OnbKnows
    <2>4. ASSUME r.undisturbed, mishaps' = 0 PROVE OnbPlain(made, person') /\ OnbQuiet(made, person')
      <3>1. /\ made.known.skus = {} /\ made.known.groups = {} /\ made.known.manager = "none"
            /\ person'.there /\ person'.profile /\ ~Settled(made.began)
        BY <1>3, <1>6, <1>7, <2>1, <2>4, AbsentType
      <3> QED BY <2>1, <2>2, <3>1 DEF OnbPlain, OnbQuiet, Present
    <2>5. OnbFine(made, person', mishaps')
      BY <2>1, <2>2, <2>3, <2>4 DEF OnbFine
    <2> QED BY <1>1, <1>3, <1>7, <2>5, HireBecomes
  <1>8. CASE ~ok
    <2>1. OnbFine(Onb!End(s, "failed"), person', mishaps')
      <3>1. ~(s.undisturbed /\ mishaps' = 0)
        BY <1>3, <1>4, <1>6, <1>8
      <3> QED BY <1>4, <3>1, HireEnd DEF Onb!Results
    <2> QED BY <1>1, <1>3, <1>8, <2>1, HireBecomes
  <1> QED BY <1>7, <1>8

LEMMA RepairProfileKeeps ==
  ASSUME OnbInv, NEW c \in Hirers, Onb!RepairProfile(c)
  PROVE  OnbInv'
  <1> DEFINE r == hire[c]
             s == Onb!Sent(r)
             next == [s EXCEPT !.pc = "groups"]
             new == [person EXCEPT !.profile = TRUE]
  <1>1. PICK ok \in BOOLEAN : Onb!Write(person.there, new, ok) /\ Onb!Becomes(c, next)
    BY DEF Onb!RepairProfile
  <1>2. r.pc = "repair"
    BY DEF Onb!RepairProfile
  <1>3. /\ new \in Onb!People /\ new.profile = TRUE /\ new.there = person.there
        /\ new.skus = person.skus /\ new.groups = person.groups
    BY Acting DEF Onb!People
  <1> HIDE DEF new
  <1>4. /\ person' \in Onb!People /\ mishaps' \in Nat /\ mishaps' >= mishaps
        /\ ok => person' = new
        /\ mishaps' = 0 /\ ~ok => ~person.there
    BY <1>1, <1>3, HireWrite, Acting, PersonFields
  <1>5. mishaps' = 0 => mishaps = 0
    BY <1>4, Acting
  <1>6. /\ next \in Onb!Calls /\ next.undisturbed = r.undisturbed /\ next.known = r.known
        /\ next.tries = r.tries /\ next.began = r.began /\ next.result = r.result /\ next.pc = "groups"
    <2>1. /\ s \in Onb!Calls /\ s.undisturbed = r.undisturbed /\ s.known = r.known
          /\ s.tries = r.tries /\ s.began = r.began /\ s.result = r.result
      BY Acting, SentHire
    <2> HIDE DEF s
    <2> QED BY <2>1 DEF Onb!Calls, Onb!Phases
  <1> HIDE DEF next, s
  <1>7. next.result = "none" /\ next.tries < Tries
    BY <1>2, <1>6, Acting
  <1>8. OnbKnows(next, person')
    BY <1>6, <1>7 DEF OnbKnows
  <1>9. ASSUME r.undisturbed, mishaps' = 0
        PROVE  OnbPlain(next, person') /\ OnbQuiet(next, person')
    <2>1. OnbPlain(r, person) /\ OnbQuiet(r, person)
      BY <1>5, <1>9, Acting
    <2>2. /\ person.there /\ r.known.skus \subseteq person.skus /\ r.known.groups \subseteq person.groups
          /\ ~Settled(r.began)
      BY <1>2, <2>1 DEF OnbPlain, OnbQuiet, Present
    <2>3. person' = new
      BY <1>4, <1>9, <2>2
    <2> QED BY <1>3, <1>6, <1>7, <2>2, <2>3 DEF OnbPlain, OnbQuiet, Present
  <1>10. OnbFine(next, person', mishaps')
    BY <1>6, <1>7, <1>8, <1>9 DEF OnbFine
  <1> QED BY <1>1, <1>4, <1>10, HireBecomes

LEMMA CheckGroupsKeeps ==
  ASSUME OnbInv, NEW c \in Hirers, Onb!CheckGroups(c)
  PROVE  OnbInv'
  <1> DEFINE r == hire[c]
  <1>1. PICK ok \in BOOLEAN :
           /\ Onb!Read(ok)
           /\ Onb!Becomes(c, [r EXCEPT !.pc = "manager", !.known.groups = IF ok THEN person.groups ELSE {}])
    BY DEF Onb!CheckGroups
  <1> DEFINE groups == IF ok THEN person.groups ELSE {}
             known == [r.known EXCEPT !.groups = groups]
             next == [r EXCEPT !.pc = "manager", !.known.groups = groups]
  <1>2. r.pc = "groups"
    BY DEF Onb!CheckGroups
  <1>3. /\ person' = person /\ person' \in Onb!People
        /\ mishaps' \in Nat /\ mishaps' >= mishaps /\ (mishaps' = 0 => ok)
    BY <1>1, HireRead
  <1>4. groups \in SUBSET Groups
    BY <1>3, PersonFields
  <1>5. Onb!Becomes(c, next)
    BY <1>1
  <1>6. mishaps' = 0 => mishaps = 0 /\ groups = person.groups
    BY <1>3, Acting
  <1> HIDE DEF groups
  <1>7. /\ known \in Onb!People /\ known.skus = r.known.skus /\ known.groups = groups
        /\ known.profile = r.known.profile /\ known.there = r.known.there
    BY <1>4, Acting DEF Onb!People
  <1>8. /\ next \in Onb!Calls /\ next.undisturbed = r.undisturbed /\ next.known = known
        /\ next.tries = r.tries /\ next.began = r.began /\ next.result = r.result /\ next.pc = "manager"
        /\ next.wrote = r.wrote
    BY <1>7, Acting DEF Onb!Calls, Onb!Phases
  <1> HIDE DEF next, known
  <1>9. next.result = "none" /\ next.tries < Tries
    BY <1>2, <1>8, Acting
  <1>10. OnbKnows(next, person')
    BY <1>8, <1>9 DEF OnbKnows
  <1>11. ASSUME r.undisturbed, mishaps' = 0
        PROVE  OnbPlain(next, person') /\ OnbQuiet(next, person')
    <2>1. OnbPlain(r, person) /\ OnbQuiet(r, person)
      BY <1>6, <1>11, Acting
    <2>2. OnbPlain(next, person')
      BY <1>2, <1>3, <1>6, <1>7, <1>8, <1>9, <1>11, <2>1 DEF OnbPlain, Present
    <2>3. OnbQuiet(next, person')
      BY <1>2, <1>3, <1>6, <1>7, <1>8, <1>11, <2>1 DEF OnbQuiet, Settled, Onb!Equipped
    <2> QED BY <2>2, <2>3
  <1>12. OnbFine(next, person', mishaps')
    BY <1>8, <1>9, <1>10, <1>11 DEF OnbFine
  <1> QED BY <1>3, <1>5, <1>12, HireBecomes

LEMMA CheckManagerKeeps ==
  ASSUME OnbInv, NEW c \in Hirers, Onb!CheckManager(c)
  PROVE  OnbInv'
  <1> DEFINE r == hire[c]
  <1>1. PICK ok \in BOOLEAN :
           /\ Onb!Read(ok)
           /\ Onb!Becomes(c, [r EXCEPT !.pc = "lookup",
                                       !.known.manager = IF ok THEN person.manager ELSE "none"])
    BY DEF Onb!CheckManager
  <1> DEFINE manager == IF ok THEN person.manager ELSE "none"
             known == [r.known EXCEPT !.manager = manager]
             next == [r EXCEPT !.pc = "lookup", !.known.manager = manager]
  <1>2. r.pc = "manager"
    BY DEF Onb!CheckManager
  <1>3. /\ person' = person /\ person' \in Onb!People
        /\ mishaps' \in Nat /\ mishaps' >= mishaps /\ (mishaps' = 0 => ok)
    BY <1>1, HireRead
  <1>4. manager \in Onb!Managers
    BY <1>3, PersonFields DEF Onb!Managers
  <1>5. Onb!Becomes(c, next)
    BY <1>1
  <1>6. mishaps' = 0 => mishaps = 0 /\ manager = person.manager
    BY <1>3, Acting
  <1> HIDE DEF manager
  <1>7. /\ known \in Onb!People /\ known.skus = r.known.skus /\ known.groups = r.known.groups
        /\ known.manager = manager
    BY <1>4, Acting DEF Onb!People
  <1>8. /\ next \in Onb!Calls /\ next.undisturbed = r.undisturbed /\ next.known = known
        /\ next.tries = r.tries /\ next.began = r.began /\ next.result = r.result /\ next.pc = "lookup"
        /\ next.wrote = r.wrote
    BY <1>7, Acting DEF Onb!Calls, Onb!Phases
  <1> HIDE DEF next, known
  <1>9. next.result = "none" /\ next.tries < Tries
    BY <1>2, <1>8, Acting
  <1>10. OnbKnows(next, person')
    BY <1>8, <1>9 DEF OnbKnows
  <1>11. ASSUME r.undisturbed, mishaps' = 0
        PROVE  OnbPlain(next, person') /\ OnbQuiet(next, person')
    <2>1. OnbPlain(r, person) /\ OnbQuiet(r, person)
      BY <1>6, <1>11, Acting
    <2>2. OnbPlain(next, person')
      BY <1>2, <1>3, <1>6, <1>7, <1>8, <1>9, <1>11, <2>1 DEF OnbPlain, Present
    <2>3. OnbQuiet(next, person')
      BY <1>2, <1>3, <1>6, <1>7, <1>8, <1>11, <2>1 DEF OnbQuiet, Settled, Onb!Equipped
    <2> QED BY <2>2, <2>3
  <1>12. OnbFine(next, person', mishaps')
    BY <1>8, <1>9, <1>10, <1>11 DEF OnbFine
  <1> QED BY <1>3, <1>5, <1>12, HireBecomes

\* On to the licence or the groups.
LEMMA ProvideFields ==
  ASSUME NEW r \in Onb!Calls
  PROVE  LET p == Onb!Provide(r) IN
         /\ p \in Onb!Calls /\ p.known = r.known /\ p.boss = r.boss /\ p.tries = 0
         /\ p.todo = Groups \ r.known.groups
         /\ p.pc = (IF Sku \in r.known.skus THEN "join" ELSE "licence")
         /\ p.result = r.result /\ p.began = r.began /\ p.wrote = r.wrote
         /\ p.undisturbed = r.undisturbed
  <1> DEFINE pc == IF Sku \in r.known.skus THEN "join" ELSE "licence"
             todo == Groups \ r.known.groups
             p == Onb!Provide(r)
  <1>1. p = [r EXCEPT !.pc = pc, !.todo = todo, !.tries = 0]
    BY DEF Onb!Provide
  <1>2. pc \in Onb!Phases /\ todo \in SUBSET Groups /\ 0 \in 0..Tries
    BY LifecycleOK DEF Onb!Phases
  <1> HIDE DEF pc, todo, p
  <1>3. /\ p \in Onb!Calls /\ p.known = r.known /\ p.boss = r.boss /\ p.tries = 0
        /\ p.todo = todo /\ p.pc = pc
        /\ p.result = r.result /\ p.began = r.began /\ p.wrote = r.wrote
        /\ p.undisturbed = r.undisturbed
    BY <1>1, <1>2 DEF Onb!Calls
  <1> QED BY <1>3 DEF pc, todo, p

\* A call that goes on to the licence or the groups is in order, if the profile is and the
\* manager is set as far as is known.
LEMMA ProvideFine ==
  ASSUME NEW r \in Onb!Calls, r.result = "none", NEW u \in Onb!People, NEW m \in Nat,
         r.undisturbed /\ m = 0 =>
            /\ u.there /\ u.profile /\ r.boss /\ u.manager = "boss"
            /\ r.known.skus \subseteq u.skus /\ r.known.groups \subseteq u.groups
            /\ Settled(r.began) =>
                 ~r.wrote /\ u = r.began /\ Sku \in r.known.skus /\ Groups \subseteq r.known.groups
  PROVE  OnbFine(Onb!Provide(r), u, m)
  <1> DEFINE p == Onb!Provide(r)
  <1>1. /\ p \in Onb!Calls /\ p.known = r.known /\ p.boss = r.boss /\ p.tries = 0
        /\ p.todo = Groups \ r.known.groups
        /\ p.pc = (IF Sku \in r.known.skus THEN "join" ELSE "licence")
        /\ p.result = "none" /\ p.began = r.began /\ p.wrote = r.wrote
        /\ p.undisturbed = r.undisturbed
    BY ProvideFields
  <1> HIDE DEF p
  <1>2. OnbKnows(p, u)
    BY <1>1 DEF OnbKnows
  <1>3. ASSUME r.undisturbed, m = 0 PROVE OnbPlain(p, u) /\ OnbQuiet(p, u)
    <2>1. OnbPlain(p, u)
      BY <1>1, <1>3 DEF OnbPlain, Present
    <2>2. OnbQuiet(p, u)
      BY <1>1, <1>3 DEF OnbQuiet
    <2> QED BY <2>1, <2>2
  <1>4. 0 < Tries
    BY LifecycleOK
  <1> QED BY <1>1, <1>2, <1>3, <1>4 DEF OnbFine, p

LEMMA LookUpManagerKeeps ==
  ASSUME OnbInv, NEW c \in Hirers, Onb!LookUpManager(c)
  PROVE  OnbInv'
  <1> DEFINE r == hire[c]
             b == [r EXCEPT !.boss = TRUE]
             next == [r EXCEPT !.boss = TRUE, !.pc = "assign"]
  <1>1. PICK ok \in BOOLEAN :
           /\ Onb!Read(ok)
           /\ Onb!Becomes(c, IF ~ok THEN Onb!Provide(r)
                             ELSE IF r.known.manager = "boss" THEN Onb!Provide(b)
                             ELSE next)
    BY DEF Onb!LookUpManager
  <1>2. r.pc = "lookup" /\ r \in Onb!Calls /\ r.result = "none"
    BY Acting DEF Onb!LookUpManager
  <1>3. /\ person' = person /\ person' \in Onb!People
        /\ mishaps' \in Nat /\ mishaps' >= mishaps /\ (mishaps' = 0 => ok)
    BY <1>1, HireRead
  <1>4. mishaps' = 0 => mishaps = 0
    BY <1>3, Acting
  <1>5. ASSUME r.undisturbed, mishaps' = 0
        PROVE  /\ person.there /\ person.profile
               /\ r.known.skus \subseteq person.skus /\ r.known.groups \subseteq person.groups
               /\ r.known.manager = "boss" => person.manager = "boss"
               /\ Settled(r.began) =>
                    /\ ~r.wrote /\ person = r.began /\ r.known.manager = "boss"
                    /\ Sku \in r.known.skus /\ Groups \subseteq r.known.groups
    <2>1. OnbPlain(r, person) /\ OnbQuiet(r, person)
      BY <1>4, <1>5, Acting
    <2> QED BY <1>2, <2>1 DEF OnbPlain, OnbQuiet, Present
  <1>6. /\ b \in Onb!Calls /\ b.boss = TRUE /\ b.known = r.known /\ b.result = "none"
        /\ b.began = r.began /\ b.wrote = r.wrote /\ b.undisturbed = r.undisturbed
    BY <1>2 DEF Onb!Calls
  <1>7. /\ next \in Onb!Calls /\ next.boss = TRUE /\ next.known = r.known /\ next.result = "none"
        /\ next.began = r.began /\ next.wrote = r.wrote /\ next.undisturbed = r.undisturbed
        /\ next.pc = "assign" /\ next.tries = r.tries
    BY <1>2 DEF Onb!Calls, Onb!Phases
  <1> HIDE DEF b, next
  <1>8. CASE ~ok
    <2>1. mishaps' # 0
      BY <1>3, <1>8
    <2>2. OnbFine(Onb!Provide(r), person', mishaps')
      BY <1>2, <1>3, <2>1, ProvideFine
    <2> QED BY <1>1, <1>3, <1>8, <2>2, HireBecomes
  <1>9. CASE ok /\ r.known.manager = "boss"
    <2>1. OnbFine(Onb!Provide(b), person', mishaps')
      BY <1>3, <1>5, <1>6, <1>9, ProvideFine
    <2> QED BY <1>1, <1>3, <1>9, <2>1, HireBecomes
  <1>10. CASE ok /\ r.known.manager # "boss"
    <2>1. OnbKnows(next, person')
      BY <1>7 DEF OnbKnows
    <2>2. ASSUME r.undisturbed, mishaps' = 0 PROVE OnbPlain(next, person') /\ OnbQuiet(next, person')
      BY <1>3, <1>5, <1>7, <1>10, <2>2 DEF OnbPlain, OnbQuiet, Present
    <2>3. next.tries < Tries
      BY <1>7, Acting
    <2>4. OnbFine(next, person', mishaps')
      BY <1>7, <2>1, <2>2, <2>3 DEF OnbFine
    <2> QED BY <1>1, <1>3, <1>10, <2>4, HireBecomes
  <1> QED BY <1>8, <1>9, <1>10

LEMMA SetManagerKeeps ==
  ASSUME OnbInv, NEW c \in Hirers, Onb!SetManager(c)
  PROVE  OnbInv'
  <1> DEFINE r == hire[c]
             s == Onb!Sent(r)
             new == [person EXCEPT !.manager = "boss"]
  <1>1. PICK ok \in BOOLEAN : Onb!Write(person.there, new, ok) /\ Onb!Becomes(c, Onb!Provide(s))
    BY DEF Onb!SetManager
  <1>2. r.pc = "assign" /\ r.result = "none"
    BY Acting DEF Onb!SetManager
  <1>3. /\ new \in Onb!People /\ new.manager = "boss" /\ new.there = person.there
        /\ new.profile = person.profile /\ new.skus = person.skus /\ new.groups = person.groups
    BY Acting DEF Onb!People, Onb!Managers
  <1> HIDE DEF new
  <1>4. /\ person' \in Onb!People /\ mishaps' \in Nat /\ mishaps' >= mishaps
        /\ ok => person' = new
        /\ mishaps' = 0 /\ ~ok => ~person.there
    BY <1>1, <1>3, HireWrite, Acting, PersonFields
  <1>5. mishaps' = 0 => mishaps = 0
    BY <1>4, Acting
  <1>6. /\ s \in Onb!Calls /\ s.undisturbed = r.undisturbed /\ s.known = r.known /\ s.boss = r.boss
        /\ s.began = r.began /\ s.result = "none"
    BY <1>2, Acting, SentHire
  <1> HIDE DEF s
  <1>7. ASSUME s.undisturbed, mishaps' = 0
        PROVE  /\ person'.there /\ person'.profile /\ s.boss /\ person'.manager = "boss"
               /\ s.known.skus \subseteq person'.skus /\ s.known.groups \subseteq person'.groups
               /\ ~Settled(s.began)
    <2>1. OnbPlain(r, person) /\ OnbQuiet(r, person)
      BY <1>5, <1>6, <1>7, Acting
    <2>2. /\ person.there /\ person.profile /\ r.boss
          /\ r.known.skus \subseteq person.skus /\ r.known.groups \subseteq person.groups
          /\ ~Settled(r.began)
      BY <1>2, <2>1 DEF OnbPlain, OnbQuiet, Present
    <2>3. person' = new
      BY <1>4, <1>7, <2>2
    <2> QED BY <1>3, <1>6, <2>2, <2>3
  <1>8. OnbFine(Onb!Provide(s), person', mishaps')
    BY <1>4, <1>6, <1>7, ProvideFine
  <1> QED BY <1>1, <1>4, <1>8, HireBecomes

LEMMA AssignLicenceKeeps ==
  ASSUME OnbInv, NEW c \in Hirers, Onb!AssignLicence(c)
  PROVE  OnbInv'
  <1> DEFINE r == hire[c]
             s == Onb!Sent(r)
             new == [person EXCEPT !.skus = @ \cup {Sku}]
             on == [s EXCEPT !.pc = "join", !.tries = 0]
             again == [s EXCEPT !.tries = @ + 1]
  <1>1. PICK ok \in BOOLEAN :
           /\ Onb!Write(person.there, new, ok)
           /\ Onb!Becomes(c, IF ok \/ s.tries + 1 = Tries THEN on ELSE again)
    BY DEF Onb!AssignLicence
  <1>2. r.pc = "licence" /\ r.result = "none" /\ r.tries < Tries /\ r.tries \in Nat /\ Tries \in Nat \ {0}
    BY Acting, LifecycleOK DEF Onb!AssignLicence
  <1>3. /\ new \in Onb!People /\ new.manager = person.manager /\ new.there = person.there
        /\ new.profile = person.profile /\ new.skus = person.skus \cup {Sku} /\ new.groups = person.groups
    BY Acting, LifecycleOK, PersonFields DEF Onb!People
  <1> HIDE DEF new
  <1>4. /\ person' \in Onb!People /\ mishaps' \in Nat /\ mishaps' >= mishaps
        /\ ok => person' = new
        /\ mishaps' = 0 /\ ~ok => ~person.there
    BY <1>1, <1>3, HireWrite, Acting, PersonFields
  <1>5. mishaps' = 0 => mishaps = 0
    BY <1>4, Acting
  <1>6. /\ s \in Onb!Calls /\ s.undisturbed = r.undisturbed /\ s.known = r.known /\ s.boss = r.boss
        /\ s.began = r.began /\ s.result = "none" /\ s.todo = r.todo /\ s.tries = r.tries
        /\ s.pc = "licence"
    BY <1>2, Acting, SentHire
  <1> HIDE DEF s
  <1>7. /\ on \in Onb!Calls /\ on.undisturbed = r.undisturbed /\ on.known = r.known /\ on.boss = r.boss
        /\ on.began = r.began /\ on.result = "none" /\ on.todo = r.todo /\ on.tries = 0 /\ on.pc = "join"
    <2>1. 0 \in 0..Tries /\ "join" \in Onb!Phases
      BY <1>2 DEF Onb!Phases
    <2> QED BY <1>6, <2>1 DEF Onb!Calls
  <1>8. ASSUME r.undisturbed, mishaps' = 0
        PROVE  /\ ok /\ person' = new /\ ~Settled(r.began) /\ r.boss
               /\ person.there /\ person.profile /\ person.manager = "boss"
               /\ r.known.skus \subseteq person.skus /\ r.known.groups \subseteq person.groups
               /\ Groups \subseteq person.groups \cup r.todo
    <2>1. OnbPlain(r, person) /\ OnbQuiet(r, person)
      BY <1>5, <1>8, Acting
    <2>2. /\ person.there /\ person.profile /\ r.boss /\ person.manager = "boss"
          /\ r.known.skus \subseteq person.skus /\ r.known.groups \subseteq person.groups
          /\ Groups \subseteq person.groups \cup r.todo
          /\ ~Settled(r.began)
      BY <1>2, <2>1 DEF OnbPlain, OnbQuiet, Present
    <2>3. ok /\ person' = new
      BY <1>4, <1>8, <2>2
    <2> QED BY <2>2, <2>3
  <1>9. CASE ok \/ s.tries + 1 = Tries
    <2> HIDE DEF on
    <2>1. OnbKnows(on, person')
      BY <1>7 DEF OnbKnows
    <2>2. ASSUME r.undisturbed, mishaps' = 0 PROVE OnbPlain(on, person') /\ OnbQuiet(on, person')
      BY <1>3, <1>7, <1>8, <2>2 DEF OnbPlain, OnbQuiet, Present
    <2>3. OnbFine(on, person', mishaps')
      BY <1>2, <1>7, <2>1, <2>2 DEF OnbFine
    <2> QED BY <1>1, <1>4, <1>9, <2>3, HireBecomes
  <1>10. CASE ~(ok \/ s.tries + 1 = Tries)
    <2>1. /\ again \in Onb!Calls /\ again.undisturbed = r.undisturbed /\ again.pc = "licence"
          /\ again.result = "none" /\ again.tries = r.tries + 1 /\ r.tries + 1 < Tries
      BY <1>2, <1>6, <1>10 DEF Onb!Calls
    <2> HIDE DEF again
    <2>2. OnbKnows(again, person')
      BY <2>1 DEF OnbKnows
    <2>3. OnbFine(again, person', mishaps')
      BY <1>8, <1>10, <2>1, <2>2 DEF OnbFine
    <2> QED BY <1>1, <1>4, <1>10, <2>3, HireBecomes
  <1> QED BY <1>9, <1>10

LEMMA JoinKeeps ==
  ASSUME OnbInv, NEW c \in Hirers, Onb!Join(c)
  PROVE  OnbInv'
  <1> DEFINE r == hire[c]
             s == Onb!Sent(r)
             g == CHOOSE x \in r.todo : TRUE
             new == [person EXCEPT !.groups = @ \cup {g}]
             on == [s EXCEPT !.todo = @ \ {g}, !.tries = 0]
             again == [s EXCEPT !.tries = @ + 1]
  <1>1. PICK ok \in BOOLEAN :
           /\ Onb!Write(person.there /\ g \notin person.groups, new, ok)
           /\ Onb!Becomes(c, IF ok \/ s.tries + 1 = Tries THEN on ELSE again)
    BY DEF Onb!Join
  <1>2. /\ r.pc = "join" /\ r.todo # {} /\ r.result = "none" /\ r.tries < Tries /\ r.tries \in Nat
        /\ Tries \in Nat \ {0} /\ r.todo \in SUBSET Groups
    BY Acting, HireFields, LifecycleOK DEF Onb!Join
  <1>3. g \in r.todo /\ g \in Groups
    BY <1>2
  <1> HIDE DEF g
  <1>4. /\ new \in Onb!People /\ new.manager = person.manager /\ new.there = person.there
        /\ new.profile = person.profile /\ new.skus = person.skus
        /\ new.groups = person.groups \cup {g}
    BY <1>3, Acting, PersonFields DEF Onb!People
  <1> HIDE DEF new
  <1>5. /\ person' \in Onb!People /\ mishaps' \in Nat /\ mishaps' >= mishaps
        /\ ok => person' = new
        /\ mishaps' = 0 /\ ~ok => ~(person.there /\ g \notin person.groups) /\ person' = person
    BY <1>1, <1>4, HireWrite, Acting, PersonFields
  <1>6. mishaps' = 0 => mishaps = 0
    BY <1>5, Acting
  <1>7. /\ s \in Onb!Calls /\ s.undisturbed = r.undisturbed /\ s.known = r.known /\ s.boss = r.boss
        /\ s.began = r.began /\ s.result = "none" /\ s.todo = r.todo /\ s.tries = r.tries
        /\ s.pc = "join"
    BY <1>2, Acting, SentHire
  <1> HIDE DEF s
  <1>8. /\ on \in Onb!Calls /\ on.undisturbed = r.undisturbed /\ on.known = r.known /\ on.boss = r.boss
        /\ on.began = r.began /\ on.result = "none" /\ on.todo = r.todo \ {g} /\ on.tries = 0
        /\ on.pc = "join"
    <2>1. 0 \in 0..Tries /\ s.todo \ {g} \in SUBSET Groups
      BY <1>2, <1>7
    <2> QED BY <1>7, <2>1 DEF Onb!Calls
  <1>9. ASSUME r.undisturbed, mishaps' = 0
        PROVE  /\ ~Settled(r.began) /\ r.boss
               /\ person'.there /\ person'.profile /\ person'.manager = "boss"
               /\ r.known.skus \subseteq person'.skus /\ r.known.groups \subseteq person'.groups
               /\ Sku \in person'.skus
               /\ Groups \subseteq person'.groups \cup (r.todo \ {g})
    <2>1. OnbPlain(r, person) /\ OnbQuiet(r, person)
      BY <1>6, <1>9, Acting
    <2>2. /\ person.there /\ person.profile /\ r.boss /\ person.manager = "boss"
          /\ r.known.skus \subseteq person.skus /\ r.known.groups \subseteq person.groups
          /\ Sku \in person.skus /\ Groups \subseteq person.groups \cup r.todo
          /\ ~Settled(r.began)
      BY <1>2, <2>1 DEF OnbPlain, OnbQuiet, Present
    <2>3. CASE ok
      BY <1>4, <1>5, <2>2, <2>3
    <2>4. CASE ~ok
      <3>1. person' = person /\ g \in person.groups
        BY <1>5, <1>9, <2>2, <2>4
      <3> QED BY <2>2, <3>1
    <2> QED BY <2>3, <2>4
  <1>10. CASE ok \/ s.tries + 1 = Tries
    <2> HIDE DEF on
    <2>1. OnbKnows(on, person')
      BY <1>8 DEF OnbKnows
    <2>2. ASSUME r.undisturbed, mishaps' = 0 PROVE OnbPlain(on, person') /\ OnbQuiet(on, person')
      BY <1>8, <1>9, <2>2 DEF OnbPlain, OnbQuiet, Present
    <2>3. OnbFine(on, person', mishaps')
      BY <1>2, <1>8, <2>1, <2>2 DEF OnbFine
    <2> QED BY <1>1, <1>5, <1>10, <2>3, HireBecomes
  <1>11. CASE ~(ok \/ s.tries + 1 = Tries)
    <2>1. /\ again \in Onb!Calls /\ again.undisturbed = r.undisturbed /\ again.pc = "join"
          /\ again.result = "none" /\ again.tries = r.tries + 1 /\ r.tries + 1 < Tries
          /\ again.todo = r.todo /\ again.known = r.known /\ again.boss = r.boss
          /\ again.began = r.began
      BY <1>2, <1>7, <1>11 DEF Onb!Calls
    <2> HIDE DEF again
    <2>2. OnbKnows(again, person')
      BY <2>1 DEF OnbKnows
    <2>3. ASSUME r.undisturbed, mishaps' = 0 PROVE OnbPlain(again, person') /\ OnbQuiet(again, person')
      BY <1>9, <2>1, <2>3 DEF OnbPlain, OnbQuiet, Present
    <2>4. OnbFine(again, person', mishaps')
      BY <2>1, <2>2, <2>3 DEF OnbFine
    <2> QED BY <1>1, <1>5, <1>11, <2>4, HireBecomes
  <1> QED BY <1>10, <1>11

LEMMA HireReadBackUserKeeps ==
  ASSUME OnbInv, NEW c \in Hirers, Onb!ReadBackUser(c)
  PROVE  OnbInv'
  <1> DEFINE r == hire[c]
             known == [person EXCEPT !.groups = {}, !.manager = "none"]
             next == [r EXCEPT !.pc = "backGroups", !.known = known]
  <1>1. PICK ok \in BOOLEAN :
           /\ Onb!Read(ok)
           /\ Onb!Becomes(c, IF ok /\ person.there THEN next ELSE Onb!End(r, "failed"))
    BY DEF Onb!ReadBackUser
  <1>2. r.pc = "join" /\ r.todo = {} /\ r.result = "none" /\ r \in Onb!Calls
    BY Acting DEF Onb!ReadBackUser
  <1>3. /\ person' = person /\ person' \in Onb!People
        /\ mishaps' \in Nat /\ mishaps' >= mishaps /\ (mishaps' = 0 => ok)
    BY <1>1, HireRead
  <1>4. mishaps' = 0 => mishaps = 0
    BY <1>3, Acting
  <1>5. /\ known \in Onb!People /\ known.profile = person.profile /\ known.skus = person.skus
        /\ known.groups = {}
    BY <1>3 DEF Onb!People, Onb!Managers
  <1> HIDE DEF known
  <1>6. /\ next \in Onb!Calls /\ next.undisturbed = r.undisturbed /\ next.known = known
        /\ next.tries = r.tries /\ next.began = r.began /\ next.result = "none"
        /\ next.pc = "backGroups" /\ next.wrote = r.wrote /\ next.boss = r.boss /\ next.todo = {}
    BY <1>2, <1>5 DEF Onb!Calls, Onb!Phases
  <1> HIDE DEF next
  <1>7. ASSUME r.undisturbed, mishaps' = 0
        PROVE  /\ ok /\ person.there /\ person.profile /\ r.boss /\ person.manager = "boss"
               /\ Sku \in person.skus /\ Groups \subseteq person.groups
               /\ Settled(r.began) => ~r.wrote /\ person = r.began
    <2>1. OnbPlain(r, person) /\ OnbQuiet(r, person)
      BY <1>4, <1>7, Acting
    <2> QED BY <1>2, <1>3, <1>7, <2>1 DEF OnbPlain, OnbQuiet, Present
  <1>8. CASE ok /\ person.there
    <2>1. OnbKnows(next, person')
      BY <1>3, <1>5, <1>6, <1>8 DEF OnbKnows
    <2>2. ASSUME r.undisturbed, mishaps' = 0 PROVE OnbPlain(next, person') /\ OnbQuiet(next, person')
      <3>1. OnbPlain(next, person')
        BY <1>3, <1>5, <1>6, <1>7, <2>2 DEF OnbPlain, Present
      <3>2. OnbQuiet(next, person')
        BY <1>3, <1>5, <1>6, <1>7, <2>2 DEF OnbQuiet
      <3> QED BY <3>1, <3>2
    <2>3. next.tries < Tries
      BY <1>6, Acting
    <2>4. OnbFine(next, person', mishaps')
      BY <1>6, <2>1, <2>2, <2>3 DEF OnbFine
    <2> QED BY <1>1, <1>3, <1>8, <2>4, HireBecomes
  <1>9. CASE ~(ok /\ person.there)
    <2>1. OnbFine(Onb!End(r, "failed"), person', mishaps')
      BY <1>2, <1>7, <1>9, HireEnd DEF Onb!Results
    <2> QED BY <1>1, <1>3, <1>9, <2>1, HireBecomes
  <1> QED BY <1>8, <1>9

LEMMA HireReadBackGroupsKeeps ==
  ASSUME OnbInv, NEW c \in Hirers, Onb!ReadBackGroups(c)
  PROVE  OnbInv'
  <1> DEFINE r == hire[c]
             known == [r.known EXCEPT !.groups = person.groups]
             next == [r EXCEPT !.pc = "backManager", !.known.groups = person.groups]
  <1>1. PICK ok \in BOOLEAN :
           Onb!Read(ok) /\ Onb!Becomes(c, IF ok THEN next ELSE Onb!End(r, "failed"))
    BY DEF Onb!ReadBackGroups
  <1>2. r.pc = "backGroups" /\ r.result = "none" /\ r \in Onb!Calls
    BY Acting DEF Onb!ReadBackGroups
  <1>3. /\ person' = person /\ person' \in Onb!People /\ person.groups \in SUBSET Groups
        /\ mishaps' \in Nat /\ mishaps' >= mishaps /\ (mishaps' = 0 => ok)
    BY <1>1, HireRead, PersonFields
  <1>4. mishaps' = 0 => mishaps = 0
    BY <1>3, Acting
  <1>5. /\ known \in Onb!People /\ known.profile = r.known.profile /\ known.skus = r.known.skus
        /\ known.groups = person.groups
    BY <1>3, Acting DEF Onb!People
  <1>6. /\ next \in Onb!Calls /\ next.undisturbed = r.undisturbed /\ next.known = known
        /\ next.tries = r.tries /\ next.began = r.began /\ next.result = "none"
        /\ next.pc = "backManager" /\ next.wrote = r.wrote /\ next.boss = r.boss /\ next.todo = r.todo
    BY <1>2, <1>5 DEF Onb!Calls, Onb!Phases
  <1> HIDE DEF next, known
  <1>7. CASE ok
    <2>1. ASSUME r.undisturbed PROVE OnbKnows(next, person')
      <3>1. OnbKnows(r, person)
        BY <2>1, Acting
      <3> QED BY <1>2, <1>3, <1>5, <1>6, <3>1 DEF OnbKnows
    <2>2. ASSUME r.undisturbed, mishaps' = 0 PROVE OnbPlain(next, person') /\ OnbQuiet(next, person')
      <3>1. OnbPlain(r, person) /\ OnbQuiet(r, person)
        BY <1>4, <2>2, Acting
      <3>2. OnbPlain(next, person')
        BY <1>2, <1>3, <1>5, <1>6, <3>1 DEF OnbPlain, Present
      <3>3. OnbQuiet(next, person')
        BY <1>2, <1>3, <1>6, <3>1 DEF OnbQuiet
      <3> QED BY <3>2, <3>3
    <2>3. next.tries < Tries
      BY <1>6, Acting
    <2>4. OnbFine(next, person', mishaps')
      BY <1>6, <2>1, <2>2, <2>3 DEF OnbFine
    <2> QED BY <1>1, <1>3, <1>7, <2>4, HireBecomes
  <1>8. CASE ~ok
    <2>1. OnbFine(Onb!End(r, "failed"), person', mishaps')
      BY <1>2, <1>3, <1>8, HireEnd DEF Onb!Results
    <2> QED BY <1>1, <1>3, <1>8, <2>1, HireBecomes
  <1> QED BY <1>7, <1>8

LEMMA ReadBackManagerKeeps ==
  ASSUME OnbInv, NEW c \in Hirers, Onb!ReadBackManager(c)
  PROVE  OnbInv'
  <1> DEFINE r == hire[c]
  <1>1. PICK ok \in BOOLEAN :
           LET known == [r.known EXCEPT !.manager = IF ok THEN person.manager ELSE "none"] IN
           Onb!Read(ok) /\ Onb!Becomes(c, Onb!End(r, IF Onb!Verified(known, r.boss) THEN "verified" ELSE "failed"))
    BY DEF Onb!ReadBackManager
  <1> DEFINE manager == IF ok THEN person.manager ELSE "none"
             known == [r.known EXCEPT !.manager = manager]
             result == IF Onb!Verified(known, r.boss) THEN "verified" ELSE "failed"
  <1>2. r.pc = "backManager" /\ r \in Onb!Calls
    BY Acting DEF Onb!ReadBackManager
  <1>3. /\ person' = person /\ person' \in Onb!People
        /\ mishaps' \in Nat /\ mishaps' >= mishaps /\ (mishaps' = 0 => ok)
    BY <1>1, HireRead
  <1>4. mishaps' = 0 => mishaps = 0
    BY <1>3, Acting
  <1>5. Onb!Becomes(c, Onb!End(r, result))
    BY <1>1
  <1>6. /\ known.profile = r.known.profile /\ known.skus = r.known.skus
        /\ known.groups = r.known.groups /\ known.manager = manager
    BY Acting DEF Onb!People
  <1> HIDE DEF known
  <1>7. ASSUME r.undisturbed, Onb!Verified(known, r.boss)
        PROVE  Onb!Equipped(person) /\ (IF r.boss THEN person.manager = "boss" ELSE person.manager # "none")
    <2>1. OnbKnows(r, person)
      BY <1>7, Acting
    <2>2. /\ person.there /\ r.known.profile = person.profile /\ r.known.skus = person.skus
          /\ r.known.groups = person.groups
      BY <1>2, <2>1 DEF OnbKnows
    <2>3. ok /\ person.manager # "none"
      BY <1>6, <1>7 DEF Onb!Verified
    <2> QED BY <1>6, <1>7, <2>2, <2>3 DEF Onb!Verified, Onb!Equipped
  <1>8. ASSUME r.undisturbed, mishaps' = 0 PROVE Onb!Verified(known, r.boss)
    <2>1. OnbKnows(r, person) /\ OnbPlain(r, person)
      BY <1>4, <1>8, Acting
    <2>2. /\ person.profile /\ person.manager = "boss" /\ Sku \in person.skus
          /\ Groups \subseteq person.groups
          /\ r.known.profile = person.profile /\ r.known.skus = person.skus
          /\ r.known.groups = person.groups
      BY <1>2, <2>1 DEF OnbKnows, OnbPlain, Present
    <2>3. manager = "boss"
      BY <1>3, <1>8, <2>2
    <2> HIDE DEF manager
    <2> QED BY <1>6, <2>2, <2>3 DEF Onb!Verified
  <1>9. OnbFine(Onb!End(r, result), person', mishaps')
    <2>1. result \in Onb!Results \ {"none"}
      BY DEF Onb!Results
    <2>2. result = "verified" /\ r.undisturbed =>
            Onb!Equipped(person) /\ (IF r.boss THEN person.manager = "boss" ELSE person.manager # "none")
      BY <1>7
    <2>3. result = "failed" => ~(r.undisturbed /\ mishaps' = 0)
      BY <1>8
    <2> HIDE DEF result
    <2> QED BY <1>2, <1>3, <2>1, <2>2, <2>3, HireEnd
  <1> QED BY <1>3, <1>5, <1>9, HireBecomes

\* No call of onboarding has begun.
LEMMA OnbInvInit == Onb!Init /\ mishaps \in Nat => OnbInv
  <1> SUFFICES ASSUME Onb!Init, mishaps \in Nat PROVE OnbInv
    OBVIOUS
  <1> DEFINE idle == [Onb!Fresh EXCEPT !.pc = "idle"]
  <1>1. person \in Onb!People
    BY AbsentType DEF Onb!Init
  <1>2. hire = [c \in Hirers |-> idle]
    BY DEF Onb!Init
  <1>3. /\ idle \in Onb!Calls /\ idle.pc = "idle" /\ idle.result = "none" /\ idle.tries = 0
        /\ idle.began = Onb!Absent
    BY FreshHire DEF Onb!Calls, Onb!Phases
  <1> HIDE DEF idle
  <1>4. OnbFine(idle, person, mishaps)
    BY <1>3, AbsentType, LifecycleOK DEF OnbFine, OnbKnows, OnbPlain, OnbQuiet, Present
  <1> QED BY <1>1, <1>2, <1>3, <1>4 DEF OnbInv

\* The invariant is inductive: by the lemma of each request.
LEMMA OnbInvStep == OnbInv /\ Onb!Next => OnbInv'
  <1> SUFFICES ASSUME OnbInv, Onb!Next PROVE OnbInv'
    OBVIOUS
  <1>1. ASSUME NEW c \in Hirers, NEW mode \in Onb!Modes, NEW named \in BOOLEAN,
               Onb!Begin(c, mode, named)
        PROVE  OnbInv'
    BY <1>1, HireBeginKeeps
  <1>2. ASSUME NEW c \in Hirers, Onb!Step(c) PROVE OnbInv'
    BY <1>2, CheckExistsKeeps, CreateUserKeeps, RepairProfileKeeps, CheckGroupsKeeps,
       CheckManagerKeeps, LookUpManagerKeeps, SetManagerKeeps, AssignLicenceKeeps, JoinKeeps,
       HireReadBackUserKeeps, HireReadBackGroupsKeeps, ReadBackManagerKeeps DEF Onb!Step
  <1> QED BY <1>1, <1>2 DEF Onb!Next

\* Requests of the others fail; the hire and its calls are left alone.
LEMMA OnbInvElsewhere ==
  ASSUME OnbInv, person' = person, hire' = hire, mishaps' \in Nat, mishaps' >= mishaps
  PROVE  OnbInv'
  <1>1. mishaps' = 0 => mishaps = 0
    BY DEF OnbInv
  <1>2. \A c \in Hirers : OnbFine(hire[c], person, mishaps')
    BY <1>1 DEF OnbInv, OnbFine
  <1> QED BY <1>2 DEF OnbInv

\* What the invariant says of the service's promises.
LEMMA OnbInvImplies ==
  OnbInv => Onb!TypeOK /\ Onb!SuccessIsSound /\ Onb!CleanCallSucceeds /\ Onb!RerunIsQuiet
  <1> SUFFICES ASSUME OnbInv
               PROVE  Onb!TypeOK /\ Onb!SuccessIsSound /\ Onb!CleanCallSucceeds /\ Onb!RerunIsQuiet
    OBVIOUS
  <1>1. Onb!TypeOK
    BY DEF OnbInv, OnbFine, Onb!TypeOK
  <1>2. Onb!SuccessIsSound
    BY DEF OnbInv, OnbFine, OnbKnows, Onb!SuccessIsSound
  <1>3. Onb!CleanCallSucceeds
    BY DEF OnbInv, OnbFine, OnbPlain, Onb!CleanCallSucceeds
  <1>4. Onb!RerunIsQuiet
    BY DEF OnbInv, OnbFine, OnbQuiet, Settled, Onb!RerunIsQuiet
  <1> QED BY <1>1, <1>2, <1>3, <1>4

\* A request of onboarding fails at most once.
LEMMA HireCounts ==
  ASSUME Onb!Next
  PROVE  mishaps' \in {mishaps, mishaps + 1}
  BY DEF Onb!Next, Onb!Begin, Onb!Step, Onb!CheckExists, Onb!CreateUser, Onb!RepairProfile,
     Onb!CheckGroups, Onb!CheckManager, Onb!LookUpManager, Onb!SetManager, Onb!AssignLicence,
     Onb!Join, Onb!ReadBackUser, Onb!ReadBackGroups, Onb!ReadBackManager,
     Onb!Read, Onb!Write, Onb!Mishap

-------------------------------------------------------------------------------
(* The three services together                                             *)

AllInv == OffInv /\ RemInv /\ OnbInv

\* A call that nobody disturbed is what it was when it notices that nothing has happened.
LEMMA NothingNoticed ==
  ASSUME OffInv, RemInv, UNCHANGED <<user, call, fix>>
  PROVE  Off!Elsewhere /\ Rem!Elsewhere
  <1>1. \A c \in Offboarders : Off!Notice(call[c]) = call[c]
    BY DEF OffInv, Off!Notice, Off!Calls
  <1>2. \A c \in Helpdesk : Rem!Notice(fix[c]) = fix[c]
    BY DEF RemInv, Rem!Notice, Rem!Fixes
  <1>3. call = [c \in Offboarders |-> call[c]] /\ fix = [c \in Helpdesk |-> fix[c]]
    BY DEF OffInv, RemInv
  <1> QED BY <1>1, <1>2, <1>3 DEF Off!Elsewhere, Rem!Elsewhere

\* To offboarding and remediation, onboarding is a part of their environment, and they
\* are one of its own.
LEMMA LifeStep ==
  AllInv /\ [LifeNext]_lifeVars =>
      AllInv' /\ [Off!Next]_(Off!vars) /\ [Rem!Next]_(Rem!vars)
  <1> SUFFICES ASSUME AllInv, [LifeNext]_lifeVars
               PROVE  AllInv' /\ [Off!Next]_(Off!vars) /\ [Rem!Next]_(Rem!vars)
    OBVIOUS
  <1>1. OffInv /\ RemInv /\ OnbInv /\ mishaps \in Nat
    BY DEF AllInv, OffInv
  <1>2. CASE UNCHANGED lifeVars
    <2>1. UNCHANGED <<vars, person, hire, mishaps, user, call, fix>>
      BY <1>2 DEF lifeVars, vars
    <2>2. OnbInv'
      BY <1>1, <2>1, OnbInvElsewhere
    <2>3. [Off!Next]_(Off!vars) /\ [Rem!Next]_(Rem!vars)
      BY <2>1 DEF Off!vars, Rem!vars
    <2> QED BY <1>1, <2>2, <2>3, OffInvStep, RemInvStep DEF AllInv
  <1>3. CASE Employ
    <2>1. [Next]_vars /\ person' = person /\ hire' = hire
      BY <1>3 DEF Employ
    <2>2. [Off!Next]_(Off!vars) /\ [Rem!Next]_(Rem!vars)
      BY <1>1, <2>1, StepsAreBoth
    <2>3. OffInv' /\ RemInv'
      BY <1>1, <2>2, OffInvStep, RemInvStep
    <2>4. mishaps' \in {mishaps, mishaps + 1}
      <3>1. CASE OffboardingStep \/ RemediationStep
        BY <3>1, RequestCounts DEF OffboardingStep, RemediationStep
      <3>2. CASE StartOffboarding \/ StartRemediation
        BY <3>2 DEF StartOffboarding, StartRemediation, Off!Begin, Rem!Begin
      <3> QED BY <1>3, <3>1, <3>2 DEF Employ, Next
    <2>5. OnbInv'
      BY <1>1, <2>1, <2>4, OnbInvElsewhere
    <2> QED BY <2>2, <2>3, <2>5 DEF AllInv
  <1>4. CASE Hire
    <2>1. Onb!Next /\ UNCHANGED <<user, call, fix>>
      BY <1>4 DEF Hire
    <2>2. OnbInv' /\ mishaps' \in {mishaps, mishaps + 1}
      BY <1>1, <2>1, OnbInvStep, HireCounts
    <2>3. user' \in GraphUsers
      BY <1>1, <2>1 DEF OffInv
    <2>4. Off!Environment /\ Rem!Environment
      BY <1>1, <2>1, <2>2, <2>3, NothingNoticed
         DEF Off!Environment, Rem!Environment, GraphUsers, Off!GraphUsers, Rem!GraphUsers
    <2>5. [Off!Next]_(Off!vars) /\ [Rem!Next]_(Rem!vars)
      BY <2>4 DEF Off!Next, Rem!Next
    <2> QED BY <1>1, <2>2, <2>5, OffInvStep, RemInvStep DEF AllInv
  <1> QED BY <1>2, <1>3, <1>4 DEF LifeNext

\* The three start as each of them does.
LEMMA LifeStart == LifeInit => AllInv /\ Off!Init /\ Rem!Init
  <1> SUFFICES ASSUME LifeInit PROVE AllInv /\ Off!Init /\ Rem!Init
    OBVIOUS
  <1>1. Off!Init /\ Rem!Init /\ Onb!Init
    BY DEF LifeInit, Init
  <1>2. OffInv /\ RemInv
    BY <1>1, OffInvInit, RemInvInit
  <1>3. OnbInv
    BY <1>1, <1>2, OnbInvInit DEF OffInv
  <1> QED BY <1>1, <1>2, <1>3 DEF AllInv

\* With onboarding beside them, offboarding and remediation still are what they were
\* proved to be in any environment.
THEOREM LifecycleComposes == LifeSpec => Off!Spec /\ Rem!Spec
  BY LifeStart, LifeStep, PTL DEF LifeSpec, Off!Spec, Rem!Spec

\* All variables of the three services keep their types.
THEOREM LifecycleTypeCorrect == LifeSpec => []LifeTypeOK
  <1>1. AllInv => LifeTypeOK
    BY OffInvImplies, RemInvImplies, OnbInvImplies DEF AllInv, LifeTypeOK, TypeOK
  <1> QED BY <1>1, LifeStart, LifeStep, PTL DEF LifeSpec

\* However the calls interleave and whatever requests fail, "verified" is true of the
\* tenant: the hire has all that was planned.
THEOREM OnboardingSound == LifeSpec => []OnboardingIsSound
  <1>1. AllInv => OnboardingIsSound
    BY OnbInvImplies DEF AllInv, OnboardingIsSound
  <1> QED BY <1>1, LifeStart, LifeStep, PTL DEF LifeSpec

\* A call that is repeated changes nothing that was achieved, and an offboarding that
\* revoked no session is such a repetition.
THEOREM RerunsAreQuiet == LifeSpec => []OnlyRerunsAreQuiet
  <1>1. AllInv => OnlyRerunsAreQuiet
    BY OffInvImplies, OnbInvImplies
       DEF AllInv, OnlyRerunsAreQuiet, OffboardingIsQuiet, OffboardingRevokes
  <1> QED BY <1>1, LifeStart, LifeStep, PTL DEF LifeSpec

\* And what was proved of them alone holds beside onboarding.
THEOREM ServicesHoldBesideOnboarding ==
  LifeSpec => [](OffboardingIsSound /\ RemediationIsSound) /\ OffboardingTakesOnly
  <1> DEFINE Harmless ==
        \A c \in Offboarders : Off!Acts(c) =>
            /\ user'.groups \subseteq user.groups
            /\ user'.skus \subseteq user.skus
            /\ user'.enabled => user.enabled
            /\ user.groups \ user'.groups \subseteq Off!Takable
            /\ user.skus \ user'.skus \subseteq RemovableSkus
  <1>1. AllInv => OffboardingIsSound /\ RemediationIsSound
    BY OffInvImplies, RemInvImplies DEF AllInv, OffboardingIsSound, RemediationIsSound
  <1>2. AllInv /\ [LifeNext]_lifeVars => [Harmless]_(Off!vars)
    BY LifeStep, TakesOnly DEF AllInv
  <1> HIDE DEF Harmless
  <1>3. LifeSpec => [](OffboardingIsSound /\ RemediationIsSound) /\ [][Harmless]_(Off!vars)
    BY <1>1, <1>2, LifeStart, LifeStep, PTL DEF LifeSpec
  <1> QED BY <1>3 DEF OffboardingTakesOnly, Off!TakesOnlyRemovable, Harmless

-------------------------------------------------------------------------------
(* While no request fails: offboarding                                     *)

\* What a call r of offboarding has achieved with a user u that nobody else has changed
\* since it began, if no request has failed either.
OffPlain(r, u) ==
    /\ r.result \notin {"partial", "failed"}
    /\ r.pc \in {"user", "groups"} => ~r.errors
    /\ r.pc = "groups" => r.pre.enabled = u.enabled /\ r.pre.skus = u.skus
    /\ r.pc = "work" =>
        /\ ~r.errors
        /\ "disable" \notin r.work => ~u.enabled
        /\ IF "licences" \in r.work THEN Off!RemovableOf(r.pre) \subseteq u.skus
           ELSE Off!RemovableOf(r.pre) \cap u.skus = {}
        /\ Off!PreservedOf(r.pre) \subseteq u.skus
        /\ r.todo \subseteq u.groups
        /\ Off!RemovableGroups(r.pre) \cap u.groups \subseteq r.todo
        /\ Off!PreservedGroups(r.pre) \subseteq u.groups
    /\ r.pc = "verify" =>
        /\ r.good
        /\ Off!RemovableGroups(r.pre) \cap u.groups = {}
        /\ Off!PreservedGroups(r.pre) \subseteq u.groups

OffPlainInv ==
    \A c \in Offboarders : call[c].undisturbed /\ mishaps = 0 => OffPlain(call[c], user)

\* A step that leaves the acting call in order leaves all of them in order.
LEMMA PlainBecomes ==
  ASSUME OffInv, OffPlainInv, NEW c \in Offboarders, NEW r, Off!Becomes(c, r),
         mishaps' = 0 => mishaps = 0,
         r.undisturbed /\ mishaps' = 0 => OffPlain(r, user')
  PROVE  OffPlainInv'
  <1> SUFFICES ASSUME NEW d \in Offboarders, call'[d].undisturbed, mishaps' = 0
               PROVE  OffPlain(call'[d], user')
    BY DEF OffPlainInv
  <1>1. call'[d] = IF d = c THEN r ELSE Off!Notice(call[d])
    BY DEF Off!Becomes
  <1>2. CASE d = c
    BY <1>1, <1>2
  <1>3. CASE d # c
    <2>1. call[d] \in Off!Calls /\ call'[d] = [call[d] EXCEPT !.undisturbed = call[d].undisturbed /\ user' = user]
      BY <1>1, <1>3 DEF OffInv, Off!Notice
    <2>2. call[d].undisturbed /\ user' = user
      BY <2>1 DEF Off!Calls
    <2>3. OffPlain(call[d], user)
      BY <2>2 DEF OffPlainInv
    <2> QED BY <2>1, <2>2, <2>3 DEF OffPlain, Off!Calls
  <1> QED BY <1>2, <1>3

\* The call that acts.
LEMMA ActingOff ==
  ASSUME OffInv, OffPlainInv, NEW c \in Offboarders
  PROVE  /\ call[c] \in Off!Calls /\ user \in GraphUsers /\ mishaps \in Nat
         /\ call[c].result # "none" <=> call[c].pc = "done"
         /\ call[c].pc # "work" => call[c].work = {} /\ call[c].todo = {}
         /\ call[c].undisturbed /\ mishaps = 0 => OffPlain(call[c], user)
  BY DEF OffInv, OffFine, OffPlainInv

\* Reads and writes while no request fails.
LEMMA CleanRead ==
  ASSUME OffInv, NEW ok \in BOOLEAN, Off!Read(ok)
  PROVE  user' = user /\ (mishaps' = 0 => mishaps = 0 /\ ok)
  BY DEF OffInv, Off!Read, Off!Mishap

\* While no request fails, a valid write works.
LEMMA CleanWrite ==
  ASSUME OffInv, NEW ok \in BOOLEAN, NEW valid \in BOOLEAN, NEW new, Off!Write(valid, new, ok)
  PROVE  mishaps' = 0 => mishaps = 0 /\ (valid => ok /\ user' = new)
  BY DEF OffInv, Off!Write, Off!Mishap

\* A call that returns is in order if it has not failed.
LEMMA PlainEnd ==
  ASSUME NEW r, NEW u, NEW result, result \notin {"partial", "failed"}
  PROVE  OffPlain(Off!End(r, result), u)
  <1>1. Off!End(r, result).pc = "done" /\ Off!End(r, result).result = result
    BY DEF Off!End
  <1> QED BY <1>1 DEF OffPlain

\* The kind of a user.
LEMMA UserFields ==
  ASSUME NEW u \in GraphUsers
  PROVE  u.enabled \in BOOLEAN /\ u.groups \in SUBSET Groups /\ u.skus \in SUBSET Skus
  BY DEF GraphUsers

\* A call of offboarding begins; one lemma per request of it follows.
LEMMA BeginPlain ==
  ASSUME OffInv, OffPlainInv, NEW c \in Offboarders, NEW mode \in Off!Modes, NEW named \in BOOLEAN,
         Off!Begin(c, mode, named)
  PROVE  OffPlainInv'
  <1>1. mishaps' = mishaps /\ Off!Becomes(c, IF named THEN Off!Fresh(mode) ELSE Off!End(Off!Fresh(mode), "refused"))
    BY DEF Off!Begin
  <1>2. OffPlain(Off!Fresh(mode), user')
    BY DEF Off!Fresh, OffPlain
  <1>3. OffPlain(Off!End(Off!Fresh(mode), "refused"), user')
    BY PlainEnd
  <1> QED BY <1>1, <1>2, <1>3, PlainBecomes

LEMMA CaptureUserPlain ==
  ASSUME OffInv, OffPlainInv, NEW c \in Offboarders, Off!CaptureUser(c)
  PROVE  OffPlainInv'
  <1> DEFINE r == call[c]
             pre == [user EXCEPT !.groups = {}]
             next == [r EXCEPT !.pc = "groups", !.pre = pre]
  <1>1. PICK ok \in BOOLEAN : Off!Read(ok) /\ Off!Becomes(c, IF ok THEN next ELSE Off!End(r, "failed"))
    BY DEF Off!CaptureUser
  <1>2. user' = user /\ (mishaps' = 0 => mishaps = 0 /\ ok)
    BY <1>1, CleanRead
  <1>3. r.pc = "user" /\ r.result = "none" /\ r \in Off!Calls
    BY ActingOff DEF Off!CaptureUser
  <1>4. pre.enabled = user.enabled /\ pre.skus = user.skus
    BY ActingOff DEF GraphUsers
  <1> HIDE DEF pre
  <1>5. /\ next.pc = "groups" /\ next.result = "none" /\ next.pre = pre
        /\ next.errors = r.errors /\ next.undisturbed = r.undisturbed
    BY <1>3 DEF Off!Calls
  <1> HIDE DEF next
  <1>6. ASSUME next.undisturbed, mishaps' = 0 PROVE OffPlain(next, user')
    <2>1. OffPlain(r, user)
      BY <1>2, <1>5, <1>6, ActingOff
    <2> QED BY <1>2, <1>3, <1>4, <1>5, <2>1 DEF OffPlain
  <1>7. CASE ok
    BY <1>1, <1>2, <1>6, <1>7, PlainBecomes
  <1>8. CASE ~ok
    BY <1>1, <1>2, <1>8, PlainBecomes
  <1> QED BY <1>7, <1>8

LEMMA CaptureGroupsPlain ==
  ASSUME OffInv, OffPlainInv, NEW c \in Offboarders, Off!CaptureGroups(c)
  PROVE  OffPlainInv'
  <1> DEFINE r == call[c]
             v == [r.pre EXCEPT !.groups = user.groups]
             p == Off!Plan(r, v)
  <1>1. PICK ok \in BOOLEAN :
           /\ Off!Read(ok)
           /\ Off!Becomes(c, IF ~ok THEN Off!End(r, "failed")
                             ELSE IF r.mode = "execute" THEN p ELSE Off!End(r, r.mode))
    BY DEF Off!CaptureGroups
  <1>2. user' = user /\ (mishaps' = 0 => mishaps = 0 /\ ok)
    BY <1>1, CleanRead
  <1>3. r.pc = "groups" /\ r.result = "none" /\ r \in Off!Calls /\ r.mode \in Off!Modes /\ r.pre \in GraphUsers
    BY ActingOff, CallFields DEF Off!CaptureGroups
  <1>4. /\ v.groups = user.groups /\ v.enabled = r.pre.enabled /\ v.skus = r.pre.skus
        /\ v \in GraphUsers
    BY <1>3, ActingOff DEF GraphUsers
  <1> HIDE DEF v
  <1> DEFINE todo == Off!RemovableGroups(v)
             work == {t \in Off!Tasks :
                          \/ t = "revoke" /\ Off!Needed(v)
                          \/ t = "disable" /\ v.enabled
                          \/ t = "licences" /\ Off!RemovableOf(v) # {}}
  <1>5. p = [r EXCEPT !.pc = "work", !.pre = v, !.todo = todo, !.work = work]
    BY DEF Off!Plan
  <1>6. /\ "disable" \in work <=> v.enabled
        /\ "licences" \in work <=> Off!RemovableOf(v) # {}
    BY DEF Off!Tasks
  <1>7. todo \in SUBSET Groups /\ work \in SUBSET Off!Tasks
    BY <1>4, UserFields DEF Off!RemovableGroups
  <1> HIDE DEF work, p
  <1>8. CASE ok /\ r.mode = "execute"
    <2>1. ASSUME r.undisturbed, mishaps' = 0 PROVE OffPlain(p, user')
      <3>1. OffPlain(r, user)
        BY <1>2, <2>1, ActingOff
      <3>2. /\ v.enabled = user.enabled /\ v.skus = user.skus /\ v.groups = user.groups
            /\ ~r.errors
        BY <1>3, <1>4, <3>1 DEF OffPlain
      <3>3. /\ p.pc = "work" /\ p.pre = v /\ p.todo = todo /\ p.work = work
            /\ p.result = "none" /\ p.errors = r.errors
        BY <1>3, <1>5, <1>7 DEF Off!Calls
      <3>4. /\ Off!RemovableOf(v) \subseteq user.skus
            /\ "licences" \notin work => Off!RemovableOf(v) \cap user.skus = {}
            /\ Off!PreservedOf(v) \subseteq user.skus
        BY <1>6, <3>2 DEF Off!RemovableOf, Off!PreservedOf
      <3>5. todo \subseteq user.groups /\ Off!PreservedGroups(v) \subseteq user.groups
        BY <3>2 DEF Off!RemovableGroups, Off!PreservedGroups
      <3>6. "disable" \notin work => ~user.enabled
        BY <1>6, <3>2
      <3>7. Off!RemovableGroups(v) \cap user.groups \subseteq todo
        OBVIOUS
      <3> HIDE DEF todo
      <3> QED BY <1>2, <3>2, <3>3, <3>4, <3>5, <3>6, <3>7 DEF OffPlain
    <2>2. p.undisturbed = r.undisturbed
      BY <1>3, <1>5, <1>7 DEF Off!Calls
    <2> QED BY <1>1, <1>2, <1>8, <2>1, <2>2, PlainBecomes
  <1>9. CASE ok /\ r.mode # "execute"
    <2>1. OffPlain(Off!End(r, r.mode), user')
      BY <1>3, PlainEnd DEF Off!Modes
    <2> QED BY <1>1, <1>2, <1>9, <2>1, PlainBecomes
  <1>10. CASE ~ok
    BY <1>1, <1>2, <1>10, PlainBecomes
  <1> QED BY <1>8, <1>9, <1>10

\* A mutation that is answered is no error.
LEMMA SentClean ==
  ASSUME NEW q \in Off!Calls, ~q.errors
  PROVE  ~Off!Sent(q, TRUE).errors
  <1>1. \A e \in BOOLEAN : [q EXCEPT !.wrote = TRUE, !.errors = e].errors = e
    BY DEF Off!Calls
  <1>2. Off!Sent(q, TRUE).errors = (q.errors \/ ~TRUE)
    BY <1>1 DEF Off!Sent
  <1> QED BY <1>2

\* What is achieved of a call r at work: w tasks and g groups are left for user u.
OffDone(r, w, g, u) ==
    /\ "disable" \notin w => ~u.enabled
    /\ IF "licences" \in w THEN Off!RemovableOf(r.pre) \subseteq u.skus
       ELSE Off!RemovableOf(r.pre) \cap u.skus = {}
    /\ Off!PreservedOf(r.pre) \subseteq u.skus
    /\ g \subseteq u.groups
    /\ Off!RemovableGroups(r.pre) \cap u.groups \subseteq g
    /\ Off!PreservedGroups(r.pre) \subseteq u.groups

\* A mutation that leaves tasks w and groups g to be done.
LEMMA MutationPlain ==
  ASSUME OffInv, OffPlainInv, NEW c \in Offboarders, call[c].pc = "work",
         NEW ok \in BOOLEAN, NEW w \in SUBSET Off!Tasks, NEW g \in SUBSET Groups,
         NEW q \in Off!Calls,
         q.pc = "work", q.pre = call[c].pre, q.result = call[c].result, q.work = w, q.todo = g,
         q.errors = call[c].errors, q.undisturbed = call[c].undisturbed,
         NEW s, s.pc = "work", s.pre = q.pre, s.result = q.result, s.work = w, s.todo = g,
         s.errors = Off!Sent(q, ok).errors, s.undisturbed = q.undisturbed,
         Off!Becomes(c, s),
         mishaps' = 0 => mishaps = 0,
         mishaps' = 0 /\ OffDone(call[c], call[c].work, call[c].todo, user) =>
            ok /\ OffDone(call[c], w, g, user')
  PROVE  OffPlainInv'
  <1>1. ASSUME s.undisturbed, mishaps' = 0 PROVE OffPlain(s, user')
    <2>1. OffPlain(call[c], user)
      BY <1>1, ActingOff
    <2>2. OffDone(call[c], call[c].work, call[c].todo, user) /\ ~call[c].errors
      BY <2>1 DEF OffPlain, OffDone
    <2>3. ok /\ OffDone(call[c], w, g, user')
      BY <1>1, <2>2
    <2>4. ok = TRUE
      BY <2>3
    <2>5. ~s.errors
      BY <2>2, <2>4, SentClean
    <2>6. s.result \notin {"partial", "failed"}
      BY <2>1 DEF OffPlain
    <2> QED BY <2>3, <2>5, <2>6 DEF OffPlain, OffDone
  <1> QED BY <1>1, PlainBecomes

LEMMA RevokePlain ==
  ASSUME OffInv, OffPlainInv, NEW c \in Offboarders, Off!Revoke(c)
  PROVE  OffPlainInv'
  <1> DEFINE r == call[c]
             w == r.work \ {"revoke"}
             q == [r EXCEPT !.work = w]
  <1>1. PICK ok \in BOOLEAN :
          /\ Off!Write(TRUE, user, ok)
          /\ Off!Becomes(c, [Off!Sent(q, ok) EXCEPT !.revoked = ok])
    BY DEF Off!Revoke
  <1>2. r \in Off!Calls /\ r.pc = "work" /\ w \in SUBSET Off!Tasks /\ r.todo \in SUBSET Groups
    BY ActingOff, CallFields DEF Off!Revoke
  <1>3. mishaps' = 0 => mishaps = 0 /\ ok /\ user' = user
    BY <1>1, CleanWrite
  <1>4. /\ "disable" \in r.work <=> "disable" \in w
        /\ "licences" \in r.work <=> "licences" \in w
    OBVIOUS
  <1> HIDE DEF w
  <1>5. /\ q \in Off!Calls /\ q.pc = "work" /\ q.pre = r.pre /\ q.result = r.result
        /\ q.undisturbed = r.undisturbed /\ q.work = w /\ q.todo = r.todo /\ q.errors = r.errors
    BY <1>2 DEF Off!Calls
  <1> HIDE DEF q
  <1> DEFINE p == Off!Sent(q, ok)
             s == [p EXCEPT !.revoked = ok]
  <1>6. /\ p \in Off!Calls /\ p.pc = q.pc /\ p.pre = q.pre /\ p.result = q.result
        /\ p.undisturbed = q.undisturbed /\ p.work = w /\ p.todo = r.todo
    BY <1>5, SentFields
  <1> HIDE DEF p
  <1>7. /\ s.pc = "work" /\ s.pre = q.pre /\ s.result = q.result /\ s.work = w /\ s.todo = r.todo
        /\ s.errors = p.errors /\ s.undisturbed = q.undisturbed
    BY <1>5, <1>6 DEF Off!Calls
  <1>8. Off!Becomes(c, s)
    BY <1>1 DEF p
  <1> HIDE DEF s
  <1>9. OffDone(r, r.work, r.todo, user) => OffDone(r, w, r.todo, user)
    BY <1>4 DEF OffDone
  <1>10. s.errors = Off!Sent(q, ok).errors
    BY <1>7 DEF p
  <1> QED BY <1>2, <1>3, <1>5, <1>7, <1>8, <1>9, <1>10, MutationPlain

LEMMA DisablePlain ==
  ASSUME OffInv, OffPlainInv, NEW c \in Offboarders, Off!Disable(c)
  PROVE  OffPlainInv'
  <1> DEFINE r == call[c]
             w == r.work \ {"disable"}
             q == [r EXCEPT !.work = w]
             new == [user EXCEPT !.enabled = FALSE]
  <1>1. PICK ok \in BOOLEAN :
          /\ Off!Write(TRUE, new, ok)
          /\ Off!Becomes(c, Off!Sent(q, ok))
    BY DEF Off!Disable
  <1>2. r \in Off!Calls /\ r.pc = "work" /\ w \in SUBSET Off!Tasks /\ r.todo \in SUBSET Groups
    BY ActingOff, CallFields DEF Off!Disable
  <1>3. mishaps' = 0 => mishaps = 0 /\ ok /\ user' = new
    BY <1>1, CleanWrite
  <1>4. new.enabled = FALSE /\ new.skus = user.skus /\ new.groups = user.groups
    BY ActingOff DEF GraphUsers
  <1>5. "licences" \in r.work <=> "licences" \in w
    OBVIOUS
  <1> HIDE DEF w, new
  <1>6. /\ q \in Off!Calls /\ q.pc = "work" /\ q.pre = r.pre /\ q.result = r.result
        /\ q.undisturbed = r.undisturbed /\ q.work = w /\ q.todo = r.todo /\ q.errors = r.errors
    BY <1>2 DEF Off!Calls
  <1> HIDE DEF q
  <1> DEFINE s == Off!Sent(q, ok)
  <1>7. /\ s.pc = "work" /\ s.pre = q.pre /\ s.result = q.result
        /\ s.undisturbed = q.undisturbed /\ s.work = w /\ s.todo = r.todo
    BY <1>6, SentFields
  <1>8. OffDone(r, r.work, r.todo, user) => OffDone(r, w, r.todo, new)
    BY <1>4, <1>5 DEF OffDone
  <1>9. Off!Becomes(c, s) /\ s.errors = Off!Sent(q, ok).errors
    BY <1>1
  <1> HIDE DEF s
  <1> QED BY <1>2, <1>3, <1>6, <1>7, <1>8, <1>9, MutationPlain

LEMMA RemoveGroupPlain ==
  ASSUME OffInv, OffPlainInv, NEW c \in Offboarders, Off!RemoveGroup(c)
  PROVE  OffPlainInv'
  <1> DEFINE r == call[c]
  <1>1. PICK g \in r.todo, ok \in BOOLEAN :
          /\ Off!Write(g \in user.groups, [user EXCEPT !.groups = @ \ {g}], ok)
          /\ Off!Becomes(c, Off!Sent([r EXCEPT !.todo = @ \ {g}], ok))
    BY DEF Off!RemoveGroup
  <1> DEFINE new == [user EXCEPT !.groups = @ \ {g}]
             todo == r.todo \ {g}
             q == [r EXCEPT !.todo = todo]
             s == Off!Sent(q, ok)
  <1>2. r \in Off!Calls /\ r.pc = "work" /\ r.work \in SUBSET Off!Tasks /\ todo \in SUBSET Groups
    BY ActingOff, CallFields DEF Off!RemoveGroup
  <1>3. g \in Off!Takable
    BY DEF OffInv, OffFine, OffHonest
  <1>4. new.enabled = user.enabled /\ new.skus = user.skus /\ new.groups = user.groups \ {g}
    BY ActingOff DEF GraphUsers
  <1>5. mishaps' = 0 => mishaps = 0 /\ (g \in user.groups => ok /\ user' = new)
    <2>1. (g \in user.groups) \in BOOLEAN
      OBVIOUS
    <2> HIDE DEF new
    <2> QED BY <1>1, <2>1, CleanWrite DEF new
  <1> HIDE DEF new
  <1>6. OffDone(r, r.work, r.todo, user) => g \in user.groups /\ OffDone(r, r.work, todo, new)
    BY <1>3, <1>4 DEF OffDone, Off!Takable, Off!RemovableGroups, Off!PreservedGroups
  <1> HIDE DEF todo
  <1>7. /\ q \in Off!Calls /\ q.pc = "work" /\ q.pre = r.pre /\ q.result = r.result
        /\ q.undisturbed = r.undisturbed /\ q.work = r.work /\ q.todo = todo /\ q.errors = r.errors
    BY <1>2 DEF Off!Calls
  <1>8. Off!Becomes(c, s) /\ s.errors = Off!Sent(q, ok).errors
    BY <1>1 DEF todo
  <1> HIDE DEF q
  <1>9. /\ s.pc = "work" /\ s.pre = q.pre /\ s.result = q.result
        /\ s.undisturbed = q.undisturbed /\ s.work = r.work /\ s.todo = todo
    BY <1>7, SentFields
  <1> HIDE DEF s
  <1> QED BY <1>2, <1>5, <1>6, <1>7, <1>8, <1>9, MutationPlain

LEMMA RemoveLicencesPlain ==
  ASSUME OffInv, OffPlainInv, NEW c \in Offboarders, Off!RemoveLicences(c)
  PROVE  OffPlainInv'
  <1> DEFINE r == call[c]
             gone == Off!RemovableOf(r.pre)
             new == [user EXCEPT !.skus = @ \ gone]
             q == [r EXCEPT !.work = {}]
  <1>1. PICK ok \in BOOLEAN :
          /\ Off!Write(gone \subseteq user.skus, new, ok)
          /\ Off!Becomes(c, Off!Sent(q, ok))
    BY DEF Off!RemoveLicences
  <1>2. r \in Off!Calls /\ r.pc = "work" /\ r.work = {"licences"} /\ r.todo = {}
    BY ActingOff DEF Off!RemoveLicences
  <1>3. new.enabled = user.enabled /\ new.skus = user.skus \ gone /\ new.groups = user.groups
    BY ActingOff DEF GraphUsers
  <1>4. mishaps' = 0 => mishaps = 0 /\ (gone \subseteq user.skus => ok /\ user' = new)
    <2>1. (gone \subseteq user.skus) \in BOOLEAN
      OBVIOUS
    <2> HIDE DEF new, gone
    <2> QED BY <1>1, <2>1, CleanWrite
  <1> HIDE DEF new
  <1>5. OffDone(r, r.work, r.todo, user) => gone \subseteq user.skus /\ OffDone(r, {}, {}, new)
    BY <1>2, <1>3 DEF OffDone, Off!RemovableOf, Off!PreservedOf
  <1> HIDE DEF gone
  <1>6. /\ q \in Off!Calls /\ q.pc = "work" /\ q.pre = r.pre /\ q.result = r.result
        /\ q.undisturbed = r.undisturbed /\ q.work = {} /\ q.todo = {} /\ q.errors = r.errors
    BY <1>2 DEF Off!Calls
  <1> HIDE DEF q
  <1> DEFINE s == Off!Sent(q, ok)
  <1>7. /\ s.pc = "work" /\ s.pre = q.pre /\ s.result = q.result
        /\ s.undisturbed = q.undisturbed /\ s.work = {} /\ s.todo = {}
    BY <1>6, SentFields
  <1>8. Off!Becomes(c, s) /\ s.errors = Off!Sent(q, ok).errors
    BY <1>1
  <1> HIDE DEF s
  <1>9. {} \in SUBSET Off!Tasks /\ {} \in SUBSET Groups
    OBVIOUS
  <1>10. mishaps' = 0 /\ OffDone(r, r.work, r.todo, user) => ok /\ OffDone(r, {}, {}, user')
    BY <1>4, <1>5
  <1> QED BY <1>2, <1>4, <1>6, <1>7, <1>8, <1>9, <1>10, MutationPlain

LEMMA ReadBackUserPlain ==
  ASSUME OffInv, OffPlainInv, NEW c \in Offboarders, Off!ReadBackUser(c)
  PROVE  OffPlainInv'
  <1> DEFINE r == call[c]
             good == Off!UserVerified(r, user)
             s == [r EXCEPT !.pc = "verify", !.good = good]
  <1>1. PICK ok \in BOOLEAN :
          Off!Read(ok) /\ Off!Becomes(c, IF ok THEN s ELSE Off!End(r, "partial"))
    BY DEF Off!ReadBackUser
  <1>2. user' = user /\ (mishaps' = 0 => mishaps = 0 /\ ok)
    BY <1>1, CleanRead
  <1>3. r \in Off!Calls /\ r.pc = "work" /\ r.work = {} /\ r.todo = {} /\ r.result = "none"
    BY ActingOff DEF Off!ReadBackUser
  <1> HIDE DEF good
  <1>4. /\ s.pc = "verify" /\ s.good = good /\ s.pre = r.pre /\ s.result = "none"
        /\ s.undisturbed = r.undisturbed
    BY <1>3 DEF Off!Calls
  <1> HIDE DEF s
  <1>5. ASSUME s.undisturbed, mishaps' = 0 PROVE OffPlain(s, user')
    <2>1. OffPlain(r, user)
      BY <1>2, <1>4, <1>5, ActingOff
    <2>2. good
      BY <1>3, <2>1 DEF OffPlain, good, Off!UserVerified
    <2> QED BY <1>2, <1>3, <1>4, <2>1, <2>2 DEF OffPlain
  <1>6. CASE ok
    BY <1>1, <1>2, <1>5, <1>6, PlainBecomes
  <1>7. CASE ~ok
    BY <1>1, <1>2, <1>7, PlainBecomes
  <1> QED BY <1>6, <1>7

LEMMA ReadBackGroupsPlain ==
  ASSUME OffInv, OffPlainInv, NEW c \in Offboarders, Off!ReadBackGroups(c)
  PROVE  OffPlainInv'
  <1> DEFINE r == call[c]
             verified ==
               /\ r.good
               /\ Off!RemovableGroups(r.pre) \cap user.groups = {}
               /\ Off!PreservedGroups(r.pre) \subseteq user.groups
  <1>1. PICK ok \in BOOLEAN :
          /\ Off!Read(ok)
          /\ Off!Becomes(c, Off!End(r, IF ok /\ verified THEN "success" ELSE "partial"))
    BY DEF Off!ReadBackGroups
  <1>2. user' = user /\ (mishaps' = 0 => mishaps = 0 /\ ok)
    BY <1>1, CleanRead
  <1>3. r \in Off!Calls /\ r.pc = "verify"
    BY ActingOff DEF Off!ReadBackGroups
  <1> DEFINE s == Off!End(r, IF ok /\ verified THEN "success" ELSE "partial")
  <1>4. s.undisturbed = r.undisturbed
    BY DEF Off!End
  <1>5. ASSUME r.undisturbed, mishaps' = 0 PROVE OffPlain(s, user')
    <2>1. ok /\ OffPlain(r, user)
      BY <1>2, <1>5, ActingOff
    <2>2. verified
      BY <1>3, <2>1 DEF OffPlain
    <2>3. s = Off!End(r, "success")
      BY <2>1, <2>2
    <2> QED BY <2>3, PlainEnd
  <1> HIDE DEF s
  <1> QED BY <1>1, <1>2, <1>4, <1>5, PlainBecomes DEF s

\* The lemmas of the requests together.
LEMMA OffPlainStep ==
  ASSUME OffInv, OffPlainInv, NEW c \in Offboarders, Off!Step(c)
  PROVE  OffPlainInv'
  BY CaptureUserPlain, CaptureGroupsPlain, RevokePlain, DisablePlain, RemoveGroupPlain,
     RemoveLicencesPlain, ReadBackUserPlain, ReadBackGroupsPlain DEF Off!Step

\* A step of anybody else.
LEMMA OffPlainElsewhere ==
  ASSUME OffInv, OffPlainInv, Off!Elsewhere, mishaps' = 0 => mishaps = 0
  PROVE  OffPlainInv'
  <1> SUFFICES ASSUME NEW d \in Offboarders, call'[d].undisturbed, mishaps' = 0
               PROVE  OffPlain(call'[d], user')
    BY DEF OffPlainInv
  <1>1. call[d] \in Off!Calls /\ call'[d] = [call[d] EXCEPT !.undisturbed = call[d].undisturbed /\ user' = user]
    BY DEF OffInv, Off!Elsewhere, Off!Notice
  <1>2. call[d].undisturbed /\ user' = user
    BY <1>1 DEF Off!Calls
  <1>3. OffPlain(call[d], user)
    BY <1>2 DEF OffPlainInv
  <1> QED BY <1>1, <1>2, <1>3 DEF OffPlain, Off!Calls

\* No call has begun.
LEMMA OffPlainInit == Off!Init => OffPlainInv
  <1> SUFFICES ASSUME Off!Init, NEW c \in Offboarders PROVE OffPlain(call[c], user)
    BY DEF OffPlainInv
  <1> DEFINE f == Off!Fresh("execute")
             i == [f EXCEPT !.pc = "idle"]
  <1>1. f = [pc |-> "user", mode |-> "execute", pre |-> Off!Unread, work |-> {}, todo |-> {},
             errors |-> FALSE, good |-> FALSE, result |-> "none", revoked |-> FALSE,
             wrote |-> FALSE, undisturbed |-> TRUE]
    BY DEF Off!Fresh
  <1> HIDE DEF f
  <1>2. i.pc = "idle" /\ i.result = "none"
    BY <1>1
  <1>3. call[c] = i
    BY DEF Off!Init, f
  <1> QED BY <1>2, <1>3 DEF OffPlain

-------------------------------------------------------------------------------
(* While no request fails: remediation                                     *)

\* What a call r of remediation may rely on with a user u that nobody else has changed
\* since it began, if no request has failed either.
RemPlain(r, u) ==
    /\ r.result \notin {"failed", "unverified"}
    /\ r.pc = "write" => Rem!Accepted(r.ticket, u)
    /\ r.pc = "verify" => r.good

RemPlainInv ==
    \A c \in Helpdesk : fix[c].undisturbed /\ mishaps = 0 => RemPlain(fix[c], user)

\* A call of remediation that nobody disturbed notices nothing.
LEMMA NoticePlain ==
  ASSUME RemInv, RemPlainInv, NEW d \in Helpdesk, NEW r, r = Rem!Notice(fix[d]),
         r.undisturbed, mishaps' = 0, mishaps' = 0 => mishaps = 0
  PROVE  RemPlain(r, user')
  <1>1. fix[d] \in Rem!Fixes /\ r = [fix[d] EXCEPT !.undisturbed = fix[d].undisturbed /\ user' = user]
    BY DEF RemInv, Rem!Notice
  <1>2. fix[d].undisturbed /\ user' = user
    BY <1>1 DEF Rem!Fixes
  <1>3. RemPlain(fix[d], user)
    BY <1>2 DEF RemPlainInv
  <1> QED BY <1>1, <1>2, <1>3 DEF RemPlain, Rem!Fixes

\* One call of remediation moves on, the others notice.
LEMMA FixPlainBecomes ==
  ASSUME RemInv, RemPlainInv, NEW c \in Helpdesk, NEW r, Rem!Becomes(c, r),
         mishaps' = 0 => mishaps = 0,
         r.undisturbed /\ mishaps' = 0 => RemPlain(r, user')
  PROVE  RemPlainInv'
  <1> SUFFICES ASSUME NEW d \in Helpdesk, fix'[d].undisturbed, mishaps' = 0
               PROVE  RemPlain(fix'[d], user')
    BY DEF RemPlainInv
  <1>1. fix'[d] = IF d = c THEN r ELSE Rem!Notice(fix[d])
    BY DEF Rem!Becomes
  <1> QED BY <1>1, NoticePlain

\* Somebody else moves.
LEMMA RemPlainElsewhere ==
  ASSUME RemInv, RemPlainInv, Rem!Elsewhere, mishaps' = 0 => mishaps = 0
  PROVE  RemPlainInv'
  <1> SUFFICES ASSUME NEW d \in Helpdesk, fix'[d].undisturbed, mishaps' = 0
               PROVE  RemPlain(fix'[d], user')
    BY DEF RemPlainInv
  <1>1. fix'[d] = Rem!Notice(fix[d])
    BY DEF Rem!Elsewhere
  <1> QED BY <1>1, NoticePlain

\* The call that acts.
LEMMA ActingFix ==
  ASSUME RemInv, RemPlainInv, NEW c \in Helpdesk
  PROVE  /\ fix[c] \in Rem!Fixes /\ user \in GraphUsers
         /\ fix[c].ticket \in Rem!Tickets /\ Complete(fix[c].ticket)
         /\ fix[c].mode \in Rem!Modes /\ fix[c].pre \in GraphUsers
         /\ fix[c].result # "none" <=> fix[c].pc = "done"
         /\ fix[c].undisturbed => RemKnows(fix[c], user)
         /\ fix[c].undisturbed /\ mishaps = 0 => RemPlain(fix[c], user)
  BY DEF RemInv, RemFine, RemPlainInv, Rem!Fixes, GraphUsers, Rem!GraphUsers

\* While no request fails, a read is answered.
LEMMA FixCleanRead ==
  ASSUME RemInv, NEW ok \in BOOLEAN, Rem!Read(ok)
  PROVE  user' = user /\ (mishaps' = 0 => mishaps = 0 /\ ok)
  BY DEF RemInv, Rem!Read, Rem!Mishap

\* A call that returns is in order if it has not failed.
LEMMA FixPlainEnd ==
  ASSUME NEW r, NEW u, NEW result, result \notin {"failed", "unverified"}
  PROVE  RemPlain(Rem!End(r, result), u)
  <1>1. Rem!End(r, result).pc = "done" /\ Rem!End(r, result).result = result
    BY DEF Rem!End
  <1> QED BY <1>1 DEF RemPlain

\* What is to be mutated is accepted, and what the ticket wants is verified.
LEMMA TicketServed ==
  ASSUME NEW t \in Rem!Tickets, Complete(t), NEW u \in GraphUsers
  PROVE  /\ Rem!Mutates(t, u) => Rem!Accepted(t, u)
         /\ Rem!Fixed(t, u) => Rem!UserVerified(t, u, TRUE) /\ Rem!GroupsVerified(t, u)
  <1> USE DEF Rem!Accepted, Rem!Fixed, Rem!Mutates, Rem!UserVerified, Rem!GroupsVerified
  <1>1. CASE t.action \in Rem!Plain
    BY <1>1 DEF Rem!Plain
  <1>2. CASE t.action \in {"add_group", "remove_group"} /\ t.target \in Groups
    BY <1>2
  <1>3. CASE t.action \in {"assign_license", "remove_license"} /\ t.target \in Skus
    BY <1>3
  <1>4. QED BY <1>1, <1>2, <1>3 DEF Rem!Tickets, Complete, Rem!Plain

\* A call of remediation begins; one lemma per request of it follows.
LEMMA FixBeginPlain ==
  ASSUME RemInv, RemPlainInv, NEW c \in Helpdesk, NEW t \in Rem!Tickets, NEW mode \in Rem!Modes,
         NEW named \in BOOLEAN, Rem!Begin(c, t, mode, named)
  PROVE  RemPlainInv'
  <1> DEFINE begins == Complete(t) /\ (named \/ mode = "dry_run")
  <1>1. /\ mishaps' = mishaps
        /\ Rem!Becomes(c, IF begins THEN Rem!Fresh(t, mode) ELSE Rem!End(Rem!Fresh(t, mode), "refused"))
    BY DEF Rem!Begin, Complete
  <1>2. RemPlain(Rem!Fresh(t, mode), user')
    BY DEF Rem!Fresh, RemPlain
  <1>3. RemPlain(Rem!End(Rem!Fresh(t, mode), "refused"), user')
    BY FixPlainEnd
  <1> HIDE DEF begins
  <1> QED BY <1>1, <1>2, <1>3, FixPlainBecomes

LEMMA DiscoverPlain ==
  ASSUME RemInv, RemPlainInv, NEW c \in Helpdesk, Rem!Discover(c)
  PROVE  RemPlainInv'
  <1> DEFINE r == fix[c]
  <1>1. PICK ok \in BOOLEAN, free \in BOOLEAN :
          /\ Rem!Read(ok)
          /\ \/ Rem!Becomes(c, [r EXCEPT !.pc = "user", !.free = free])
             \/ Rem!Becomes(c, Rem!End(r, "refused"))
    BY DEF Rem!Discover
  <1> DEFINE s == [r EXCEPT !.pc = "user", !.free = free]
  <1>2. mishaps' = 0 => mishaps = 0
    BY <1>1, FixCleanRead
  <1>3. s.pc = "user" /\ s.result = r.result
    BY ActingFix DEF Rem!Fixes
  <1>4. r.result = "none"
    BY ActingFix DEF Rem!Discover
  <1> HIDE DEF s
  <1>5. RemPlain(s, user') /\ RemPlain(Rem!End(r, "refused"), user')
    BY <1>3, <1>4, FixPlainEnd DEF RemPlain
  <1> QED BY <1>1, <1>2, <1>5, FixPlainBecomes DEF s

LEMMA FixCaptureUserPlain ==
  ASSUME RemInv, RemPlainInv, NEW c \in Helpdesk, Rem!CaptureUser(c)
  PROVE  RemPlainInv'
  <1> DEFINE r == fix[c]
             v == [user EXCEPT !.groups = {}]
             s == [r EXCEPT !.pc = "groups", !.pre = v]
  <1>1. PICK ok \in BOOLEAN :
          Rem!Read(ok) /\ Rem!Becomes(c, IF ok THEN s ELSE Rem!End(r, "failed"))
    BY DEF Rem!CaptureUser
  <1>2. mishaps' = 0 => mishaps = 0 /\ ok
    BY <1>1, FixCleanRead
  <1> HIDE DEF v
  <1>3. s.pc = "groups" /\ s.result = r.result /\ r.result = "none"
    BY ActingFix DEF Rem!Fixes, Rem!CaptureUser
  <1> HIDE DEF s
  <1>4. RemPlain(s, user')
    BY <1>3 DEF RemPlain
  <1>5. CASE ok
    BY <1>1, <1>2, <1>4, <1>5, FixPlainBecomes
  <1>6. CASE ~ok
    BY <1>1, <1>2, <1>6, FixPlainBecomes
  <1> QED BY <1>5, <1>6

LEMMA FixCaptureGroupsPlain ==
  ASSUME RemInv, RemPlainInv, NEW c \in Helpdesk, Rem!CaptureGroups(c)
  PROVE  RemPlainInv'
  <1> DEFINE r == fix[c]
             t == r.ticket
             pre == [r.pre EXCEPT !.groups = user.groups]
             next == IF Rem!Mutates(t, pre) THEN "write" ELSE "check"
             s == [r EXCEPT !.pc = next, !.pre = Rem!Unread, !.free = TRUE]
  <1>1. PICK ok \in BOOLEAN :
          /\ Rem!Read(ok)
          /\ \/ ~ok /\ Rem!Becomes(c, Rem!End(r, "failed"))
             \/ ok /\ Rem!Becomes(c, Rem!End(r, "refused"))
             \/ ok /\ Rem!Becomes(c, Rem!End(r, r.mode))
             \/ ok /\ Rem!Becomes(c, s)
    BY DEF Rem!CaptureGroups
  <1>2. user' = user /\ (mishaps' = 0 => mishaps = 0 /\ ok)
    BY <1>1, FixCleanRead
  <1>3. /\ r.pc = "groups" /\ r.result = "none" /\ r \in Rem!Fixes /\ r.pre \in GraphUsers
        /\ t \in Rem!Tickets /\ Complete(t) /\ r.mode \notin {"failed", "unverified"}
        /\ user \in GraphUsers
    BY ActingFix DEF Rem!CaptureGroups, Rem!Modes
  <1>4. r.undisturbed => pre = user
    BY <1>3, ActingFix DEF RemKnows, GraphUsers
  <1>5. r.undisturbed /\ next = "write" => Rem!Accepted(t, user)
    <2> HIDE DEF pre, t
    <2> QED BY <1>3, <1>4, TicketServed
  <1>6. next \in {"write", "check"}
    OBVIOUS
  <1> HIDE DEF next, pre
  <1>7. s.pc = next /\ s.result = "none" /\ s.ticket = t /\ s.undisturbed = r.undisturbed
    BY <1>3 DEF Rem!Fixes
  <1> HIDE DEF s
  <1>8. s.undisturbed => RemPlain(s, user')
    BY <1>2, <1>5, <1>6, <1>7 DEF RemPlain
  <1>9. RemPlain(Rem!End(r, "refused"), user') /\ RemPlain(Rem!End(r, r.mode), user')
    BY <1>3, FixPlainEnd
  <1>10. CASE ok /\ Rem!Becomes(c, Rem!End(r, "refused"))
    BY <1>2, <1>9, <1>10, FixPlainBecomes
  <1>11. CASE ok /\ Rem!Becomes(c, Rem!End(r, r.mode))
    BY <1>2, <1>9, <1>11, FixPlainBecomes
  <1>12. CASE ok /\ Rem!Becomes(c, s)
    BY <1>2, <1>8, <1>12, FixPlainBecomes
  <1>13. CASE ~ok /\ Rem!Becomes(c, Rem!End(r, "failed"))
    BY <1>2, <1>13, FixPlainBecomes
  <1> QED BY <1>1, <1>10, <1>11, <1>12, <1>13

LEMMA MutatePlain ==
  ASSUME RemInv, RemPlainInv, NEW c \in Helpdesk, Rem!Mutate(c)
  PROVE  RemPlainInv'
  <1> DEFINE r == fix[c]
             valid == Rem!Accepted(r.ticket, user)
             new == Rem!Effect(r.ticket, user)
             s == [r EXCEPT !.pc = "check"]
  <1>1. PICK ok \in BOOLEAN :
          /\ Rem!Write(valid, new, ok)
          /\ Rem!Becomes(c, IF ok THEN s ELSE Rem!End(r, "failed"))
    BY DEF Rem!Mutate
  <1>2. r.pc = "write" /\ r.result = "none" /\ r \in Rem!Fixes
    BY ActingFix DEF Rem!Mutate
  <1> HIDE DEF new
  <1>3. mishaps' = 0 => mishaps = 0 /\ (valid => ok)
    <2> HIDE DEF valid
    <2> QED BY <1>1 DEF RemInv, Rem!Write, Rem!Mishap
  <1>4. s.pc = "check" /\ s.result = "none"
    BY <1>2 DEF Rem!Fixes
  <1> HIDE DEF s
  <1>5. RemPlain(s, user')
    BY <1>4 DEF RemPlain
  <1>6. CASE ok
    BY <1>1, <1>3, <1>5, <1>6, FixPlainBecomes
  <1>7. CASE ~ok
    <2>1. Rem!End(r, "failed").undisturbed = r.undisturbed
      BY DEF Rem!End
    <2>2. ASSUME r.undisturbed, mishaps' = 0 PROVE FALSE
      <3>1. valid
        BY <1>2, <1>3, <2>2, ActingFix DEF RemPlain
      <3> QED BY <1>3, <1>7, <2>2, <3>1
    <2> QED BY <1>1, <1>3, <1>7, <2>1, <2>2, FixPlainBecomes
  <1> QED BY <1>6, <1>7

LEMMA FixReadBackUserPlain ==
  ASSUME RemInv, RemPlainInv, NEW c \in Helpdesk, Rem!ReadBackUser(c)
  PROVE  RemPlainInv'
  <1> DEFINE r == fix[c]
             good == Rem!UserVerified(r.ticket, user, TRUE)
             s == [r EXCEPT !.pc = "verify", !.good = good]
  <1>1. PICK ok \in BOOLEAN :
          Rem!Read(ok) /\ Rem!Becomes(c, IF ok THEN s ELSE Rem!Unreadable(r))
    BY DEF Rem!ReadBackUser
  <1>2. user' = user /\ (mishaps' = 0 => mishaps = 0 /\ ok)
    BY <1>1, FixCleanRead
  <1>3. r.pc = "check" /\ r.result = "none" /\ r \in Rem!Fixes
    BY ActingFix DEF Rem!ReadBackUser
  <1>4. r.undisturbed => good
    <2>1. r.undisturbed => Rem!Fixed(r.ticket, user)
      BY <1>3, ActingFix DEF RemKnows
    <2> QED BY <2>1, TicketServed, ActingFix
  <1> HIDE DEF good
  <1>5. s.pc = "verify" /\ s.good = good /\ s.result = "none" /\ s.undisturbed = r.undisturbed
    BY <1>3 DEF Rem!Fixes
  <1> HIDE DEF s
  <1>6. s.undisturbed => RemPlain(s, user')
    BY <1>4, <1>5 DEF RemPlain
  <1>7. CASE ok
    BY <1>1, <1>2, <1>6, <1>7, FixPlainBecomes
  <1>8. CASE ~ok
    BY <1>1, <1>2, <1>8, FixPlainBecomes
  <1> QED BY <1>7, <1>8

LEMMA FixReadBackGroupsPlain ==
  ASSUME RemInv, RemPlainInv, NEW c \in Helpdesk, Rem!ReadBackGroups(c)
  PROVE  RemPlainInv'
  <1> DEFINE r == fix[c]
             s == Rem!Verdict(r, r.good, user)
  <1>1. PICK ok \in BOOLEAN :
          Rem!Read(ok) /\ Rem!Becomes(c, IF ok THEN s ELSE Rem!Unreadable(r))
    BY DEF Rem!ReadBackGroups
  <1>2. user' = user /\ (mishaps' = 0 => mishaps = 0 /\ ok)
    BY <1>1, FixCleanRead
  <1>3. r.pc = "verify" /\ r.result = "none" /\ r \in Rem!Fixes
    BY ActingFix DEF Rem!ReadBackGroups
  <1>4. s.undisturbed = r.undisturbed
    BY DEF Rem!Verdict, Rem!End
  <1>5. ASSUME r.undisturbed, mishaps' = 0 PROVE RemPlain(s, user')
    <2>1. r.good
      BY <1>2, <1>3, <1>5, ActingFix DEF RemPlain
    <2>2. Rem!Fixed(r.ticket, user)
      BY <1>3, <1>5, ActingFix DEF RemKnows
    <2>3. Rem!GroupsVerified(r.ticket, user)
      BY <2>2, TicketServed, ActingFix
    <2>4. s = Rem!End(r, "success")
      BY <2>1, <2>3 DEF Rem!Verdict
    <2> QED BY <2>4, FixPlainEnd
  <1> HIDE DEF s
  <1>6. CASE ok
    BY <1>1, <1>2, <1>4, <1>5, <1>6, FixPlainBecomes
  <1>7. CASE ~ok
    BY <1>1, <1>2, <1>7, FixPlainBecomes
  <1> QED BY <1>6, <1>7

\* The lemmas of the requests together.
LEMMA RemPlainStep ==
  ASSUME RemInv, RemPlainInv, NEW c \in Helpdesk, Rem!Step(c)
  PROVE  RemPlainInv'
  BY DiscoverPlain, FixCaptureUserPlain, FixCaptureGroupsPlain, MutatePlain,
     FixReadBackUserPlain, FixReadBackGroupsPlain DEF Rem!Step

\* No call has begun.
LEMMA RemPlainInit == Rem!Init => RemPlainInv
  <1> SUFFICES ASSUME Rem!Init, NEW c \in Helpdesk PROVE RemPlain(fix[c], user)
    BY DEF RemPlainInv
  <1> DEFINE i == Rem!Idle
  <1>1. i.pc = "idle" /\ i.result = "none"
    BY DEF Rem!Idle, Rem!Fresh
  <1> HIDE DEF i
  <1>2. fix[c] = i
    BY DEF Rem!Init, i
  <1> QED BY <1>1, <1>2 DEF RemPlain

-------------------------------------------------------------------------------
(* While no request fails: all three                                       *)

PlainInv == OffPlainInv /\ RemPlainInv

\* Every step of the three keeps what is known while no request fails.
LEMMA PlainStep ==
  ASSUME AllInv, PlainInv, [LifeNext]_lifeVars
  PROVE  PlainInv'
  <1>1. OffInv /\ RemInv /\ OffPlainInv /\ RemPlainInv /\ mishaps \in Nat
    BY DEF AllInv, PlainInv, OffInv
  <1>2. CASE UNCHANGED <<user, call, fix>> /\ (mishaps' = 0 => mishaps = 0)
    <2>1. Off!Elsewhere /\ Rem!Elsewhere
      BY <1>1, <1>2, NothingNoticed
    <2> QED BY <1>1, <1>2, <2>1, OffPlainElsewhere, RemPlainElsewhere DEF PlainInv
  <1>3. CASE UNCHANGED lifeVars
    BY <1>2, <1>3 DEF lifeVars, vars
  <1>4. CASE Hire
    <2>1. UNCHANGED <<user, call, fix>> /\ mishaps' \in {mishaps, mishaps + 1}
      BY <1>4, HireCounts DEF Hire
    <2> QED BY <1>1, <1>2, <2>1
  <1>5. CASE Employ /\ OffboardingStep
    <2>1. PICK c \in Offboarders : Off!Step(c) /\ Rem!Elsewhere
      BY <1>5 DEF OffboardingStep
    <2>2. mishaps' = 0 => mishaps = 0
      BY <1>1, <2>1, RequestCounts
    <2> QED BY <1>1, <2>1, <2>2, OffPlainStep, RemPlainElsewhere DEF PlainInv
  <1>6. CASE Employ /\ RemediationStep
    <2>1. PICK c \in Helpdesk : Rem!Step(c) /\ Off!Elsewhere
      BY <1>6 DEF RemediationStep
    <2>2. mishaps' = 0 => mishaps = 0
      BY <1>1, <2>1, RequestCounts
    <2> QED BY <1>1, <2>1, <2>2, RemPlainStep, OffPlainElsewhere DEF PlainInv
  <1>7. CASE Employ /\ StartOffboarding
    <2>1. PICK c \in Offboarders, mode \in Off!Modes, named \in BOOLEAN : Off!Begin(c, mode, named)
      BY <1>7 DEF StartOffboarding
    <2>2. UNCHANGED <<user, mishaps, fix>>
      BY <1>7 DEF StartOffboarding, Off!Begin
    <2>3. RemPlainInv'
      BY <1>1, <2>2 DEF RemPlainInv
    <2> QED BY <1>1, <2>1, <2>3, BeginPlain DEF PlainInv
  <1>8. CASE Employ /\ StartRemediation
    <2>1. PICK c \in Helpdesk, t \in Rem!Tickets, mode \in Rem!Modes, named \in BOOLEAN :
             Rem!Begin(c, t, mode, named)
      BY <1>8, RequestsOK DEF StartRemediation
    <2>2. UNCHANGED <<user, mishaps, call>>
      BY <1>8 DEF StartRemediation, Rem!Begin
    <2>3. OffPlainInv'
      BY <1>1, <2>2 DEF OffPlainInv
    <2> QED BY <1>1, <2>1, <2>3, FixBeginPlain DEF PlainInv
  <1> QED BY <1>3, <1>4, <1>5, <1>6, <1>7, <1>8 DEF LifeNext, Employ, Next

\* A failure that a service reports is one: while no request fails, a call of any of the
\* three that nobody disturbed succeeds, whoever else is at work.
THEOREM CleanCalls == LifeSpec => []CleanCallsSucceed
  <1>1. LifeInit => AllInv /\ PlainInv
    BY LifeStart, OffPlainInit, RemPlainInit DEF PlainInv
  <1>2. AllInv /\ PlainInv /\ [LifeNext]_lifeVars => AllInv' /\ PlainInv'
    BY LifeStep, PlainStep
  <1>3. AllInv /\ PlainInv => CleanCallsSucceed
    <2>1. PlainInv => Off!CleanCallSucceeds /\ Rem!CleanCallSucceeds
      BY DEF PlainInv, OffPlainInv, RemPlainInv, OffPlain, RemPlain,
         Off!CleanCallSucceeds, Rem!CleanCallSucceeds
    <2> QED BY <2>1, OnbInvImplies
         DEF AllInv, CleanCallsSucceed, OffboardingSucceeds, RemediationSucceeds
  <1> QED BY <1>1, <1>2, <1>3, PTL DEF LifeSpec
==================================================================================
