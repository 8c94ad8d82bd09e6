---------------------------- MODULE ConnectorProofs ----------------------------
(***************************************************************************)
(* Proofs about the connectors, for any records, provider data and number  *)
(* of mishaps: every record is counted once, no leap is stored, and what   *)
(* is kept is kept once (for GitHub, see GitHubProofs).                    *)
(***************************************************************************)
EXTENDS Connectors, FiniteSetTheorems, WellFoundedInduction, TLAPS

Total(r) == r.count.created + r.count.updated + r.count.skipped + r.count.failed

Shaped(r) ==
    /\ {"pc", "count", "handed"} \subseteq DOMAIN r
    /\ r.count \in [Counters -> Nat]
    /\ r.handed \in Nat

\* A run has taken up n records more than it has counted; at these points it has one in hand.
Due(r, n)          == Shaped(r) /\ Total(r) + n = r.handed
Settled(r, points) == Due(r, IF r.pc \in points THEN 1 ELSE 0)

\* What a step does to the account: nothing; a record is taken up; it is counted; or both.
Alike(s, r)     == DOMAIN s = DOMAIN r /\ s.count = r.count /\ s.handed = r.handed
Took(s, r)      == DOMAIN s = DOMAIN r /\ s.count = r.count /\ s.handed = r.handed + 1
Ticked(s, r, k) == DOMAIN s = DOMAIN r /\ s.count = [r.count EXCEPT ![k] = @ + 1] /\ s.handed = r.handed
Both(s, r, k)   == DOMAIN s = DOMAIN r /\ s.count = [r.count EXCEPT ![k] = @ + 1] /\ s.handed = r.handed + 1

\* Counting one more adds one to the total.
LEMMA TotalOf ==
    ASSUME NEW c \in [Counters -> Nat], NEW k \in Counters
    PROVE  LET d == [c EXCEPT ![k] = @ + 1] IN
           /\ d \in [Counters -> Nat]
           /\ d.created + d.updated + d.skipped + d.failed = c.created + c.updated + c.skipped + c.failed + 1
           /\ c.created + c.updated + c.skipped + c.failed \in Nat
  BY DEF Counters

\* The account is balanced before each kind of step, and after it.
LEMMA Accounting ==
    ASSUME NEW r, NEW s, NEW points, Settled(r, points)
    PROVE  /\ Shaped(r)
           /\ Alike(s, r) /\ (r.pc \in points <=> s.pc \in points) => Settled(s, points)
           /\ Took(s, r) /\ r.pc \notin points /\ s.pc \in points => Settled(s, points)
           /\ \A k \in Counters :
                Ticked(s, r, k) /\ r.pc \in points /\ s.pc \notin points => Settled(s, points)
           /\ \A k \in Counters :
                Both(s, r, k) /\ r.pc \notin points /\ s.pc \notin points => Settled(s, points)
  <1>1. Shaped(r) /\ Total(r) \in Nat /\ r.handed \in Nat
    BY DEF Settled, Due, Shaped, Total, Counters
  <1>2. (r.pc \in points => Total(r) + 1 = r.handed) /\ (r.pc \notin points => Total(r) = r.handed)
    BY <1>1 DEF Settled, Due
  <1>3. ASSUME Alike(s, r), r.pc \in points <=> s.pc \in points PROVE Settled(s, points)
    BY <1>3 DEF Settled, Due, Shaped, Total, Alike
  <1>4. ASSUME Took(s, r), r.pc \notin points, s.pc \in points PROVE Settled(s, points)
    <2>1. Total(s) = Total(r) /\ Shaped(s)
      BY <1>1, <1>4 DEF Shaped, Total, Took
    <2>. QED BY <1>1, <1>2, <1>4, <2>1 DEF Settled, Due, Took
  <1>5. ASSUME NEW k \in Counters, DOMAIN s = DOMAIN r, s.handed \in Nat, s.count = [r.count EXCEPT ![k] = @ + 1]
        PROVE  Total(s) = Total(r) + 1 /\ Shaped(s)
    <2>1. r.count \in [Counters -> Nat]
      BY <1>1 DEF Shaped
    <2>2. s.count \in [Counters -> Nat]
      BY <2>1, <1>5, TotalOf
    <2>. QED BY <1>1, <1>5, <2>1, <2>2, TotalOf DEF Shaped, Total
  <1>6. ASSUME NEW k \in Counters, Ticked(s, r, k), r.pc \in points, s.pc \notin points
        PROVE  Settled(s, points)
    <2>1. DOMAIN s = DOMAIN r /\ s.handed \in Nat /\ s.count = [r.count EXCEPT ![k] = @ + 1] /\ s.handed = r.handed
      BY <1>1, <1>6 DEF Ticked
    <2>2. Total(s) = Total(r) + 1 /\ Shaped(s)
      BY <1>5, <2>1
    <2>. QED BY <1>1, <1>2, <1>6, <2>1, <2>2 DEF Settled, Due
  <1>7. ASSUME NEW k \in Counters, Both(s, r, k), r.pc \notin points, s.pc \notin points
        PROVE  Settled(s, points)
    <2>1. DOMAIN s = DOMAIN r /\ s.handed \in Nat /\ s.count = [r.count EXCEPT ![k] = @ + 1] /\ s.handed = r.handed + 1
      BY <1>1, <1>7 DEF Both
    <2>2. Total(s) = Total(r) + 1 /\ Shaped(s)
      BY <1>5, <2>1
    <2>. QED BY <1>1, <1>2, <1>7, <2>1, <2>2 DEF Settled, Due
  <1>. QED BY <1>1, <1>3, <1>4, <1>6, <1>7

\* A run begins with a balanced account, ...
LEMMA Begins ==
    ASSUME NEW start, NEW todo, NEW points, start \notin points, Begin(start, todo)
    PROVE  Settled(run, points)' /\ run'.pc = start /\ run'.handed = 0
  <1>1. PICK dry \in BOOLEAN :
            run' = [Idle EXCEPT !.pc = start, !.dry = dry, !.todo = todo, !.clean = TRUE,
                                !.calm = run.clean /\ ~run.dry /\ ~run.pushed]
    BY DEF Begin
  <1>2. {"pc", "count", "handed", "dry", "todo", "clean", "calm"} \subseteq DOMAIN Idle
        /\ Idle.count = [k \in Counters |-> 0] /\ Idle.handed = 0
    BY DEF Idle
  <1>. HIDE DEF Idle
  <1>3. DOMAIN run' = DOMAIN Idle /\ run'.count = Idle.count /\ run'.handed = Idle.handed /\ run'.pc = start
    BY <1>1, <1>2
  <1>. QED BY <1>2, <1>3 DEF Settled, Due, Shaped, Total, Counters

\* ... takes it into the log, ...
LEMMA Ends ==
    ASSUME NEW points, {"log", "done", "raised"} \cap points = {}, Settled(run, points), WriteLog
    PROVE  Settled(run, points)' /\ run'.pc \in {"done", "raised"}
  <1>. DEFINE over == [Idle EXCEPT !.pc = "done", !.dry = run.dry, !.count = run.count,
                             !.fatal = run.fatal, !.handed = run.handed, !.wrote = run.wrote, !.pushed = run.pushed,
                             !.steady = run.steady, !.mem = run.mem,
                             !.clean = run.clean, !.calm = run.calm]
  <1>1. run.pc = "log" /\ Due(run, 0)
    BY DEF WriteLog, Settled
  <1>2. run' = over \/ run' = [over EXCEPT !.clean = FALSE] \/ run' = [[over EXCEPT !.pc = "raised"] EXCEPT !.clean = FALSE]
    BY DEF WriteLog, Well, Ill
  <1>3. DOMAIN Idle = DOMAIN over /\ {"pc", "count", "handed", "clean"} \subseteq DOMAIN Idle
    BY Zenon DEF Idle
  <1>4. over.pc = "done" /\ over.count = run.count /\ over.handed = run.handed
    BY DEF Idle
  <1>. HIDE DEF over
  <1>5. DOMAIN run' = DOMAIN over /\ run'.count = run.count /\ run'.handed = run.handed /\ run'.pc \in {"done", "raised"}
    BY <1>2, <1>3, <1>4
  <1>. QED BY <1>1, <1>3, <1>5 DEF Settled, Due, Shaped, Total

\* ... has one before it has ever run, ...
LEMMA Starts ==
    ASSUME NEW points, "idle" \notin points, run = Idle
    PROVE  Settled(run, points)
  BY DEF Settled, Due, Shaped, Total, Idle, Counters

\* ... and loses it when it is killed.
LEMMA Crashes ==
    ASSUME NEW points, "idle" \notin points, Ill(Idle)
    PROVE  Settled(run, points)' /\ run'.pc = "idle"
  <1>1. run' = [Idle EXCEPT !.clean = FALSE]
    BY DEF Ill
  <1>2. run'.pc = "idle" /\ DOMAIN run' = DOMAIN Idle /\ run'.count = Idle.count /\ run'.handed = Idle.handed
    BY <1>1 DEF Idle
  <1>. QED BY <1>2 DEF Settled, Due, Shaped, Total, Idle, Counters

-------------------------------------------------------------------------------
\* NagerDate: the points at which a record is in hand.
NGPoints == {"find", "apply"}

\* What NagerDate takes from ConnectorRun for the beginning and the end of a run is what is meant here.
LEMMA NGSame ==
    /\ \A start, todo : NG!Begin(start, todo) <=> Begin(start, todo)
    /\ NG!WriteLog <=> WriteLog
    /\ NG!Ill(NG!Idle) <=> Ill(Idle)
    /\ NG!Idle = Idle
  <1>1. NG!Idle = Idle
    BY DEF NG!Idle, Idle, NG!Nothing, Nothing, NG!NoRecord, NoRecord, NG!Counters, Counters
  <1>2. \A r : (NG!Well(r) <=> Well(r)) /\ (NG!Ill(r) <=> Ill(r))
    BY DEF NG!Well, Well, NG!Ill, Ill
  <1>3. \A start, todo : NG!Begin(start, todo) <=> Begin(start, todo)
    BY <1>1 DEF NG!Begin, Begin, NG!Ended, Ended
  <1>4. NG!WriteLog <=> WriteLog
    BY <1>1, <1>2 DEF NG!WriteLog, WriteLog, NG!Status, Status
  <1>. QED BY <1>1, <1>2, <1>3, <1>4

\* Every step of NagerDate leaves its account balanced.
LEMMA NGBalanced ==
    ASSUME Settled(run, NGPoints), NG!Next
    PROVE  Settled(run, NGPoints)'
  <1>shape. Shaped(run)
    BY Accounting
  <1>kinds. {"created", "updated", "skipped", "failed"} = Counters
    BY DEF Counters
  <1>1. ASSUME NG!Start PROVE Settled(run, NGPoints)'
    <2>1. PICK todo : Begin("next", todo)
      BY <1>1, NGSame DEF NG!Start
    <2>2. "next" \notin NGPoints
      BY DEF NGPoints
    <2>. QED BY <2>1, <2>2, Begins
  <1>2. ASSUME NG!FetchCalendar PROVE Settled(run, NGPoints)'
    <2>1. \/ Alike(run', run) /\ run'.pc = "next"
          \/ Both(run', run, "failed") /\ run'.pc = "next"
      BY <1>shape, <1>2 DEF NG!FetchCalendar, NG!Well, NG!Ill, NG!Failed, NG!TakenUp, NG!Onward,
             NG!Counted, Shaped, Alike, Both
    <2>. QED BY Accounting, <1>shape, <1>kinds, <1>2, <2>1 DEF NGPoints, NG!FetchCalendar
  <1>3. ASSUME NG!TakeHoliday PROVE Settled(run, NGPoints)'
    <2>1. \/ Both(run', run, "failed") /\ run'.pc = "next"
          \/ Took(run', run) /\ run'.pc = "find"
      BY <1>shape, <1>3 DEF NG!TakeHoliday, NG!Well, NG!Failed, NG!TakenUp, NG!Onward, NG!Counted,
             Shaped, Both, Took
    <2>. QED BY Accounting, <1>shape, <1>kinds, <1>3, <2>1 DEF NGPoints, NG!TakeHoliday
  <1>4. ASSUME NG!Find PROVE Settled(run, NGPoints)'
    <2>1. \/ Ticked(run', run, "failed") /\ run'.pc = "next"
          \/ Alike(run', run) /\ run'.pc = "apply"
      BY <1>shape, <1>4 DEF NG!Find, NG!Well, NG!Ill, NG!Failed, NG!Onward, NG!Counted, Shaped,
             Ticked, Alike
    <2>. QED BY Accounting, <1>shape, <1>kinds, <1>4, <2>1 DEF NGPoints, NG!Find
  <1>5. ASSUME NG!SyncHoliday PROVE Settled(run, NGPoints)'
    <2>. DEFINE fresh == NG!Event(run.at.key, run.at.hash)
                k == NG!Outcome(run.found, fresh)
    <2>. HIDE DEF fresh, k
    <2>1. k \in Counters
      BY DEF NG!Outcome, Counters, k
    <2>2. Ticked(run', run, "failed") \/ Ticked(run', run, k)
      BY <1>shape, <1>5, <2>1 DEF NG!SyncHoliday, NG!Onward, NG!Upsert, NG!Well, NG!Failed, NG!Counted,
             NG!Wrote, NG!Send, NG!Known, NG!Ill, Shaped, Ticked, k, fresh
    <2>3. run.pc = "apply" /\ run'.pc = "next"
      BY <1>shape, <1>5, <2>1 DEF NG!SyncHoliday, NG!Onward, NG!Upsert, NG!Well, NG!Failed, NG!Counted,
             NG!Wrote, NG!Send, NG!Known, NG!Ill, Shaped, k, fresh
    <2>. QED BY Accounting, <1>shape, <1>kinds, <2>1, <2>2, <2>3 DEF NGPoints
  <1>6. ASSUME NG!Finish PROVE Settled(run, NGPoints)'
    <2>1. Alike(run', run) /\ run'.pc = "log"
      BY <1>shape, <1>6 DEF NG!Finish, NG!Well, NG!Synced, Shaped, Alike
    <2>. QED BY Accounting, <1>shape, <1>kinds, <1>6, <2>1 DEF NGPoints, NG!Finish
  <1>7. ASSUME NG!WriteLog PROVE Settled(run, NGPoints)'
    BY <1>shape, <1>7, NGSame, Ends DEF NGPoints
  <1>8. ASSUME NG!Crash PROVE Settled(run, NGPoints)'
    BY <1>8, NGSame, Crashes DEF NG!Crash, NGPoints
  <1>9. ASSUME NG!OtherRun \/ NG!Republish PROVE Settled(run, NGPoints)'
    <2>1. Alike(run', run) /\ run'.pc = run.pc
      BY <1>shape, <1>9 DEF NG!OtherRun, NG!Republish, NG!Overlap, NG!Change, NG!Ill, Shaped, Alike
    <2>. QED BY Accounting, <1>shape, <2>1
  <1>. QED BY <1>1, <1>2, <1>3, <1>4, <1>5, <1>6, <1>7, <1>8, <1>9 DEF NG!Next, NG!Step

\* JsonPlaceholder: the points at which a record is in hand.
JPPoints == {"review", "find", "apply"}

\* What JsonPlaceholder takes from ConnectorRun for the beginning and the end of a run is what is meant here.
LEMMA JPSame ==
    /\ \A start, todo : JP!Begin(start, todo) <=> Begin(start, todo)
    /\ JP!WriteLog <=> WriteLog
    /\ JP!Ill(JP!Idle) <=> Ill(Idle)
    /\ JP!Idle = Idle
  <1>1. JP!Idle = Idle
    BY DEF JP!Idle, Idle, JP!Nothing, Nothing, JP!NoRecord, NoRecord, JP!Counters, Counters
  <1>2. \A r : (JP!Well(r) <=> Well(r)) /\ (JP!Ill(r) <=> Ill(r))
    BY DEF JP!Well, Well, JP!Ill, Ill
  <1>3. \A start, todo : JP!Begin(start, todo) <=> Begin(start, todo)
    BY <1>1 DEF JP!Begin, Begin, JP!Ended, Ended
  <1>4. JP!WriteLog <=> WriteLog
    BY <1>1, <1>2 DEF JP!WriteLog, WriteLog, JP!Status, Status
  <1>. QED BY <1>1, <1>2, <1>3, <1>4

\* Every step of JsonPlaceholder leaves its account balanced.
LEMMA JPBalanced ==
    ASSUME Settled(run, JPPoints), JP!Next
    PROVE  Settled(run, JPPoints)'
  <1>shape. Shaped(run)
    BY Accounting
  <1>kinds. {"created", "updated", "skipped", "failed"} = Counters
    BY DEF Counters
  <1>1. ASSUME JP!Start PROVE Settled(run, JPPoints)'
    <2>1. Begin("hosts", <<>>)
      BY <1>1, JPSame DEF JP!Start
    <2>2. "hosts" \notin JPPoints
      BY DEF JPPoints
    <2>. QED BY <2>1, <2>2, Begins
  <1>2. ASSUME JP!FetchUsers PROVE Settled(run, JPPoints)'
    <2>1. Alike(run', run) /\ run'.pc \in {"next", "log"}
      BY <1>shape, <1>2 DEF JP!FetchUsers, JP!Well, JP!Ill, JP!Aborted, Shaped, Alike
    <2>. QED BY Accounting, <1>shape, <1>kinds, <1>2, <2>1 DEF JPPoints, JP!FetchUsers
  <1>3. ASSUME JP!TakeUser PROVE Settled(run, JPPoints)'
    <2>1. \/ Both(run', run, "failed") /\ run'.pc = "next"
          \/ Took(run', run) /\ run'.pc = "find"
      BY <1>shape, <1>3 DEF JP!TakeUser, JP!Well, JP!Failed, JP!TakenUp, JP!Onward, JP!Counted,
             Shaped, Both, Took
    <2>. QED BY Accounting, <1>shape, <1>kinds, <1>3, <2>1 DEF JPPoints, JP!TakeUser
  <1>4. ASSUME JP!FetchPosts PROVE Settled(run, JPPoints)'
    <2>1. \/ Both(run', run, "failed") /\ run'.pc = "next"
          \/ Alike(run', run) /\ run'.pc = "next"
      BY ZenonT(60), <1>shape, <1>4 DEF JP!FetchPosts, JP!Well, JP!Ill, JP!Counted, Shaped, Both, Alike
    <2>. QED BY Accounting, <1>shape, <1>kinds, <1>4, <2>1 DEF JPPoints, JP!FetchPosts
  <1>5. ASSUME JP!TakePost PROVE Settled(run, JPPoints)'
    <2>1. \/ Both(run', run, "failed") /\ run'.pc = "next"
          \/ Took(run', run) /\ run'.pc \in {"find", "review"}
      BY ZenonT(60), <1>shape, <1>5 DEF JP!TakePost, JP!Well, JP!Ill, JP!Failed, JP!TakenUp, JP!Onward,
             JP!Counted, Shaped, Both, Took
    <2>. QED BY ZenonT(60), Accounting, <1>shape, <1>kinds, <1>5, <2>1 DEF JPPoints, JP!TakePost
  <1>6. ASSUME JP!ReviewPost PROVE Settled(run, JPPoints)'
    <2>1. \/ Ticked(run', run, "failed") /\ run'.pc = "next"
          \/ Alike(run', run) /\ run'.pc = "find"
      BY <1>shape, <1>6 DEF JP!ReviewPost, JP!Failed, JP!Raise, JP!Onward, JP!Counted, JP!Well,
             JP!Wrote, JP!Send, JP!Ill, Shaped, Ticked, Alike
    <2>. QED BY Accounting, <1>shape, <1>kinds, <1>6, <2>1 DEF JPPoints, JP!ReviewPost
  <1>7. ASSUME JP!Find PROVE Settled(run, JPPoints)'
    <2>1. \/ Ticked(run', run, "failed") /\ run'.pc = "next"
          \/ Alike(run', run) /\ run'.pc = "apply"
      BY <1>shape, <1>7 DEF JP!Find, JP!Well, JP!Ill, JP!Failed, JP!Onward, JP!Counted, Shaped,
             Ticked, Alike
    <2>. QED BY Accounting, <1>shape, <1>kinds, <1>7, <2>1 DEF JPPoints, JP!Find
  <1>8. ASSUME JP!SyncUser PROVE Settled(run, JPPoints)'
    <2>. DEFINE fresh == JP!Contact(run.at.key, run.at.hash)
                k == JP!Outcome(run.found, fresh)
    <2>. HIDE DEF fresh, k
    <2>1. k \in Counters
      BY DEF JP!Outcome, Counters, k
    <2>2. Ticked(run', run, "failed") \/ Ticked(run', run, k)
      BY ZenonT(60), <1>shape, <1>8, <2>1 DEF JP!SyncUser, JP!Onward, JP!Upsert, JP!Well, JP!Failed, JP!Counted,
             JP!Wrote, JP!Send, JP!Known, JP!Ill, Shaped, Ticked, k, fresh
    <2>3. run.pc = "apply" /\ run'.pc = "next"
      BY <1>shape, <1>8, <2>1 DEF JP!SyncUser, JP!Onward, JP!Upsert, JP!Well, JP!Failed, JP!Counted,
             JP!Wrote, JP!Send, JP!Known, JP!Ill, Shaped, k, fresh
    <2>. QED BY Accounting, <1>shape, <1>kinds, <2>1, <2>2, <2>3 DEF JPPoints
  <1>9. ASSUME JP!SyncPost PROVE Settled(run, JPPoints)'
    <2>. DEFINE fresh == [key |-> run.at.key, hash |-> run.at.hash, link |-> run.at.link]
                k == JP!Outcome(run.found, fresh)
    <2>. HIDE DEF fresh, k
    <2>1. k \in Counters
      BY DEF JP!Outcome, Counters, k
    <2>2. Ticked(run', run, "failed") \/ Ticked(run', run, k)
      BY <1>shape, <1>9, <2>1 DEF JP!SyncPost, JP!Onward, JP!Upsert, JP!Well, JP!Failed, JP!Counted,
             JP!Wrote, JP!Send, JP!Known, JP!Ill, Shaped, Ticked, k, fresh
    <2>3. run.pc = "apply" /\ run'.pc = "next"
      BY <1>shape, <1>9, <2>1 DEF JP!SyncPost, JP!Onward, JP!Upsert, JP!Well, JP!Failed, JP!Counted,
             JP!Wrote, JP!Send, JP!Known, JP!Ill, Shaped, k, fresh
    <2>. QED BY Accounting, <1>shape, <1>kinds, <2>1, <2>2, <2>3 DEF JPPoints
  <1>10. ASSUME JP!Demonstrate PROVE Settled(run, JPPoints)'
    <2>1. \/ Alike(run', run) /\ run'.pc = "log"
          \/ Both(run', run, "failed") /\ run'.pc = "log"
      BY <1>shape, <1>10 DEF JP!Demonstrate, JP!Well, JP!Ill, JP!Counted, JP!Synced, Shaped, Alike,
             Both
    <2>. QED BY Accounting, <1>shape, <1>kinds, <1>10, <2>1 DEF JPPoints, JP!Demonstrate
  <1>11. ASSUME JP!WriteLog PROVE Settled(run, JPPoints)'
    BY <1>shape, <1>11, JPSame, Ends DEF JPPoints
  <1>12. ASSUME JP!Crash PROVE Settled(run, JPPoints)'
    BY <1>12, JPSame, Crashes DEF JP!Crash, JPPoints
  <1>13. ASSUME JP!OtherRun \/ JP!Republish \/ JP!CloseReview PROVE Settled(run, JPPoints)'
    <2>1. Alike(run', run) /\ run'.pc = run.pc
      BY <1>shape, <1>13 DEF JP!OtherRun, JP!Republish, JP!CloseReview, JP!Overlap, JP!Change, JP!Ill,
             Shaped, Alike
    <2>. QED BY Accounting, <1>shape, <2>1
  <1>. QED BY <1>1, <1>2, <1>3, <1>4, <1>5, <1>6, <1>7, <1>8, <1>9, <1>10, <1>11, <1>12, <1>13
     DEF JP!Next, JP!Step

\* OpenMeteo: the points at which a record is in hand.
OMPoints == {"review", "fetch", "write"}

\* What OpenMeteo takes from ConnectorRun for the beginning and the end of a run is what is meant here.
LEMMA OMSame ==
    /\ \A start, todo : OM!Begin(start, todo) <=> Begin(start, todo)
    /\ OM!WriteLog <=> WriteLog
    /\ OM!Ill(OM!Idle) <=> Ill(Idle)
    /\ OM!Idle = Idle
  <1>1. OM!Idle = Idle
    BY DEF OM!Idle, Idle, OM!Nothing, Nothing, OM!NoRecord, NoRecord, OM!Counters, Counters
  <1>2. \A r : (OM!Well(r) <=> Well(r)) /\ (OM!Ill(r) <=> Ill(r))
    BY DEF OM!Well, Well, OM!Ill, Ill
  <1>3. \A start, todo : OM!Begin(start, todo) <=> Begin(start, todo)
    BY <1>1 DEF OM!Begin, Begin, OM!Ended, Ended
  <1>4. OM!WriteLog <=> WriteLog
    BY <1>1, <1>2 DEF OM!WriteLog, WriteLog, OM!Status, Status
  <1>. QED BY <1>1, <1>2, <1>3, <1>4

\* Every step of OpenMeteo leaves its account balanced.
LEMMA OMBalanced ==
    ASSUME Settled(run, OMPoints), OM!Next
    PROVE  Settled(run, OMPoints)'
  <1>shape. Shaped(run)
    BY Accounting
  <1>kinds. {"created", "updated", "skipped", "failed"} = Counters
    BY DEF Counters
  <1>1. ASSUME OM!Start PROVE Settled(run, OMPoints)'
    <2>1. Begin("select", <<>>)
      BY <1>1, OMSame DEF OM!Start
    <2>2. "select" \notin OMPoints
      BY DEF OMPoints
    <2>. QED BY <2>1, <2>2, Begins
  <1>2. ASSUME OM!Select PROVE Settled(run, OMPoints)'
    <2>1. Alike(run', run) /\ run'.pc \in {"next", "log"}
      BY <1>shape, <1>2 DEF OM!Select, OM!Well, OM!Ill, OM!Aborted, Shaped, Alike
    <2>. QED BY Accounting, <1>shape, <1>kinds, <1>2, <2>1 DEF OMPoints, OM!Select
  <1>3. ASSUME OM!TakePartner PROVE Settled(run, OMPoints)'
    <2>1. \/ Both(run', run, "failed") /\ run'.pc = "next"
          \/ Took(run', run) /\ run'.pc \in {"review", "fetch"}
      BY <1>shape, <1>3 DEF OM!TakePartner, OM!Well, OM!Failed, OM!TakenUp, OM!Onward, OM!Counted,
             Shaped, Both, Took
    <2>. QED BY Accounting, <1>shape, <1>kinds, <1>3, <2>1 DEF OMPoints, OM!TakePartner
  <1>4. ASSUME OM!ReviewPartner PROVE Settled(run, OMPoints)'
    <2>. DEFINE q == OM!Onward(OM!Counted(run, "skipped"))
    <2>2. Ticked(q, run, "skipped") /\ q.pc = "next"
      BY <1>shape DEF OM!Onward, OM!Counted, Shaped, Ticked
    <2>. HIDE DEF q
    <2>3. Alike(run', q) /\ run'.pc = "next"
      BY <1>shape, <1>4, <2>2
         DEF OM!ReviewPartner, OM!Raise, OM!Send, OM!Well, OM!Ill, OM!Wrote, Shaped, Ticked, Alike, q
    <2>1. Ticked(run', run, "skipped") /\ run'.pc = "next"
      BY <2>2, <2>3 DEF Ticked, Alike
    <2>. QED BY Accounting, <1>shape, <1>kinds, <1>4, <2>1 DEF OMPoints, OM!ReviewPartner
  <1>5. ASSUME OM!FetchDays PROVE Settled(run, OMPoints)'
    <2>1. \/ Ticked(run', run, "failed") /\ run'.pc = "next"
          \/ Ticked(run', run, "skipped") /\ run'.pc = "next"
          \/ Alike(run', run) /\ run'.pc = "write"
      BY <1>shape, <1>5 DEF OM!FetchDays, OM!Well, OM!Ill, OM!Failed, OM!Onward, OM!Counted, Shaped,
             Ticked, Alike
    <2>. QED BY Accounting, <1>shape, <1>kinds, <1>5, <2>1 DEF OMPoints, OM!FetchDays
  <1>6. ASSUME OM!Write PROVE Settled(run, OMPoints)'
    <2>. DEFINE k == IF run.at.stored = OM!NoForecast THEN "created" ELSE "updated"
    <2>2. k \in Counters
      BY DEF Counters
    <2>. HIDE DEF k
    <2>3. Ticked(run', run, "failed") \/ Ticked(run', run, k)
      BY <1>shape, <1>6
         DEF OM!Write, OM!Send, OM!Failed, OM!Counted, OM!Onward, OM!Well, OM!Ill, OM!Wrote, Shaped, Ticked, k
    <2>4. run'.pc = "next"
      BY <1>shape, <1>6
         DEF OM!Write, OM!Send, OM!Failed, OM!Counted, OM!Onward, OM!Well, OM!Ill, OM!Wrote, Shaped, k
    <2>1. (\E i \in Counters : Ticked(run', run, i)) /\ run'.pc = "next"
      BY <1>kinds, <2>2, <2>3, <2>4
    <2>. QED BY Accounting, <1>shape, <1>kinds, <1>6, <2>1 DEF OMPoints, OM!Write
  <1>7. ASSUME OM!Finish PROVE Settled(run, OMPoints)'
    <2>1. Alike(run', run) /\ run'.pc = "log"
      BY <1>shape, <1>7 DEF OM!Finish, OM!Well, OM!Synced, Shaped, Alike
    <2>. QED BY Accounting, <1>shape, <1>kinds, <1>7, <2>1 DEF OMPoints, OM!Finish
  <1>8. ASSUME OM!WriteLog PROVE Settled(run, OMPoints)'
    BY <1>shape, <1>8, OMSame, Ends DEF OMPoints
  <1>9. ASSUME OM!Crash PROVE Settled(run, OMPoints)'
    BY <1>9, OMSame, Crashes DEF OM!Crash, OMPoints
  <1>10. ASSUME OM!OtherRun \/ OM!NewForecast \/ OM!Move \/ OM!CloseReview PROVE Settled(run, OMPoints)'
    <2>1. Alike(run', run) /\ run'.pc = run.pc
      BY <1>shape, <1>10 DEF OM!OtherRun, OM!NewForecast, OM!Move, OM!CloseReview, OM!Change, OM!Ill,
             Shaped, Alike
    <2>. QED BY Accounting, <1>shape, <2>1
  <1>. QED BY <1>1, <1>2, <1>3, <1>4, <1>5, <1>6, <1>7, <1>8, <1>9, <1>10 DEF OM!Next, OM!Step

\* Frankfurter: the points at which a record is in hand.
FFPoints == {"review", "activate", "prior", "search", "store"}

\* What Frankfurter takes from ConnectorRun for the beginning and the end of a run is what is meant here.
LEMMA FFSame ==
    /\ \A start, todo : FF!Begin(start, todo) <=> Begin(start, todo)
    /\ FF!WriteLog <=> WriteLog
    /\ FF!Ill(FF!Idle) <=> Ill(Idle)
    /\ FF!Idle = Idle
  <1>1. FF!Idle = Idle
    BY DEF FF!Idle, Idle, FF!Nothing, Nothing, FF!NoRecord, NoRecord, FF!Counters, Counters
  <1>2. \A r : (FF!Well(r) <=> Well(r)) /\ (FF!Ill(r) <=> Ill(r))
    BY DEF FF!Well, Well, FF!Ill, Ill
  <1>3. \A start, todo : FF!Begin(start, todo) <=> Begin(start, todo)
    BY <1>1 DEF FF!Begin, Begin, FF!Ended, Ended
  <1>4. FF!WriteLog <=> WriteLog
    BY <1>1, <1>2 DEF FF!WriteLog, WriteLog, FF!Status, Status
  <1>. QED BY <1>1, <1>2, <1>3, <1>4

\* Every step of Frankfurter leaves its account balanced.
LEMMA FFBalanced ==
    ASSUME Settled(run, FFPoints), FF!Next
    PROVE  Settled(run, FFPoints)'
  <1>shape. Shaped(run)
    BY Accounting
  <1>kinds. {"created", "updated", "skipped", "failed"} = Counters
    BY DEF Counters
  <1>1. ASSUME FF!Start PROVE Settled(run, FFPoints)'
    <2>1. Begin("quotes", <<>>)
      BY <1>1, FFSame DEF FF!Start
    <2>2. "quotes" \notin FFPoints
      BY DEF FFPoints
    <2>. QED BY <2>1, <2>2, Begins
  <1>2. ASSUME FF!FetchQuotes PROVE Settled(run, FFPoints)'
    <2>1. \/ Alike(run', run) /\ run'.pc \in {"next", "log"}
          \/ Both(run', run, "skipped") /\ run'.pc = "next"
      BY <1>shape, <1>2 DEF FF!FetchQuotes, FF!Well, FF!Ill, FF!Counted, FF!Aborted, Shaped, Alike,
             Both
    <2>. QED BY Accounting, <1>shape, <1>kinds, <1>2, <2>1 DEF FFPoints, FF!FetchQuotes
  <1>3. ASSUME FF!TakeQuote PROVE Settled(run, FFPoints)'
    <2>1. \/ Both(run', run, "failed") /\ run'.pc = "next"
          \/ Took(run', run) /\ run'.pc \in {"review", "activate", "prior"}
      BY <1>shape, <1>3 DEF FF!TakeQuote, FF!Well, FF!Failed, FF!TakenUp, FF!Onward, FF!Counted,
             Shaped, Both, Took
    <2>. QED BY Accounting, <1>shape, <1>kinds, <1>3, <2>1 DEF FFPoints, FF!TakeQuote
  <1>4. ASSUME FF!ReviewCurrency PROVE Settled(run, FFPoints)'
    <2>1. Ticked(run', run, "failed") /\ run'.pc = "next"
      BY <1>shape, <1>4 DEF FF!ReviewCurrency, FF!Failed, FF!Raise, FF!Onward, FF!Counted, FF!Well,
             FF!Wrote, FF!Send, FF!Ill, Shaped, Ticked
    <2>. QED BY Accounting, <1>shape, <1>kinds, <1>4, <2>1 DEF FFPoints, FF!ReviewCurrency
  <1>5. ASSUME FF!Activate PROVE Settled(run, FFPoints)'
    <2>1. \/ Alike(run', run) /\ run'.pc = "prior"
          \/ Ticked(run', run, "failed") /\ run'.pc = "next"
      <3>1. CASE run.dry
        BY <1>shape, <1>5, <3>1 DEF FF!Activate, FF!Well, Shaped, Alike
      <3>2. CASE ~run.dry
        BY <1>shape, <1>5, <3>2
           DEF FF!Activate, FF!Send, FF!Failed, FF!Counted, FF!Onward, FF!Well, FF!Ill, FF!Wrote,
                                Shaped, Alike, Ticked
      <3>. QED BY <3>1, <3>2
    <2>. QED BY Accounting, <1>shape, <1>kinds, <1>5, <2>1 DEF FFPoints, FF!Activate
  <1>6. ASSUME FF!ComparePrior PROVE Settled(run, FFPoints)'
    <2>1. \/ Alike(run', run) /\ run'.pc \in {"review", "search"}
          \/ Ticked(run', run, "failed") /\ run'.pc = "next"
      BY <1>shape, <1>6 DEF FF!ComparePrior, FF!Well, FF!Ill, FF!Failed, FF!Onward, FF!Counted,
             Shaped, Alike, Ticked
    <2>. QED BY Accounting, <1>shape, <1>kinds, <1>6, <2>1 DEF FFPoints, FF!ComparePrior
  <1>7. ASSUME FF!ReviewRate PROVE Settled(run, FFPoints)'
    <2>. DEFINE q == FF!Onward(FF!Counted([run EXCEPT !.mem = {}], "skipped"))
    <2>2. Ticked(q, run, "skipped") /\ q.pc = "next"
      BY <1>shape DEF FF!Onward, FF!Counted, Shaped, Ticked
    <2>. HIDE DEF q
    <2>3. Alike(run', q) /\ run'.pc = "next"
      BY <1>shape, <1>7, <2>2
         DEF FF!ReviewRate, FF!Raise, FF!Send, FF!Well, FF!Ill, FF!Wrote, Shaped, Ticked, Alike, q
    <2>1. Ticked(run', run, "skipped") /\ run'.pc = "next"
      BY <2>2, <2>3 DEF Ticked, Alike
    <2>. QED BY Accounting, <1>shape, <1>kinds, <1>7, <2>1 DEF FFPoints, FF!ReviewRate
  <1>8. ASSUME FF!SearchRate PROVE Settled(run, FFPoints)'
    <2>1. \/ Alike(run', run) /\ run'.pc = "store"
          \/ Ticked(run', run, "failed") /\ run'.pc = "next"
      BY <1>shape, <1>8 DEF FF!SearchRate, FF!Well, FF!Ill, FF!Failed, FF!Onward, FF!Counted, Shaped,
             Alike, Ticked
    <2>. QED BY Accounting, <1>shape, <1>kinds, <1>8, <2>1 DEF FFPoints, FF!SearchRate
  <1>9. ASSUME FF!Create PROVE Settled(run, FFPoints)'
    <2>1. \/ Ticked(run', run, "created") /\ run'.pc = "next"
          \/ Ticked(run', run, "skipped") /\ run'.pc = "next"
          \/ Ticked(run', run, "failed") /\ run'.pc = "next"
      BY <1>shape, <1>9 DEF FF!Create, FF!Well, FF!Ill, FF!Failed, FF!Onward, FF!Counted, FF!Wrote,
             Shaped, Ticked
    <2>. QED BY Accounting, <1>shape, <1>kinds, <1>9, <2>1 DEF FFPoints, FF!Create
  <1>10. ASSUME FF!Replace PROVE Settled(run, FFPoints)'
    <2>1. \/ Ticked(run', run, "skipped") /\ run'.pc = "next"
          \/ Ticked(run', run, "updated") /\ run'.pc = "next"
          \/ Ticked(run', run, "failed") /\ run'.pc = "next"
      BY <1>shape, <1>10 DEF FF!Replace, FF!Well, FF!Failed, FF!Onward, FF!Counted, FF!Wrote, FF!Send,
             FF!Ill, Shaped, Ticked
    <2>. QED BY Accounting, <1>shape, <1>kinds, <1>10, <2>1 DEF FFPoints, FF!Replace
  <1>11. ASSUME FF!Finish PROVE Settled(run, FFPoints)'
    <2>1. Alike(run', run) /\ run'.pc = "log"
      BY <1>shape, <1>11 DEF FF!Finish, FF!Well, FF!Synced, Shaped, Alike
    <2>. QED BY Accounting, <1>shape, <1>kinds, <1>11, <2>1 DEF FFPoints, FF!Finish
  <1>12. ASSUME FF!WriteLog PROVE Settled(run, FFPoints)'
    BY <1>shape, <1>12, FFSame, Ends DEF FFPoints
  <1>13. ASSUME FF!Crash PROVE Settled(run, FFPoints)'
    BY <1>13, FFSame, Crashes DEF FF!Crash, FFPoints
  <1>14. ASSUME FF!OtherRun \/ FF!Quote \/ FF!Administer \/ FF!Approve \/ FF!CloseReview PROVE Settled(run, FFPoints)'
    <2>1. Alike(run', run) /\ run'.pc = run.pc
      BY <1>shape, <1>14 DEF FF!OtherRun, FF!Quote, FF!Administer, FF!Approve, FF!CloseReview,
             FF!Change, FF!Ill, Shaped, Alike
    <2>. QED BY Accounting, <1>shape, <2>1
  <1>. QED BY <1>1, <1>2, <1>3, <1>4, <1>5, <1>6, <1>7, <1>8, <1>9, <1>10, <1>11, <1>12, <1>13,
    <1>14 DEF FF!Next, FF!Step

\* GitHub: the points at which a record is in hand.
GHPoints == {"review", "find", "apply", "adopt"}

GHSettled == Settled(run, GHPoints) /\ (run.pc = "fetch" => run.handed = 0)

\* What GitHub takes from ConnectorRun for the beginning and the end of a run is what is meant here.
LEMMA GHSame ==
    /\ \A start, todo : GH!Begin(start, todo) <=> Begin(start, todo)
    /\ GH!WriteLog <=> WriteLog
    /\ GH!Ill(GH!Idle) <=> Ill(Idle)
    /\ GH!Idle = Idle
  <1>1. GH!Idle = Idle
    BY DEF GH!Idle, Idle, GH!Nothing, Nothing, GH!NoRecord, NoRecord, GH!Counters, Counters
  <1>2. \A r : (GH!Well(r) <=> Well(r)) /\ (GH!Ill(r) <=> Ill(r))
    BY DEF GH!Well, Well, GH!Ill, Ill
  <1>3. \A start, todo : GH!Begin(start, todo) <=> Begin(start, todo)
    BY <1>1 DEF GH!Begin, Begin, GH!Ended, Ended
  <1>4. GH!WriteLog <=> WriteLog
    BY <1>1, <1>2 DEF GH!WriteLog, WriteLog, GH!Status, Status
  <1>. QED BY <1>1, <1>2, <1>3, <1>4

\* Every step of GitHub leaves its account balanced.
LEMMA GHBalanced ==
    ASSUME GHSettled, GH!Next
    PROVE  GHSettled'
  <1>shape. Shaped(run) /\ Settled(run, GHPoints)
    BY Accounting DEF GHSettled
  <1>kinds. {"created", "updated", "skipped", "failed"} = Counters
    BY DEF Counters
  <1>1. ASSUME GH!Start PROVE GHSettled'
    <2>1. Begin("fetch", <<>>)
      BY <1>1, GHSame DEF GH!Start
    <2>2. "fetch" \notin GHPoints
      BY DEF GHPoints
    <2>. QED BY <2>1, <2>2, Begins DEF GHSettled
  <1>2. ASSUME GH!FetchIssues PROVE GHSettled'
    <2>. DEFINE q == GH!Counted(run, "skipped")
    <2>2. Ticked(q, run, "skipped") /\ run.handed = 0
      BY <1>shape, <1>2 DEF GH!FetchIssues, GH!Counted, Shaped, Ticked, GHSettled
    <2>. HIDE DEF q
    <2>1. \/ Both(run', run, "skipped") /\ run'.pc = "project"
          \/ Alike(run', run) /\ run'.pc = "log"
      <3>1. CASE GH!Ill(GH!Aborted(run))
        BY <1>shape, <3>1 DEF GH!Ill, GH!Aborted, Alike, Shaped
      <3>2. CASE ~GH!Ill(GH!Aborted(run))
        <4>1. DOMAIN run' = DOMAIN q /\ run'.count = q.count /\ run'.handed = 1 /\ run'.pc = "project"
          BY <1>shape, <1>2, <3>2, <2>2 DEF GH!FetchIssues, GH!Well, Shaped, Ticked, q
        <4>. QED BY <2>2, <4>1 DEF Ticked, Both
      <3>. QED BY <3>1, <3>2
    <2>. QED BY Accounting, <1>shape, <1>kinds, <1>2, <2>1 DEF GHPoints, GHSettled, GH!FetchIssues
  <1>3. ASSUME GH!EnsureProject PROVE GHSettled'
    <2>1. Alike(run', run) /\ run'.pc \in {"preload", "log"}
      BY <1>shape, <1>3 DEF GH!EnsureProject, GH!Well, GH!Ill, GH!Wrote, GH!Aborted, GH!Send, Shaped,
             Alike
    <2>. QED BY Accounting, <1>shape, <1>kinds, <1>3, <2>1 DEF GHPoints, GHSettled, GH!EnsureProject
  <1>4. ASSUME GH!Preload PROVE GHSettled'
    <2>1. Alike(run', run) /\ run'.pc = "next"
      BY <1>shape, <1>4 DEF GH!Preload, GH!Well, GH!Ill, Shaped, Alike
    <2>. QED BY Accounting, <1>shape, <1>kinds, <1>4, <2>1 DEF GHPoints, GHSettled, GH!Preload
  <1>5. ASSUME GH!TakeIssue PROVE GHSettled'
    <2>1. \/ Took(run', run) /\ run'.pc \in {"review", "find"}
          \/ Both(run', run, "failed") /\ run'.pc = "next"
      BY <1>shape, <1>5 DEF GH!TakeIssue, GH!Well, GH!Ill, GH!Failed, GH!TakenUp, GH!Phase, GH!Onward,
             GH!Counted, Shaped, Took, Both
    <2>. QED BY Accounting, <1>shape, <1>kinds, <1>5, <2>1 DEF GHPoints, GHSettled, GH!TakeIssue, GH!Phase
  <1>6. ASSUME GH!ReviewIssue PROVE GHSettled'
    <2>. DEFINE q == GH!Noted(GH!Counted(run, "skipped"), GH!EmptyBag, "skipped", 0)
    <2>2. Ticked(q, run, "skipped") /\ q.pc = "next"
      BY <1>shape DEF GH!Noted, GH!Onward, GH!Counted, Shaped, Ticked
    <2>. HIDE DEF q
    <2>3. Alike(run', q) /\ run'.pc = "next"
      BY <1>shape, <1>6, <2>2
         DEF GH!ReviewIssue, GH!Raise, GH!Send, GH!Well, GH!Ill, GH!Wrote, Shaped, Ticked, Alike, q
    <2>1. Ticked(run', run, "skipped") /\ run'.pc = "next"
      BY <2>2, <2>3 DEF Ticked, Alike
    <2>. QED BY Accounting, <1>shape, <1>kinds, <1>6, <2>1 DEF GHPoints, GHSettled, GH!ReviewIssue
  <1>7. ASSUME GH!Find PROVE GHSettled'
    <2>1. \/ Ticked(run', run, "failed") /\ run'.pc = "next"
          \/ Alike(run', run) /\ run'.pc = "apply"
      BY <1>shape, <1>7 DEF GH!Find, GH!Well, GH!Ill, GH!Failed, GH!Onward, GH!Counted, Shaped,
             Ticked, Alike
    <2>. QED BY Accounting, <1>shape, <1>kinds, <1>7, <2>1 DEF GHPoints, GHSettled, GH!Find
  <1>8. ASSUME GH!SyncIssue PROVE GHSettled'
    <2>. DEFINE fresh == GH!Task(run.at.key, run.at.text, run.at.thread)
                k == GH!Outcome(run.found, fresh)
    <2>. HIDE DEF fresh, k
    <2>1. k \in Counters
      BY SMTT(30) DEF GH!Outcome, Counters, k
    <2>2. Ticked(run', run, "failed") \/ Ticked(run', run, k)
      BY ZenonT(60), <1>shape, <1>8, <2>1 DEF GH!SyncIssue, GH!Noted, GH!Upsert, GH!Onward, GH!Well, GH!Failed,
             GH!Counted, GH!Wrote, GH!Send, GH!Known, GH!Ill, Shaped, Ticked, k, fresh
    <2>3. run.pc = "apply" /\ run'.pc = "next"
      BY <1>shape, <1>8, <2>1 DEF GH!SyncIssue, GH!Noted, GH!Upsert, GH!Onward, GH!Well, GH!Failed,
             GH!Counted, GH!Wrote, GH!Send, GH!Known, GH!Ill, Shaped, k, fresh
    <2>. QED BY Accounting, <1>shape, <1>kinds, <2>1, <2>2, <2>3 DEF GHPoints, GHSettled
  <1>9. ASSUME GH!IdentifyUpdates PROVE GHSettled'
    <2>1. Alike(run', run) /\ run'.pc \in {"next", "log"}
      BY <1>shape, <1>9 DEF GH!IdentifyUpdates, GH!Well, GH!Ill, GH!Aborted, GH!Over, Shaped, Alike
    <2>. QED BY Accounting, <1>shape, <1>kinds, <1>9, <2>1 DEF GHPoints, GHSettled, GH!IdentifyUpdates, GH!Over
  <1>10. ASSUME GH!PushUpdate PROVE GHSettled'
    <2>1. \/ Both(run', run, "skipped") /\ run'.pc = "next"
          \/ Both(run', run, "updated") /\ run'.pc = "next"
          \/ Both(run', run, "failed") /\ run'.pc = "next"
      BY ZenonT(60), <1>shape, <1>10 DEF GH!PushUpdate, GH!Well, GH!Failed, GH!TakenUp, GH!Onward, GH!Counted,
             GH!Send, GH!Withheld, GH!Pushed, GH!Phase, GH!Ill, GH!Wrote, Shaped, Both
    <2>. QED BY Accounting, <1>shape, <1>kinds, <1>10, <2>1 DEF GHPoints, GHSettled, GH!PushUpdate, GH!Phase
  <1>11. ASSUME GH!SelectThreads PROVE GHSettled'
    <2>1. Alike(run', run) /\ run'.pc = "next"
      BY <1>shape, <1>11 DEF GH!SelectThreads, GH!Well, GH!Over, Shaped, Alike
    <2>. QED BY Accounting, <1>shape, <1>kinds, <1>11, <2>1 DEF GHPoints, GHSettled, GH!SelectThreads, GH!Over
  <1>12. ASSUME GH!ReadChatter PROVE GHSettled'
    <2>1. Alike(run', run) /\ run'.pc = "next"
      BY <1>shape, <1>12 DEF GH!ReadChatter, GH!Well, GH!Ill, GH!Phase, Shaped, Alike
    <2>. QED BY Accounting, <1>shape, <1>kinds, <1>12, <2>1 DEF GHPoints, GHSettled, GH!ReadChatter, GH!Phase
  <1>13. ASSUME GH!PushComment PROVE GHSettled'
    <2>1. \/ Both(run', run, "skipped") /\ run'.pc = "next"
          \/ Both(run', run, "updated") /\ run'.pc = "next"
          \/ Both(run', run, "failed") /\ run'.pc = "next"
      BY ZenonT(60), <1>shape, <1>13 DEF GH!PushComment, GH!Well, GH!Failed, GH!TakenUp, GH!Onward, GH!Counted,
             GH!Send, GH!Withheld, GH!Pushed, GH!Phase, GH!Ill, GH!Wrote, Shaped, Both
    <2>. QED BY Accounting, <1>shape, <1>kinds, <1>13, <2>1 DEF GHPoints, GHSettled, GH!PushComment, GH!Phase
  <1>14. ASSUME GH!ListTasks PROVE GHSettled'
    <2>1. Alike(run', run) /\ run'.pc = "next"
      BY <1>shape, <1>14 DEF GH!ListTasks, GH!Well, GH!Ill, GH!Over, Shaped, Alike
    <2>. QED BY Accounting, <1>shape, <1>kinds, <1>14, <2>1 DEF GHPoints, GHSettled, GH!ListTasks, GH!Over
  <1>15. ASSUME GH!PushTask PROVE GHSettled'
    <2>1. \/ Both(run', run, "skipped") /\ run'.pc = "next"
          \/ Both(run', run, "failed") /\ run'.pc = "next"
          \/ Both(run', run, "created") /\ run'.pc = "next"
          \/ Took(run', run) /\ run'.pc = "adopt"
      BY ZenonT(60), <1>shape, <1>15 DEF GH!PushTask, GH!Well, GH!Ill, GH!Failed, GH!TakenUp, GH!Onward,
             GH!Counted, GH!Send, GH!Withheld, GH!Pushed, GH!Phase, GH!Wrote, Shaped,
             Both, Took
    <2>. QED BY Accounting, <1>shape, <1>kinds, <1>15, <2>1 DEF GHPoints, GHSettled, GH!PushTask, GH!Phase
  <1>16. ASSUME GH!Adopt PROVE GHSettled'
    <2>1. \/ Ticked(run', run, "created") /\ run'.pc = "next"
          \/ Ticked(run', run, "failed") /\ run'.pc = "next"
      BY <1>shape, <1>16 DEF GH!Adopt, GH!Failed, GH!Onward, GH!Counted, GH!Send, GH!Well, GH!Ill,
             Shaped, Ticked
    <2>. QED BY Accounting, <1>shape, <1>kinds, <1>16, <2>1 DEF GHPoints, GHSettled, GH!Adopt
  <1>17. ASSUME GH!Finish PROVE GHSettled'
    <2>1. Alike(run', run) /\ run'.pc = "log"
      BY <1>shape, <1>17 DEF GH!Finish, GH!Well, GH!Synced, GH!Over, Shaped, Alike
    <2>. QED BY Accounting, <1>shape, <1>kinds, <1>17, <2>1 DEF GHPoints, GHSettled, GH!Finish, GH!Over
  <1>18. ASSUME GH!WriteLog PROVE GHSettled'
    BY <1>shape, <1>18, GHSame, Ends DEF GHPoints, GHSettled
  <1>19. ASSUME GH!Crash PROVE GHSettled'
    BY <1>19, GHSame, Crashes DEF GH!Crash, GHPoints, GHSettled
  <1>20. ASSUME GH!OtherRun \/ GH!EditIssue \/ GH!EditTask \/ GH!CloseReview PROVE GHSettled'
    <2>1. Alike(run', run) /\ run'.pc = run.pc
      BY <1>shape, <1>20 DEF GH!OtherRun, GH!EditIssue, GH!EditTask, GH!CloseReview, GH!Overlap,
             GH!Change, GH!Ill, Shaped, Alike
    <2>. QED BY SMTT(30), Accounting, <1>shape, <2>1 DEF Alike, GHSettled
  <1>. QED BY <1>1, <1>2, <1>3, <1>4, <1>5, <1>6, <1>7, <1>8, <1>9, <1>10, <1>11, <1>12, <1>13,
    <1>14, <1>15, <1>16, <1>17, <1>18, <1>19, <1>20 DEF GH!Next, GH!Step

-------------------------------------------------------------------------------
\* The account of the connector at work is balanced.
AccountBalanced ==
    /\ provider = "nager_date"      => Settled(run, NGPoints)
    /\ provider = "jsonplaceholder" => Settled(run, JPPoints)
    /\ provider = "open_meteo"      => Settled(run, OMPoints)
    /\ provider = "frankfurter"     => Settled(run, FFPoints)
    /\ provider = "github"          => GHSettled

AccountInv == provider \in Providers /\ AccountBalanced

\* Every record that a run of any of the five connectors takes up moves exactly one of the
\* four counters by one, whatever fails, is lost, repeated or overlaps (SyncResult).
THEOREM RecordsCountedOnce == Spec => []AccountedOnce
  <1>1. Init => AccountInv
    <2>. SUFFICES ASSUME Init PROVE AccountInv
      OBVIOUS
    <2>1. run = Idle /\ provider \in Providers
      BY NGSame, JPSame, OMSame, FFSame, GHSame
      DEF Init, NG!Init, JP!Init, OM!Init, FF!Init, GH!Init, NG!RunInit, JP!RunInit, OM!RunInit, FF!RunInit,
          GH!RunInit, Providers
    <2>2. Idle.pc = "idle"
      BY DEF Idle
    <2>. QED BY <2>1, <2>2, Starts
       DEF AccountInv, AccountBalanced, GHSettled, NGPoints, JPPoints, OMPoints, FFPoints, GHPoints
  <1>2. AccountInv /\ [Next]_<<vars, provider>> => AccountInv'
    <2>. SUFFICES ASSUME AccountInv, [Next]_<<vars, provider>> PROVE AccountInv'
      OBVIOUS
    <2>1. CASE NagerDate
      BY <2>1, NGBalanced DEF NagerDate, AccountInv, AccountBalanced
    <2>2. CASE JsonPlaceholder
      BY <2>2, JPBalanced DEF JsonPlaceholder, AccountInv, AccountBalanced
    <2>3. CASE OpenMeteo
      BY <2>3, OMBalanced DEF OpenMeteo, AccountInv, AccountBalanced
    <2>4. CASE Frankfurter
      BY <2>4, FFBalanced DEF Frankfurter, AccountInv, AccountBalanced
    <2>5. CASE GitHub
      BY <2>5, GHBalanced DEF GitHub, AccountInv, AccountBalanced
    <2>6. CASE UNCHANGED <<vars, provider>>
      BY <2>6 DEF vars, AccountInv, AccountBalanced, GHSettled, Settled, Due, Shaped, Total
    <2>. QED BY <2>1, <2>2, <2>3, <2>4, <2>5, <2>6 DEF Next
  <1>3. AccountInv => AccountedOnce
    <2>. SUFFICES ASSUME AccountInv, run.pc \in {"next", "log", "done", "raised"} PROVE Due(run, 0)
      BY DEF AccountedOnce, Due, Shaped, Total, Counters
    <2>. QED
      BY
         DEF AccountInv, AccountBalanced, GHSettled, Settled, Providers,
             NGPoints, JPPoints, OMPoints, FFPoints, GHPoints
  <1>. QED BY <1>1, <1>2, <1>3, PTL DEF Spec
-------------------------------------------------------------------------------
\* The state of Frankfurter: what the provider and Odoo have, and what a run takes from them.
FFSource == source \in [quote : [Currencies -> Nat], date : Nat, divisor : Nat, isBase : BOOLEAN,
                        currency : [Currencies -> FF!Currency]]
FFRates  == [key : Currencies \X Nat, hash : Nat, by : {"sync", "hand"}]
FFQuotes == [key : Currencies \X Nat, state : FF!Currency, hash : Nat]

\* There is one rate of a currency for a date.
FFKeys == \A i, j \in 1..Len(odoo) : odoo[i].key = odoo[j].key => i = j

\* Nothing is dated after d, except by the provider.
FFLate(d) ==
    /\ d \in Nat /\ d <= source.date
    /\ \A i \in 1..Len(odoo) : odoo[i].key[2] <= d
    /\ \A k \in FF!BagToSet(reviews) :
        Len(k) = 3 => k[1] \in Currencies \X Nat /\ k[1][2] <= d /\ k[3] \in Nat

\* Rate h is no leap from the synchronised rate before date d.
FFSlow(c, d, h) ==
    \A p \in 1..Len(odoo) : FF!IsPrior(p, c, d) /\ odoo[p].by = "sync" => ~FF!Leaps(h, odoo[p].hash)

FFWorld(d) == FFSource /\ odoo \in Seq(FFRates) /\ FFKeys /\ FFLate(d) /\ FF!RatesMoveSlowly

\* All quotes of a run are of one date, and since its rate was compared, the one in hand
\* may be stored.
FFRun(d) ==
    /\ {"pc", "todo", "at", "found"} \subseteq DOMAIN run
    /\ run.todo \in Seq(FFQuotes) /\ \A n \in 1..Len(run.todo) : run.todo[n].key[2] = d
    /\ run.pc \in FFPoints => run.at \in FFQuotes /\ run.at.key[2] = d
    /\ run.pc \in {"search", "store"} => FFSlow(run.at.key[1], d, run.at.hash)
    /\ run.pc = "store" /\ run.found # FF!NoRecord =>
        run.found.id \in 1..Len(odoo) /\ odoo[run.found.id].key = run.at.key

FFInv == \E d : FFWorld(d) /\ FFRun(d)

\* The rate before a date is the one that the connector looks up.
LEMMA FFPriorFound ==
    ASSUME FFKeys, odoo \in Seq(FFRates), NEW c, NEW d \in Nat, NEW p \in 1..Len(odoo), FF!IsPrior(p, c, d)
    PROVE  FF!PriorIndex(c, d) = p
  <1>. DEFINE earlier == {i \in 1..Len(odoo) : odoo[i].key[1] = c /\ odoo[i].key[2] < d}
              Latest(i) == \A j \in earlier : odoo[j].key[2] <= odoo[i].key[2]
  <1>1. p \in earlier /\ Latest(p)
    BY DEF FF!IsPrior
  <1>2. ASSUME NEW i \in earlier, Latest(i) PROVE i = p
    <2>1. odoo[i] \in FFRates /\ odoo[p] \in FFRates
      BY <1>2
    <2>2. odoo[i].key[2] = odoo[p].key[2]
      BY <1>1, <1>2, <2>1 DEF FFRates
    <2>3. odoo[i].key[1] = odoo[p].key[1]
      BY <1>1, <1>2
    <2>4. \A x, y \in Currencies \X Nat : x[1] = y[1] /\ x[2] = y[2] => x = y
      OBVIOUS
    <2>5. odoo[i].key \in Currencies \X Nat /\ odoo[p].key \in Currencies \X Nat
      BY <2>1 DEF FFRates
    <2>6. odoo[i].key = odoo[p].key
      BY <2>2, <2>3, <2>4, <2>5
    <2>. QED BY <2>6 DEF FFKeys
  <1>3. FF!PriorIndex(c, d) = CHOOSE i \in earlier : Latest(i)
    BY <1>1 DEF FF!PriorIndex
  <1>. QED BY <1>1, <1>2, <1>3

\* The first of the rates with a key is the only one.
LEMMA FFFirstFound ==
    ASSUME FFKeys, NEW key, FF!Indices(key) # {}
    PROVE  FF!First(FF!Indices(key)) \in 1..Len(odoo) /\ odoo[FF!First(FF!Indices(key))].key = key
  <1>1. PICK i \in 1..Len(odoo) : odoo[i].key = key /\ FF!Indices(key) = {i}
    BY DEF FFKeys, FF!Indices
  <1>2. FF!First({i}) = i
    BY DEF FF!First
  <1>. QED BY <1>1, <1>2

\* The provider and people change nothing that is stored, or less is to be approved.
LEMMA FFQuiet ==
    ASSUME NEW d, FFWorld(d), FFSource', source.date <= source'.date, UNCHANGED odoo,
           FF!BagToSet(reviews)' \subseteq FF!BagToSet(reviews)
    PROVE  /\ FFWorld(d)'
           /\ \A c, h : FFSlow(c, d, h) => FFSlow(c, d, h)'
  <1>1. FFLate(d)' /\ odoo' \in Seq(FFRates)
    BY DEF FFWorld, FFLate, FFSource
  <1>2. FFKeys'
    BY DEF FFWorld, FFKeys
  <1>3. FF!RatesMoveSlowly'
    BY DEF FFWorld, FF!RatesMoveSlowly, FF!IsPrior
  <1>4. \A c, h : FFSlow(c, d, h) => FFSlow(c, d, h)'
    BY DEF FFSlow, FF!IsPrior
  <1>. QED BY <1>1, <1>2, <1>3, <1>4 DEF FFWorld

\* Something is to be approved.
LEMMA FFReviewed ==
    ASSUME NEW d, FFWorld(d), UNCHANGED <<source, odoo>>,
           NEW k, FF!BagToSet(reviews)' \subseteq FF!BagToSet(reviews) \cup {k},
           Len(k) = 3 => k[1] \in Currencies \X Nat /\ k[1][2] <= d /\ k[3] \in Nat
    PROVE  FFWorld(d)'
  BY DEF FFWorld, FFLate, FFSource, FFKeys, FF!RatesMoveSlowly, FF!IsPrior

\* A rate is entered: by a person, or for the date of the run and close to the one before.
Enterable(e, d) ==
    /\ e \in FFRates /\ e.key[2] <= d
    /\ e.by = "sync" => e.key[2] = d /\ FFSlow(e.key[1], d, e.hash)

\* A new rate is stored.
LEMMA FFAppended ==
    ASSUME NEW d, FFWorld(d), UNCHANGED <<source, reviews>>,
           NEW e, Enterable(e, d), FF!Indices(e.key) = {}, odoo' = Append(odoo, e)
    PROVE  /\ FFWorld(d)'
           /\ \A c, h : FFSlow(c, d, h) => FFSlow(c, d, h)'
  <1>. DEFINE n == Len(odoo)
  <1>1. /\ odoo' \in Seq(FFRates) /\ Len(odoo') = n + 1 /\ n \in Nat /\ odoo'[n + 1] = e
        /\ \A i \in 1..n : odoo'[i] = odoo[i] /\ odoo[i] \in FFRates
    BY DEF FFWorld, Enterable
  <1>2. FFKeys'
    BY <1>1 DEF FFWorld, FFKeys, FF!Indices
  <1>3. FFLate(d)'
    BY <1>1 DEF FFWorld, FFLate, Enterable
  <1>4. \A i \in 1..n : \A c, date : FF!IsPrior(i, c, date)' => FF!IsPrior(i, c, date)
    BY <1>1 DEF FF!IsPrior
  <1>5. ~(e.by = "sync" /\ e.key[2] < d)
    BY DEF Enterable, FFWorld, FFLate, FFRates
  <1>6. ASSUME NEW c, NEW h, FFSlow(c, d, h) PROVE FFSlow(c, d, h)'
    <2>. SUFFICES ASSUME NEW p \in 1..(n + 1), FF!IsPrior(p, c, d)', odoo'[p].by = "sync"
                  PROVE  ~FF!Leaps(h, odoo'[p].hash)
      BY <1>1 DEF FFSlow, FF!Leaps, FF!Apart
    <2>1. p # n + 1
      BY <1>1, <1>5 DEF FF!IsPrior
    <2>. QED BY <1>1, <1>4, <1>6, <2>1 DEF FFSlow
  <1>7. FF!RatesMoveSlowly'
    <2>. SUFFICES ASSUME NEW i \in 1..(n + 1), NEW p \in 1..(n + 1),
                         FF!IsPrior(p, odoo[i].key[1], odoo[i].key[2])', odoo'[i].by = "sync", odoo'[p].by = "sync"
                  PROVE  ~FF!Leaps(odoo'[i].hash, odoo'[p].hash)
      BY <1>1 DEF FF!RatesMoveSlowly, FF!Leaps, FF!Apart
    <2>1. CASE p = n + 1
      <3>1. odoo'[i].key[2] <= d /\ e.key[2] = d /\ odoo'[p].key[2] < odoo'[i].key[2] /\ odoo'[i] \in FFRates /\ d \in Nat
        BY <1>1, <1>3, <2>1 DEF FFLate, Enterable, FF!IsPrior
      <3>. QED BY <1>1, <2>1, <3>1 DEF FFRates
    <2>2. CASE p # n + 1 /\ i = n + 1
      <3>1. FF!IsPrior(p, e.key[1], d) /\ odoo[p].by = "sync"
        BY <1>1, <1>4, <2>2 DEF Enterable
      <3>. QED BY <1>1, <2>2, <3>1 DEF Enterable, FFSlow
    <2>3. CASE p # n + 1 /\ i # n + 1
      BY <1>1, <1>4, <2>3 DEF FFWorld, FF!RatesMoveSlowly
    <2>. QED BY <2>1, <2>2, <2>3
  <1>. QED BY <1>1, <1>2, <1>3, <1>6, <1>7 DEF FFWorld, FFSource

\* A stored rate is replaced.
LEMMA FFRewritten ==
    ASSUME NEW d, FFWorld(d), UNCHANGED <<source, reviews>>,
           NEW f \in 1..Len(odoo), NEW e, Enterable(e, d), odoo[f].key = e.key, odoo' = [odoo EXCEPT ![f] = e]
    PROVE  /\ FFWorld(d)'
           /\ \A c, h : FFSlow(c, d, h) => FFSlow(c, d, h)'
  <1>. DEFINE n == Len(odoo)
  <1>1. /\ odoo' \in Seq(FFRates) /\ Len(odoo') = n /\ n \in Nat /\ odoo'[f] = e
        /\ \A i \in 1..n : odoo[i] \in FFRates /\ odoo'[i] \in FFRates /\ odoo'[i].key = odoo[i].key
        /\ \A i \in 1..n : i # f => odoo'[i] = odoo[i]
    BY DEF FFWorld, Enterable
  <1>2. FFKeys'
    BY <1>1 DEF FFWorld, FFKeys
  <1>3. FFLate(d)'
    BY <1>1 DEF FFWorld, FFLate, Enterable
  <1>4. \A i \in 1..n : \A c, date : FF!IsPrior(i, c, date)' => FF!IsPrior(i, c, date)
    BY <1>1 DEF FF!IsPrior
  <1>5. ~(e.by = "sync" /\ e.key[2] < d)
    BY DEF Enterable, FFWorld, FFLate, FFRates
  <1>6. ASSUME NEW c, NEW h, FFSlow(c, d, h) PROVE FFSlow(c, d, h)'
    <2>. SUFFICES ASSUME NEW p \in 1..n, FF!IsPrior(p, c, d)', odoo'[p].by = "sync"
                  PROVE  ~FF!Leaps(h, odoo'[p].hash)
      BY <1>1 DEF FFSlow, FF!Leaps, FF!Apart
    <2>1. p # f
      BY <1>1, <1>5 DEF FF!IsPrior
    <2>. QED BY <1>1, <1>4, <1>6, <2>1 DEF FFSlow
  <1>7. FF!RatesMoveSlowly'
    <2>. SUFFICES ASSUME NEW i \in 1..n, NEW p \in 1..n,
                         FF!IsPrior(p, odoo[i].key[1], odoo[i].key[2])', odoo'[i].by = "sync", odoo'[p].by = "sync"
                  PROVE  ~FF!Leaps(odoo'[i].hash, odoo'[p].hash)
      BY <1>1 DEF FF!RatesMoveSlowly, FF!Leaps, FF!Apart
    <2>1. CASE p = f
      <3>1. odoo'[i].key[2] <= d /\ e.key[2] = d /\ odoo'[p].key[2] < odoo'[i].key[2] /\ odoo'[i] \in FFRates /\ d \in Nat
        BY <1>1, <1>3, <2>1 DEF FFLate, Enterable, FF!IsPrior
      <3>. QED BY <1>1, <2>1, <3>1 DEF FFRates
    <2>2. CASE p # f /\ i = f
      <3>1. FF!IsPrior(p, e.key[1], d) /\ odoo[p].by = "sync"
        BY <1>1, <1>4, <2>2 DEF Enterable
      <3>. QED BY <1>1, <2>2, <3>1 DEF Enterable, FFSlow
    <2>3. CASE p # f /\ i # f
      BY <1>1, <1>4, <2>3 DEF FFWorld, FF!RatesMoveSlowly
    <2>. QED BY <2>1, <2>2, <2>3
  <1>. QED BY <1>1, <1>2, <1>3, <1>6, <1>7 DEF FFWorld, FFSource

\* SetToSeq lists the elements of a finite set.
LEMMA FFSetToSeq ==
    ASSUME NEW S, IsFiniteSet(S)
    PROVE  FF!SetToSeq(S) \in Seq(S)
  <1>1. FF!Cardinality(S) = Cardinality(S)
    BY DEF FF!Cardinality, Cardinality
  <1>2. Cardinality(S) \in Nat /\ \E f \in [1..Cardinality(S) -> S] : FF!IsInjective(f)
    BY FS_CardinalityType DEF ExistsBijection, Bijection, Injection, IsInjective, FF!IsInjective
  <1>. QED BY <1>1, <1>2 DEF FF!SetToSeq

\* A run that begins, ends or dies has nothing in hand.
LEMMA FreshRuns ==
    /\ \A start, todo : Begin(start, todo) => DOMAIN run' = DOMAIN Idle /\ run'.pc = start /\ run'.todo = todo
    /\ WriteLog => DOMAIN run' = DOMAIN Idle /\ run'.pc \in {"done", "raised"} /\ run'.todo = <<>>
    /\ Ill(Idle) => DOMAIN run' = DOMAIN Idle /\ run'.pc = "idle" /\ run'.todo = <<>>
    /\ {"pc", "todo", "at", "found"} \subseteq DOMAIN Idle
  <1>1. {"pc", "todo", "at", "found", "count", "handed", "dry", "clean", "calm"} \subseteq DOMAIN Idle
        /\ Idle.todo = <<>> /\ Idle.pc = "idle"
    BY DEF Idle
  <1>2. ASSUME NEW start, NEW todo, Begin(start, todo)
        PROVE  DOMAIN run' = DOMAIN Idle /\ run'.pc = start /\ run'.todo = todo
    <2>1. PICK dry \in BOOLEAN :
            run' = [Idle EXCEPT !.pc = start, !.dry = dry, !.todo = todo, !.clean = TRUE,
                                !.calm = run.clean /\ ~run.dry /\ ~run.pushed]
      BY <1>2 DEF Begin
    <2>. HIDE DEF Idle
    <2>. QED BY <1>1, <2>1
  <1>3. ASSUME WriteLog PROVE DOMAIN run' = DOMAIN Idle /\ run'.pc \in {"done", "raised"} /\ run'.todo = <<>>
    <2>. DEFINE over == [Idle EXCEPT !.pc = "done", !.dry = run.dry, !.count = run.count,
                               !.fatal = run.fatal, !.handed = run.handed, !.wrote = run.wrote, !.pushed = run.pushed,
                               !.steady = run.steady, !.mem = run.mem,
                               !.clean = run.clean, !.calm = run.calm]
    <2>1. run' = over \/ run' = [over EXCEPT !.clean = FALSE] \/ run' = [[over EXCEPT !.pc = "raised"] EXCEPT !.clean = FALSE]
      BY <1>3 DEF WriteLog, Well, Ill
    <2>2. DOMAIN Idle = DOMAIN over /\ {"pc", "count", "handed", "clean"} \subseteq DOMAIN Idle
      BY Zenon DEF Idle
    <2>3. over.pc = "done" /\ over.todo = <<>>
      BY DEF Idle
    <2>. HIDE DEF over
    <2>. QED BY <1>1, <2>1, <2>2, <2>3
  <1>4. ASSUME Ill(Idle) PROVE DOMAIN run' = DOMAIN Idle /\ run'.pc = "idle" /\ run'.todo = <<>>
    <2>1. run' = [Idle EXCEPT !.clean = FALSE]
      BY <1>4 DEF Ill
    <2>. HIDE DEF Idle
    <2>. QED BY <1>1, <2>1
  <1>. QED BY <1>1, <1>2, <1>3, <1>4

\* Every step of Frankfurter, its runs' and other people's, keeps FFInv.
LEMMA FFStep ==
    ASSUME FFInv, FF!Next
    PROVE  FFInv'
  <1>. PICK d : FFWorld(d) /\ FFRun(d)
    BY DEF FFInv
  <1>shape. {"pc", "todo", "at", "found"} \subseteq DOMAIN run
    BY DEF FFRun
  <1>dates. d \in Nat /\ source.date \in Nat /\ d <= source.date /\ FFSource
    BY DEF FFWorld, FFLate, FFSource
  <1>1. ASSUME UNCHANGED <<odoo, reviews>>, UNCHANGED source \/ (UNCHANGED source.date /\ FFSource')
        PROVE  FFWorld(d)' /\ \A c, h : FFSlow(c, d, h) => FFSlow(c, d, h)'
    BY <1>1, <1>dates, FFQuiet DEF FF!BagToSet, FFSource
  <1>2. ASSUME FF!Start \/ FF!WriteLog \/ FF!Crash PROVE FFInv'
    <2>1. {"pc", "todo", "at", "found"} \subseteq DOMAIN run' /\ run'.todo = <<>>
          /\ run'.pc \in {"quotes", "done", "raised", "idle"}
      BY <1>2, FFSame, FreshRuns DEF FF!Start, FF!Crash
    <2>2. UNCHANGED <<odoo, reviews, source>>
      BY <1>2 DEF FF!Start, FF!Crash, FF!WriteLog, FF!Begin
    <2>. QED BY <1>1, <2>1, <2>2 DEF FFInv, FFRun, FFPoints
  <1>3. ASSUME FF!TakeQuote PROVE FFInv'
    <2>1. /\ run.pc = "next" /\ run.todo # <<>> /\ UNCHANGED <<odoo, reviews, source>>
          /\ DOMAIN run' = DOMAIN run /\ run'.todo = Tail(run.todo)
          /\ \/ run'.pc = "next"
             \/ run'.pc \in {"review", "activate", "prior"} /\ run'.at = Head(run.todo)
      BY <1>shape, <1>3 DEF FF!TakeQuote, FF!Well, FF!TakenUp, FF!Failed, FF!Onward, FF!Counted
    <2>2. /\ Head(run.todo) \in FFQuotes /\ Head(run.todo).key[2] = d
          /\ Tail(run.todo) \in Seq(FFQuotes) /\ \A n \in 1..Len(Tail(run.todo)) : Tail(run.todo)[n].key[2] = d
      BY <2>1 DEF FFRun
    <2>3. FFRun(d)'
      BY <1>shape, <2>1, <2>2 DEF FFRun, FFPoints
    <2>. QED BY <1>1, <2>1, <2>3 DEF FFInv
  <1>4. ASSUME FF!ReviewCurrency \/ FF!ReviewRate PROVE FFInv'
    <2>. DEFINE k == IF run.at.state = "unknown" THEN <<"unmapped", run.at.key[1]>> ELSE <<run.at.key, run.mem, run.at.hash>>
    <2>1. /\ UNCHANGED <<odoo, source>> /\ FF!BagToSet(reviews)' \subseteq FF!BagToSet(reviews) \cup {k}
      BY <1>4 DEF FF!ReviewCurrency, FF!ReviewRate, FF!Raise, FF!Send, FF!(+), FF!BagToSet
    <2>2. /\ run.pc = "review" /\ DOMAIN run' = DOMAIN run /\ run'.todo = run.todo /\ run'.pc = "next"
      BY <1>shape, <1>4
         DEF FF!ReviewCurrency, FF!ReviewRate, FF!Raise, FF!Send, FF!Well, FF!Ill, FF!Failed, FF!Onward,
                  FF!Counted, FF!Wrote
    <2>3. Len(k) = 3 => k[1] \in Currencies \X Nat /\ k[1][2] <= d /\ k[3] \in Nat
      BY <1>dates, <2>2 DEF FFRun, FFPoints, FFQuotes
    <2>. HIDE DEF k
    <2>4. FFWorld(d)'
      BY <2>1, <2>3, FFReviewed
    <2>5. FFRun(d)'
      BY <1>shape, <2>2 DEF FFRun, FFPoints
    <2>. QED BY <2>4, <2>5 DEF FFInv
  <1>5. ASSUME FF!Activate PROVE FFInv'
    <2>1. /\ run.pc = "activate" /\ DOMAIN run' = DOMAIN run /\ run'.todo = run.todo
          /\ (run'.pc = "next" \/ (run'.pc = "prior" /\ run'.at = run.at))
      <3>1. CASE run.dry
        BY <1>shape, <1>5, <3>1 DEF FF!Activate, FF!Well
      <3>2. CASE ~run.dry
        BY <1>shape, <1>5, <3>2
           DEF FF!Activate, FF!Send, FF!Failed, FF!Counted, FF!Onward, FF!Well, FF!Ill, FF!Wrote
      <3>. QED BY <3>1, <3>2
    <2>2. UNCHANGED <<odoo, reviews>>
          /\ (source' = source \/ source' = [source EXCEPT !.currency[run.at.key[1]] = "active"])
      BY <1>5 DEF FF!Activate, FF!Send
    <2>3. source'.date = source.date /\ FFSource'
      BY <1>dates, <2>2 DEF FFSource, FF!Currency
    <2>4. FFRun(d)'
      BY <1>shape, <2>1 DEF FFRun, FFPoints
    <2>. QED BY <1>1, <2>2, <2>3, <2>4 DEF FFInv
  <1>6. ASSUME FF!ComparePrior PROVE FFInv'
    <2>. DEFINE i == FF!PriorIndex(run.at.key[1], run.at.key[2])
    <2>1. /\ run.pc = "prior" /\ UNCHANGED <<odoo, reviews, source>>
          /\ DOMAIN run' = DOMAIN run /\ run'.todo = run.todo
          /\ \/ run'.pc = "next"
             \/ run'.pc = "review" /\ run'.at = run.at
             \/ run'.pc = "search" /\ run'.at = run.at /\ ~(i # 0 /\ FF!MovesTooFar(run.at.hash, odoo[i].hash))
      BY <1>shape, <1>6 DEF FF!ComparePrior, FF!Well, FF!Ill, FF!Failed, FF!Counted, FF!Onward
    <2>2. run.at \in FFQuotes /\ run.at.key[2] = d
      BY <2>1 DEF FFRun, FFPoints
    <2>3. run'.pc = "search" => FFSlow(run.at.key[1], d, run.at.hash)
      BY <1>dates, <2>1, <2>2, FFPriorFound DEF FFWorld, FFSlow, FF!Leaps, FF!MovesTooFar
    <2>4. FFRun(d)'
      BY <1>shape, <1>1, <2>1, <2>2, <2>3 DEF FFRun, FFPoints
    <2>. QED BY <1>1, <2>1, <2>4 DEF FFInv
  <1>7. ASSUME FF!SearchRate PROVE FFInv'
    <2>1. /\ run.pc = "search" /\ UNCHANGED <<odoo, reviews, source>>
          /\ DOMAIN run' = DOMAIN run /\ run'.todo = run.todo
          /\ \/ run'.pc = "next"
             \/ run'.pc = "store" /\ run'.at = run.at /\ run'.found = FF!Lookup(run.at.key)
      BY <1>shape, <1>7 DEF FF!SearchRate, FF!Well, FF!Ill, FF!Failed, FF!Counted, FF!Onward
    <2>2. FF!Lookup(run.at.key) # FF!NoRecord =>
            FF!Lookup(run.at.key).id \in 1..Len(odoo) /\ odoo[FF!Lookup(run.at.key).id].key = run.at.key
      BY FFFirstFound DEF FF!Lookup, FFWorld
    <2>3. FFRun(d)'
      BY <1>shape, <1>1, <2>1, <2>2 DEF FFRun, FFPoints
    <2>. QED BY <1>1, <2>1, <2>3 DEF FFInv
  <1>8. ASSUME FF!Create \/ FF!Replace PROVE FFInv'
    <2>. DEFINE e == FF!Stored("sync")
    <2>1. /\ run.pc = "store" /\ UNCHANGED <<reviews, source>>
          /\ DOMAIN run' = DOMAIN run /\ run'.todo = run.todo /\ run'.pc = "next"
      <3>1. CASE FF!Create
        BY <1>shape, <3>1 DEF FF!Create, FF!Well, FF!Ill, FF!Failed, FF!Counted, FF!Onward, FF!Wrote
      <3>2. CASE FF!Replace
        BY <1>shape, <3>2 DEF FF!Replace, FF!Send, FF!Well, FF!Ill, FF!Failed, FF!Counted, FF!Onward, FF!Wrote
      <3>. QED BY <1>8, <3>1, <3>2
    <2>2. run.at \in FFQuotes /\ run.at.key[2] = d /\ FFSlow(run.at.key[1], d, run.at.hash)
      BY <2>1 DEF FFRun, FFPoints
    <2>3. e \in FFRates /\ e.key = run.at.key /\ e.hash = run.at.hash /\ e.by = "sync"
      BY <2>2 DEF FF!Stored, FFRates, FFQuotes
    <2>4. Enterable(e, d)
      BY <1>dates, <2>2, <2>3 DEF Enterable
    <2>5. \/ UNCHANGED odoo
          \/ FF!Indices(e.key) = {} /\ odoo' = Append(odoo, e)
          \/ /\ run.found.id \in 1..Len(odoo) /\ odoo[run.found.id].key = e.key
             /\ odoo' = [odoo EXCEPT ![run.found.id] = e]
      <3>1. CASE FF!Create
        <4>1. odoo \o <<>> = odoo /\ odoo \o <<e>> = Append(odoo, e)
          BY <2>3 DEF FFWorld
        <4>. QED BY <3>1, <2>3, <4>1 DEF FF!Create
      <3>2. CASE FF!Replace
        BY <2>1, <2>3, <3>2 DEF FF!Replace, FF!Send, FFRun
      <3>. QED BY <1>8, <3>1, <3>2
    <2>. HIDE DEF e
    <2>6. FFWorld(d)'
      BY <1>1, <2>1, <2>4, <2>5, FFAppended, FFRewritten
    <2>7. FFRun(d)'
      BY <1>shape, <2>1 DEF FFRun, FFPoints
    <2>. QED BY <2>6, <2>7 DEF FFInv
  <1>9. ASSUME FF!Finish PROVE FFInv'
    <2>1. /\ run.pc = "next" /\ UNCHANGED <<odoo, reviews, source>>
          /\ DOMAIN run' = DOMAIN run /\ run'.todo = run.todo /\ run'.pc = "log"
      BY <1>shape, <1>9 DEF FF!Finish, FF!Well, FF!Synced
    <2>2. FFRun(d)'
      BY <1>shape, <2>1 DEF FFRun, FFPoints
    <2>. QED BY <1>1, <2>1, <2>2 DEF FFInv
  <1>10. ASSUME FF!OtherRun PROVE FFInv'
    <2>. DEFINE e == FF!Stored("sync")
                i == FF!PriorIndex(run.at.key[1], run.at.key[2])
    <2>1. /\ run.pc \in FFPoints /\ UNCHANGED <<reviews, source>>
          /\ DOMAIN run' = DOMAIN run /\ run'.todo = run.todo /\ run'.pc = run.pc /\ run'.at = run.at
          /\ run'.found = run.found
          /\ FF!Indices(run.at.key) = {} /\ odoo' = Append(odoo, e)
          /\ (i # 0 => ~FF!MovesTooFar(run.at.hash, odoo[i].hash))
      BY <1>shape, <1>10 DEF FF!OtherRun, FF!Ill, FFPoints
    <2>2. run.at \in FFQuotes /\ run.at.key[2] = d
      BY <2>1 DEF FFRun
    <2>3. FFSlow(run.at.key[1], d, run.at.hash)
      BY <1>dates, <2>1, <2>2, FFPriorFound DEF FFWorld, FFSlow, FF!Leaps, FF!MovesTooFar
    <2>4. e.key = run.at.key /\ Enterable(e, d)
      BY <1>dates, <2>2, <2>3 DEF Enterable, FF!Stored, FFRates, FFQuotes
    <2>. HIDE DEF e
    <2>5. FFWorld(d)' /\ \A c, h : FFSlow(c, d, h) => FFSlow(c, d, h)'
      BY <2>1, <2>4, FFAppended
    <2>6. ~(run.pc = "store" /\ run.found # FF!NoRecord)
      BY <2>1 DEF FFRun, FF!Indices
    <2>7. FFRun(d)'
      BY <1>shape, <2>1, <2>5, <2>6 DEF FFRun
    <2>. QED BY <2>5, <2>7 DEF FFInv
  <1>11. ASSUME FF!FetchQuotes PROVE FFInv'
    <2>. DEFINE quotes == {[key |-> FF!Key(c, source.date), state |-> source.currency[c],
                            hash |-> FF!Rebased(source.quote[c], source.divisor)] : c \in Currencies}
    <2>1. /\ run.pc = "quotes" /\ UNCHANGED <<odoo, reviews, source>> /\ DOMAIN run' = DOMAIN run
          /\ \/ run'.pc = "log" /\ run'.todo = run.todo
             \/ source.divisor # 0 /\ run'.pc = "next" /\ run'.todo = FF!SetToSeq(quotes)
      BY <1>shape, <1>11 DEF FF!FetchQuotes, FF!Well, FF!Ill, FF!Aborted, FF!Counted
    <2>2. CASE run'.pc = "log"
      <3>1. FFRun(d)'
        BY <1>shape, <2>1, <2>2 DEF FFRun, FFPoints
      <3>. QED BY <1>1, <2>1, <3>1 DEF FFInv
    <2>3. CASE run'.pc # "log"
      <3>1. IsFiniteSet(quotes)
        <4>1. [c \in Currencies |-> [key |-> FF!Key(c, source.date), state |-> source.currency[c],
                    hash |-> FF!Rebased(source.quote[c], source.divisor)]] \in Surjection(Currencies, quotes)
          BY DEF Surjection
        <4>. QED BY <4>1, FS_Surjection, ConnectorConstantsOK
      <3>2. \A q \in quotes : q \in FFQuotes /\ q.key[2] = source.date
        <4>1. \A a \in Nat, b \in Nat : b # 0 => a \div b \in Nat
          OBVIOUS
        <4>. QED BY <1>dates, <2>1, <2>3, <4>1 DEF FF!Key, FF!Rebased, FFSource, FFQuotes
      <3>. HIDE DEF quotes
      <3>3. run'.todo \in Seq(quotes)
        BY <2>1, <2>3, <3>1, FFSetToSeq
      <3>. PICK today : today = source.date
        OBVIOUS
      <3>4. FFLate(today)
        <4>1. odoo \in Seq(FFRates) /\ FFLate(d)
          BY DEF FFWorld
        <4>2. ASSUME NEW i \in 1..Len(odoo) PROVE odoo[i].key[2] \in Nat
          <5>1. odoo[i] \in FFRates
            BY <4>1
          <5>. QED BY <5>1 DEF FFRates
        <4>. QED BY <1>dates, <4>1, <4>2 DEF FFLate
      <3>5. FFWorld(today)
        BY <3>4 DEF FFWorld
      <3>6. FFWorld(today)'
        BY <1>dates, <2>1, <3>5, FFQuiet DEF FF!BagToSet, FFSource
      <3>7. FFRun(today)'
        BY <1>shape, <2>1, <2>3, <3>2, <3>3 DEF FFRun, FFPoints
      <3>. QED BY <3>6, <3>7 DEF FFInv
    <2>. QED BY <2>2, <2>3
  <1>12. ASSUME FF!Quote \/ FF!Administer \/ FF!CloseReview PROVE FFInv'
    <2>1. /\ DOMAIN run' = DOMAIN run /\ run'.todo = run.todo /\ run'.pc = run.pc /\ run'.at = run.at
          /\ run'.found = run.found /\ UNCHANGED odoo
      BY ZenonT(60), <1>shape, <1>12 DEF FF!Quote, FF!Administer, FF!CloseReview, FF!Change
    <2>2. FF!BagToSet(reviews)' \subseteq FF!BagToSet(reviews)
      BY <1>12 DEF FF!Quote, FF!Administer, FF!CloseReview, FF!BagToSet, FF!(-), FF!SetToBag
    <2>3. FFSource' /\ source.date <= source'.date
      <3>1. CASE FF!Quote
        <4>1. ASSUME NEW c \in Currencies, NEW rate \in ApiRates \cup {0}, NEW day \in {0, 1},
                     source' = [source EXCEPT !.quote[c] = rate, !.date = @ + day]
              PROVE  FFSource' /\ source.date <= source'.date
          <5>. DEFINE q == [source.quote EXCEPT ![c] = rate]
          <5>1. q \in [Currencies -> Nat]
            BY <1>dates, ConnectorConstantsOK DEF FFSource
          <5>2. source' = [source EXCEPT !.quote = q, !.date = source.date + day]
            BY <1>dates, <4>1 DEF FFSource
          <5>. HIDE DEF q
          <5>3. source.date + day \in Nat /\ source.date <= source.date + day
            BY <1>dates
          <5>. QED BY <1>dates, <5>1, <5>2, <5>3 DEF FFSource
        <4>2. ASSUME NEW q \in Divisors \cup {0}, source' = [source EXCEPT !.divisor = q]
              PROVE  FFSource' /\ source.date <= source'.date
          <5>1. q \in Nat
            BY ConnectorConstantsOK
          <5>. QED BY <1>dates, <4>2, <5>1 DEF FFSource
        <4>. QED BY <3>1, <4>1, <4>2 DEF FF!Quote
      <3>2. CASE FF!Administer
        BY <1>dates, <3>2 DEF FF!Administer, FFSource, FF!Currency
      <3>3. CASE FF!CloseReview
        BY <1>dates, <3>3 DEF FF!CloseReview, FFSource
      <3>. QED BY <1>12, <3>1, <3>2, <3>3
    <2>4. FFWorld(d)' /\ \A c, h : FFSlow(c, d, h) => FFSlow(c, d, h)'
      BY <2>1, <2>2, <2>3, FFQuiet
    <2>5. FFRun(d)'
      BY <1>shape, <2>1, <2>4 DEF FFRun
    <2>. QED BY <2>4, <2>5 DEF FFInv
  <1>13. ASSUME FF!Approve PROVE FFInv'
    <2>1. /\ DOMAIN run' = DOMAIN run /\ run'.todo = run.todo /\ run'.pc = run.pc /\ run'.at = run.at
          /\ run'.found = run.found /\ UNCHANGED <<source, reviews>>
      BY <1>shape, <1>13 DEF FF!Approve, FF!Change
    <2>2. PICK k \in FF!BagToSet(reviews) :
            /\ Len(k) = 3
            /\ LET entered == [key |-> k[1], hash |-> k[3], by |-> "hand"] IN
               odoo' = IF FF!Indices(k[1]) = {} THEN Append(odoo, entered)
                       ELSE [odoo EXCEPT ![FF!First(FF!Indices(k[1]))] = entered]
      BY <1>13 DEF FF!Approve
    <2>. DEFINE e == [key |-> k[1], hash |-> k[3], by |-> "hand"]
                f == FF!First(FF!Indices(k[1]))
    <2>3. Enterable(e, d) /\ e.key = k[1]
      BY <2>2 DEF Enterable, FFRates, FFWorld, FFLate
    <2>. HIDE DEF e
    <2>4. FFWorld(d)' /\ \A c, h : FFSlow(c, d, h) => FFSlow(c, d, h)'
      <3>1. CASE FF!Indices(k[1]) = {}
        BY <2>1, <2>2, <2>3, <3>1, FFAppended DEF e
      <3>2. CASE FF!Indices(k[1]) # {}
        <4>1. f \in 1..Len(odoo) /\ odoo[f].key = k[1]
          BY <3>2, FFFirstFound DEF FFWorld
        <4>2. odoo' = [odoo EXCEPT ![f] = e]
          BY <2>2, <3>2 DEF e
        <4>. HIDE DEF f
        <4>. QED BY <2>1, <2>3, <4>1, <4>2, FFRewritten
      <3>. QED BY <3>1, <3>2
    <2>5. /\ Len(odoo') >= Len(odoo) /\ Len(odoo) \in Nat /\ Len(odoo') \in Nat
          /\ \A i \in 1..Len(odoo) : odoo'[i].key = odoo[i].key
      <3>1. CASE FF!Indices(k[1]) = {}
        BY <2>2, <2>3, <3>1 DEF e, FFWorld, Enterable
      <3>2. CASE FF!Indices(k[1]) # {}
        <4>1. f \in 1..Len(odoo) /\ odoo[f].key = k[1]
          BY <3>2, FFFirstFound DEF FFWorld
        <4>2. odoo' = [odoo EXCEPT ![f] = e]
          BY <2>2, <3>2 DEF e
        <4>. HIDE DEF f
        <4>. QED BY <2>3, <4>1, <4>2 DEF FFWorld, Enterable
      <3>. QED BY <3>1, <3>2
    <2>6. FFRun(d)'
      BY <1>shape, <2>1, <2>4, <2>5 DEF FFRun
    <2>. QED BY <2>4, <2>6 DEF FFInv
  <1>. QED BY <1>2, <1>3, <1>4, <1>5, <1>6, <1>7, <1>8, <1>9, <1>10, <1>11, <1>12, <1>13 DEF FF!Next, FF!Step

\* Frankfurter begins with no rate and no approval activity.
LEMMA FFStart == FF!Init => FFInv
  <1>. SUFFICES ASSUME FF!Init PROVE FFInv
    OBVIOUS
  <1>1. PICK isBase \in BOOLEAN, rate \in ApiRates, d \in Divisors, state \in FF!Currency :
          source = [quote |-> [c \in Currencies |-> rate], date |-> 1,
                    divisor |-> IF isBase THEN 1 ELSE d, isBase |-> isBase,
                    currency |-> [c \in Currencies |-> state]]
    BY DEF FF!Init
  <1>2. FFSource /\ source.date = 1
    BY <1>1, ConnectorConstantsOK DEF FFSource
  <1>3. run = Idle /\ odoo = <<>> /\ FF!BagToSet(reviews) = {}
    BY FFSame DEF FF!Init, FF!RunInit, FF!EmptyBag, FF!BagToSet, FF!SetToBag
  <1>4. FFWorld(1)
    BY <1>2, <1>3 DEF FFWorld, FFKeys, FFLate, FF!RatesMoveSlowly
  <1>5. FFRun(1)
    <2>1. {"pc", "todo", "at", "found"} \subseteq DOMAIN Idle /\ Idle.todo = <<>> /\ Idle.pc = "idle"
      BY DEF Idle
    <2>. QED BY <1>3, <2>1 DEF FFRun, FFPoints
  <1>. QED BY <1>4, <1>5 DEF FFInv
\* Frankfurter stores no rate that leaps away from the rate it stored before it: a leap is
\* withheld until a person enters it, whatever is interrupted, repeated or overlaps.
THEOREM LeapsAreWithheld == Spec => []RatesMoveSlowly
  <1>. DEFINE Inv == provider \in Providers /\ (provider = "frankfurter" => FFInv)
  <1>1. Init => Inv
    BY FFStart DEF Init, Providers
  <1>2. Inv /\ [Next]_<<vars, provider>> => Inv'
    <2>. SUFFICES ASSUME Inv, [Next]_<<vars, provider>> PROVE Inv'
      OBVIOUS
    <2>1. CASE Frankfurter
      BY <2>1, FFStep DEF Frankfurter
    <2>2. CASE NagerDate \/ JsonPlaceholder \/ OpenMeteo \/ GitHub
      BY <2>2 DEF NagerDate, JsonPlaceholder, OpenMeteo, GitHub
    <2>3. CASE UNCHANGED <<vars, provider>>
      BY <2>3
         DEF vars, FFInv, FFWorld, FFRun, FFSource,
             FFKeys, FFLate, FFSlow, FF!BagToSet, FF!IsPrior, FF!RatesMoveSlowly
    <2>. QED BY <2>1, <2>2, <2>3 DEF Next
  <1>3. Inv => RatesMoveSlowly
    BY DEF FFInv, FFWorld, RatesMoveSlowly
  <1>. HIDE DEF Inv
  <1>. QED BY <1>1, <1>2, <1>3, PTL DEF Spec
-------------------------------------------------------------------------------
(* Nothing is kept twice, but for what a mishap may have doubled           *)

\* How many records have a key.
Copies(key) == Cardinality(Indices(key))

Listed(s) == \E S : s \in Seq(S)

\* Every record keeps its key, and n of this key are new.
Grown(key, n) ==
    /\ Listed(odoo')
    /\ Len(odoo') = Len(odoo) + n
    /\ \A i \in 1..Len(odoo) : odoo'[i].key = odoo[i].key
    /\ \A i \in (Len(odoo) + 1)..(Len(odoo) + n) : odoo'[i].key = key

\* A set of numbers has a first one.
LEMMA FirstIsIn ==
    ASSUME NEW S \in SUBSET Nat, S # {}
    PROVE  First(S) \in S /\ \A j \in S : First(S) <= j
  <1>. DEFINE R == OpToRel(<, Nat)
  <1>1. IsWellFoundedOn(R, Nat)
    BY NatLessThanWellFounded
  <1>2. \A x, y \in Nat : x < y => <<x, y>> \in R
    BY DEF OpToRel
  <1>. HIDE DEF R
  <1>3. PICK x \in S : \A y \in S : ~(<<y, x>> \in R)
    BY <1>1, WFMin
  <1>4. ASSUME NEW y \in S PROVE x <= y
    <2>1. x \in Nat /\ y \in Nat /\ ~(<<y, x>> \in R)
      BY <1>3
    <2>2. ~(y < x)
      BY <1>2, <2>1
    <2>. QED BY <2>1, <2>2
  <1>. QED BY <1>4 DEF First

\* Records can be counted.
LEMMA CopiesType ==
    ASSUME Listed(odoo)
    PROVE  /\ Len(odoo) \in Nat
           /\ \A key : IsFiniteSet(Indices(key)) /\ Copies(key) \in Nat
           /\ \A key : Indices(key) = {} <=> Copies(key) = 0
  <1>1. Len(odoo) \in Nat
    BY DEF Listed
  <1>2. IsFiniteSet(1..Len(odoo))
    BY <1>1, FS_Interval
  <1>3. ASSUME NEW key
        PROVE  IsFiniteSet(Indices(key)) /\ Copies(key) \in Nat /\ (Indices(key) = {} <=> Copies(key) = 0)
    <2>1. Indices(key) \in SUBSET (1..Len(odoo))
      BY DEF Indices
    <2>2. IsFiniteSet(Indices(key))
      BY <1>2, <2>1, FS_Subset
    <2>. QED BY <2>2, FS_CardinalityType, FS_EmptySet DEF Copies
  <1>. QED BY <1>1, <1>3

\* New records are counted under their own key only.
LEMMA CopiesGrow ==
    ASSUME Listed(odoo), NEW key, NEW n \in 0..2, Grown(key, n)
    PROVE  /\ \A k : Copies(k)' = Copies(k) + (IF k = key THEN n ELSE 0)
           /\ \A k : k # key => Indices(k)' = Indices(k)
  <1>. DEFINE new == (Len(odoo) + 1)..(Len(odoo) + n)
  <1>1. Len(odoo) \in Nat
    BY CopiesType
  <1>2. ASSUME NEW k, k # key PROVE Indices(k)' = Indices(k)
    BY <1>1, <1>2 DEF Indices, Grown
  <1>3. Indices(key)' = Indices(key) \cup new
    BY <1>1 DEF Indices, Grown
  <1>4. Indices(key) \cap new = {}
    BY <1>1 DEF Indices
  <1>5. IsFiniteSet(new) /\ Cardinality(new) = n
    <2>. DEFINE a == Len(odoo) + 1
                b == Len(odoo) + n
    <2>1. a \in Int /\ b \in Int /\ (a > b => n = 0) /\ (~(a > b) => b - a + 1 = n)
      BY <1>1
    <2>. HIDE DEF a, b
    <2>2. IsFiniteSet(a..b) /\ Cardinality(a..b) = n
      BY <2>1, FS_Interval
    <2>. QED BY <2>2 DEF a, b
  <1>6. IsFiniteSet(Indices(key)) /\ Cardinality(Indices(key)) \in Nat
    BY CopiesType DEF Copies
  <1>. HIDE DEF new
  <1>7. Cardinality(Indices(key) \cup new) = Cardinality(Indices(key)) + n
    <2>1. Cardinality(Indices(key) \cap new) = 0
      BY <1>4, FS_EmptySet
    <2>2. Cardinality(Indices(key) \cup new)
            = Cardinality(Indices(key)) + Cardinality(new) - Cardinality(Indices(key) \cap new)
      BY <1>5, <1>6, FS_Union
    <2>. QED BY <1>5, <1>6, <2>1, <2>2
  <1>8. Copies(key)' = Copies(key) + n
    BY <1>3, <1>7 DEF Copies
  <1>9. ASSUME NEW k, k # key PROVE Copies(k)' = Copies(k) /\ Copies(k) \in Nat
    BY <1>2, <1>9, CopiesType DEF Copies
  <1>. QED BY <1>2, <1>8, <1>9

\* What the lookup by a key returns.
LEMMA LookupFits ==
    ASSUME Listed(odoo), NEW key
    PROVE  /\ Indices(key) = {} => Lookup(key) = NoRecord
           /\ Indices(key) # {} =>
                /\ Lookup(key).id \in 1..Len(odoo) /\ odoo[Lookup(key).id].key = key
                /\ Lookup(key).key = key /\ Lookup(key) # NoRecord
                /\ Lookup(key) = [id |-> Lookup(key).id, key |-> key, hash |-> odoo[Lookup(key).id].hash,
                                  bare |-> TRUE]
  <1>1. CASE Indices(key) = {}
    BY <1>1 DEF Lookup
  <1>2. CASE Indices(key) # {}
    <2>1. First(Indices(key)) \in Indices(key)
      <3>1. Indices(key) \in SUBSET Nat
        BY CopiesType DEF Indices
      <3>. QED BY <1>2, <3>1, FirstIsIn
    <2>. DEFINE f == First(Indices(key))
    <2>2. f \in 1..Len(odoo) /\ odoo[f].key = key
      BY <2>1 DEF Indices
    <2>3. Lookup(key) = [id |-> f, key |-> key, hash |-> odoo[f].hash, bare |-> TRUE]
      BY <1>2 DEF Lookup
    <2>. HIDE DEF f
    <2>4. Lookup(key).id = f /\ Lookup(key).key = key
      BY <2>3
    <2>5. NoRecord.id = 0 /\ f # 0
      BY <2>2, CopiesType DEF NoRecord
    <2>. QED BY <1>2, <2>2, <2>3, <2>4, <2>5
  <1>. QED BY <1>1, <1>2

-------------------------------------------------------------------------------
(* Records and activities                                                  *)

\* There are as many records with a key as there were mishaps, and one, at most; a run that is
\* about to create one finds one less.
KeysFit == \A i \in 1..Len(odoo) : Copies(odoo[i].key) <= 1 + mishaps

CacheFits == \A c \in run.cache : c.id \in 1..Len(odoo) /\ odoo[c.id].key = c.key

HandFits ==
    run.pc = "apply" =>
        IF run.found = NoRecord THEN Copies(run.at.key) <= mishaps
        ELSE run.found.id \in 1..Len(odoo) /\ odoo[run.found.id].key = run.at.key

Fields == {"pc", "dry", "todo", "at", "cache", "found", "mem", "count", "handed", "wrote", "pushed",
           "steady", "clean", "fatal"}

UpsertFits ==
    /\ Fields \subseteq DOMAIN run
    /\ Listed(odoo) /\ mishaps \in Nat
    /\ KeysFit /\ CacheFits /\ HandFits

\* Something may have gone wrong.
Counts == mishaps' \in {mishaps, mishaps + 1}

\* The record in hand is the same, or none.
SameHand == run'.pc = "apply" => run.pc = "apply" /\ run'.found = run.found /\ run'.at = run.at

\* New records, if any, are in order, and so is what a run knows of them.
LEMMA UpsertKept ==
    ASSUME UpsertFits, Counts, Fields \subseteq DOMAIN run', SameHand,
           NEW key, NEW n \in 0..2, Grown(key, n),
           n > 0 => Copies(key) + n <= 1 + mishaps',
           run'.pc = "apply" /\ run.at.key = key /\ n > 0 => Copies(key) + n <= mishaps',
           \A c \in run'.cache : c \in run.cache \/ (c.id \in 1..Len(odoo') /\ odoo'[c.id].key = c.key)
    PROVE  UpsertFits'
  <1>1. Len(odoo) \in Nat /\ mishaps \in Nat /\ mishaps' \in Nat /\ mishaps' >= mishaps /\ Listed(odoo')
    BY CopiesType DEF UpsertFits, Counts, Grown
  <1>2. \A k : Copies(k) \in Nat /\ Copies(k)' = Copies(k) + (IF k = key THEN n ELSE 0)
    BY CopiesType, CopiesGrow DEF UpsertFits
  <1>3. \A i \in 1..Len(odoo) : i \in 1..Len(odoo') /\ odoo'[i].key = odoo[i].key
    BY <1>1 DEF Grown
  <1>4. KeysFit'
    <2>1. ASSUME NEW i \in 1..Len(odoo'), NEW k, k = odoo'[i].key
          PROVE  Copies(k)' <= 1 + mishaps'
      <3>1. CASE i \in 1..Len(odoo)
        <4>1. odoo[i].key = k /\ Copies(odoo[i].key) <= 1 + mishaps
          BY <1>3, <2>1, <3>1 DEF UpsertFits, KeysFit
        <4>. QED BY <1>1, <1>2, <4>1
      <3>2. CASE i \notin 1..Len(odoo)
        <4>1. k = key /\ n > 0
          BY <1>1, <2>1, <3>2 DEF Grown
        <4>. QED BY <1>1, <1>2, <4>1
      <3>. QED BY <3>1, <3>2
    <2>. QED BY <2>1 DEF KeysFit
  <1>5. CacheFits'
    BY <1>3 DEF UpsertFits, CacheFits
  <1>6. HandFits'
    <2>1. ASSUME run'.pc = "apply", NEW k, k = run'.at.key, run'.found = NoRecord
          PROVE  Copies(k)' <= mishaps'
      <3>1. run.at.key = k /\ Copies(run.at.key) <= mishaps
        BY <2>1 DEF UpsertFits, HandFits, SameHand
      <3>. QED BY <1>1, <1>2, <2>1, <3>1
    <2>2. ASSUME run'.pc = "apply", run'.found # NoRecord
          PROVE  run'.found.id \in 1..Len(odoo') /\ odoo'[run'.found.id].key = run'.at.key
      BY <1>3, <2>2 DEF UpsertFits, HandFits, SameHand
    <2>. QED BY <2>1, <2>2 DEF HandFits
  <1>. QED BY <1>1, <1>4, <1>5, <1>6 DEF UpsertFits

\* Nothing is new in Odoo.
LEMMA UpsertQuiet ==
    ASSUME UpsertFits, Counts, UNCHANGED odoo, Fields \subseteq DOMAIN run', SameHand,
           \A c \in run'.cache : c \in run.cache \/ (c.id \in 1..Len(odoo) /\ odoo[c.id].key = c.key)
    PROVE  UpsertFits'
  <1>1. Grown("none", 0)
    BY CopiesType DEF UpsertFits, Grown
  <1>2. 0 \in 0..2 /\ ~(0 > 0)
    OBVIOUS
  <1>. QED BY <1>1, <1>2, UpsertKept

\* What was preloaded, or has been found by a search, is there.
LEMMA PreloadedFits ==
    ASSUME Listed(odoo), NEW keys
    PROVE  \A c \in Preloaded(keys) :
            c.id \in 1..Len(odoo) /\ odoo[c.id].key = c.key /\ c.key \in keys /\ c # NoRecord
  <1>. SUFFICES ASSUME NEW key \in keys, Indices(key) # {}
                PROVE  LET c == [Lookup(key) EXCEPT !.bare = FALSE] IN
                       c.id \in 1..Len(odoo) /\ odoo[c.id].key = c.key /\ c.key \in keys /\ c # NoRecord
    BY DEF Preloaded
  <1>. DEFINE r == Lookup(key)
  <1>1. /\ r.id \in 1..Len(odoo) /\ odoo[r.id].key = key
        /\ r = [id |-> r.id, key |-> key, hash |-> odoo[r.id].hash, bare |-> TRUE]
    BY LookupFits
  <1>. HIDE DEF r
  <1>2. [r EXCEPT !.bare = FALSE].id = r.id /\ [r EXCEPT !.bare = FALSE].key = key
    BY <1>1
  <1>3. NoRecord.id = 0 /\ r.id # 0
    BY <1>1, CopiesType DEF NoRecord
  <1>. QED BY <1>1, <1>2, <1>3 DEF r

\* find() finds what is there, if there is anything.
LEMMA FindFits ==
    ASSUME UpsertFits, Find, Counts
    PROVE  /\ UpsertFits'
           /\ run.pc = "find" /\ run'.pc \in {"next", "apply"} /\ DOMAIN run' = DOMAIN run
           /\ run'.mem = run.mem /\ run'.todo = run.todo
           /\ run'.pc = "apply" => run'.at = run.at /\ (run'.found = NoRecord => Indices(run.at.key) = {})
           /\ \A c \in run'.cache : c \in run.cache \/ c.key = run.at.key
  <1>. DEFINE key == run.at.key
              Found(r) == [run EXCEPT !.pc = "apply", !.found = r,
                                      !.cache = IF r = NoRecord THEN @ ELSE @ \cup {r}]
  <1>0. Fields \subseteq DOMAIN run /\ Listed(odoo)
    BY DEF UpsertFits
  <1>1. \A r : /\ DOMAIN Found(r) = DOMAIN run /\ Found(r).pc = "apply" /\ Found(r).found = r
               /\ Found(r).cache = (IF r = NoRecord THEN run.cache ELSE run.cache \cup {r})
               /\ Found(r).mem = run.mem /\ Found(r).todo = run.todo /\ Found(r).at = run.at
    BY <1>0 DEF Fields
  <1>. HIDE DEF Found
  <1>2. \/ \E c \in Cached(key) : run' = Found(c)
        \/ Cached(key) = {} /\ run' = Found(Lookup(key))
        \/ run' = [Failed(run) EXCEPT !.clean = FALSE]
    BY DEF Find, Well, Ill, Found
  <1>3. run.pc = "find" /\ UNCHANGED odoo
    BY DEF Find
  <1>4. CASE run' = [Failed(run) EXCEPT !.clean = FALSE]
    <2>1. /\ DOMAIN run' = DOMAIN run /\ run'.pc = "next" /\ run'.cache = run.cache
          /\ run'.mem = run.mem /\ run'.todo = run.todo
      BY <1>0, <1>4 DEF Failed, Onward, Counted, Fields
    <2>. QED BY <1>0, <1>3, <2>1, UpsertQuiet DEF SameHand
  <1>5. ASSUME NEW r, run' = Found(r),
               r = NoRecord => Indices(key) = {},
               r # NoRecord => r.id \in 1..Len(odoo) /\ odoo[r.id].key = r.key /\ r.key = key
        PROVE  /\ UpsertFits'
               /\ run'.pc = "apply" /\ DOMAIN run' = DOMAIN run
               /\ run'.mem = run.mem /\ run'.todo = run.todo /\ run'.at = run.at
               /\ run'.found = NoRecord => Indices(key) = {}
               /\ \A c \in run'.cache : c \in run.cache \/ c.key = key
    <2>1. /\ DOMAIN run' = DOMAIN run /\ run'.pc = "apply" /\ run'.found = r
          /\ run'.cache = (IF r = NoRecord THEN run.cache ELSE run.cache \cup {r})
          /\ run'.mem = run.mem /\ run'.todo = run.todo /\ run'.at = run.at
      BY <1>1, <1>5
    <2>2. CacheFits'
      BY <1>3, <1>5, <2>1 DEF UpsertFits, CacheFits
    <2>3. mishaps \in Nat /\ mishaps' \in Nat /\ mishaps' >= mishaps
      BY DEF UpsertFits, Counts
    <2>4. \A k : Copies(k)' = Copies(k) /\ Indices(k)' = Indices(k)
      BY <1>3 DEF Copies, Indices
    <2>5. HandFits'
      <3>1. r = NoRecord => Copies(key) = 0
        BY <1>0, <1>5, CopiesType
      <3>. QED BY <1>3, <1>5, <2>1, <2>3, <2>4, <3>1 DEF HandFits
    <2>6. KeysFit'
      <3>1. \A i \in 1..Len(odoo) : Copies(odoo[i].key) \in Nat /\ Copies(odoo[i].key) <= 1 + mishaps
        BY <1>0, CopiesType DEF UpsertFits, KeysFit
      <3>. QED BY <1>3, <2>3, <2>4, <3>1 DEF KeysFit
    <2>. QED BY <1>0, <1>3, <1>5, <2>1, <2>2, <2>3, <2>5, <2>6 DEF UpsertFits
  <1>6. CASE \E c \in Cached(key) : run' = Found(c)
    <2>1. PICK c \in Cached(key) : run' = Found(c)
      BY <1>6
    <2>2. c \in run.cache /\ c.key = key
      BY <2>1 DEF Cached
    <2>3. c.id \in 1..Len(odoo) /\ odoo[c.id].key = c.key
      BY <2>2 DEF UpsertFits, CacheFits
    <2>4. c # NoRecord
      BY <1>0, <2>3, CopiesType DEF NoRecord
    <2>. QED BY <1>3, <1>5, <2>1, <2>2, <2>3, <2>4
  <1>7. CASE run' = Found(Lookup(key))
    BY <1>0, <1>3, <1>5, <1>7, LookupFits
  <1>. QED BY <1>2, <1>4, <1>6, <1>7
\* A run begins, ends and is killed with nothing in hand, and nothing known.
LEMMA EmptyHanded ==
    ASSUME UpsertFits, run'.cache = {}, run'.pc # "apply", Fields \subseteq DOMAIN run', Counts, UNCHANGED odoo
    PROVE  UpsertFits'
  BY UpsertQuiet DEF SameHand

\* A run begins with nothing in hand and nothing in its cache.
LEMMA BeginFits ==
    ASSUME UpsertFits, NEW start, NEW todo, start # "apply", Begin(start, todo)
    PROVE  UpsertFits' /\ run'.pc = start /\ run'.todo = todo /\ mishaps' = mishaps
  <1>1. PICK dry \in BOOLEAN :
            run' = [Idle EXCEPT !.pc = start, !.dry = dry, !.todo = todo, !.clean = TRUE,
                                !.calm = run.clean /\ ~run.dry /\ ~run.pushed]
    BY DEF Begin
  <1>2. Fields \subseteq DOMAIN Idle /\ Idle.cache = {}
    BY DEF Idle, Fields
  <1>. HIDE DEF Idle
  <1>3. DOMAIN run' = DOMAIN Idle /\ run'.cache = Idle.cache /\ run'.pc = start /\ run'.todo = todo
    BY <1>1, <1>2 DEF Fields
  <1>. QED BY <1>2, <1>3, EmptyHanded DEF Begin, Counts

\* A run that has written its log has nothing in hand.
LEMMA EndFits ==
    ASSUME UpsertFits, WriteLog
    PROVE  UpsertFits' /\ run'.pc \in {"done", "raised"} /\ Counts
  <1>. DEFINE over == [Idle EXCEPT !.pc = "done", !.dry = run.dry, !.count = run.count,
                             !.fatal = run.fatal, !.handed = run.handed, !.wrote = run.wrote, !.pushed = run.pushed,
                             !.steady = run.steady, !.mem = run.mem,
                             !.clean = run.clean, !.calm = run.calm]
  <1>1. run' = over \/ run' = [over EXCEPT !.clean = FALSE] \/ run' = [[over EXCEPT !.pc = "raised"] EXCEPT !.clean = FALSE]
    BY DEF WriteLog, Well, Ill
  <1>2. DOMAIN Idle = DOMAIN over /\ Fields \subseteq DOMAIN Idle
    BY Zenon DEF Idle, Fields
  <1>3. over.pc = "done" /\ over.cache = {}
    BY DEF Idle
  <1>4. Counts /\ UNCHANGED odoo
    BY DEF WriteLog, Well, Ill, Counts
  <1>. HIDE DEF over
  <1>5. DOMAIN run' = DOMAIN over /\ run'.cache = {} /\ run'.pc \in {"done", "raised"}
    BY <1>1, <1>2, <1>3 DEF Fields
  <1>. QED BY <1>2, <1>4, <1>5, EmptyHanded

\* Nor has one that has crashed.
LEMMA CrashFits ==
    ASSUME UpsertFits, Ill(Idle), UNCHANGED odoo
    PROVE  UpsertFits' /\ run'.pc = "idle" /\ Counts
  <1>1. run' = [Idle EXCEPT !.clean = FALSE] /\ Counts
    BY DEF Ill, Counts
  <1>2. Fields \subseteq DOMAIN run' /\ run'.pc = "idle" /\ run'.cache = {}
    BY <1>1 DEF Idle, Fields
  <1>. QED BY <1>1, <1>2, EmptyHanded

\* A run that has lost an answer.
Marred(r) == [r EXCEPT !.clean = FALSE]

\* The run goes on to the next record and has learnt nothing, or of this record.
Plain(r)         == DOMAIN r = DOMAIN run /\ r.pc = "next" /\ r.cache = run.cache
Knows(r, m, key) == /\ DOMAIN r = DOMAIN run /\ r.pc = "next"
                    /\ \A c \in r.cache : c \in run.cache \/ (c.id = m /\ c.key = key)

\* That something goes wrong changes neither what a run knows nor where it is.
LEMMA MarredFits ==
    ASSUME Fields \subseteq DOMAIN run, NEW r
    PROVE  /\ Plain(r) => Plain(Marred(r))
           /\ \A m, key : Knows(r, m, key) => Knows(Marred(r), m, key)
  BY DEF Plain, Knows, Marred, Fields

New(n, fresh) == odoo \o [i \in 1..n |-> fresh]

\* What upsert() does, whether its requests are carried out, lost or repeated.
Created(fresh, n) ==
    /\ run.found = NoRecord /\ odoo' = New(n, fresh)
    /\ n = 2 => mishaps' = mishaps + 1
    /\ Plain(run') \/ (n > 0 /\ Knows(run', Len(odoo) + n, fresh.key))

Updated(fresh, old) ==
    /\ run.found # NoRecord
    /\ odoo' = odoo \/ (old.key = fresh.key /\ odoo' = [odoo EXCEPT ![run.found.id] = old])
    /\ Plain(run') \/ Knows(run', run.found.id, fresh.key)

Upserted(fresh, old) ==
    /\ Counts /\ run.pc = "apply" /\ run'.pc = "next" /\ DOMAIN run' = DOMAIN run
    /\ \/ \E n \in 0..2 : Created(fresh, n)
       \/ Updated(fresh, old)
       \/ odoo' = odoo /\ Plain(run')

\* The ways in which it ends, by what the run is then: done without a request; failed; or
\* it has written one record, two, or a value of the one that was found.
Requested(fresh, old, k, done, failed, one, two, found) ==
    \/ run' = done /\ mishaps' = mishaps /\ odoo' = odoo
    \/ k = "created" /\ odoo' = New(1, fresh) /\ run' = one /\ mishaps' = mishaps
    \/ k = "created" /\ odoo' = New(0, fresh) /\ run' = Marred(failed) /\ mishaps' = mishaps + 1
    \/ k = "created" /\ odoo' = New(1, fresh) /\ run' = Marred(failed) /\ mishaps' = mishaps + 1
    \/ k = "created" /\ odoo' = New(2, fresh) /\ run' = Marred(two) /\ mishaps' = mishaps + 1
    \/ /\ k = "updated" /\ mishaps' \in {mishaps, mishaps + 1}
       /\ odoo' = odoo \/ odoo' = [odoo EXCEPT ![run.found.id] = old]
       /\ run' \in {found, Marred(failed), Marred(found)}

\* The ways in which the request for the record in hand may end.
LEMMA RequestEnds ==
    ASSUME Fields \subseteq DOMAIN run, run.pc = "apply", NEW fresh, NEW old, old.key = fresh.key,
           NEW k, k = "created" => run.found = NoRecord, k = "updated" => run.found # NoRecord,
           NEW done, Plain(done), NEW failed, Plain(failed),
           NEW one, Knows(one, Len(odoo) + 1, fresh.key),
           NEW two, Knows(two, Len(odoo) + 2, fresh.key),
           NEW found, Knows(found, run.found.id, fresh.key),
           Requested(fresh, old, k, done, failed, one, two, found)
    PROVE  Upserted(fresh, old)
  <1>1. 0 \in 0..2 /\ 1 \in 0..2 /\ 2 \in 0..2 /\ 1 > 0 /\ 2 > 0 /\ 0 # 2 /\ 1 # 2
    OBVIOUS
  <1>2. Plain(Marred(failed)) /\ Knows(Marred(two), Len(odoo) + 2, fresh.key) /\ Knows(Marred(found), run.found.id, fresh.key)
    BY MarredFits
  <1>3. \A r, m : (Plain(r) \/ Knows(r, m, fresh.key)) => r.pc = "next" /\ DOMAIN r = DOMAIN run
    BY DEF Plain, Knows
  <1>4. CASE run' = done /\ mishaps' = mishaps /\ odoo' = odoo
    BY <1>3, <1>4 DEF Upserted, Counts
  <1>5. CASE k = "created" /\ odoo' = New(1, fresh) /\ run' = one /\ mishaps' = mishaps
    <2>1. Created(fresh, 1) /\ Counts
      BY <1>1, <1>5 DEF Created, Counts
    <2>. QED BY <1>1, <1>3, <1>5, <2>1 DEF Upserted
  <1>6. CASE k = "created" /\ odoo' = New(0, fresh) /\ run' = Marred(failed) /\ mishaps' = mishaps + 1
    <2>1. Created(fresh, 0) /\ Counts
      BY <1>1, <1>2, <1>6 DEF Created, Counts
    <2>. QED BY <1>1, <1>2, <1>3, <1>6, <2>1 DEF Upserted
  <1>7. CASE k = "created" /\ odoo' = New(1, fresh) /\ run' = Marred(failed) /\ mishaps' = mishaps + 1
    <2>1. Created(fresh, 1) /\ Counts
      BY <1>1, <1>2, <1>7 DEF Created, Counts
    <2>. QED BY <1>1, <1>2, <1>3, <1>7, <2>1 DEF Upserted
  <1>8. CASE k = "created" /\ odoo' = New(2, fresh) /\ run' = Marred(two) /\ mishaps' = mishaps + 1
    <2>1. Created(fresh, 2) /\ Counts
      BY <1>1, <1>2, <1>8 DEF Created, Counts
    <2>. QED BY <1>1, <1>2, <1>3, <1>8, <2>1 DEF Upserted
  <1>9. CASE /\ k = "updated" /\ mishaps' \in {mishaps, mishaps + 1}
             /\ odoo' = odoo \/ odoo' = [odoo EXCEPT ![run.found.id] = old]
             /\ run' \in {found, Marred(failed), Marred(found)}
    <2>1. Updated(fresh, old) /\ Counts
      BY <1>2, <1>9 DEF Updated, Counts
    <2>. QED BY <1>2, <1>3, <1>9, <2>1 DEF Upserted
  <1>. QED BY <1>4, <1>5, <1>6, <1>7, <1>8, <1>9 DEF Requested

\* n records of this key are new, and there was none if nothing else went wrong.
Adds(key, n) == Grown(key, n) /\ (n > 0 => run.found = NoRecord) /\ (n = 2 => mishaps' = mishaps + 1)

\* Records are appended.
LEMMA AppendGrows ==
    ASSUME Listed(odoo), NEW n \in 0..2, NEW fresh, odoo' = odoo \o [i \in 1..n |-> fresh]
    PROVE  Grown(fresh.key, n)
  <1>. DEFINE new == [i \in 1..n |-> fresh]
  <1>1. PICK S : odoo \in Seq(S)
    BY DEF Listed
  <1>2. new \in Seq({fresh}) /\ Len(new) = n
    OBVIOUS
  <1>3. odoo \in Seq(S \cup {fresh}) /\ new \in Seq(S \cup {fresh})
    BY <1>1, <1>2
  <1>4. Len(odoo) \in Nat
    BY <1>1
  <1>5. \A i \in 1..n : new[i] = fresh
    OBVIOUS
  <1>. HIDE DEF new
  <1>6. /\ odoo' \in Seq(S \cup {fresh}) /\ Len(odoo') = Len(odoo) + n
        /\ \A i \in 1..Len(odoo) : odoo'[i] = odoo[i]
        /\ \A i \in (Len(odoo) + 1)..(Len(odoo) + n) : odoo'[i] = new[i - Len(odoo)]
    BY <1>2, <1>3, <1>4 DEF new
  <1>. QED BY <1>4, <1>5, <1>6 DEF Grown, Listed

\* A record is rewritten.
LEMMA RewriteGrows ==
    ASSUME Listed(odoo), NEW i \in 1..Len(odoo), NEW e, odoo' = [odoo EXCEPT ![i] = e], e.key = odoo[i].key, NEW key
    PROVE  Grown(key, 0)
  <1>1. PICK S : odoo \in Seq(S)
    BY DEF Listed
  <1>2. Len(odoo) \in Nat /\ odoo \in Seq(S \cup {e})
    BY <1>1
  <1>3. odoo' \in Seq(S \cup {e}) /\ Len(odoo') = Len(odoo)
    BY <1>2
  <1>4. \A j \in 1..Len(odoo) : odoo'[j].key = odoo[j].key
    BY <1>2
  <1>5. Len(odoo) + 0 = Len(odoo) /\ (Len(odoo) + 1)..(Len(odoo) + 0) = {}
    BY <1>2
  <1>. QED BY <1>3, <1>4, <1>5 DEF Grown, Listed

\* Nothing is new.
LEMMA NothingGrows ==
    ASSUME Listed(odoo), UNCHANGED odoo, NEW key
    PROVE  Grown(key, 0)
  BY CopiesType DEF Grown

\* upsert() leaves things in order.
LEMMA UpsertDone ==
    ASSUME UpsertFits, NEW key, run.at.key = key, NEW fresh, fresh.key = key, NEW old, Upserted(fresh, old)
    PROVE  UpsertFits' /\ Counts /\ \E n \in 0..2 : Adds(key, n)
  <1>0. /\ Listed(odoo) /\ mishaps \in Nat /\ SameHand /\ Len(odoo) \in Nat /\ Counts
        /\ run.pc = "apply" /\ Fields \subseteq DOMAIN run'
    BY CopiesType DEF UpsertFits, SameHand, Upserted
  <1>1. ASSUME NEW n \in 0..2, Created(fresh, n) PROVE UpsertFits' /\ Adds(key, n)
    <2>1. Grown(key, n)
      BY <1>0, <1>1, AppendGrows DEF Created, New
    <2>2. Copies(key) \in Nat /\ Copies(key) <= mishaps
      BY <1>0, <1>1, CopiesType DEF Created, UpsertFits, HandFits
    <2>3. Copies(key) + n <= 1 + mishaps'
      <3>1. CASE n = 2
        BY <1>0, <1>1, <2>2, <3>1 DEF Created
      <3>2. CASE n # 2
        BY <1>0, <2>2, <3>2 DEF Counts
      <3>. QED BY <3>1, <3>2
    <2>4. ASSUME NEW c \in run'.cache PROVE c \in run.cache \/ (c.id \in 1..Len(odoo') /\ odoo'[c.id].key = c.key)
      <3>1. CASE n > 0 /\ c.id = Len(odoo) + n /\ c.key = fresh.key
        <4>1. c.id \in 1..Len(odoo') /\ c.id \in (Len(odoo) + 1)..(Len(odoo) + n)
          BY <1>0, <2>1, <3>1 DEF Grown
        <4>. QED BY <2>1, <3>1, <4>1 DEF Grown
      <3>. QED BY <1>1, <3>1 DEF Created, Plain, Knows
    <2>5. run'.pc # "apply"
      BY DEF Upserted
    <2>. QED BY <1>0, <1>1, <2>1, <2>3, <2>4, <2>5, UpsertKept DEF Created, Adds
  <1>2. ASSUME Updated(fresh, old) PROVE UpsertFits' /\ Adds(key, 0)
    <2>1. run.found.id \in 1..Len(odoo) /\ odoo[run.found.id].key = key
      BY <1>0, <1>2 DEF UpsertFits, HandFits, Updated
    <2>2. Grown(key, 0)
      BY <1>0, <1>2, <2>1, RewriteGrows, NothingGrows DEF Updated
    <2>3. ~(0 > 0) /\ 0 \in 0..2 /\ 0 # 2 /\ Len(odoo') = Len(odoo)
      BY <1>0, <2>2 DEF Grown
    <2>4. ASSUME NEW c \in run'.cache PROVE c \in run.cache \/ (c.id \in 1..Len(odoo') /\ odoo'[c.id].key = c.key)
      BY <1>2, <2>1, <2>2, <2>3 DEF Updated, Grown, Plain, Knows
    <2>. QED BY <1>0, <2>2, <2>3, <2>4, UpsertKept DEF Adds
  <1>3. ASSUME odoo' = odoo, Plain(run') PROVE UpsertFits' /\ Adds(key, 0)
    <2>1. Grown(key, 0) /\ ~(0 > 0) /\ 0 # 2
      BY <1>0, <1>3, NothingGrows
    <2>. QED BY <1>0, <1>3, <2>1, UpsertQuiet DEF Adds, Plain
  <1>4. 0 \in 0..2
    OBVIOUS
  <1>. QED BY <1>0, <1>1, <1>2, <1>3, <1>4 DEF Upserted

\* So does another run that handles a record.
LEMMA OverlapDone ==
    ASSUME UpsertFits, Ill(run), NEW fresh, NEW old, old.key = fresh.key,
           odoo' = IF Indices(fresh.key) = {} THEN Append(odoo, fresh)
                   ELSE IF odoo[First(Indices(fresh.key))].hash = fresh.hash THEN odoo
                   ELSE [odoo EXCEPT ![First(Indices(fresh.key))] = old]
    PROVE  /\ UpsertFits' /\ mishaps' = mishaps + 1
           /\ \E n \in 0..1 : Grown(fresh.key, n) /\ (n > 0 => Indices(fresh.key) = {})
  <1>. DEFINE key == fresh.key
              f == First(Indices(key))
  <1>0. Listed(odoo) /\ mishaps \in Nat /\ mishaps' = mishaps + 1 /\ Counts /\ Fields \subseteq DOMAIN run
    BY DEF UpsertFits, Ill, Counts
  <1>1. DOMAIN run' = DOMAIN run /\ SameHand /\ run'.cache = run.cache
    BY <1>0 DEF Ill, SameHand, Fields
  <1>2. CASE Indices(key) = {}
    <2>1. odoo' = odoo \o [i \in 1..1 |-> fresh]
      <3>1. odoo' = Append(odoo, fresh) /\ <<fresh>> = [i \in 1..1 |-> fresh]
        BY <1>2
      <3>2. PICK S : odoo \in Seq(S)
        BY <1>0 DEF Listed
      <3>3. odoo \in Seq(S \cup {fresh}) /\ fresh \in S \cup {fresh}
        BY <3>2
      <3>4. Append(odoo, fresh) = odoo \o <<fresh>>
        BY <3>3
      <3>. QED BY <3>1, <3>4
    <2>2. Grown(key, 1)
      BY <1>0, <2>1, AppendGrows
    <2>3. Copies(key) = 0
      BY <1>0, <1>2, CopiesType
    <2>4. Copies(key) + 1 <= mishaps' /\ Copies(key) + 1 <= 1 + mishaps' /\ 1 \in 0..2 /\ 1 \in 0..1
      BY <1>0, <2>3
    <2>. HIDE DEF key
    <2>. QED BY <1>0, <1>1, <1>2, <2>2, <2>4, UpsertKept DEF key
  <1>3. CASE Indices(key) # {}
    <2>1. f \in 1..Len(odoo) /\ odoo[f].key = key
      <3>1. Indices(key) \in SUBSET Nat
        BY <1>0, CopiesType DEF Indices
      <3>2. f \in Indices(key)
        BY <1>3, <3>1, FirstIsIn
      <3>. QED BY <3>2 DEF Indices
    <2>2. odoo' = odoo \/ odoo' = [odoo EXCEPT ![f] = old]
      BY <1>3
    <2>. HIDE DEF f
    <2>3. Grown(key, 0)
      BY <1>0, <2>1, <2>2, RewriteGrows, NothingGrows
    <2>4. ~(0 > 0) /\ 0 \in 0..2 /\ 0 \in 0..1
      OBVIOUS
    <2>. QED BY <1>0, <1>1, <2>3, <2>4, UpsertKept
  <1>. QED BY <1>0, <1>2, <1>3

-------------------------------------------------------------------------------
\* No approval activity is there too often.
ReviewsFit == IsABag(reviews) /\ \A k \in BagToSet(reviews) : reviews[k] <= 1 + mishaps

\* Activities that stay are not too many.
LEMMA ReviewsKept ==
    ASSUME ReviewsFit, UNCHANGED reviews, mishaps \in Nat, Counts
    PROVE  ReviewsFit'
  <1>1. \A k \in DOMAIN reviews : reviews[k] \in Nat
    BY DEF ReviewsFit, IsABag
  <1>. QED BY <1>1 DEF ReviewsFit, IsABag, BagToSet, Counts

\* One is raised, if there is none yet.
LEMMA RaiseFits ==
    ASSUME ReviewsFit, mishaps \in Nat, NEW k, NEW r, Raise(k, r)
    PROVE  ReviewsFit' /\ Counts
  <1>1. CASE UNCHANGED reviews /\ Well(r)
    BY <1>1, ReviewsKept DEF Well, Counts
  <1>2. ASSUME NEW n \in 0..2, ~BagIn(k, reviews), Counts, n = 2 => mishaps' = mishaps + 1,
               reviews' = reviews (+) [x \in {k : i \in 1..n} |-> n]
        PROVE  ReviewsFit'
    <2>. DEFINE new == [x \in {k : i \in 1..n} |-> n]
    <2>1. DOMAIN new \subseteq {k} /\ \A x \in DOMAIN new : new[x] = n /\ n > 0
      OBVIOUS
    <2>. HIDE DEF new
    <2>2. k \notin DOMAIN reviews /\ \A x \in DOMAIN reviews : reviews[x] \in Nat /\ reviews[x] > 0 /\ reviews[x] <= 1 + mishaps
      BY <1>2 DEF BagIn, BagToSet, ReviewsFit, IsABag
    <2>3. reviews' = reviews (+) new
      BY <1>2 DEF new
    <2>4. /\ DOMAIN reviews' = DOMAIN reviews \cup DOMAIN new
          /\ \A x \in DOMAIN reviews : reviews'[x] = reviews[x]
          /\ \A x \in DOMAIN new : reviews'[x] = n
      BY <2>1, <2>2, <2>3 DEF (+), BagToSet
    <2>5. n <= 1 + mishaps' /\ \A m \in Nat : m <= 1 + mishaps => m <= 1 + mishaps'
      <3>1. ASSUME NEW a \in Nat, NEW b \in {a, a + 1}, n = 2 => b = a + 1
            PROVE  n <= 1 + b /\ \A m \in Nat : m <= 1 + a => m <= 1 + b
        BY <3>1
      <3>. QED BY <1>2, <3>1 DEF Counts
    <2>6. \A x \in DOMAIN reviews' : reviews'[x] \in Nat /\ reviews'[x] > 0 /\ reviews'[x] <= 1 + mishaps'
      BY <2>1, <2>2, <2>4, <2>5
    <2>7. reviews' = [x \in DOMAIN reviews' |-> reviews'[x]]
      BY <2>3 DEF (+)
    <2>8. reviews' \in [DOMAIN reviews' -> {m \in Nat : m > 0}]
      BY <2>6, <2>7
    <2>. QED BY <2>6, <2>8 DEF ReviewsFit, IsABag, BagToSet
  <1>3. CASE ~(run.dry \/ BagIn(k, reviews))
    <2>1. PICK n \in 0..2 : /\ reviews' = reviews (+) [x \in {k : i \in 1..n} |-> n]
                            /\ Counts /\ (n = 2 => mishaps' = mishaps + 1)
      BY <1>3 DEF Raise, Send, Well, Ill, Counts
    <2>. QED BY <1>2, <1>3, <2>1
  <1>. QED BY <1>1, <1>3 DEF Raise

\* A person sees to one.
LEMMA CloseFits ==
    ASSUME ReviewsFit, mishaps \in Nat, UNCHANGED mishaps,
           \E k \in BagToSet(reviews) : reviews' = reviews (-) SetToBag({k})
    PROVE  ReviewsFit'
  <1>1. PICK k \in BagToSet(reviews) : reviews' = reviews (-) SetToBag({k})
    OBVIOUS
  <1>2. /\ \A x \in DOMAIN reviews : reviews[x] \in Nat /\ reviews[x] > 0
        /\ \A x \in DOMAIN reviews : reviews[x] <= 1 + mishaps
    BY DEF ReviewsFit, IsABag, BagToSet
  <1>3. DOMAIN SetToBag({k}) = {k} /\ SetToBag({k})[k] = 1
    BY DEF SetToBag
  <1>. DEFINE left == [x \in DOMAIN reviews |-> IF x = k THEN reviews[x] - 1 ELSE reviews[x]]
  <1>4. \A x \in DOMAIN reviews : left[x] \in Int /\ left[x] <= reviews[x]
    BY <1>2
  <1>5. reviews' = [x \in {y \in DOMAIN reviews : left[y] > 0} |-> left[x]]
    BY <1>1, <1>3 DEF (-)
  <1>. HIDE DEF left
  <1>6. \A x \in DOMAIN reviews' : /\ x \in DOMAIN reviews /\ reviews'[x] = left[x]
                                   /\ reviews'[x] \in Nat /\ reviews'[x] > 0
    BY <1>4, <1>5
  <1>7. \A x \in DOMAIN reviews' : reviews'[x] <= 1 + mishaps
    <2>1. ASSUME NEW a \in Nat, NEW m \in Int, NEW n \in Int, m <= n, n <= 1 + a
          PROVE  m <= 1 + a
      BY <2>1
    <2>. QED BY <1>2, <1>4, <1>6, <2>1
  <1>8. reviews' = [x \in DOMAIN reviews' |-> reviews'[x]]
    BY <1>5
  <1>9. reviews' \in [DOMAIN reviews' -> {m \in Nat : m > 0}]
    BY <1>6, <1>8
  <1>. QED BY <1>7, <1>9 DEF ReviewsFit, IsABag, BagToSet

-------------------------------------------------------------------------------
\* NagerDate, which raises no activities.
OnceInv == UpsertFits /\ ReviewsFit

\* What NagerDate takes from the Upserter is what is meant here.
LEMMA NGShares ==
    /\ NG!Find <=> Find
    /\ \A keys : NG!Preloaded(keys) = Preloaded(keys)
    /\ \A key : NG!Indices(key) = Indices(key)
    /\ \A S : NG!First(S) = First(S)
    /\ \A r : NG!Ill(r) <=> Ill(r)
  <1>1. \A r : (NG!Well(r) <=> Well(r)) /\ (NG!Ill(r) <=> Ill(r)) /\ NG!Failed(r) = Failed(r)
    BY DEF NG!Well, Well, NG!Ill, Ill, NG!Failed, Failed, NG!Onward, Onward, NG!Counted, Counted,
           NG!Nothing, Nothing, NG!NoRecord, NoRecord
  <1>2. (\A key : NG!Indices(key) = Indices(key)) /\ (\A S : NG!First(S) = First(S)) /\ NG!NoRecord = NoRecord
    BY DEF NG!Indices, Indices, NG!First, First, NG!NoRecord, NoRecord
  <1>3. \A key : NG!Lookup(key) = Lookup(key) /\ NG!Cached(key) = Cached(key)
    BY <1>2 DEF NG!Lookup, Lookup, NG!Cached, Cached
  <1>4. \A keys : NG!Preloaded(keys) = Preloaded(keys)
    BY <1>2, <1>3 DEF NG!Preloaded, Preloaded
  <1>5. NG!Find <=> Find
    BY <1>1, <1>2, <1>3 DEF NG!Find, Find
  <1>. QED BY <1>1, <1>2, <1>4, <1>5

\* Every step of NagerDate leaves things in order.
LEMMA NGOnce ==
    ASSUME OnceInv, NG!Next
    PROVE  OnceInv'
  <1>shape. UpsertFits /\ ReviewsFit /\ mishaps \in Nat /\ Fields \subseteq DOMAIN run
    BY DEF OnceInv, UpsertFits
  <1>1. ASSUME NG!Start PROVE OnceInv'
    <2>1. PICK todo : Begin("next", todo)
      BY <1>1, NGSame DEF NG!Start
    <2>2. UpsertFits' /\ Counts /\ UNCHANGED reviews
      BY <1>shape, <2>1, BeginFits DEF Begin, Counts
    <2>. QED BY <1>shape, <2>2, ReviewsKept DEF OnceInv
  <1>2. ASSUME NG!FetchCalendar PROVE OnceInv'
    <2>1. /\ UNCHANGED <<odoo, reviews>> /\ Counts
          /\ DOMAIN run' = DOMAIN run /\ run'.pc = "next"
          /\ \E keys : run'.cache \subseteq run.cache \cup NG!Preloaded(keys)
      BY <1>shape, <1>2 DEF NG!FetchCalendar, NG!Well, NG!Ill, NG!Failed, NG!TakenUp, NG!Onward, NG!Counted, Fields, Counts
    <2>2. \A c \in run'.cache : c \in run.cache \/ (c.id \in 1..Len(odoo) /\ odoo[c.id].key = c.key)
      BY <1>shape, <2>1, NGShares, PreloadedFits DEF UpsertFits
    <2>. QED BY <1>shape, <2>1, <2>2, UpsertQuiet, ReviewsKept DEF OnceInv, SameHand
  <1>3. ASSUME NG!TakeHoliday \/ NG!Finish PROVE OnceInv'
    <2>1. /\ UNCHANGED <<odoo, reviews>> /\ Counts
          /\ DOMAIN run' = DOMAIN run /\ run'.pc # "apply" /\ run'.cache = run.cache
      BY <1>shape, <1>3 DEF NG!TakeHoliday, NG!Finish, NG!Synced, NG!Well, NG!Failed, NG!TakenUp, NG!Onward,
             NG!Counted, Fields, Counts
    <2>. QED BY <1>shape, <2>1, UpsertQuiet, ReviewsKept DEF OnceInv, SameHand
  <1>4. ASSUME NG!Find PROVE OnceInv'
    <2>1. Find /\ Counts /\ UNCHANGED reviews
      BY <1>4, NGShares DEF Find, Well, Ill, Counts
    <2>. QED BY <1>shape, <2>1, FindFits, ReviewsKept DEF OnceInv
  <1>5. ASSUME NG!SyncHoliday PROVE OnceInv'
    <2>. DEFINE fresh == NG!Event(run.at.key, run.at.hash)
                k == NG!Outcome(run.found, fresh)
                done == NG!Onward(NG!Counted(run, k))
                Written(m) == NG!Known(NG!Wrote(done), m, fresh)
                failed == NG!Failed(NG!Wrote(run))
    <2>1. fresh.key = run.at.key
      BY DEF NG!Event
    <2>2. (k = "created" => run.found = NoRecord) /\ (k = "updated" => run.found # NoRecord)
      BY DEF NG!Outcome, NG!NoRecord, NoRecord
    <2>3. Plain(done) /\ Plain(failed)
      BY <1>shape DEF NG!Onward, NG!Counted, NG!Failed, NG!Wrote, Fields, Plain
    <2>4. \A m : Knows(Written(m), m, fresh.key)
      <3>. HIDE DEF done, fresh
      <3>. QED BY <1>shape, <2>3 DEF NG!Wrote, NG!Known, Fields, Plain, Knows
    <2>5. /\ run.pc = "apply" /\ UNCHANGED reviews
          /\ Requested(fresh, fresh, k, done, failed, Written(Len(odoo) + 1), Written(Len(odoo) + 2), Written(run.found.id))
      BY <1>5 DEF NG!SyncHoliday, NG!Upsert, NG!Send, NG!Well, NG!Ill, Requested, Marred, New
    <2>. HIDE DEF k, done, Written, failed, fresh
    <2>6. Upserted(fresh, fresh)
      BY <1>shape, <2>2, <2>3, <2>4, <2>5, RequestEnds
    <2>. PICK key : key = run.at.key
      OBVIOUS
    <2>. QED BY <1>shape, <2>1, <2>5, <2>6, UpsertDone, ReviewsKept DEF OnceInv
  <1>6. ASSUME NG!WriteLog PROVE OnceInv'
    <2>1. WriteLog /\ UNCHANGED reviews
      BY <1>6, NGSame DEF WriteLog
    <2>. QED BY <1>shape, <2>1, EndFits, ReviewsKept DEF OnceInv
  <1>7. ASSUME NG!Crash PROVE OnceInv'
    <2>1. Ill(Idle) /\ UNCHANGED <<odoo, reviews>>
      BY <1>7, NGSame DEF NG!Crash
    <2>. QED BY <1>shape, <2>1, CrashFits, ReviewsKept DEF OnceInv
  <1>8. ASSUME NG!OtherRun PROVE OnceInv'
    <2>1. PICK h \in Holidays : NG!Overlap(NG!Event(h, source[h]), LAMBDA old : NG!Event(h, source[h]))
      BY <1>8 DEF NG!OtherRun
    <2>. DEFINE fresh == NG!Event(h, source[h])
    <2>2. /\ Ill(run) /\ UNCHANGED reviews
          /\ odoo' = IF Indices(fresh.key) = {} THEN Append(odoo, fresh)
                     ELSE IF odoo[First(Indices(fresh.key))].hash = fresh.hash THEN odoo
                     ELSE [odoo EXCEPT ![First(Indices(fresh.key))] = fresh]
      BY <2>1, NGShares DEF NG!Overlap
    <2>3. Counts
      BY <2>2 DEF Ill, Counts
    <2>. HIDE DEF fresh
    <2>. QED BY <1>shape, <2>2, <2>3, OverlapDone, ReviewsKept DEF OnceInv
  <1>9. ASSUME NG!Republish PROVE OnceInv'
    <2>1. /\ UNCHANGED <<odoo, reviews>> /\ Counts
          /\ DOMAIN run' = DOMAIN run /\ run'.pc = run.pc /\ run'.cache = run.cache /\ run'.found = run.found
          /\ run'.at = run.at
      BY <1>shape, <1>9 DEF NG!Republish, NG!Change, Fields, Counts
    <2>. QED BY <1>shape, <2>1, UpsertQuiet, ReviewsKept DEF OnceInv, SameHand
  <1>. QED BY <1>1, <1>2, <1>3, <1>4, <1>5, <1>6, <1>7, <1>8, <1>9 DEF NG!Next, NG!Step

-------------------------------------------------------------------------------
\* JsonPlaceholder.  The points of a run that handles users or posts.
JPPlaces == {"next", "review", "find", "apply"}

UserKeys        == {JP!Partner(u) : u \in Users}
PostKeys(model) == {model} \X Posts

\* What is still to be handled, and what is in hand, has one of these keys.
Keyed(keys) ==
    /\ \E S : run.todo \in Seq(S) /\ \A row \in S : row.key \in keys
    /\ run.pc # "next" => run.at.key \in keys

\* Where posts belong, and whether the run takes them elsewhere.
TheModel == JP!PostModel(source.models)
Misread  == run.pc \in JPPlaces /\ run.mem.phase = "posts" /\ run.mem.model # TheModel

\* A post is looked for before it is created, and no other run handles posts.
JPRun ==
    run.pc \in JPPlaces =>
        /\ {"phase", "model", "seen", "partner"} \subseteq DOMAIN run.mem
        /\ run.mem.phase \in {"users", "posts"}
        /\ run.mem.phase = "users" => Keyed(UserKeys)
        /\ run.mem.phase = "posts" => Keyed(PostKeys(run.mem.model))
        /\ run.mem.phase = "posts" /\ (run.pc # "next" \/ run.todo # <<>>) => run.mem.model \in JP!Models
        /\ run.mem.phase = "posts" /\ run.pc = "apply" /\ run.found = NoRecord => Indices(run.at.key) = {}

\* A post has a record in another model only where n things went wrong, and one less where
\* it belongs while a run takes it elsewhere.
PostsWithin(n) ==
    \A p \in Posts :
        /\ Copies(<<"helpdesk.ticket", p>>) + Copies(<<"project.task", p>>) <= 1 + n
        /\ \A m \in JP!Models : m # TheModel => Copies(<<m, p>>) <= n
        /\ \A m \in JP!Models : m = TheModel /\ Misread => Copies(<<m, p>>) <= n
        /\ Misread => n > 0

PostsFit == PostsWithin(mishaps)

JPSource == {"users", "posts", "models"} \subseteq DOMAIN source /\ source.models \subseteq JP!Models

JPOnceInv == UpsertFits /\ ReviewsFit /\ JPSource /\ JPRun /\ PostsFit

\* What JsonPlaceholder takes from ConnectorRun is what is meant here.
LEMMA JPShares ==
    /\ JP!Find <=> Find
    /\ \A k, r : JP!Raise(k, r) <=> Raise(k, r)
    /\ \A keys : JP!Preloaded(keys) = Preloaded(keys)
    /\ \A key : JP!Indices(key) = Indices(key)
    /\ \A S : JP!First(S) = First(S)
    /\ \A r : JP!Ill(r) <=> Ill(r)
  <1>1. \A r : (JP!Well(r) <=> Well(r)) /\ (JP!Ill(r) <=> Ill(r)) /\ JP!Failed(r) = Failed(r) /\ JP!Wrote(r) = Wrote(r)
    BY DEF JP!Well, Well, JP!Ill, Ill, JP!Failed, Failed, JP!Onward, Onward, JP!Counted, Counted,
           JP!Nothing, Nothing, JP!NoRecord, NoRecord, JP!Wrote, Wrote
  <1>2. (\A key : JP!Indices(key) = Indices(key)) /\ (\A S : JP!First(S) = First(S)) /\ JP!NoRecord = NoRecord
    BY DEF JP!Indices, Indices, JP!First, First, JP!NoRecord, NoRecord
  <1>3. \A key : JP!Lookup(key) = Lookup(key) /\ JP!Cached(key) = Cached(key)
    BY <1>2 DEF JP!Lookup, Lookup, JP!Cached, Cached
  <1>4. \A keys : JP!Preloaded(keys) = Preloaded(keys)
    BY <1>2, <1>3 DEF JP!Preloaded, Preloaded
  <1>5. JP!Find <=> Find
    BY <1>1, <1>2, <1>3 DEF JP!Find, Find
  <1>6. \A k, r : JP!Raise(k, r) <=> Raise(k, r)
    BY <1>1 DEF JP!Raise, Raise, JP!Send, Send, JP!BagIn, BagIn, JP!BagToSet, BagToSet, JP!(+), (+)
  <1>. QED BY <1>1, <1>2, <1>4, <1>5, <1>6

\* Posts are where they were, whatever else is new.
LEMMA PostsStay ==
    ASSUME NEW a \in Nat, NEW b \in {a, a + 1}, PostsWithin(a),
           Listed(odoo), JPSource, source'.models = source.models,
           NEW key, NEW n \in 0..2, Grown(key, n), n = 0 \/ key \in UserKeys,
           Misread' => Misread \/ b = a + 1
    PROVE  PostsWithin(b)'
  <1>1. ASSUME NEW m \in JP!Models, NEW p \in Posts
        PROVE  Copies(<<m, p>>) \in Nat /\ Copies(<<m, p>>)' = Copies(<<m, p>>)
    <2>1. n = 0 \/ key # <<m, p>>
      BY <1>1 DEF UserKeys, JP!Partner, JP!Models
    <2>. QED BY <2>1, CopiesType, CopiesGrow
  <1>2. TheModel' = TheModel
    BY DEF TheModel, JP!PostModel
  <1>3. "helpdesk.ticket" \in JP!Models /\ "project.task" \in JP!Models
        /\ \A m \in JP!Models : m = "helpdesk.ticket" \/ m = "project.task"
    BY DEF JP!Models
  <1>4. ASSUME NEW p \in Posts
        PROVE  /\ Copies(<<"helpdesk.ticket", p>>)' + Copies(<<"project.task", p>>)' <= 1 + b
               /\ \A m \in JP!Models : m # TheModel => Copies(<<m, p>>)' <= b
               /\ \A m \in JP!Models : m = TheModel /\ Misread' => Copies(<<m, p>>)' <= b
               /\ Misread' => b > 0
    <2>. PICK t, u : t = Copies(<<"helpdesk.ticket", p>>) /\ u = Copies(<<"project.task", p>>)
      OBVIOUS
    <2>1. /\ t \in Nat /\ t = Copies(<<"helpdesk.ticket", p>>) /\ t = Copies(<<"helpdesk.ticket", p>>)'
          /\ u \in Nat /\ u = Copies(<<"project.task", p>>) /\ u = Copies(<<"project.task", p>>)'
      BY <1>1, <1>3
    <2>2. t + u <= 1 + a /\ (Misread => a > 0)
      BY <2>1 DEF PostsWithin
    <2>3. ASSUME NEW m \in JP!Models, m # TheModel PROVE Copies(<<m, p>>)' <= b
      <3>1. Copies(<<m, p>>) <= a /\ Copies(<<m, p>>) \in Nat /\ Copies(<<m, p>>)' = Copies(<<m, p>>)
        BY <1>1, <2>3 DEF PostsWithin
      <3>. QED BY <3>1
    <2>4. ASSUME NEW m \in JP!Models, m = TheModel, Misread' PROVE Copies(<<m, p>>)' <= b
      <3>1. CASE Misread
        <4>1. Copies(<<m, p>>) <= a /\ Copies(<<m, p>>) \in Nat /\ Copies(<<m, p>>)' = Copies(<<m, p>>)
          BY <1>1, <2>4, <3>1 DEF PostsWithin
        <4>. QED BY <4>1
      <3>2. CASE b = a + 1
        <4>1. Copies(<<m, p>>)' = t \/ Copies(<<m, p>>)' = u
          BY <1>3, <2>1, <2>4
        <4>. QED BY <2>1, <2>2, <3>2, <4>1
      <3>. QED BY <2>4, <3>1, <3>2
    <2>. QED BY <2>1, <2>2, <2>3, <2>4
  <1>. QED BY <1>2, <1>4 DEF PostsWithin

\* So posts are where they are meant to be.
LEMMA PostsKept ==
    ASSUME PostsFit, Listed(odoo), mishaps \in Nat, Counts, JPSource, source'.models = source.models,
           NEW key, NEW n \in 0..2, Grown(key, n), n = 0 \/ key \in UserKeys,
           Misread' => Misread \/ mishaps' = mishaps + 1
    PROVE  PostsFit'
  <1>1. PICK a, b : a = mishaps /\ b = mishaps'
    OBVIOUS
  <1>2. a \in Nat /\ b \in {a, a + 1} /\ (Misread' => Misread \/ b = a + 1)
    BY <1>1 DEF Counts
  <1>3. PostsWithin(a)
    BY <1>1 DEF PostsFit
  <1>4. PostsWithin(b)'
    BY <1>2, <1>3, PostsStay
  <1>. QED BY <1>1, <1>4 DEF PostsFit

\* A step ends with the run as it was meant to go on, or marred.
LEMMA TurnsInto ==
    ASSUME NEW r, Fields \subseteq DOMAIN r, Well(r) \/ Ill(r)
    PROVE  /\ Counts /\ DOMAIN run' = DOMAIN r
           /\ run'.pc = r.pc /\ run'.todo = r.todo /\ run'.at = r.at /\ run'.cache = r.cache
           /\ run'.found = r.found /\ run'.mem = r.mem
  BY DEF Well, Ill, Counts, Fields

\* Raising an activity turns the run into the one that is given.
LEMMA RaiseTurns ==
    ASSUME NEW k, NEW r, Fields \subseteq DOMAIN r, Raise(k, r)
    PROVE  /\ DOMAIN run' = DOMAIN r
           /\ run'.pc = r.pc /\ run'.todo = r.todo /\ run'.at = r.at /\ run'.cache = r.cache
           /\ run'.found = r.found /\ run'.mem = r.mem
  <1>1. PICK q \in {r, Wrote(r)} : Well(q) \/ Ill(q)
    BY DEF Raise, Send
  <1>2. /\ DOMAIN q = DOMAIN r
        /\ q.pc = r.pc /\ q.todo = r.todo /\ q.at = r.at /\ q.cache = r.cache
        /\ q.found = r.found /\ q.mem = r.mem
    BY <1>1 DEF Wrote, Fields
  <1>. QED BY <1>1, <1>2, TurnsInto

\* What is left, and what is remembered, is that of one of the ways in which upsert() ends.
LEMMA RequestKeeps ==
    ASSUME NEW fresh, NEW old, NEW k, NEW done, NEW failed, NEW one, NEW two, NEW found,
           Requested(fresh, old, k, done, failed, one, two, found),
           \A r \in {done, failed, one, two, found} : Fields \subseteq DOMAIN r
    PROVE  \E r \in {done, failed, one, two, found} :
            run'.todo = r.todo /\ run'.mem = r.mem /\ run'.cache = r.cache
  <1>1. \A r \in {done, failed, one, two, found} : Marred(r).todo = r.todo /\ Marred(r).mem = r.mem /\ Marred(r).cache = r.cache
    BY DEF Marred, Fields
  <1>2. \E r \in {done, failed, one, two, found} : run' = r \/ run' = Marred(r)
    BY DEF Requested
  <1>. QED BY <1>1, <1>2

\* A set that is listed.
LEMMA JPSetToSeq ==
    ASSUME NEW S, IsFiniteSet(S)
    PROVE  JP!SetToSeq(S) \in Seq(S)
  <1>1. JP!Cardinality(S) = Cardinality(S)
    BY DEF JP!Cardinality, Cardinality
  <1>2. Cardinality(S) \in Nat /\ \E f \in [1..Cardinality(S) -> S] : JP!IsInjective(f)
    BY FS_CardinalityType DEF ExistsBijection, Bijection, Injection, IsInjective, JP!IsInjective
  <1>. QED BY <1>1, <1>2 DEF JP!SetToSeq

\* The first record of a post, or a second one that a mishap has made.
LEMMA PostsAdd ==
    ASSUME NEW a \in Nat, NEW b \in {a, a + 1}, PostsWithin(a),
           Listed(odoo), JPSource, source'.models = source.models,
           NEW model \in JP!Models, NEW q \in Posts, NEW n \in 1..2, Grown(<<model, q>>, n),
           Copies(<<model, q>>) = 0, n = 2 => b = a + 1, model = TheModel \/ Misread, Misread' => Misread
    PROVE  PostsWithin(b)'
  <1>1. \A key : Copies(key) \in Nat /\ Copies(key)' = Copies(key) + (IF key = <<model, q>> THEN n ELSE 0)
    <2>1. n \in 0..2
      OBVIOUS
    <2>. QED BY <2>1, CopiesType, CopiesGrow
  <1>2. TheModel' = TheModel
    BY DEF TheModel, JP!PostModel
  <1>3. "helpdesk.ticket" \in JP!Models /\ "project.task" \in JP!Models
        /\ \A m \in JP!Models : m = "helpdesk.ticket" \/ m = "project.task"
    BY DEF JP!Models
  <1>4. ASSUME NEW p \in Posts
        PROVE  /\ Copies(<<"helpdesk.ticket", p>>)' + Copies(<<"project.task", p>>)' <= 1 + b
               /\ \A m \in JP!Models : m # TheModel => Copies(<<m, p>>)' <= b
               /\ \A m \in JP!Models : m = TheModel /\ Misread' => Copies(<<m, p>>)' <= b
               /\ Misread' => b > 0
    <2>. DEFINE c(m) == Copies(<<m, p>>)
    <2>1. \A m \in JP!Models : /\ c(m) \in Nat
                               /\ c(m)' = c(m) + (IF m = model /\ p = q THEN n ELSE 0)
                               /\ m = model /\ p = q => c(m) = 0
      <3>1. \A m : <<m, p>> = <<model, q>> <=> m = model /\ p = q
        OBVIOUS
      <3>. QED BY <1>1, <3>1
    <2>2. /\ c("helpdesk.ticket") + c("project.task") <= 1 + a
          /\ \A m \in JP!Models : m # TheModel => c(m) <= a
          /\ \A m \in JP!Models : m = TheModel /\ Misread => c(m) <= a
          /\ Misread => a > 0
      BY DEF PostsWithin
    <2>3. \A m \in JP!Models : m # model => c(m) <= a
      BY <2>2
    <2>4. PICK t, u, tt, uu : /\ t = c("helpdesk.ticket") /\ tt = c("helpdesk.ticket")'
                              /\ u = c("project.task") /\ uu = c("project.task")'
      OBVIOUS
    <2>. HIDE DEF c
    <2>5. t \in Nat /\ u \in Nat /\ t + u <= 1 + a
      BY <1>3, <2>1, <2>2, <2>4
    <2>6. CASE p # q
      <3>1. \A m \in JP!Models : c(m)' = c(m) /\ c(m) \in Nat
        BY <2>1, <2>6
      <3>2. ASSUME NEW m \in JP!Models, m # TheModel \/ Misread' PROVE c(m)' <= b
        <4>1. c(m) <= a /\ c(m)' = c(m) /\ c(m) \in Nat
          BY <2>2, <3>1, <3>2
        <4>. QED BY <4>1
      <3>3. tt = t /\ uu = u
        BY <1>3, <2>4, <3>1
      <3>4. tt + uu <= 1 + b
        BY <2>5, <3>3
      <3>5. Misread' => b > 0
        BY <2>2
      <3>. QED BY <2>4, <3>2, <3>4, <3>5 DEF c
    <2>7. CASE p = q
      <3>1. PICK v : v = c(model)'
        OBVIOUS
      <3>2. v = n
        BY <2>1, <2>7, <3>1
      <3>3. ASSUME NEW m \in JP!Models, m # model PROVE c(m)' <= a /\ c(m)' \in Nat
        BY <2>1, <2>3, <3>3
      <3>4. tt + uu <= 1 + b
        <4>1. (tt = n /\ uu <= a /\ uu \in Nat) \/ (uu = n /\ tt <= a /\ tt \in Nat)
          BY <1>3, <2>4, <3>1, <3>2, <3>3
        <4>. QED BY <4>1
      <3>5. ASSUME NEW m \in JP!Models, m # TheModel \/ Misread' PROVE c(m)' <= b
        <4>1. CASE m # model
          <5>1. PICK w : w = c(m)'
            OBVIOUS
          <5>2. w <= a /\ w \in Nat
            BY <3>3, <4>1, <5>1
          <5>. QED BY <5>1, <5>2
        <4>2. CASE m = model
          <5>1. Misread
            BY <3>5, <4>2
          <5>2. n <= b
            BY <2>2, <5>1
          <5>. QED BY <3>1, <3>2, <4>2, <5>2
        <4>. QED BY <4>1, <4>2
      <3>6. Misread' => b > 0
        BY <2>2
      <3>. QED BY <2>4, <3>4, <3>5, <3>6 DEF c
    <2>. QED BY <2>6, <2>7
  <1>. QED BY <1>2, <1>4 DEF PostsWithin

\* Posts stay where they are when nothing is new in Odoo.
LEMMA PostsRest ==
    ASSUME JPOnceInv, UNCHANGED odoo, Counts, source'.models = source.models,
           Misread' => Misread \/ mishaps' = mishaps + 1
    PROVE  PostsFit' /\ \A k : Indices(k)' = Indices(k)
  <1>1. Grown("none", 0) /\ 0 \in 0..2 /\ 0 = 0
    BY NothingGrows DEF JPOnceInv, UpsertFits
  <1>2. PostsFit /\ Listed(odoo) /\ mishaps \in Nat /\ JPSource
    BY DEF JPOnceInv, UpsertFits
  <1>3. PostsFit'
    BY <1>1, <1>2, PostsKept
  <1>. QED BY <1>3 DEF Indices

\* A run that begins or is over.
LEMMA JPRests ==
    ASSUME JPOnceInv, UpsertFits', ReviewsFit', UNCHANGED <<odoo, source>>, Counts, run'.pc \notin JPPlaces
    PROVE  JPOnceInv'
  <1>1. ~Misread' /\ JPRun' /\ JPSource'
    BY DEF Misread, JPRun, JPOnceInv, JPSource
  <1>2. PostsFit'
    BY <1>1, PostsRest
  <1>. QED BY <1>1, <1>2 DEF JPOnceInv

\* The users are fetched, or not.
LEMMA JPFetchUsers ==
    ASSUME JPOnceInv, JP!FetchUsers
    PROVE  JPOnceInv'
  <1>. DEFINE present == {u \in Users : source.users[u] # "absent"}
              keys == {JP!Partner(u) : u \in {x \in present : source.users[x] # "idless"}}
              rows == {[key |-> JP!Partner(u), hash |-> source.users[u]] : u \in present}
              Fetched(cache) == [run EXCEPT !.pc = "next", !.mem = JP!NoMemory, !.cache = cache,
                                            !.todo = JP!SetToSeq(rows)]
              over == JP!Aborted([run EXCEPT !.mem = "none"])
  <1>shape. UpsertFits /\ ReviewsFit /\ mishaps \in Nat /\ Fields \subseteq DOMAIN run
    BY DEF JPOnceInv, UpsertFits
  <1>1. UNCHANGED <<odoo, source, reviews>>
    BY SMTT(30) DEF JP!FetchUsers
  <1>2. \/ \E cache : cache \subseteq JP!Preloaded(keys) /\ (Well(Fetched(cache)) \/ Ill(Fetched(cache)))
        \/ Ill(over)
    BY DEF JP!FetchUsers, JP!Well, JP!Ill, Well, Ill
  <1>3. CASE Ill(over)
    <2>1. DOMAIN over = DOMAIN run /\ over.pc = "log" /\ over.cache = run.cache
      BY <1>shape DEF JP!Aborted, Fields
    <2>. HIDE DEF over
    <2>2. Counts /\ DOMAIN run' = DOMAIN run /\ run'.pc = "log" /\ run'.cache = run.cache
      BY <1>3, <1>shape, <2>1, TurnsInto
    <2>3. UpsertFits' /\ ReviewsFit'
      BY <1>shape, <1>1, <2>2, UpsertQuiet, ReviewsKept DEF SameHand
    <2>. QED BY <1>1, <2>2, <2>3, JPRests DEF JPPlaces
  <1>4. ASSUME NEW cache, cache \subseteq JP!Preloaded(keys), Well(Fetched(cache)) \/ Ill(Fetched(cache))
        PROVE  JPOnceInv'
    <2>1. JP!SetToSeq(rows) \in Seq(rows)
      <3>1. IsFiniteSet(present)
        BY ConnectorConstantsOK, FS_Subset
      <3>2. IsFiniteSet(rows)
        <4>1. [u \in present |-> [key |-> JP!Partner(u), hash |-> source.users[u]]] \in Surjection(present, rows)
          BY DEF Surjection
        <4>. QED BY <3>1, <4>1, FS_Surjection
      <3>. QED BY <3>2, JPSetToSeq
    <2>2. \A row \in rows : row.key \in UserKeys
      BY DEF UserKeys
    <2>. HIDE DEF rows
    <2>3. LET r == Fetched(cache) IN
          /\ DOMAIN r = DOMAIN run /\ r.pc = "next" /\ r.cache = cache /\ r.todo = JP!SetToSeq(rows)
          /\ r.mem = JP!NoMemory
      BY <1>shape DEF Fields
    <2>. HIDE DEF Fetched
    <2>4. /\ Counts /\ DOMAIN run' = DOMAIN run /\ run'.pc = "next" /\ run'.cache = cache
          /\ run'.todo = JP!SetToSeq(rows) /\ run'.mem = JP!NoMemory
      BY <1>4, <1>shape, <2>3, TurnsInto
    <2>5. \A c \in cache : c.id \in 1..Len(odoo) /\ odoo[c.id].key = c.key
      BY <1>4, <1>shape, JPShares, PreloadedFits DEF UpsertFits
    <2>6. UpsertFits' /\ ReviewsFit'
      BY <1>shape, <1>1, <2>4, <2>5, UpsertQuiet, ReviewsKept DEF SameHand
    <2>7. /\ {"phase", "model", "seen", "partner"} \subseteq DOMAIN run'.mem
          /\ run'.mem.phase = "users"
      BY <2>4 DEF JP!NoMemory
    <2>8. UserKeys' = UserKeys
      BY DEF UserKeys, JP!Partner
    <2>9. JPRun' /\ ~Misread' /\ JPSource'
      BY <1>1, <2>1, <2>2, <2>4, <2>7, <2>8 DEF JPRun, Misread, JPSource, JPOnceInv, Keyed
    <2>10. PostsFit'
      BY <1>1, <2>4, <2>9, PostsRest
    <2>. QED BY <2>6, <2>9, <2>10 DEF JPOnceInv
  <1>. QED BY <1>2, <1>3, <1>4

\* A user is taken up.
LEMMA JPTakeUser ==
    ASSUME JPOnceInv, JP!TakeUser
    PROVE  JPOnceInv'
  <1>. DEFINE row == Head(run.todo)
              r == IF row.hash = "idless" THEN JP!Failed(JP!TakenUp(run, row))
                   ELSE [JP!TakenUp(run, row) EXCEPT !.pc = "find", !.mem.seen = @ \cup {row.key[2]}]
  <1>shape. /\ UpsertFits /\ ReviewsFit /\ mishaps \in Nat /\ Fields \subseteq DOMAIN run /\ JPRun
            /\ run.pc = "next" /\ run.todo # <<>> /\ run.mem.phase = "users"
            /\ UNCHANGED <<source, odoo, reviews>>
    BY DEF JPOnceInv, UpsertFits, JP!TakeUser
  <1>1. /\ {"phase", "model", "seen", "partner"} \subseteq DOMAIN run.mem
        /\ \E S : run.todo \in Seq(S) /\ \A e \in S : e.key \in UserKeys
    BY <1>shape DEF JPRun, JPPlaces, Keyed
  <1>2. /\ row.key \in UserKeys
        /\ \E S : Tail(run.todo) \in Seq(S) /\ \A e \in S : e.key \in UserKeys
    BY <1>shape, <1>1
  <1>3. Well(r)
    BY DEF JP!TakeUser, JP!Well, Well
  <1>. HIDE DEF row
  <1>4. /\ DOMAIN r = DOMAIN run /\ r.cache = run.cache /\ r.todo = Tail(run.todo)
        /\ r.pc \in {"next", "find"} /\ (r.pc = "find" => r.at = row)
        /\ DOMAIN r.mem = DOMAIN run.mem /\ r.mem.phase = "users" /\ r.mem.model = run.mem.model
    <2>1. CASE row.hash = "idless"
      BY <1>shape, <2>1 DEF JP!Failed, JP!TakenUp, JP!Onward, JP!Counted, Fields
    <2>2. CASE row.hash # "idless"
      BY <1>shape, <1>1, <2>2 DEF JP!TakenUp, Fields
    <2>. QED BY <2>1, <2>2
  <1>. HIDE DEF r
  <1>5. /\ Counts /\ DOMAIN run' = DOMAIN run /\ run'.pc = r.pc /\ run'.todo = r.todo /\ run'.at = r.at
        /\ run'.cache = run.cache /\ run'.mem = r.mem
    BY <1>shape, <1>3, <1>4, TurnsInto
  <1>6. UpsertFits' /\ ReviewsFit'
    BY <1>shape, <1>4, <1>5, UpsertQuiet, ReviewsKept DEF SameHand
  <1>7. UserKeys' = UserKeys
    BY DEF UserKeys, JP!Partner
  <1>8. JPRun' /\ ~Misread' /\ JPSource'
    BY <1>shape, <1>1, <1>2, <1>4, <1>5, <1>7 DEF JPRun, Misread, JPSource, JPOnceInv, Keyed
  <1>9. PostsFit'
    BY <1>shape, <1>5, <1>8, PostsRest
  <1>. QED BY <1>6, <1>8, <1>9 DEF JPOnceInv

\* The posts are fetched: what the run takes their model for may be wrong if something went wrong.
LEMMA JPFetchPosts ==
    ASSUME JPOnceInv, JP!FetchPosts
    PROVE  JPOnceInv'
  <1>. DEFINE present == {p \in Posts : source.posts[p] # "absent"}
              Rows(model) == {[key |-> <<model, p>>, hash |-> source.posts[p]] : p \in present}
              Keys(model) == {<<model, p>> : p \in present}
              Fetched(model, cache) ==
                  [run EXCEPT !.mem.phase = "posts", !.mem.model = model, !.cache = cache,
                              !.todo = IF model = "none" THEN <<>> ELSE JP!SetToSeq(Rows(model))]
              unread == JP!Counted([run EXCEPT !.mem.phase = "posts", !.handed = @ + 1], "failed")
  <1>shape. /\ UpsertFits /\ ReviewsFit /\ mishaps \in Nat /\ Fields \subseteq DOMAIN run /\ JPRun /\ JPSource
            /\ run.pc = "next" /\ run.todo = <<>> /\ run.mem.phase = "users"
            /\ UNCHANGED <<source, odoo, reviews>>
    BY DEF JPOnceInv, UpsertFits, JP!FetchPosts
  <1>1. {"phase", "model", "seen", "partner"} \subseteq DOMAIN run.mem /\ ~Misread
    BY <1>shape DEF JPRun, JPPlaces, Misread
  <1>2. /\ TheModel \in JP!Models \cup {"none"} /\ TheModel' = TheModel
        /\ \A readable \in SUBSET source.models : JP!PostModel(readable) \in JP!Models \cup {"none"}
    BY <1>shape DEF TheModel, JP!PostModel, JP!Models
  <1>3. \/ \E model \in JP!Models \cup {"none"} : \E cache :
            /\ cache \subseteq JP!Preloaded(Keys(model))
            /\ \/ Well(Fetched(model, cache)) /\ model = TheModel
               \/ Ill(Fetched(model, cache))
        \/ Ill(unread)
    <2>. HIDE DEF Fetched, unread, Keys
    <2>1. \/ JP!Well(Fetched(TheModel, JP!Preloaded(Keys(TheModel))))
          \/ JP!Ill(Fetched(TheModel, {}))
          \/ \E readable \in SUBSET source.models :
                JP!Ill(Fetched(JP!PostModel(readable), JP!Preloaded(Keys(JP!PostModel(readable)))))
          \/ JP!Ill(unread)
      BY DEF JP!FetchPosts, TheModel, Fetched, unread, Keys
    <2>2. \A r : (JP!Well(r) <=> Well(r)) /\ (JP!Ill(r) <=> Ill(r))
      BY DEF JP!Well, Well, JP!Ill, Ill
    <2>3. {} \subseteq JP!Preloaded(Keys(TheModel))
      OBVIOUS
    <2>. QED BY <1>2, <2>1, <2>2, <2>3
  <1>4. CASE Ill(unread)
    <2>1. /\ DOMAIN unread = DOMAIN run /\ unread.pc = "next" /\ unread.cache = run.cache /\ unread.todo = <<>>
          /\ DOMAIN unread.mem = DOMAIN run.mem /\ unread.mem.phase = "posts"
      BY <1>shape, <1>1 DEF JP!Counted, Fields
    <2>2. mishaps' = mishaps + 1
      BY <1>4 DEF Ill
    <2>. HIDE DEF unread
    <2>3. /\ Counts /\ DOMAIN run' = DOMAIN run /\ run'.pc = "next" /\ run'.cache = run.cache /\ run'.todo = <<>>
          /\ DOMAIN run'.mem = DOMAIN run.mem /\ run'.mem.phase = "posts"
      BY <1>shape, <1>4, <2>1, TurnsInto
    <2>4. UpsertFits' /\ ReviewsFit'
      BY <1>shape, <2>3, UpsertQuiet, ReviewsKept DEF SameHand
    <2>5. \E S : run'.todo \in Seq(S) /\ \A row \in S : row.key \in PostKeys(run.mem.model)'
      <3>1. run'.todo \in Seq({}) /\ \A row \in {} : row.key \in PostKeys(run.mem.model)'
        BY <2>3
      <3>. QED BY <3>1
    <2>6. JPRun' /\ JPSource'
      BY <1>shape, <1>1, <2>3, <2>5 DEF JPRun, JPSource, Keyed
    <2>7. PostsFit'
      BY <1>shape, <2>2, <2>3, PostsRest
    <2>. QED BY <2>4, <2>6, <2>7 DEF JPOnceInv
  <1>5. ASSUME NEW model \in JP!Models \cup {"none"}, NEW cache, cache \subseteq JP!Preloaded(Keys(model)),
               (Well(Fetched(model, cache)) /\ model = TheModel) \/ Ill(Fetched(model, cache))
        PROVE  JPOnceInv'
    <2>1. JP!SetToSeq(Rows(model)) \in Seq(Rows(model))
      <3>1. IsFiniteSet(present)
        BY ConnectorConstantsOK, FS_Subset
      <3>2. [p \in present |-> [key |-> <<model, p>>, hash |-> source.posts[p]]] \in Surjection(present, Rows(model))
        BY DEF Surjection
      <3>3. IsFiniteSet(Rows(model))
        BY <3>1, <3>2, FS_Surjection
      <3>. QED BY <3>3, JPSetToSeq
    <2>2. \A row \in Rows(model) : row.key \in PostKeys(model)
      BY DEF PostKeys
    <2>. HIDE DEF Rows
    <2>3. LET r == Fetched(model, cache) IN
          /\ DOMAIN r = DOMAIN run /\ r.pc = "next" /\ r.cache = cache
          /\ r.todo = (IF model = "none" THEN <<>> ELSE JP!SetToSeq(Rows(model)))
          /\ DOMAIN r.mem = DOMAIN run.mem /\ r.mem.phase = "posts" /\ r.mem.model = model
      BY <1>shape, <1>1 DEF Fields
    <2>. HIDE DEF Fetched
    <2>4. /\ Counts /\ DOMAIN run' = DOMAIN run /\ run'.pc = "next" /\ run'.cache = cache
          /\ run'.todo = (IF model = "none" THEN <<>> ELSE JP!SetToSeq(Rows(model)))
          /\ DOMAIN run'.mem = DOMAIN run.mem /\ run'.mem.phase = "posts" /\ run'.mem.model = model
      BY <1>5, <1>shape, <2>3, TurnsInto
    <2>5. \A c \in cache : c.id \in 1..Len(odoo) /\ odoo[c.id].key = c.key
      BY <1>5, <1>shape, JPShares, PreloadedFits DEF UpsertFits
    <2>6. UpsertFits' /\ ReviewsFit'
      BY <1>shape, <2>4, <2>5, UpsertQuiet, ReviewsKept DEF SameHand
    <2>7. Keyed(PostKeys(model))'
      <3>1. <<>> \in Seq(Rows(model))
        OBVIOUS
      <3>2. \E S : run'.todo \in Seq(S) /\ \A row \in S : row.key \in PostKeys(model)
        BY <2>1, <2>2, <2>4, <3>1
      <3>. QED BY <2>4, <3>2 DEF Keyed
    <2>8. JPRun' /\ JPSource'
      BY <1>shape, <1>1, <2>4, <2>7 DEF JPRun, JPSource
    <2>9. Misread' => mishaps' = mishaps + 1
      BY <1>2, <1>5, <2>4 DEF Misread, Ill
    <2>10. PostsFit'
      BY <1>shape, <2>4, <2>9, PostsRest
    <2>. QED BY <2>6, <2>8, <2>10 DEF JPOnceInv
  <1>. QED BY <1>3, <1>4, <1>5

\* A post is taken up.
LEMMA JPTakePost ==
    ASSUME JPOnceInv, JP!TakePost
    PROVE  JPOnceInv'
  <1>. DEFINE row == Head(run.todo)
  <1>shape. /\ UpsertFits /\ ReviewsFit /\ mishaps \in Nat /\ Fields \subseteq DOMAIN run /\ JPRun /\ JPSource
            /\ run.pc = "next" /\ run.todo # <<>> /\ run.mem.phase = "posts"
            /\ UNCHANGED <<source, odoo, reviews>>
    BY DEF JPOnceInv, UpsertFits, JP!TakePost
  <1>1. /\ {"phase", "model", "seen", "partner"} \subseteq DOMAIN run.mem
        /\ \E S : run.todo \in Seq(S) /\ \A e \in S : e.key \in PostKeys(run.mem.model)
        /\ run.mem.model \in JP!Models
    BY <1>shape DEF JPRun, JPPlaces, Keyed
  <1>2. /\ row.key \in PostKeys(run.mem.model)
        /\ \E S : Tail(run.todo) \in Seq(S) /\ \A e \in S : e.key \in PostKeys(run.mem.model)
    BY <1>shape, <1>1
  <1>3. /\ Counts /\ DOMAIN run' = DOMAIN run /\ run'.cache = run.cache /\ run'.todo = Tail(run.todo)
        /\ run'.pc \in {"next", "find", "review"} /\ (run'.pc # "next" => run'.at.key = row.key)
        /\ DOMAIN run'.mem = DOMAIN run.mem /\ run'.mem.phase = "posts" /\ run'.mem.model = run.mem.model
    <2>. DEFINE author == AuthorOf[row.key[2]]
                Why(link) == IF row.hash = "untitled" THEN "title"
                             ELSE IF JP!ReviewAuthor(author, link) THEN "author" ELSE "none"
                Linked(link) == IF run.mem.model = "helpdesk.ticket" THEN link ELSE 0
                At(link) == [key |-> row.key, hash |-> <<row.hash, Linked(link)>>, link |-> Linked(link), why |-> Why(link)]
                Mapped(link) ==
                    [JP!TakenUp(run, At(link)) EXCEPT
                        !.pc = IF Why(link) = "none" THEN "find" ELSE "review",
                        !.mem.partner = IF author = Anonymous THEN @ ELSE [@ EXCEPT ![author] = link]]
                failed == JP!Failed(JP!TakenUp(run, row))
    <2>1. JP!Well(failed) \/ \E link : JP!Well(Mapped(link)) \/ JP!Ill(Mapped(link))
      BY DEF JP!TakePost
    <2>2. /\ DOMAIN failed = DOMAIN run /\ failed.cache = run.cache /\ failed.todo = Tail(run.todo)
          /\ failed.pc = "next" /\ failed.mem = run.mem
      BY <1>shape DEF JP!Failed, JP!TakenUp, JP!Onward, JP!Counted, Fields
    <2>. HIDE DEF failed
    <2>3. ASSUME NEW link
          PROVE  LET r == Mapped(link) IN
                 /\ DOMAIN r = DOMAIN run /\ r.cache = run.cache /\ r.todo = Tail(run.todo)
                 /\ r.pc \in {"find", "review"} /\ r.at.key = row.key
                 /\ DOMAIN r.mem = DOMAIN run.mem /\ r.mem.phase = "posts" /\ r.mem.model = run.mem.model
      <3>1. At(link).key = row.key
        OBVIOUS
      <3>. HIDE DEF At, Why, author, row
      <3>. QED BY <1>shape, <1>1, <3>1 DEF JP!TakenUp, Fields
    <2>. HIDE DEF Mapped, row
    <2>4. PICK r : /\ Well(r) \/ Ill(r)
                   /\ r = failed \/ \E link : r = Mapped(link)
      BY <2>1 DEF JP!Well, Well, JP!Ill, Ill
    <2>. QED BY <1>shape, <2>2, <2>3, <2>4, TurnsInto
  <1>. HIDE DEF row
  <1>6. UpsertFits' /\ ReviewsFit'
    BY <1>shape, <1>3, UpsertQuiet, ReviewsKept DEF SameHand
  <1>7. JPRun' /\ JPSource'
    BY <1>shape, <1>1, <1>2, <1>3 DEF JPRun, JPSource, JPOnceInv, Keyed, PostKeys
  <1>8. Misread' => Misread
    BY <1>shape, <1>3 DEF Misread, TheModel, JPPlaces
  <1>9. PostsFit'
    BY <1>shape, <1>3, <1>8, PostsRest
  <1>. QED BY <1>6, <1>7, <1>9 DEF JPOnceInv

\* A gap is flagged, and something is looked for.
LEMMA JPReviewPost ==
    ASSUME JPOnceInv, JP!ReviewPost
    PROVE  JPOnceInv'
  <1>. DEFINE r == IF run.at.why = "title" THEN JP!Failed(run) ELSE [run EXCEPT !.pc = "find"]
  <1>shape. /\ UpsertFits /\ ReviewsFit /\ mishaps \in Nat /\ Fields \subseteq DOMAIN run /\ JPRun /\ JPSource
            /\ run.pc = "review" /\ UNCHANGED <<source, odoo>>
    BY DEF JPOnceInv, UpsertFits, JP!ReviewPost
  <1>1. PICK k : Raise(k, r)
    BY JPShares DEF JP!ReviewPost
  <1>2. /\ DOMAIN r = DOMAIN run /\ r.pc \in {"next", "find"} /\ r.todo = run.todo /\ r.cache = run.cache
        /\ r.mem = run.mem /\ (r.pc # "next" => r.at = run.at)
    BY <1>shape DEF JP!Failed, JP!Onward, JP!Counted, Fields
  <1>. HIDE DEF r
  <1>3. ReviewsFit' /\ Counts
    BY <1>shape, <1>1, RaiseFits
  <1>4. /\ DOMAIN run' = DOMAIN run /\ run'.pc = r.pc /\ run'.todo = run.todo /\ run'.at = r.at
        /\ run'.cache = run.cache /\ run'.mem = run.mem
    BY <1>shape, <1>1, <1>2, RaiseTurns
  <1>5. UpsertFits'
    BY <1>shape, <1>2, <1>3, <1>4, UpsertQuiet DEF SameHand
  <1>6. JPRun' /\ JPSource'
    BY <1>shape, <1>2, <1>4 DEF JPRun, JPPlaces, JPSource, Keyed, PostKeys, UserKeys, JP!Partner
  <1>7. Misread' => Misread
    BY <1>shape, <1>2, <1>4 DEF Misread, TheModel, JPPlaces
  <1>8. PostsFit'
    BY <1>shape, <1>3, <1>7, PostsRest
  <1>. QED BY <1>3, <1>5, <1>6, <1>8 DEF JPOnceInv

\* A post or a user is looked for.
LEMMA JPFind ==
    ASSUME JPOnceInv, JP!Find
    PROVE  JPOnceInv'
  <1>1. Find /\ Counts /\ UNCHANGED <<odoo, source, reviews>>
    BY JPShares DEF Find, Well, Ill, Counts
  <1>shape. UpsertFits /\ ReviewsFit /\ mishaps \in Nat /\ Fields \subseteq DOMAIN run /\ JPRun /\ JPSource
    BY DEF JPOnceInv, UpsertFits
  <1>2. /\ UpsertFits'
        /\ run.pc = "find" /\ run'.pc \in {"next", "apply"} /\ DOMAIN run' = DOMAIN run
        /\ run'.mem = run.mem /\ run'.todo = run.todo
        /\ run'.pc = "apply" => run'.at = run.at /\ (run'.found = NoRecord => Indices(run.at.key) = {})
    BY <1>1, <1>shape, FindFits
  <1>3. Misread' => Misread
    BY <1>1, <1>2 DEF Misread, TheModel, JPPlaces
  <1>4. ReviewsFit' /\ PostsFit' /\ \A k : Indices(k)' = Indices(k)
    BY <1>1, <1>shape, <1>3, PostsRest, ReviewsKept
  <1>5. run'.pc = "apply" /\ run'.found = NoRecord => Indices(run.at.key)' = {}
    BY <1>2, <1>4 DEF Indices
  <1>6. JPRun' /\ JPSource'
    BY <1>1, <1>shape, <1>2, <1>5 DEF JPRun, JPPlaces, JPSource, Keyed, PostKeys, UserKeys, JP!Partner
  <1>. QED BY <1>2, <1>4, <1>6 DEF JPOnceInv

\* A user or a post is stored.
LEMMA JPStored ==
    ASSUME JPOnceInv, UNCHANGED <<source, reviews>>, NEW key, run.at.key = key,
           NEW fresh, fresh.key = key, NEW old, Upserted(fresh, old),
           run'.todo = run.todo, DOMAIN run'.mem = DOMAIN run.mem,
           run'.mem.phase = run.mem.phase, run'.mem.model = run.mem.model
    PROVE  JPOnceInv'
  <1>shape. /\ UpsertFits /\ ReviewsFit /\ mishaps \in Nat /\ Listed(odoo) /\ JPRun /\ JPSource /\ PostsFit
            /\ run.pc = "apply" /\ run'.pc = "next"
    BY DEF JPOnceInv, UpsertFits, Upserted
  <1>1. UpsertFits' /\ Counts /\ \E n \in 0..2 : Adds(key, n)
    BY <1>shape, UpsertDone
  <1>2. PICK n \in 0..2 : Adds(key, n)
    BY <1>1
  <1>3. Misread' => Misread
    BY <1>shape DEF Misread, TheModel, JPPlaces
  <1>4. JPRun' /\ JPSource'
    BY <1>shape DEF JPRun, JPPlaces, JPSource, Keyed, PostKeys, UserKeys, JP!Partner
  <1>5. CASE n = 0 \/ run.mem.phase = "users"
    <2>1. n = 0 \/ key \in UserKeys
      BY <1>shape, <1>5 DEF JPRun, JPPlaces, Keyed
    <2>2. PostsFit'
      BY <1>shape, <1>1, <1>2, <1>3, <2>1, PostsKept DEF Adds
    <2>. QED BY <1>shape, <1>1, <1>4, <2>2, ReviewsKept DEF JPOnceInv
  <1>6. CASE n # 0 /\ run.mem.phase = "posts"
    <2>1. run.mem.model \in JP!Models /\ key \in PostKeys(run.mem.model)
      BY <1>shape, <1>6 DEF JPRun, JPPlaces, Keyed
    <2>2. PICK model, p : model = run.mem.model /\ p \in Posts /\ key = <<model, p>>
      BY <2>1 DEF PostKeys
    <2>3. n \in 1..2 /\ n > 0
      BY <1>6
    <2>4. Indices(key) = {}
      BY <1>shape, <1>2, <1>6, <2>3 DEF Adds, JPRun, JPPlaces
    <2>5. Copies(key) = 0
      BY <1>shape, <2>4, CopiesType
    <2>6. model = TheModel \/ Misread
      BY <1>shape, <1>6, <2>2 DEF Misread, JPPlaces
    <2>7. PICK a, b : a = mishaps /\ b = mishaps'
      OBVIOUS
    <2>8. a \in Nat /\ b \in {a, a + 1} /\ (n = 2 => b = a + 1) /\ PostsWithin(a)
      BY <1>shape, <1>1, <1>2, <2>7 DEF Counts, Adds, PostsFit
    <2>9. Grown(<<model, p>>, n) /\ Copies(<<model, p>>) = 0 /\ model \in JP!Models
      BY <1>2, <2>1, <2>2, <2>5 DEF Adds
    <2>10. PostsWithin(b)'
      BY <1>shape, <1>3, <2>2, <2>3, <2>6, <2>8, <2>9, PostsAdd
    <2>11. PostsFit'
      BY <2>7, <2>10 DEF PostsFit
    <2>. QED BY <1>shape, <1>1, <1>4, <2>11, ReviewsKept DEF JPOnceInv
  <1>7. run.mem.phase \in {"users", "posts"}
    BY <1>shape DEF JPRun, JPPlaces
  <1>. QED BY <1>5, <1>6, <1>7

\* A user is created, updated or found unchanged.
LEMMA JPSyncUser ==
    ASSUME JPOnceInv, run.pc = "apply", JP!SyncUser
    PROVE  JPOnceInv'
  <1>. DEFINE fresh == JP!Contact(run.at.key, run.at.hash)
              k == JP!Outcome(run.found, fresh)
              Then(r, id) == JP!Onward([r EXCEPT !.mem.partner[run.at.key[2]] = id])
              Done(id) == Then(JP!Counted(run, k), id)
              Written(m) == JP!Known(JP!Wrote(Done(m)), m, fresh)
              failed == JP!Failed(JP!Wrote(run))
              Keeps(r) == /\ r.todo = run.todo /\ DOMAIN r.mem = DOMAIN run.mem
                          /\ r.mem.phase = run.mem.phase /\ r.mem.model = run.mem.model
  <1>shape. /\ UpsertFits /\ ReviewsFit /\ mishaps \in Nat /\ Fields \subseteq DOMAIN run /\ JPRun
            /\ run.mem.phase = "users" /\ {"phase", "model", "seen", "partner"} \subseteq DOMAIN run.mem
            /\ UNCHANGED <<source, reviews>>
    BY DEF JPOnceInv, UpsertFits, JP!SyncUser, JP!Upsert, JPRun, JPPlaces
  <1>1. fresh.key = run.at.key
    BY DEF JP!Contact
  <1>2. (k = "created" => run.found = NoRecord) /\ (k = "updated" => run.found # NoRecord)
    BY SMTT(30) DEF JP!Outcome, JP!NoRecord, NoRecord
  <1>3. Requested(fresh, fresh, k, Done(run.found.id), failed, Written(Len(odoo) + 1), Written(Len(odoo) + 2),
                  Written(run.found.id))
    BY DEF JP!SyncUser, JP!Upsert, JP!Send, JP!Well, JP!Ill, Requested, Marred, New
  <1>. HIDE DEF k, fresh
  <1>4. \A id : Plain(Done(id)) /\ Keeps(Done(id))
    BY <1>shape DEF JP!Onward, JP!Counted, Fields, Plain
  <1>5. Plain(failed) /\ Keeps(failed)
    BY <1>shape DEF JP!Failed, JP!Onward, JP!Counted, JP!Wrote, Fields, Plain
  <1>. HIDE DEF Done
  <1>6. \A m : Knows(Written(m), m, fresh.key) /\ Keeps(Written(m))
    BY <1>shape, <1>4 DEF JP!Wrote, JP!Known, Fields, Plain, Knows
  <1>. HIDE DEF Written, failed
  <1>7. Upserted(fresh, fresh)
    BY <1>shape, <1>2, <1>3, <1>4, <1>5, <1>6, RequestEnds
  <1>8. Keeps(run')
    <2>. DEFINE all == {Done(run.found.id), failed, Written(Len(odoo) + 1), Written(Len(odoo) + 2), Written(run.found.id)}
    <2>1. \A r \in all : Fields \subseteq DOMAIN r /\ Keeps(r)
      BY <1>shape, <1>4, <1>5, <1>6 DEF Plain, Knows
    <2>2. \E r \in all : run'.todo = r.todo /\ run'.mem = r.mem
      BY <1>3, <2>1, RequestKeeps
    <2>. QED BY <2>1, <2>2
  <1>. PICK key : key = run.at.key
    OBVIOUS
  <1>. QED BY <1>shape, <1>1, <1>7, <1>8, JPStored

\* A post is created, updated or found unchanged.
LEMMA JPSyncPost ==
    ASSUME JPOnceInv, run.pc = "apply", JP!SyncPost
    PROVE  JPOnceInv'
  <1>. DEFINE fresh == [key |-> run.at.key, hash |-> run.at.hash, link |-> run.at.link]
              was == odoo[run.found.id]
              old == IF fresh.link = 0 THEN [fresh EXCEPT !.link = was.link] ELSE fresh
              k == JP!Outcome(run.found, fresh)
              done == JP!Onward(JP!Counted(run, k))
              Written(m) == JP!Known(JP!Wrote(done), m, fresh)
              failed == JP!Failed(JP!Wrote(run))
              Keeps(r) == r.todo = run.todo /\ r.mem = run.mem
  <1>shape. /\ UpsertFits /\ ReviewsFit /\ mishaps \in Nat /\ Fields \subseteq DOMAIN run /\ JPRun
            /\ UNCHANGED <<source, reviews>>
    BY DEF JPOnceInv, UpsertFits, JP!SyncPost, JP!Upsert
  <1>1. fresh.key = run.at.key /\ old.key = run.at.key
    OBVIOUS
  <1>2. (k = "created" => run.found = NoRecord) /\ (k = "updated" => run.found # NoRecord)
    BY SMTT(30) DEF JP!Outcome, JP!NoRecord, NoRecord
  <1>3. Requested(fresh, old, k, done, failed, Written(Len(odoo) + 1), Written(Len(odoo) + 2),
                  Written(run.found.id))
    BY DEF JP!SyncPost, JP!Upsert, JP!Send, JP!Well, JP!Ill, Requested, Marred, New
  <1>. HIDE DEF k, fresh, old, was
  <1>4. Plain(done) /\ Keeps(done)
    BY <1>shape DEF JP!Onward, JP!Counted, Fields, Plain
  <1>5. Plain(failed) /\ Keeps(failed)
    BY <1>shape DEF JP!Failed, JP!Onward, JP!Counted, JP!Wrote, Fields, Plain
  <1>. HIDE DEF done
  <1>6. \A m : Knows(Written(m), m, fresh.key) /\ Keeps(Written(m))
    BY <1>shape, <1>4 DEF JP!Wrote, JP!Known, Fields, Plain, Knows
  <1>. HIDE DEF Written, failed
  <1>7. Upserted(fresh, old)
    BY <1>shape, <1>1, <1>2, <1>3, <1>4, <1>5, <1>6, RequestEnds
  <1>8. Keeps(run')
    <2>. DEFINE all == {done, failed, Written(Len(odoo) + 1), Written(Len(odoo) + 2), Written(run.found.id)}
    <2>1. \A r \in all : Fields \subseteq DOMAIN r /\ Keeps(r)
      BY <1>shape, <1>4, <1>5, <1>6 DEF Plain, Knows
    <2>2. \E r \in all : run'.todo = r.todo /\ run'.mem = r.mem
      BY <1>3, <2>1, RequestKeeps
    <2>. QED BY <2>1, <2>2
  <1>. PICK key : key = run.at.key
    OBVIOUS
  <1>. QED BY <1>shape, <1>1, <1>7, <1>8, JPStored

\* Nothing but what the provider or people say is new.
LEMMA JPLasts ==
    ASSUME JPOnceInv, UpsertFits', ReviewsFit', UNCHANGED odoo, Counts, JPSource', source'.models = source.models,
           run'.pc = run.pc, run'.at = run.at, run'.todo = run.todo, run'.found = run.found, run'.mem = run.mem
    PROVE  JPOnceInv'
  <1>1. Misread' => Misread
    BY DEF Misread, TheModel, JP!PostModel
  <1>2. PostsFit' /\ \A k : Indices(k)' = Indices(k)
    BY <1>1, PostsRest
  <1>3. Indices(run.at.key)' = Indices(run.at.key)
    BY DEF Indices
  <1>4. JPRun'
    BY <1>3 DEF JPOnceInv, JPRun, Keyed, PostKeys, UserKeys, JP!Partner
  <1>. QED BY <1>2, <1>4 DEF JPOnceInv

\* Every step of JsonPlaceholder leaves things in order.
LEMMA JPOnce ==
    ASSUME JPOnceInv, JP!Next
    PROVE  JPOnceInv'
  <1>shape. UpsertFits /\ ReviewsFit /\ mishaps \in Nat /\ Fields \subseteq DOMAIN run /\ JPSource
    BY DEF JPOnceInv, UpsertFits
  <1>1. ASSUME JP!Start PROVE JPOnceInv'
    <2>1. Begin("hosts", <<>>)
      BY <1>1, JPSame DEF JP!Start
    <2>2. UpsertFits' /\ Counts /\ UNCHANGED <<odoo, source, reviews>> /\ run'.pc = "hosts"
      BY <1>shape, <2>1, BeginFits DEF Begin, Counts
    <2>. QED BY <1>shape, <2>2, ReviewsKept, JPRests DEF JPPlaces
  <1>2. ASSUME JP!Demonstrate PROVE JPOnceInv'
    <2>1. /\ UNCHANGED <<odoo, source, reviews>> /\ Counts
          /\ DOMAIN run' = DOMAIN run /\ run'.pc = "log" /\ run'.cache = run.cache
      BY <1>shape, <1>2 DEF JP!Demonstrate, JP!Synced, JP!Well, JP!Ill, JP!Counted, Fields, Counts
    <2>. QED BY <1>shape, <2>1, UpsertQuiet, ReviewsKept, JPRests DEF JPPlaces, SameHand
  <1>3. ASSUME JP!WriteLog PROVE JPOnceInv'
    <2>1. WriteLog /\ UNCHANGED <<odoo, source, reviews>>
      BY <1>3, JPSame DEF WriteLog
    <2>2. UpsertFits' /\ run'.pc \in {"done", "raised"} /\ Counts
      BY <1>shape, <2>1, EndFits
    <2>. QED BY <1>shape, <2>1, <2>2, ReviewsKept, JPRests DEF JPPlaces
  <1>4. ASSUME JP!Crash PROVE JPOnceInv'
    <2>1. Ill(Idle) /\ UNCHANGED <<odoo, source, reviews>>
      BY <1>4, JPSame DEF JP!Crash
    <2>2. UpsertFits' /\ run'.pc = "idle" /\ Counts
      BY <1>shape, <2>1, CrashFits
    <2>. QED BY <1>shape, <2>1, <2>2, ReviewsKept, JPRests DEF JPPlaces
  <1>5. ASSUME JP!OtherRun PROVE JPOnceInv'
    <2>1. PICK u \in Users : JP!Overlap(JP!Contact(JP!Partner(u), source.users[u]), LAMBDA old : JP!Contact(JP!Partner(u), source.users[u]))
      BY <1>5 DEF JP!OtherRun
    <2>. DEFINE fresh == JP!Contact(JP!Partner(u), source.users[u])
    <2>2. fresh.key \in UserKeys
      BY DEF JP!Contact, UserKeys
    <2>3. /\ Ill(run) /\ UNCHANGED <<source, reviews>>
          /\ odoo' = IF Indices(fresh.key) = {} THEN Append(odoo, fresh)
                     ELSE IF odoo[First(Indices(fresh.key))].hash = fresh.hash THEN odoo
                     ELSE [odoo EXCEPT ![First(Indices(fresh.key))] = fresh]
      BY <2>1, JPShares DEF JP!Overlap
    <2>. HIDE DEF fresh
    <2>4. PICK n \in 0..1 : UpsertFits' /\ mishaps' = mishaps + 1 /\ Grown(fresh.key, n)
      BY <1>shape, <2>3, OverlapDone
    <2>5. /\ Counts /\ run'.pc = run.pc /\ run'.at = run.at /\ run'.todo = run.todo /\ run'.found = run.found
          /\ run'.mem = run.mem
      BY <1>shape, <2>3, TurnsInto
    <2>6. PICK key : key = fresh.key
      OBVIOUS
    <2>7. n \in 0..2 /\ Grown(key, n) /\ key \in UserKeys /\ PostsFit /\ Listed(odoo) /\ UserKeys' = UserKeys
      BY <2>2, <2>4, <2>6 DEF JPOnceInv, UpsertFits, UserKeys, JP!Partner
    <2>8. PostsFit'
      BY <1>shape, <2>3, <2>4, <2>5, <2>7, PostsKept
    <2>9. \A k : k # key => Indices(k)' = Indices(k)
      BY <1>shape, <2>7, CopiesGrow
    <2>10. \A m : m \in JP!Models => \A k \in PostKeys(m) : k # key
      BY <2>7 DEF UserKeys, PostKeys, JP!Partner, JP!Models
    <2>11. JPRun'
      <3>1. ASSUME NEW k, k = run.at.key, k # key, Indices(k) = {} PROVE Indices(run.at.key)' = {}
        BY <2>5, <2>9, <3>1 DEF Indices
      <3>2. PICK k : k = run.at.key
        OBVIOUS
      <3>. QED BY <2>5, <2>7, <2>10, <3>1, <3>2 DEF JPOnceInv, JPRun, JPPlaces, Keyed, PostKeys
    <2>. QED BY <1>shape, <2>3, <2>4, <2>5, <2>8, <2>11, ReviewsKept DEF JPOnceInv, JPSource
  <1>6. ASSUME JP!Republish PROVE JPOnceInv'
    <2>1. /\ UNCHANGED <<odoo, reviews>> /\ Counts
          /\ DOMAIN run' = DOMAIN run /\ run'.pc = run.pc /\ run'.cache = run.cache /\ run'.found = run.found
          /\ run'.at = run.at /\ run'.todo = run.todo /\ run'.mem = run.mem
      BY <1>shape, <1>6 DEF JP!Republish, JP!Change, Fields, Counts
    <2>2. JPSource' /\ source'.models = source.models
      BY <1>shape, <1>6 DEF JP!Republish, JPSource
    <2>. QED BY <1>shape, <2>1, <2>2, UpsertQuiet, ReviewsKept, JPLasts DEF SameHand
  <1>7. ASSUME JP!CloseReview PROVE JPOnceInv'
    <2>1. /\ UNCHANGED <<odoo, source>> /\ Counts /\ UNCHANGED mishaps
          /\ DOMAIN run' = DOMAIN run /\ run'.pc = run.pc /\ run'.cache = run.cache /\ run'.found = run.found
          /\ run'.at = run.at /\ run'.todo = run.todo /\ run'.mem = run.mem
      BY <1>shape, <1>7 DEF JP!CloseReview, JP!Change, Fields, Counts
    <2>2. \E k \in BagToSet(reviews) : reviews' = reviews (-) SetToBag({k})
      BY <1>7 DEF JP!CloseReview, JP!BagToSet, BagToSet, JP!(-), (-), JP!SetToBag, SetToBag
    <2>3. ReviewsFit'
      BY <1>shape, <2>1, <2>2, CloseFits
    <2>. QED BY <1>shape, <2>1, <2>3, UpsertQuiet, JPLasts DEF SameHand, JPSource
  <1>. QED BY <1>1, <1>2, <1>3, <1>4, <1>5, <1>6, <1>7, JPFetchUsers, JPTakeUser, JPFetchPosts, JPTakePost,
              JPReviewPost, JPFind, JPSyncUser, JPSyncPost DEF JP!Next, JP!Step

\* So a post has one record only, but for mishaps.
LEMMA JPPostsOnce == JPOnceInv => JP!PostsOnce
  <1>. SUFFICES ASSUME JPOnceInv, NEW p \in Posts
                PROVE  Cardinality({i \in 1..Len(odoo) : odoo[i].key \in JP!Models \X {p}}) <= 1 + mishaps
    BY DEF JP!PostsOnce, JP!Cardinality, Cardinality
  <1>. DEFINE s == Indices(<<"helpdesk.ticket", p>>)
              t == Indices(<<"project.task", p>>)
  <1>1. {i \in 1..Len(odoo) : odoo[i].key \in JP!Models \X {p}} = s \cup t
    <2>1. ASSUME NEW x PROVE x \in JP!Models \X {p} <=> x = <<"helpdesk.ticket", p>> \/ x = <<"project.task", p>>
      BY DEF JP!Models
    <2>. QED BY <2>1 DEF Indices
  <1>2. IsFiniteSet(s) /\ IsFiniteSet(t) /\ Cardinality(s) \in Nat /\ Cardinality(t) \in Nat
    BY CopiesType DEF JPOnceInv, UpsertFits, Copies
  <1>3. Cardinality(s) + Cardinality(t) <= 1 + mishaps /\ mishaps \in Nat
    BY DEF JPOnceInv, UpsertFits, PostsFit, PostsWithin, Copies
  <1>. HIDE DEF s, t
  <1>4. IsFiniteSet(s \cap t) /\ Cardinality(s \cap t) \in Nat
    BY <1>2, FS_Intersection, FS_CardinalityType
  <1>5. Cardinality(s \cup t) = Cardinality(s) + Cardinality(t) - Cardinality(s \cap t)
    BY <1>2, FS_Union
  <1>6. Cardinality(s \cup t) <= 1 + mishaps
    BY <1>2, <1>3, <1>4, <1>5
  <1>. QED BY <1>1, <1>6

-------------------------------------------------------------------------------
\* Frankfurter, whose records have one key each.
LEMMA FFShares == \A k, r : FF!Raise(k, r) <=> Raise(k, r)
  <1>1. \A r : (FF!Well(r) <=> Well(r)) /\ (FF!Ill(r) <=> Ill(r)) /\ FF!Wrote(r) = Wrote(r)
    BY DEF FF!Well, Well, FF!Ill, Ill, FF!Wrote, Wrote
  <1>. QED BY <1>1 DEF FF!Raise, Raise, FF!Send, Send, FF!BagIn, BagIn, FF!BagToSet, BagToSet, FF!(+), (+)

\* A step of Frankfurter raises an activity, or a person sees to one, or they are as they were.
LEMMA FFReviews ==
    ASSUME ReviewsFit, mishaps \in Nat, FF!Next
    PROVE  ReviewsFit' /\ mishaps' \in Nat
  <1>1. ASSUME FF!ReviewCurrency \/ FF!ReviewRate PROVE ReviewsFit' /\ Counts
    <2>1. \E k, r : Raise(k, r)
      BY <1>1, FFShares DEF FF!ReviewCurrency, FF!ReviewRate
    <2>. QED BY <2>1, RaiseFits
  <1>2. ASSUME FF!CloseReview PROVE ReviewsFit' /\ Counts
    <2>1. UNCHANGED mishaps /\ \E k \in BagToSet(reviews) : reviews' = reviews (-) SetToBag({k})
      BY <1>2 DEF FF!CloseReview, FF!Change, FF!BagToSet, BagToSet, FF!(-), (-), FF!SetToBag, SetToBag
    <2>. QED BY <2>1, CloseFits DEF Counts
  <1>3. ASSUME FF!Start \/ FF!WriteLog \/ FF!Crash PROVE UNCHANGED reviews /\ Counts
    <2>1. (\E start, todo : Begin(start, todo)) \/ WriteLog \/ (Ill(Idle) /\ UNCHANGED reviews)
      BY SMTT(30), <1>3, FFSame DEF FF!Start, FF!Crash
    <2>. QED BY <2>1 DEF Begin, WriteLog, Ill, Well, Counts
  <1>4. ASSUME \/ FF!FetchQuotes \/ FF!TakeQuote \/ FF!Activate \/ FF!ComparePrior \/ FF!SearchRate
               \/ FF!Finish \/ FF!OtherRun \/ FF!Quote \/ FF!Administer \/ FF!Approve
        PROVE  UNCHANGED reviews /\ Counts
    BY <1>4 DEF FF!FetchQuotes, FF!TakeQuote, FF!Activate, FF!ComparePrior, FF!SearchRate, FF!Finish, FF!OtherRun,
           FF!Quote, FF!Administer, FF!Approve, FF!Well, FF!Ill, FF!Send, FF!Change, Counts
  <1>5. ASSUME FF!Create \/ FF!Replace PROVE UNCHANGED reviews /\ Counts
    BY <1>5 DEF FF!Create, FF!Replace, FF!Well, FF!Ill, FF!Send, Counts
  <1>6. Counts => mishaps' \in Nat
    BY DEF Counts
  <1>. QED BY <1>1, <1>2, <1>3, <1>4, <1>5, <1>6, ReviewsKept DEF FF!Next, FF!Step

\* Records that differ in their keys are each there once.
LEMMA FFOneEach ==
    ASSUME FFKeys, mishaps \in Nat
    PROVE  KeysFit
  <1>1. ASSUME NEW i \in 1..Len(odoo) PROVE Copies(odoo[i].key) <= 1 + mishaps
    <2>1. Indices(odoo[i].key) = {i}
      BY DEF Indices, FFKeys
    <2>2. Copies(odoo[i].key) = 1
      BY <2>1, FS_Singleton DEF Copies
    <2>. QED BY <2>2
  <1>. QED BY <1>1 DEF KeysFit

\* What OnceForGood says of records and activities.
LEMMA NoneTwice == KeysFit /\ ReviewsFit => NothingTwice
  BY DEF KeysFit, ReviewsFit, NothingTwice, Copies
================================================================================
