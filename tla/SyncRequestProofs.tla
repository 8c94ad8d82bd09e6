---------------------------- MODULE SyncRequestProofs ----------------------------
(***************************************************************************)
(* Proofs about the Sync Now queue, for any rows, workers and bounds.      *)
(***************************************************************************)
EXTENDS SyncRequest, TLAPS

\* Counting something that went wrong keeps the counter a number.
LEMMA MishapType ==
  ASSUME TypeOK, \/ UNCHANGED mishaps
                 \/ \E kind \in FaultKinds : Mishap(kind)
  PROVE  mishaps' \in Nat
  BY DEF TypeOK, Mishap

\* Every step of the button, of a user, of a worker or of fate keeps the types.
LEMMA StepType == TypeOK /\ [Next]_vars => TypeOK'
  <1> SUFFICES ASSUME TypeOK, [Next]_vars PROVE TypeOK'
    OBVIOUS
  <1> USE DEF TypeOK, States, Verdicts, Points
  <1>1. CASE UNCHANGED vars
    BY <1>1 DEF vars
  <1>2. ASSUME NEW c \in Configs, Click(c) PROVE TypeOK'
    BY <1>2 DEF Click
  <1>3. ASSUME NEW c \in Configs, ToggleActive(c) PROVE TypeOK'
    BY <1>3 DEF ToggleActive
  <1>4. ASSUME NEW w \in Workers, Poll(w) PROVE TypeOK'
    BY <1>4, MishapType DEF Poll, FaultKinds
  <1>5. ASSUME NEW w \in Workers, Claim(w) PROVE TypeOK'
    <2>1. mishaps' \in Nat
      BY <1>5, MishapType DEF Claim, FaultKinds
    <2>2. PICK c \in todo[w] :
            /\ todo' = [todo EXCEPT ![w] = todo[w] \ {c}]
            /\ state' = [state EXCEPT ![c] = "running"] \/ UNCHANGED state
            /\ \/ at' = [at EXCEPT ![w] = c] /\ Goto(w, "check")
               \/ UNCHANGED <<pc, at>>
      BY <1>5 DEF Claim
    <2>3. c \in Configs /\ c # NoConfig /\ pc[w] = "drain"
      BY <1>5, SyncConstantsOK DEF Claim
    <2>4. QED BY <1>5, <2>1, <2>2, <2>3 DEF Claim, Goto
  <1>6. ASSUME NEW w \in Workers, Check(w) PROVE TypeOK'
    <2>1. mishaps' \in Nat
      BY <1>6, MishapType DEF Check, FaultKinds
    <2>2. QED BY <1>6, <2>1 DEF Check, Leave, Goto
  <1>7. ASSUME NEW w \in Workers, Run(w) PROVE TypeOK'
    <2>1. \E n \in 0..2 : runs' = [runs EXCEPT ![at[w]] = n] \/ UNCHANGED runs
      <3>1. 1 \in 0..2 /\ 2 \in 0..2
        OBVIOUS
      <3>2. QED BY <1>7, <3>1 DEF Run
    <2>2. runs' \in [Configs -> 0..2]
      BY <2>1
    <2>3. \E v \in Verdicts : verdict' = [verdict EXCEPT ![w] = v]
      BY <1>7 DEF Run
    <2>4. QED BY <1>7, <2>2, <2>3 DEF Run, Goto
  <1>8. ASSUME NEW w \in Workers, Release(w) PROVE TypeOK'
    <2>1. mishaps' \in Nat
      BY <1>8, MishapType DEF Release, FaultKinds
    <2>2. QED BY <1>8, <2>1 DEF Release, Leave, Goto
  <1>9. ASSUME NEW w \in Workers, Crash(w) PROVE TypeOK'
    <2>1. mishaps' \in Nat
      BY <1>9, MishapType DEF Crash, FaultKinds
    <2>2. QED BY <1>9, <2>1 DEF Crash, Goto
  <1>10. ASSUME NEW w \in Workers, Restart(w) PROVE TypeOK'
    BY <1>10 DEF Restart, Goto
  <1>11. QED
    BY <1>1, <1>2, <1>3, <1>4, <1>5, <1>6, <1>7, <1>8, <1>9, <1>10 DEF Next, Step

\* Whatever races and failures happen, every variable keeps its type, and a worker
\* holds a row and a verdict exactly when its place in run_one says so.
THEOREM SyncTypeCorrect == Spec => []TypeOK
  <1>1. Init => TypeOK
    BY SyncConstantsOK DEF Init, TypeOK, States, Verdicts, Points
  <1>2. QED BY <1>1, StepType, PTL DEF Spec

-------------------------------------------------------------------------------
(* A running row is attended                                               *)

\* The faults after which the row is still what its worker takes it for.
Recoverable == Faults \subseteq {"poll", "claimLost"}

\* A worker lets go of a row only when the row says something other than running.
LEMMA StepAttends ==
  ASSUME Recoverable, TypeOK, RunningIsAttended, NEW w \in Workers, Step(w)
  PROVE  RunningIsAttended'
  <1> SUFFICES ASSUME NEW c \in Configs, state'[c] = "running"
               PROVE  \E v \in Workers : at'[v] = c
    BY DEF RunningIsAttended
  <1>1. CASE Poll(w)
    BY <1>1 DEF Poll, RunningIsAttended
  <1>2. CASE Claim(w)
    <2>1. PICK d \in todo[w] :
            \/ state' = [state EXCEPT ![d] = "running"] /\ at' = [at EXCEPT ![w] = d]
            \/ UNCHANGED <<state, at>>
      BY <1>2 DEF Claim, Mishap, Recoverable
    <2>2. pc[w] = "drain" /\ at[w] = NoConfig
      BY <1>2 DEF Claim, TypeOK
    <2>3. CASE c = d /\ at' = [at EXCEPT ![w] = d]
      BY <2>3 DEF TypeOK
    <2>4. CASE state[c] = "running"
      <3>1. PICK v \in Workers : at[v] = c
        BY <2>4 DEF RunningIsAttended
      <3>2. v # w
        BY <2>2, <3>1, SyncConstantsOK
      <3>3. QED BY <2>1, <3>1, <3>2 DEF TypeOK
    <2>5. QED BY <2>1, <2>3, <2>4 DEF TypeOK
  <1>3. CASE Check(w)
    <2>1. UNCHANGED state
      BY <1>3 DEF Check
    <2>2. PICK v \in Workers : at[v] = c
      BY <2>1 DEF RunningIsAttended
    <2>3. UNCHANGED at \/ (state[at[w]] # "running" /\ at' = [at EXCEPT ![w] = NoConfig])
      BY <1>3 DEF Check, Leave, Mishap, Recoverable
    <2>4. QED BY <2>1, <2>2, <2>3 DEF TypeOK
  <1>4. CASE Run(w)
    BY <1>4 DEF Run, RunningIsAttended
  <1>5. CASE Release(w)
    <2>1. state' = [state EXCEPT ![at[w]] = verdict[w]] /\ at' = [at EXCEPT ![w] = NoConfig]
      BY <1>5 DEF Release, Leave, Mishap, Recoverable
    <2>2. verdict[w] # "running"
      BY DEF TypeOK, Verdicts
    <2>3. state[c] = "running" /\ c # at[w]
      BY <2>1, <2>2 DEF TypeOK
    <2>4. PICK v \in Workers : at[v] = c
      BY <2>3 DEF RunningIsAttended
    <2>5. QED BY <2>1, <2>3, <2>4 DEF TypeOK
  <1>6. QED BY <1>1, <1>2, <1>3, <1>4, <1>5 DEF Step

\* The write that says running comes first, the row is put down last: with no lost
\* release, no failed read and no killed process, however many workers race, a
\* running row is never abandoned.
THEOREM RunningRowsAreAttended ==
  ASSUME Recoverable
  PROVE  Spec => []RunningIsAttended
  <1>1. Init => RunningIsAttended
    BY DEF Init, RunningIsAttended
  <1>2. TypeOK /\ RunningIsAttended /\ [Next]_vars => RunningIsAttended'
    <2> SUFFICES ASSUME TypeOK, RunningIsAttended, [Next]_vars PROVE RunningIsAttended'
      OBVIOUS
    <2>1. CASE UNCHANGED <<state, at>>
      BY <2>1 DEF RunningIsAttended
    <2>2. ASSUME NEW c \in Configs, Click(c) PROVE RunningIsAttended'
      BY <2>2 DEF Click, RunningIsAttended, TypeOK
    <2>3. ASSUME NEW w \in Workers, Crash(w) PROVE FALSE
      BY <2>3 DEF Crash, Mishap, Recoverable
    <2>4. QED
      BY <2>1, <2>2, <2>3, StepAttends DEF Next, ToggleActive, Restart, vars
  <1>3. QED BY <1>1, <1>2, SyncTypeCorrect, PTL DEF Spec
-------------------------------------------------------------------------------
(* One worker                                                              *)

\* At most one SyncRequestWorker polls the queue.
Alone == \A v, w \in Workers : v = w

\* What the lone worker may rely on.
AloneInv ==
    /\ \A w \in Workers :
        /\ \A c \in todo[w] : state[c] = "requested"
        /\ at[w] # NoConfig => state[at[w]] = "running"
        /\ pc[w] \in {"check", "run"} => runs[at[w]] = 0
        /\ verdict[w] = "done" => runs[at[w]] > 0
    /\ \A c \in Configs :
        /\ state[c] = "requested" => runs[c] = 0
        /\ state[c] = "done" => runs[c] > 0
        /\ runs[c] <= 1

\* Init starts the lone worker with nothing in hand.
LEMMA AloneInit == Init => AloneInv
  BY DEF Init, AloneInv

\* The button and the users move only rows the worker has not taken.
LEMMA AloneUser ==
  ASSUME TypeOK, AloneInv, NEW c \in Configs, Click(c) \/ ToggleActive(c)
  PROVE  AloneInv'
  <1>1. CASE Click(c)
    <2>1. state[c] \notin {"requested", "running"}
      BY <1>1 DEF Click
    <2>2. \A w \in Workers : c \notin todo[w] /\ c # at[w]
      BY <2>1, SyncConstantsOK DEF AloneInv
    <2>3. \A d \in Configs : /\ state'[d] = IF d = c THEN "requested" ELSE state[d]
                            /\ runs'[d] = IF d = c THEN 0 ELSE runs[d]
      BY <1>1 DEF Click, TypeOK
    <2>4. UNCHANGED <<pc, todo, at, verdict>>
      BY <1>1 DEF Click
    <2>5. ASSUME NEW w \in Workers
          PROVE  /\ \A d \in todo'[w] : state'[d] = "requested"
                 /\ at'[w] # NoConfig => state'[at'[w]] = "running"
                 /\ pc'[w] \in {"check", "run"} => runs'[at'[w]] = 0
                 /\ verdict'[w] = "done" => runs'[at'[w]] > 0
      <3>1. at[w] # NoConfig => at[w] \in Configs
        BY DEF TypeOK
      <3>2. pc[w] \in {"check", "run"} \/ verdict[w] = "done" => at[w] # NoConfig
        BY DEF TypeOK
      <3>3. todo[w] \subseteq Configs
        BY DEF TypeOK
      <3>4. QED BY <2>2, <2>3, <2>4, <3>1, <3>2, <3>3 DEF AloneInv
    <2>6. QED BY <2>3, <2>5 DEF AloneInv
  <1>2. CASE ToggleActive(c)
    BY <1>2 DEF ToggleActive, AloneInv
  <1>3. QED BY <1>1, <1>2

\* A step of the worker, whose every row is its own.
LEMMA AloneStep ==
  ASSUME Alone, TypeOK, AloneInv, NEW w \in Workers, Step(w) \/ Crash(w) \/ Restart(w)
  PROVE  AloneInv'
  <1>1. \A v \in Workers : v = w
    BY DEF Alone
  <1>2. /\ pc[w] \in Points /\ todo[w] \subseteq Configs
        /\ at[w] # NoConfig => at[w] \in Configs
        /\ pc[w] \in {"check", "run", "release"} <=> at[w] # NoConfig
        /\ pc[w] = "release" <=> verdict[w] # "none"
    BY DEF TypeOK
  <1>3. CASE Poll(w)
    <2>1. todo'[w] \subseteq {c \in Configs : state[c] = "requested"} \cup todo[w]
      BY <1>3 DEF Poll, TypeOK
    <2>2. QED BY <1>1, <1>3, <2>1 DEF Poll, AloneInv
  <1>4. CASE Claim(w)
    <2>1. PICK c \in todo[w] :
            /\ todo' = [todo EXCEPT ![w] = todo[w] \ {c}]
            /\ \/ /\ state' = [state EXCEPT ![c] = "running"]
                  /\ at' = [at EXCEPT ![w] = c]
                  /\ Goto(w, "check")
               \/ state' = [state EXCEPT ![c] = "running"] /\ UNCHANGED <<pc, at>>
               \/ UNCHANGED <<state, pc, at>>
      BY <1>4 DEF Claim
    <2>2. /\ c \in Configs /\ c # NoConfig /\ runs[c] = 0
          /\ pc[w] = "drain" /\ UNCHANGED <<runs, verdict>>
      BY <1>2, <1>4, SyncConstantsOK DEF Claim, AloneInv
    <2>3. todo'[w] = todo[w] \ {c}
      BY <2>1 DEF TypeOK
    <2>4. \A d \in Configs : d # c => state'[d] = state[d]
      BY <2>1 DEF TypeOK
    <2>5. state'[c] \in {"running", state[c]}
      BY <2>1, <2>2 DEF TypeOK
    <2>6. \/ state'[c] = "running" /\ at'[w] = c /\ pc'[w] = "check"
          \/ at'[w] = NoConfig /\ pc'[w] = "drain"
      BY <1>2, <2>1, <2>2 DEF TypeOK, Goto
    <2>7. QED BY <1>1, <1>2, <2>2, <2>3, <2>4, <2>5, <2>6 DEF AloneInv
  <1>5. CASE Check(w)
    <2>1. /\ UNCHANGED <<state, runs>> /\ todo'[w] \subseteq todo[w]
          /\ pc[w] = "check"
      BY <1>5 DEF Check, TypeOK
    <2>2. \/ at'[w] = at[w] /\ pc'[w] = "run" /\ verdict'[w] = verdict[w]
          \/ at'[w] = at[w] /\ pc'[w] = "release" /\ verdict'[w] = "failed"
          \/ at'[w] = NoConfig /\ pc'[w] = "drain" /\ verdict'[w] = "none"
      BY <1>5 DEF Check, Leave, Goto, TypeOK
    <2>3. QED BY <1>1, <1>2, <2>1, <2>2 DEF AloneInv
  <1>6. CASE Run(w)
    <2>1. /\ UNCHANGED <<state, todo, at>> /\ pc'[w] = "release"
          /\ at[w] \in Configs /\ runs[at[w]] = 0 /\ state[at[w]] = "running"
      BY <1>2, <1>6 DEF Run, Goto, TypeOK, AloneInv
    <2>2. \/ \A d \in Configs : runs'[d] = IF d = at[w] THEN 1 ELSE runs[d]
          \/ runs' = runs /\ verdict'[w] = "failed"
      BY <1>6, <2>1 DEF Run, TypeOK
    <2>3. QED BY <1>1, <1>2, <2>1, <2>2 DEF AloneInv
  <1>7. CASE Release(w)
    <2>1. /\ UNCHANGED <<runs, todo>> /\ pc[w] = "release" /\ pc'[w] = "drain"
          /\ at'[w] = NoConfig /\ verdict'[w] = "none"
      BY <1>7 DEF Release, Leave, Goto, TypeOK
    <2>2. \A d \in Configs : state'[d] = state[d] \/ (d = at[w] /\ state'[d] = verdict[w])
      BY <1>7 DEF Release, TypeOK
    <2>3. verdict[w] \in {"done", "failed"} /\ at[w] \notin todo[w]
      BY <1>2, <2>1 DEF TypeOK, Verdicts, AloneInv
    <2>4. QED BY <1>1, <1>2, <2>1, <2>2, <2>3 DEF AloneInv
  <1>8. CASE Crash(w)
    <2>1. UNCHANGED <<state, runs>> /\ todo'[w] = {} /\ at'[w] = NoConfig
      BY <1>8 DEF Crash, TypeOK
    <2>2. pc'[w] = "down" /\ verdict'[w] = "none"
      BY <1>8 DEF Crash, Goto, TypeOK
    <2>3. QED BY <1>1, <2>1, <2>2 DEF AloneInv
  <1>9. CASE Restart(w)
    <2>1. UNCHANGED <<state, runs, todo, at, verdict>> /\ pc'[w] = "drain"
      BY <1>9 DEF Restart, Goto, TypeOK
    <2>2. QED BY <1>1, <1>2, <2>1 DEF AloneInv
  <1>10. QED BY <1>3, <1>4, <1>5, <1>6, <1>7, <1>8, <1>9 DEF Step

\* The invariant is kept by every step of the system.
LEMMA AloneInductive ==
  ASSUME Alone
  PROVE  TypeOK /\ AloneInv /\ [Next]_vars => AloneInv'
  <1>1. ASSUME AloneInv, UNCHANGED vars PROVE AloneInv'
    BY <1>1 DEF AloneInv, vars
  <1>2. QED BY <1>1, AloneUser, AloneStep DEF Next

\* A lone worker's "done" is true: the connector ran for the request it answers, in
\* spite of lost claims, lost answers, failed reads, lost releases and crashes.
THEOREM LoneDoneIsTrue ==
  ASSUME Alone
  PROVE  Spec => []DoneIsTrue
  <1>1. AloneInv => DoneIsTrue
    BY DEF AloneInv, DoneIsTrue
  <1>2. QED BY <1>1, AloneInit, AloneInductive, SyncTypeCorrect, PTL DEF Spec

\* And it runs the connector at most once for every accepted click.
THEOREM LoneRunsOnce ==
  ASSUME Alone
  PROVE  Spec => []OneRunPerClick
  <1>1. AloneInv => OneRunPerClick
    BY DEF AloneInv, OneRunPerClick
  <1>2. QED BY <1>1, AloneInit, AloneInductive, SyncTypeCorrect, PTL DEF Spec

\* With one worker the row moves along the module's diagram and in no other way.
THEOREM LoneFollowsDiagram ==
  ASSUME Alone
  PROVE  Spec => FollowsDiagram
  <1> DEFINE Edge == \A c \in Configs :
                \/ state'[c] = state[c]
                \/ state[c] \in {"idle", "done", "failed"} /\ state'[c] = "requested"
                \/ state[c] = "requested" /\ state'[c] = "running"
                \/ state[c] = "running" /\ state'[c] \in Verdicts
  <1>1. TypeOK /\ AloneInv /\ [Next]_vars => [Edge]_vars
    <2> SUFFICES ASSUME TypeOK, AloneInv, Next PROVE Edge
      OBVIOUS
    <2>1. CASE UNCHANGED state
      BY <2>1
    <2>2. ASSUME NEW c \in Configs, Click(c) PROVE Edge
      <3>1. state[c] \in {"idle", "done", "failed"}
        BY <2>2 DEF Click, TypeOK, States
      <3>2. QED BY <2>2, <3>1 DEF Click, TypeOK
    <2>3. ASSUME NEW w \in Workers, Claim(w) PROVE Edge
      <3>1. PICK c \in todo[w] : state' = [state EXCEPT ![c] = "running"] \/ UNCHANGED state
        BY <2>3 DEF Claim
      <3>2. state[c] = "requested"
        BY DEF AloneInv
      <3>3. QED BY <3>1, <3>2 DEF TypeOK
    <2>4. ASSUME NEW w \in Workers, Release(w) PROVE Edge
      <3>1. state' = [state EXCEPT ![at[w]] = verdict[w]] \/ UNCHANGED state
        BY <2>4 DEF Release
      <3>2. state[at[w]] = "running" /\ verdict[w] \in Verdicts
        BY <2>4 DEF Release, AloneInv, TypeOK
      <3>3. QED BY <3>1, <3>2 DEF TypeOK
    <2>5. QED
      BY <2>1, <2>2, <2>3, <2>4
         DEF Next, Step, ToggleActive, Poll, Check, Run, Crash, Restart
  <1>2. QED
    BY <1>1, AloneInit, AloneInductive, SyncTypeCorrect, PTL DEF Spec, FollowsDiagram
==================================================================================
