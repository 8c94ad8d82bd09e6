-------------------------- MODULE OperationWorkerProofs --------------------------
(***************************************************************************)
(* Proofs about the Microsoft 365 operation queue, for any operations,     *)
(* workers, failures and bounds.                                           *)
(***************************************************************************)
EXTENDS OperationWorker, TLAPS

Verdicts == {"none", "planned", "verified", "failed", "uncertain"}

\* Counting something that went wrong keeps the counter a number.
LEMMA MishapType ==
  ASSUME TypeOK, NoMishap \/ \E kind \in FaultKinds : Mishap(kind)
  PROVE  mishaps' \in Nat
  BY DEF TypeOK, NoMishap, Mishap

\* The part of the type invariant that is about what workers hold.
Hands ==
  /\ pc \in [Workers -> Points]
  /\ at \in [Workers -> Ops \cup {NoOp}]
  /\ live \in [Workers -> BOOLEAN]
  /\ verdict \in [Workers -> Verdicts]
  /\ \A w \in Workers :
      /\ pc[w] \in {"mark", "work", "record", "fallback", "report"} <=> at[w] # NoOp
      /\ pc[w] \in {"record", "fallback", "report"} <=> verdict[w] # "none"

\* A worker may take into its hands whatever fits the place it moves to.
LEMMA HandsMove ==
  ASSUME TypeOK, NEW w \in Workers,
         NEW p \in Points, NEW o \in Ops \cup {NoOp}, NEW b \in BOOLEAN, NEW v \in Verdicts,
         p \in {"mark", "work", "record", "fallback", "report"} <=> o # NoOp,
         p \in {"record", "fallback", "report"} <=> v # "none",
         pc' = [pc EXCEPT ![w] = p],
         at' = [at EXCEPT ![w] = o],
         live' = [live EXCEPT ![w] = b],
         verdict' = [verdict EXCEPT ![w] = v]
  PROVE  Hands'
  <1>1. /\ pc' \in [Workers -> Points]
        /\ at' \in [Workers -> Ops \cup {NoOp}]
        /\ live' \in [Workers -> BOOLEAN]
        /\ verdict' \in [Workers -> Verdicts]
    BY DEF TypeOK, Verdicts
  <1>2. ASSUME NEW u \in Workers
        PROVE  /\ pc'[u] \in {"mark", "work", "record", "fallback", "report"} <=> at'[u] # NoOp
               /\ pc'[u] \in {"record", "fallback", "report"} <=> verdict'[u] # "none"
    <2>1. CASE u = w
      BY <2>1 DEF TypeOK
    <2>2. CASE u # w
      BY <2>2 DEF TypeOK
    <2>3. QED BY <2>1, <2>2
  <1>3. QED BY <1>1, <1>2 DEF Hands

\* An empty hand fits between two records.
LEMMA LeaveType ==
  ASSUME TypeOK, NEW w \in Workers, Leave(w)
  PROVE  Hands'
  <1>1. /\ pc' = [pc EXCEPT ![w] = "check"]
        /\ at' = [at EXCEPT ![w] = NoOp]
        /\ live' = [live EXCEPT ![w] = FALSE]
        /\ verdict' = [verdict EXCEPT ![w] = "none"]
    BY DEF Leave, Goto
  <1>2. "check" \in Points /\ "none" \in Verdicts /\ FALSE \in BOOLEAN
    BY DEF Points, Verdicts
  <1>3. QED BY <1>1, <1>2, HandsMove

\* A verdict fits the places that write it.
LEMMA DecideType ==
  ASSUME TypeOK, NEW w \in Workers, at[w] \in Ops,
         NEW v \in Verdicts \ {"none"}, NEW p \in {"record", "fallback", "report"},
         Decide(w, v, p), UNCHANGED <<at, live>>
  PROVE  Hands'
  <1>1. /\ pc' = [pc EXCEPT ![w] = p]
        /\ verdict' = [verdict EXCEPT ![w] = v]
    BY DEF Decide, Goto
  <1>2. at' = [at EXCEPT ![w] = at[w]] /\ live' = [live EXCEPT ![w] = live[w]]
    BY DEF TypeOK
  <1>3. p \in Points /\ live[w] \in BOOLEAN /\ at[w] # NoOp
    BY OperationConstantsOK DEF Points, TypeOK
  <1>4. QED BY <1>1, <1>2, <1>3, HandsMove

\* The search, the recovery and the fetch keep the types.
LEMMA RoundType ==
  ASSUME TypeOK, NEW w \in Workers, Scan(w) \/ Recover(w) \/ Fetch(w)
  PROVE  TypeOK'
  <1> USE DEF TypeOK, States, Points
  <1>1. CASE Scan(w)
    <2>1. mishaps' \in Nat
      BY <1>1, MishapType DEF Scan, FaultKinds
    <2>2. scan' \in [Workers -> SUBSET Ops]
      BY <1>1 DEF Scan
    <2>3. QED BY <1>1, <2>1, <2>2 DEF Scan, Goto, records
  <1>2. CASE Recover(w)
    <2>1. mishaps' \in Nat
      BY <1>2, MishapType DEF Recover, FaultKinds
    <2>2. state' \in [Ops -> States] /\ scan' \in [Workers -> SUBSET Ops]
      BY <1>2 DEF Recover, Arrives
    <2>3. QED BY <1>2, <2>1, <2>2 DEF Recover
  <1>3. CASE Fetch(w)
    <2>1. mishaps' \in Nat
      BY <1>3, MishapType DEF Fetch, FaultKinds
    <2>2. /\ todo' \in [Workers -> SUBSET Ops]
          /\ planned' \in [Workers -> SUBSET Ops]
      BY <1>3 DEF Fetch
    <2>3. pc[w] = "recover" /\ \E p \in {"check", "scan"} : pc' = [pc EXCEPT ![w] = p]
      BY <1>3 DEF Fetch, Goto
    <2>4. QED BY <1>3, <2>1, <2>2, <2>3 DEF Fetch, records
  <1>4. QED BY <1>1, <1>2, <1>3

\* The claim of a record keeps the types.
LEMMA ClaimType ==
  ASSUME TypeOK, NEW w \in Workers, Check(w) \/ Mark(w)
  PROVE  TypeOK'
  <1> USE DEF TypeOK, States, Points
  <1>1. CASE Check(w)
    <2>1. mishaps' \in Nat
      BY <1>1, MishapType DEF Check, FaultKinds
    <2>2. todo' \in [Workers -> SUBSET Ops] /\ pc[w] = "check"
      BY <1>1 DEF Check
    <2>3. UNCHANGED <<state, overdue, plan, consent, executed, scan, verdict>>
      BY <1>1 DEF Check, records
    <2>4. planned' \in [Workers -> SUBSET Ops]
      BY <1>1 DEF Check
    <2>5. Hands'
      <3>1. CASE UNCHANGED <<pc, at, live>>
        BY <2>3, <3>1 DEF Hands, Verdicts
      <3>2. CASE pc' = [pc EXCEPT ![w] = "scan"] /\ UNCHANGED <<at, live>>
        BY <2>2, <2>3, <3>2 DEF Hands, Verdicts
      <3>3. ASSUME NEW o \in Ops,
                   at' = [at EXCEPT ![w] = o],
                   live' = [live EXCEPT ![w] = (state[o] # "draft")],
                   pc' = [pc EXCEPT ![w] = "mark"]
            PROVE  Hands'
        <4> DEFINE b == state[o] # "draft"
        <4>1. b \in BOOLEAN /\ live' = [live EXCEPT ![w] = b]
          BY <3>3
        <4>2. verdict' = [verdict EXCEPT ![w] = "none"] /\ o # NoOp
          BY <2>2, <2>3, OperationConstantsOK
        <4>3. "mark" \in Points /\ "none" \in Verdicts
          BY DEF Verdicts
        <4> HIDE DEF b
        <4>4. QED BY <3>3, <4>1, <4>2, <4>3, HandsMove
      <3>4. QED BY <1>1, <3>1, <3>2, <3>3 DEF Check, Goto
    <2>6. QED BY <2>1, <2>2, <2>3, <2>4, <2>5 DEF Hands, Verdicts
  <1>2. CASE Mark(w)
    <2>1. mishaps' \in Nat
      BY <1>2, MishapType DEF Mark, FaultKinds
    <2>2. at[w] \in Ops /\ pc[w] = "mark" /\ verdict[w] = "none"
      BY <1>2 DEF Mark
    <2>3. state' \in [Ops -> States] /\ overdue' \in [Ops -> BOOLEAN]
      BY <1>2, <2>2 DEF Mark, Arrives
    <2>4. UNCHANGED <<plan, consent, executed, scan, todo, planned>>
      BY <1>2 DEF Mark
    <2>5. CASE pc' = [pc EXCEPT ![w] = "work"] /\ UNCHANGED <<at, live, verdict>>
      BY <2>1, <2>2, <2>3, <2>4, <2>5
    <2>6. CASE Leave(w)
      BY <2>1, <2>3, <2>4, <2>6, LeaveType DEF Hands, Verdicts
    <2>7. QED BY <1>2, <2>5, <2>6 DEF Mark, Goto
  <1>3. QED BY <1>1, <1>2

\* Planning, executing, refusing and diagnosing keep the types.
LEMMA WorkType ==
  ASSUME TypeOK, NEW w \in Workers,
         Plan(w) \/ DryRun(w) \/ Diagnose(w) \/ Execute(w) \/ Refuse(w)
  PROVE  TypeOK'
  <1>1. pc[w] = "work" /\ at[w] \in Ops
    BY DEF TypeOK, Plan, DryRun, Diagnose, Execute, Refuse
  <1>2. PICK v \in {"planned", "verified", "failed"}, p \in {"record", "report"} : Decide(w, v, p)
    BY DEF Plan, DryRun, Diagnose, Execute, Refuse
  <1>3. UNCHANGED <<state, overdue, plan, consent, scan, todo, planned, at, live, mishaps>>
    BY DEF Plan, DryRun, Diagnose, Execute, Refuse, records
  <1>4. executed' \in [Ops -> 0..2]
    <2>1. 1 \in 0..2 /\ 2 \in 0..2
      OBVIOUS
    <2>2. UNCHANGED executed \/ \E n \in 0..2 : executed' = [executed EXCEPT ![at[w]] = n]
      BY <2>1 DEF Plan, DryRun, Diagnose, Execute, Refuse, records
    <2>3. QED BY <2>2 DEF TypeOK
  <1>5. v \in Verdicts \ {"none"} /\ p \in {"record", "fallback", "report"}
    BY DEF Verdicts
  <1>6. Hands'
    BY <1>1, <1>2, <1>3, <1>5, DecideType
  <1>7. QED BY <1>3, <1>4, <1>6 DEF TypeOK, Hands, Verdicts

\* Both ways of writing a verdict keep the types.
LEMMA VerdictType ==
  ASSUME TypeOK, NEW w \in Workers, Record(w) \/ Report(w)
  PROVE  TypeOK'
  <1> USE DEF TypeOK, States, Points
  <1>1. at[w] \in Ops /\ verdict[w] \in Verdicts \ {"none"}
    BY DEF Record, Report, Verdicts
  <1>2. CASE Record(w)
    <2>1. mishaps' \in Nat
      BY <1>2, MishapType DEF Record, FaultKinds
    <2>2. RecordOf[at[w]] \in Ops \cup {NoOp}
      BY <1>1, OperationConstantsOK
    <2>3. state' \in [Ops -> States]
      BY <1>1, <1>2, <2>2 DEF Record, Arrives, Verdicts
    <2>4. UNCHANGED <<overdue, plan, consent, executed, scan, todo, planned>>
      BY <1>2 DEF Record
    <2>5. Hands'
      <3>1. CASE Leave(w)
        BY <3>1, LeaveType
      <3>2. CASE Decide(w, "uncertain", "fallback") /\ UNCHANGED <<at, live>>
        <4>1. "uncertain" \in Verdicts \ {"none"}
          BY DEF Verdicts
        <4>2. QED BY <1>1, <3>2, <4>1, DecideType
      <3>3. QED BY <1>2, <3>1, <3>2 DEF Record
    <2>6. QED BY <2>1, <2>3, <2>4, <2>5 DEF Hands, Verdicts
  <1>3. CASE Report(w)
    <2>1. mishaps' \in Nat
      BY <1>3, MishapType DEF Report, FaultKinds
    <2>2. state' \in [Ops -> States]
      BY <1>1, <1>3 DEF Report, Arrives, Verdicts
    <2>3. plan' \in [Ops -> BOOLEAN]
      <3> DEFINE holds == plan[at[w]] \/ verdict[w] = "planned"
      <3>1. plan' = [plan EXCEPT ![at[w]] = holds] \/ UNCHANGED plan
        BY <1>3 DEF Report
      <3>2. holds \in BOOLEAN
        OBVIOUS
      <3> HIDE DEF holds
      <3>3. QED BY <3>1, <3>2
    <2>4. UNCHANGED <<overdue, consent, executed, scan, todo, planned>> /\ Leave(w)
      BY <1>3 DEF Report
    <2>5. Hands'
      BY <2>4, LeaveType
    <2>6. QED BY <2>1, <2>2, <2>3, <2>4, <2>5 DEF Hands, Verdicts
  <1>4. QED BY <1>2, <1>3

\* Operators, the command line and the clock keep the types.
LEMMA UserType ==
  ASSUME TypeOK, NEW o \in Ops, Approve(o) \/ Reject(o) \/ CliPlan(o) \/ BecomeOverdue(o)
  PROVE  TypeOK'
  <1> USE DEF TypeOK, States
  <1>1. CASE Approve(o)
    BY <1>1 DEF Approve, Arrives
  <1>2. CASE Reject(o)
    <2>1. \E c \in {"none", "given", "withdrawn"} : consent' = [consent EXCEPT ![o] = c]
      BY <1>2 DEF Reject
    <2>2. QED BY <1>2, <2>1 DEF Reject, Arrives
  <1>3. CASE CliPlan(o)
    <2> DEFINE r == RecordOf[o]
               holds == plan[r] \/ StoresPlan
    <2>1. r \in Ops /\ plan' = [plan EXCEPT ![r] = holds]
      BY <1>3 DEF CliPlan
    <2>2. holds \in BOOLEAN
      OBVIOUS
    <2>3. state' = [state EXCEPT ![r] = "awaiting_approval"]
      BY <1>3 DEF CliPlan, Arrives
    <2>4. UNCHANGED <<overdue, consent, executed, pc, scan, todo, planned, at, live, verdict,
                      mishaps>>
      BY <1>3 DEF CliPlan
    <2> HIDE DEF r, holds
    <2>5. QED BY <2>1, <2>2, <2>3, <2>4
  <1>4. CASE BecomeOverdue(o)
    BY <1>4 DEF BecomeOverdue
  <1>5. QED BY <1>1, <1>2, <1>3, <1>4

\* A worker that dies or comes back keeps the types.
LEMMA FateType ==
  ASSUME TypeOK, NEW w \in Workers, Crash(w) \/ Restart(w)
  PROVE  TypeOK'
  <1>1. CASE Crash(w)
    <2>1. mishaps' \in Nat
      BY <1>1, MishapType DEF Crash, FaultKinds
    <2>2. QED BY <1>1, <2>1 DEF Crash, Goto, TypeOK, Points, records
  <1>2. CASE Restart(w)
    BY <1>2 DEF Restart, Goto, TypeOK, Points, records
  <1>3. QED BY <1>1, <1>2

\* Every step keeps the types.
LEMMA StepType == TypeOK /\ [Next]_vars => TypeOK'
  <1>1. ASSUME TypeOK, UNCHANGED vars PROVE TypeOK'
    BY <1>1 DEF vars, records, TypeOK
  <1>2. QED
    BY <1>1, UserType, RoundType, ClaimType, WorkType, VerdictType, FateType DEF Next, Step

\* Whatever races and fails, every variable keeps its type, and a worker holds a record
\* and a verdict exactly where process_operation says so.
THEOREM OpsTypeCorrect == Spec => []TypeOK
  <1>1. Init => TypeOK
    BY OperationConstantsOK DEF Init, TypeOK, States, Points
  <1>2. QED BY <1>1, StepType, PTL DEF Spec
-------------------------------------------------------------------------------
(* The approval gate                                                       *)

\* Operations that no command-line plan overwrites.
Gated == Ops \ HandPlanned

\* What makes the gate hold: a gated record that waits was approved, and so was one
\* that a worker has read as approved.
Gate ==
  /\ \A o \in Gated : state[o] = "awaiting_approval" => consent[o] # "none"
  /\ \A w \in Workers : live[w] /\ at[w] \in Gated => consent[at[w]] # "none"
  /\ \A o \in Gated : executed[o] > 0 => consent[o] # "none"

\* The gate survives a step that forgets no consent, lets no gated record wait without
\* one, and lets workers take for approved, or execute, only what they read as such.
LEMMA GateKept ==
  ASSUME Gate,
         \A o \in Gated : consent[o] # "none" => consent'[o] # "none",
         \A o \in Gated : state'[o] = "awaiting_approval" =>
             state[o] = "awaiting_approval" \/ consent'[o] # "none",
         \A w \in Workers : live'[w] /\ at'[w] \in Gated =>
             \/ live[w] /\ at'[w] = at[w]
             \/ state[at'[w]] = "awaiting_approval",
         \A o \in Gated : executed'[o] > 0 =>
             \/ executed[o] > 0
             \/ \E w \in Workers : live[w] /\ at[w] = o
  PROVE  Gate'
  <1>1. ASSUME NEW o \in Gated, state'[o] = "awaiting_approval" PROVE consent'[o] # "none"
    BY <1>1 DEF Gate
  <1>2. ASSUME NEW w \in Workers, live'[w], at'[w] \in Gated PROVE consent'[at'[w]] # "none"
    BY <1>2 DEF Gate
  <1>3. ASSUME NEW o \in Gated, executed'[o] > 0 PROVE consent'[o] # "none"
    BY <1>3 DEF Gate
  <1>4. Gated' = Gated
    BY DEF Gated, HandPlanned
  <1>5. QED BY <1>1, <1>2, <1>3, <1>4 DEF Gate

\* Operators, the command line and the clock keep the gate.
LEMMA UserGate ==
  ASSUME TypeOK, Gate, NEW o \in Ops,
         Approve(o) \/ Reject(o) \/ CliPlan(o) \/ BecomeOverdue(o)
  PROVE  Gate'
  <1>1. Gated \subseteq Ops
    BY DEF Gated
  <1>2. UNCHANGED <<live, at, executed>>
    BY DEF Approve, Reject, CliPlan, BecomeOverdue
  <1>3. ASSUME NEW p \in Gated, consent[p] # "none" PROVE consent'[p] # "none"
    BY <1>1, <1>3 DEF TypeOK, Approve, Reject, CliPlan, BecomeOverdue
  <1>4. ASSUME NEW p \in Gated, state'[p] = "awaiting_approval"
        PROVE  state[p] = "awaiting_approval" \/ consent'[p] # "none"
    <2>1. CASE Approve(o)
      BY <1>1, <1>4, <2>1 DEF TypeOK, Approve, Arrives
    <2>2. CASE Reject(o)
      BY <1>1, <1>4, <2>2 DEF TypeOK, Reject, Arrives
    <2>3. CASE CliPlan(o)
      <3>1. p # RecordOf[o]
        BY <2>3 DEF CliPlan, Gated, HandPlanned
      <3>2. QED BY <1>1, <1>4, <2>3, <3>1 DEF TypeOK, CliPlan, Arrives
    <2>4. CASE BecomeOverdue(o)
      BY <1>4, <2>4 DEF BecomeOverdue
    <2>5. QED BY <2>1, <2>2, <2>3, <2>4
  <1>5. QED BY <1>2, <1>3, <1>4, GateKept

\* A worker's step writes no record into awaiting_approval.
LEMMA NoWorkerApproves ==
  ASSUME TypeOK, NEW w \in Workers, Step(w) \/ Crash(w) \/ Restart(w),
         NEW o \in Ops, state'[o] = "awaiting_approval"
  PROVE  state[o] = "awaiting_approval"
  <1>1. \/ UNCHANGED state
        \/ \E r \in Ops, v \in States \ {"awaiting_approval"} : state' = [state EXCEPT ![r] = v]
    <2>1. CASE Recover(w)
      <3>1. "uncertain" \in States \ {"awaiting_approval"}
        BY DEF States
      <3>2. QED BY <2>1, <3>1 DEF Recover, Arrives, TypeOK
    <2>2. CASE Mark(w)
      <3>1. "running" \in States \ {"awaiting_approval"} /\ at[w] \in Ops
        BY <2>2 DEF States, Mark, TypeOK
      <3>2. QED BY <2>2, <3>1 DEF Mark, Arrives
    <2>3. CASE Record(w)
      <3>1. verdict[w] \in States \ {"awaiting_approval"}
        BY <2>3 DEF States, Record, TypeOK
      <3>2. QED BY <2>3, <3>1 DEF Record, Arrives
    <2>4. CASE Report(w)
      <3>1. verdict[w] \in States \ {"awaiting_approval"} /\ at[w] \in Ops
        BY <2>4 DEF States, Report, TypeOK
      <3>2. QED BY <2>4, <3>1 DEF Report, Arrives
    <2>5. QED
      BY <2>1, <2>2, <2>3, <2>4
      DEF Step, Scan, Fetch, Check, Plan, DryRun, Diagnose, Execute, Refuse, Crash, Restart,
          records
  <1>2. QED BY <1>1 DEF TypeOK

\* Workers keep the gate.
LEMMA WorkerGate ==
  ASSUME TypeOK, Gate, NEW w \in Workers, Step(w) \/ Crash(w) \/ Restart(w)
  PROVE  Gate'
  <1>1. Gated \subseteq Ops
    BY DEF Gated
  <1>2. UNCHANGED consent
    BY DEF Step, Scan, Recover, Fetch, Check, Mark, Plan, DryRun, Diagnose, Execute, Refuse,
           Record, Report, Crash, Restart, records
  <1>3. ASSUME NEW u \in Workers, live'[u], at'[u] \in Gated
        PROVE  (live[u] /\ at'[u] = at[u]) \/ state[at'[u]] = "awaiting_approval"
    <2>1. CASE UNCHANGED <<live, at>>
      BY <1>3, <2>1
    <2>2. CASE live' = [live EXCEPT ![w] = FALSE] /\ at' = [at EXCEPT ![w] = NoOp]
      <3>1. u # w
        BY <1>3, <2>2 DEF TypeOK
      <3>2. QED BY <1>3, <2>2, <3>1 DEF TypeOK
    <2>3. CASE Check(w)
      <3>1. CASE UNCHANGED <<live, at>>
        BY <1>3, <3>1
      <3>2. ASSUME NEW o \in todo[w], state[o] \in Pending,
                   at' = [at EXCEPT ![w] = o],
                   live' = [live EXCEPT ![w] = (state[o] # "draft")]
            PROVE  (live[u] /\ at'[u] = at[u]) \/ state[at'[u]] = "awaiting_approval"
        <4>1. CASE u = w
          BY <1>3, <3>2, <4>1 DEF TypeOK, Pending
        <4>2. CASE u # w
          BY <1>3, <3>2, <4>2 DEF TypeOK
        <4>3. QED BY <4>1, <4>2
      <3>3. QED BY <2>3, <3>1, <3>2 DEF Check
    <2>4. QED
      BY <2>1, <2>2, <2>3
      DEF Step, Scan, Recover, Fetch, Mark, Plan, DryRun, Diagnose, Execute, Refuse,
          Record, Report, Crash, Restart, Leave
  <1>4. ASSUME NEW o \in Gated, executed'[o] > 0
        PROVE  executed[o] > 0 \/ \E u \in Workers : live[u] /\ at[u] = o
    <2>1. CASE UNCHANGED executed
      BY <1>4, <2>1
    <2>2. CASE Execute(w)
      <3>1. live[w] /\ \E n : executed' = [executed EXCEPT ![at[w]] = n]
        BY <2>2 DEF Execute
      <3>2. QED BY <1>1, <1>4, <3>1 DEF TypeOK
    <2>3. QED
      BY <2>1, <2>2
      DEF Step, Scan, Recover, Fetch, Check, Mark, Plan, DryRun, Diagnose, Refuse, Record,
          Report, Crash, Restart, records
  <1>5. QED BY <1>1, <1>2, <1>3, <1>4, NoWorkerApproves, GateKept

\* Every step keeps the gate.
LEMMA StepGate == TypeOK /\ Gate /\ [Next]_vars => Gate'
  <1>1. ASSUME Gate, UNCHANGED vars PROVE Gate'
    BY <1>1 DEF vars, records, Gate, Gated, HandPlanned
  <1>2. QED BY <1>1, UserGate, WorkerGate DEF Next

\* However many workers read the queue, however stale their copies and whatever fails:
\* nothing is executed that no operator has approved, the records that somebody plans
\* by hand excepted.
THEOREM ApprovalGate == Spec => []OnlyApprovedIsExecuted
  <1>1. Init => Gate
    BY OperationConstantsOK DEF Init, Gate, Gated
  <1>2. Gate => OnlyApprovedIsExecuted
    BY DEF Gate, Gated, OnlyApprovedIsExecuted
  <1>3. QED BY <1>1, <1>2, StepGate, OpsTypeCorrect, PTL DEF Spec
-------------------------------------------------------------------------------
(* A verified onboarding is real                                           *)

Hires == {o \in Ops : Kind[o] = "onboarding"}

\* Behind every verified onboarding there is an execution, and behind every verdict
\* about to make one verified.
Real ==
  /\ \A o \in Hires : state[o] = "verified" => executed[o] > 0
  /\ \A w \in Workers :
      at[w] \in Hires /\ verdict[w] = "verified" => executed[at[w]] > 0
  /\ \A w \in Workers : pc[w] = "record" => Kind[at[w]] \in Synced

\* A step keeps this that forgets no execution, makes no onboarding verified but by a
\* verdict for it, and reaches such a verdict only after an execution.
LEMMA RealKept ==
  ASSUME Real,
         \A o \in Hires : executed[o] > 0 => executed'[o] > 0,
         \A o \in Hires : state'[o] = "verified" =>
             \/ state[o] = "verified"
             \/ \E w \in Workers : at[w] = o /\ verdict[w] = "verified",
         \A w \in Workers : at'[w] \in Hires /\ verdict'[w] = "verified" =>
             \/ at'[w] = at[w] /\ verdict[w] = "verified"
             \/ executed'[at'[w]] > 0,
         \A w \in Workers : pc'[w] = "record" =>
             \/ pc[w] = "record" /\ at'[w] = at[w]
             \/ Kind[at'[w]] \in Synced
  PROVE  Real'
  <1>1. ASSUME NEW o \in Hires, state'[o] = "verified" PROVE executed'[o] > 0
    BY <1>1 DEF Real
  <1>2. ASSUME NEW w \in Workers, at'[w] \in Hires, verdict'[w] = "verified"
        PROVE  executed'[at'[w]] > 0
    BY <1>2 DEF Real
  <1>3. ASSUME NEW w \in Workers, pc'[w] = "record" PROVE Kind[at'[w]] \in Synced
    BY <1>3 DEF Real
  <1>4. Hires' = Hires /\ Synced' = Synced
    BY DEF Hires, Synced
  <1>5. QED BY <1>1, <1>2, <1>3, <1>4 DEF Real

\* Executions are never taken back.
LEMMA ExecutedGrows ==
  ASSUME TypeOK, Next, NEW o \in Ops, executed[o] > 0
  PROVE  executed'[o] > 0
  <1>1. CASE UNCHANGED executed
    BY <1>1
  <1>2. ASSUME NEW w \in Workers, Execute(w) PROVE executed'[o] > 0
    <2>1. executed' = [executed EXCEPT ![at[w]] = IF executed[at[w]] = 0 THEN 1 ELSE 2]
      BY <1>2 DEF Execute
    <2>2. QED BY <2>1 DEF TypeOK
  <1>3. QED
    BY <1>1, <1>2
    DEF Next, Approve, Reject, CliPlan, BecomeOverdue, Step, Scan, Recover, Fetch, Check, Mark,
        Plan, DryRun, Diagnose, Refuse, Record, Report, Crash, Restart, records

\* Operators, the command line and the clock verify nothing.
LEMMA UserReal ==
  ASSUME TypeOK, Real, NEW o \in Ops,
         Approve(o) \/ Reject(o) \/ CliPlan(o) \/ BecomeOverdue(o)
  PROVE  Real'
  <1>1. UNCHANGED <<pc, at, verdict, executed>>
    BY DEF Approve, Reject, CliPlan, BecomeOverdue
  <1>2. ASSUME NEW p \in Hires, state'[p] = "verified" PROVE state[p] = "verified"
    <2>1. UNCHANGED state \/ \E r \in Ops, v \in {"awaiting_approval", "failed"} :
                                 state' = [state EXCEPT ![r] = v]
      BY DEF Approve, Reject, CliPlan, BecomeOverdue, Arrives
    <2>2. QED BY <1>2, <2>1 DEF TypeOK, Hires
  <1>3. QED BY <1>1, <1>2, RealKept

\* What a worker writes into the records is never "verified" for an onboarding but by
\* its verdict for it: sync_to_odoo only ever writes into records of the other kinds.
LEMMA WritesReal ==
  ASSUME TypeOK, Real, NEW w \in Workers, Step(w) \/ Crash(w) \/ Restart(w),
         NEW o \in Hires, state'[o] = "verified"
  PROVE  state[o] = "verified" \/ (at[w] = o /\ verdict[w] = "verified")
  <1>1. o \in Ops /\ Kind[o] = "onboarding"
    BY DEF Hires
  <1>2. CASE UNCHANGED state
    BY <1>2
  <1>3. ASSUME NEW r \in Ops, NEW v \in {"uncertain", "running"},
               state' = [state EXCEPT ![r] = v]
        PROVE  state[o] = "verified"
    BY <1>1, <1>3 DEF TypeOK
  <1>4. CASE Record(w)
    <2>1. Kind[at[w]] \in Synced /\ at[w] \in Ops
      BY <1>4 DEF Record, Real, TypeOK
    <2>2. RecordOf[at[w]] # o
      BY <1>1, <2>1, OperationConstantsOK DEF Synced
    <2>3. UNCHANGED state \/ state' = [state EXCEPT ![RecordOf[at[w]]] = verdict[w]]
      BY <1>4 DEF Record, Arrives
    <2>4. QED BY <1>1, <2>2, <2>3 DEF TypeOK
  <1>5. CASE Report(w)
    <2>1. UNCHANGED state \/ state' = [state EXCEPT ![at[w]] = verdict[w]]
      BY <1>5 DEF Report, Arrives
    <2>2. QED BY <1>1, <2>1 DEF TypeOK
  <1>6. QED
    BY <1>2, <1>3, <1>4, <1>5
    DEF Step, Scan, Recover, Fetch, Check, Mark, Plan, DryRun, Diagnose, Execute, Refuse,
        Crash, Restart, Arrives, records, TypeOK

\* A worker that reports an onboarding as verified has executed it.
LEMMA VerdictsReal ==
  ASSUME TypeOK, Real, NEW w \in Workers, Step(w) \/ Crash(w) \/ Restart(w),
         NEW u \in Workers, at'[u] \in Hires, verdict'[u] = "verified"
  PROVE  (at'[u] = at[u] /\ verdict[u] = "verified") \/ executed'[at'[u]] > 0
  <1>1. CASE UNCHANGED <<at, verdict>>
    BY <1>1
  <1>2. CASE verdict' = [verdict EXCEPT ![w] = "none"] /\ at' = [at EXCEPT ![w] = NoOp]
    BY <1>2 DEF TypeOK
  <1>3. CASE Check(w)
    <2>1. verdict[w] = "none" /\ UNCHANGED verdict
      BY <1>3 DEF Check, TypeOK
    <2>2. u # w
      BY <2>1
    <2>3. UNCHANGED at \/ \E o \in Ops : at' = [at EXCEPT ![w] = o]
      BY <1>3 DEF Check, TypeOK
    <2>4. QED BY <2>1, <2>2, <2>3 DEF TypeOK
  <1>4. ASSUME NEW v \in Verdicts, UNCHANGED at, verdict' = [verdict EXCEPT ![w] = v],
               v # "verified" \/ Kind[at[w]] # "onboarding"
        PROVE  at'[u] = at[u] /\ verdict[u] = "verified"
    <2>1. u # w
      BY <1>4 DEF TypeOK, Hires
    <2>2. QED BY <1>4, <2>1 DEF TypeOK
  <1>5. CASE Execute(w)
    <2>1. executed' = [executed EXCEPT ![at[w]] = IF executed[at[w]] = 0 THEN 1 ELSE 2]
      BY <1>5 DEF Execute
    <2>2. at[w] \in Ops /\ executed'[at[w]] > 0
      BY <1>5, <2>1 DEF Execute, TypeOK
    <2>3. UNCHANGED at /\ \E v : verdict' = [verdict EXCEPT ![w] = v]
      BY <1>5 DEF Execute, Decide
    <2>4. QED BY <2>2, <2>3 DEF TypeOK
  <1>6. CASE Plan(w) \/ DryRun(w) \/ Diagnose(w) \/ Refuse(w)
    <2>1. PICK v \in Verdicts : /\ UNCHANGED at
                                /\ verdict' = [verdict EXCEPT ![w] = v]
                                /\ v # "verified" \/ Kind[at[w]] # "onboarding"
      BY <1>6 DEF Plan, DryRun, Diagnose, Refuse, Decide, Synced, Verdicts
    <2>2. QED BY <1>4, <2>1
  <1>7. CASE Record(w)
    <2>1. \/ verdict' = [verdict EXCEPT ![w] = "none"] /\ at' = [at EXCEPT ![w] = NoOp]
          \/ verdict' = [verdict EXCEPT ![w] = "uncertain"] /\ UNCHANGED at
      BY <1>7 DEF Record, Leave, Decide
    <2>2. "uncertain" \in Verdicts /\ "uncertain" # "verified"
      BY DEF Verdicts
    <2>3. QED BY <1>2, <1>4, <2>1, <2>2
  <1>8. CASE Mark(w) \/ Report(w)
    BY <1>1, <1>2, <1>8 DEF Mark, Report, Leave
  <1>9. QED
    BY <1>1, <1>2, <1>3, <1>5, <1>6, <1>7, <1>8 DEF Step, Scan, Recover, Fetch, Crash, Restart

\* Only remediations and offboardings are recorded by sync_to_odoo.
LEMMA RecordsSynced ==
  ASSUME TypeOK, Real, NEW w \in Workers, Step(w) \/ Crash(w) \/ Restart(w),
         NEW u \in Workers, pc'[u] = "record"
  PROVE  (pc[u] = "record" /\ at'[u] = at[u]) \/ Kind[at'[u]] \in Synced
  <1>1. CASE u # w
    <2>1. pc'[u] = pc[u]
      BY <1>1
      DEF TypeOK, Step, Scan, Recover, Fetch, Check, Mark, Plan, DryRun, Diagnose, Execute,
          Refuse, Record, Report, Crash, Restart, Leave, Decide, Goto
    <2>2. at'[u] = at[u]
      BY <1>1
      DEF TypeOK, Step, Scan, Recover, Fetch, Check, Mark, Plan, DryRun, Diagnose, Execute,
          Refuse, Record, Report, Crash, Restart, Leave
    <2>3. QED BY <2>1, <2>2
  <1>2. CASE u = w
    <2>1. CASE DryRun(w) \/ Execute(w) \/ Refuse(w)
      <3>1. UNCHANGED at
        BY <2>1 DEF DryRun, Execute, Refuse
      <3>2. Kind[at[w]] \in Synced
        BY <1>2, <2>1 DEF TypeOK, DryRun, Execute, Refuse, Decide, Goto
      <3>3. QED BY <1>2, <3>1, <3>2
    <2>2. CASE UNCHANGED <<pc, at>>
      BY <1>2, <2>2
    <2>3. ASSUME NEW p \in Points \ {"record"}, pc' = [pc EXCEPT ![w] = p] PROVE FALSE
      BY <1>2, <2>3 DEF TypeOK
    <2>4. {"scan", "recover", "check", "mark", "work", "fallback", "report", "down"}
              \subseteq Points \ {"record"}
      BY DEF Points
    <2>5. CASE Scan(w) \/ Recover(w) \/ Fetch(w) \/ Check(w)
      BY <2>2, <2>3, <2>4, <2>5 DEF Scan, Recover, Fetch, Check, Goto
    <2>6. CASE Mark(w) \/ Record(w) \/ Report(w) \/ Crash(w) \/ Restart(w)
      BY <2>2, <2>3, <2>4, <2>6 DEF Mark, Record, Report, Crash, Restart, Leave, Decide, Goto
    <2>7. CASE Plan(w) \/ Diagnose(w)
      BY <2>3, <2>4, <2>7 DEF Plan, Diagnose, Decide, Goto
    <2>8. QED BY <2>1, <2>5, <2>6, <2>7 DEF Step
  <1>3. QED BY <1>1, <1>2

\* Workers keep it.
LEMMA WorkerReal ==
  ASSUME TypeOK, Real, Next, NEW w \in Workers, Step(w) \/ Crash(w) \/ Restart(w)
  PROVE  Real'
  <1>1. ASSUME NEW o \in Hires, executed[o] > 0 PROVE executed'[o] > 0
    BY <1>1, ExecutedGrows DEF Hires
  <1>2. QED BY <1>1, WritesReal, VerdictsReal, RecordsSynced, RealKept

\* Every step keeps verified hires real.
LEMMA StepReal == TypeOK /\ Real /\ [Next]_vars => Real'
  <1>1. ASSUME Real, UNCHANGED vars PROVE Real'
    BY <1>1 DEF vars, records, Real, Hires
  <1>2. QED BY <1>1, UserReal, WorkerReal DEF Next

\* Plans, dry runs, stale copies, hand-made plans and lost answers never make an
\* onboarding verified that was not carried out.
THEOREM VerifiedHiresAreReal == Spec => []VerifiedHireIsReal
  <1>1. Init => Real
    BY OperationConstantsOK DEF Init, Real, Hires
  <1>2. Real => VerifiedHireIsReal
    BY DEF Real, Hires, VerifiedHireIsReal
  <1>3. QED BY <1>1, <1>2, StepReal, OpsTypeCorrect, PTL DEF Spec
-------------------------------------------------------------------------------
(* A lone worker                                                           *)

\* One worker, and nobody plans on the command line.
Alone == CliPlans = {} /\ \A v, w \in Workers : v = w

\* Which states a worker's place allows: of the records it is going to recover, of the
\* record it holds, and what its verdict can be.
Placed(w) ==
  /\ scan[w] # {} => pc[w] = "recover"
  /\ \A o \in scan[w] : state[o] = "running"
  /\ pc[w] = "mark" => state[at[w]] \in {"draft", "awaiting_approval", "failed"}
  /\ pc[w] \in {"work", "record", "report"} => state[at[w]] = "running"
  /\ pc[w] = "fallback" => verdict[w] = "uncertain"
  /\ pc[w] = "record" => verdict[w] # "planned"
  /\ pc[w] \in {"mark", "work"} \/ verdict[w] = "planned" => executed[at[w]] = 0

\* A record was executed at most once, and not at all while it can still be executed.
AloneInv ==
  /\ \A w \in Workers : Placed(w)
  /\ \A o \in Ops : executed[o] <= 1
  /\ \A o \in Ops :
      state[o] \in {"draft", "planned", "awaiting_approval"} => executed[o] = 0

\* The lone worker has nothing in hand.
LEMMA AloneInit == Init => AloneInv
  BY OperationConstantsOK DEF Init, AloneInv, Placed

\* What an operator or the clock does to a record the worker's place allows for.
LEMMA AloneUser ==
  ASSUME Alone, TypeOK, AloneInv, NEW o \in Ops,
         Approve(o) \/ Reject(o) \/ CliPlan(o) \/ BecomeOverdue(o)
  PROVE  AloneInv'
  <1>1. UNCHANGED <<executed, pc, scan, at, verdict>> /\ ~CliPlan(o)
    BY DEF Alone, Approve, Reject, CliPlan, BecomeOverdue
  <1>2. \A p \in Ops : \/ state'[p] = state[p]
                       \/ state[p] = "planned" /\ state'[p] = "awaiting_approval"
                       \/ state[p] \in {"planned", "awaiting_approval"} /\ state'[p] = "failed"
    BY <1>1 DEF TypeOK, Approve, Reject, BecomeOverdue, Arrives
  <1>3. ASSUME NEW w \in Workers PROVE Placed(w)'
    <2>1. pc[w] \in {"mark", "work", "record", "report"} => at[w] \in Ops
      BY DEF TypeOK
    <2>2. scan[w] \subseteq Ops
      BY DEF TypeOK
    <2>3. Placed(w)
      BY DEF AloneInv
    <2>4. QED BY <1>1, <1>2, <2>1, <2>2, <2>3 DEF Placed
  <1>4. QED BY <1>1, <1>2, <1>3 DEF AloneInv

\* The searches, the recovery and the fetch.
LEMMA AloneRound ==
  ASSUME Alone, TypeOK, AloneInv, NEW w \in Workers,
         Scan(w) \/ Recover(w) \/ Fetch(w) \/ Crash(w) \/ Restart(w)
  PROVE  AloneInv'
  <1>1. \A v \in Workers : v = w
    BY DEF Alone
  <1>2. Placed(w) /\ scan[w] \subseteq Ops
    BY DEF AloneInv, TypeOK
  <1>3. CASE Scan(w)
    <2>1. /\ UNCHANGED <<state, executed, at, verdict>> /\ verdict[w] = "none"
          /\ pc'[w] = "recover" /\ \A o \in scan'[w] : state[o] = "running"
      BY <1>2, <1>3 DEF Scan, Goto, TypeOK, Placed, records
    <2>2. QED BY <1>1, <2>1 DEF AloneInv, Placed
  <1>4. CASE Recover(w)
    <2>1. /\ UNCHANGED <<executed, at, verdict, pc>> /\ verdict[w] = "none"
          /\ pc[w] = "recover"
      BY <1>4 DEF Recover, TypeOK
    <2>2. PICK o \in scan[w] : /\ scan' = [scan EXCEPT ![w] = scan[w] \ {o}]
                               /\ \/ state' = [state EXCEPT ![o] = "uncertain"]
                                  \/ UNCHANGED state
      BY <1>4 DEF Recover, Arrives
    <2>3. /\ \A p \in Ops : state'[p] = state[p] \/ (p = o /\ state'[p] = "uncertain")
          /\ scan'[w] = scan[w] \ {o}
      BY <2>2 DEF TypeOK
    <2>4. QED BY <1>1, <1>2, <2>1, <2>3 DEF AloneInv, Placed
  <1>5. CASE Fetch(w)
    <2>1. /\ UNCHANGED <<state, executed, at, verdict, scan>> /\ verdict[w] = "none"
          /\ scan[w] = {} /\ pc'[w] \in {"check", "scan"}
      BY <1>5 DEF Fetch, Goto, TypeOK, records
    <2>2. QED BY <1>1, <2>1 DEF AloneInv, Placed
  <1>6. CASE Crash(w) \/ Restart(w)
    <2>1. /\ UNCHANGED <<state, executed>> /\ pc'[w] \in {"down", "scan"}
          /\ scan'[w] = {} /\ verdict'[w] = "none"
      BY <1>2, <1>6 DEF Crash, Restart, Goto, TypeOK, Placed, records
    <2>2. QED BY <1>1, <2>1 DEF AloneInv, Placed
  <1>7. QED BY <1>3, <1>4, <1>5, <1>6

\* The second reading and the claim.
LEMMA AloneClaim ==
  ASSUME Alone, TypeOK, AloneInv, NEW w \in Workers, Check(w) \/ Mark(w)
  PROVE  AloneInv'
  <1>1. \A v \in Workers : v = w
    BY DEF Alone
  <1>2. Placed(w) /\ scan[w] = {} /\ UNCHANGED <<scan, executed>>
    BY DEF AloneInv, Placed, Check, Mark, records
  <1>3. CASE Check(w)
    <2>1. UNCHANGED <<state, verdict>> /\ verdict[w] = "none"
      BY <1>3 DEF Check, TypeOK, records
    <2>2. \/ pc'[w] \in {"check", "scan"}
          \/ /\ pc'[w] = "mark" /\ at'[w] \in Ops
             /\ state[at'[w]] \in {"draft", "awaiting_approval"}
      BY <1>3 DEF Check, Goto, TypeOK, Pending
    <2>3. QED BY <1>1, <1>2, <2>1, <2>2 DEF AloneInv, Placed
  <1>4. CASE Mark(w)
    <2>1. pc[w] = "mark" /\ at[w] \in Ops /\ verdict[w] = "none" /\ executed[at[w]] = 0
      BY <1>2, <1>4 DEF Mark, TypeOK, Placed
    <2>2. \/ state' = [state EXCEPT ![at[w]] = "running"]
          \/ UNCHANGED state
      BY <1>4 DEF Mark, Arrives
    <2>3. \A o \in Ops : state'[o] = state[o] \/ (o = at[w] /\ state'[o] = "running")
      BY <2>2 DEF TypeOK
    <2>4. verdict'[w] = "none"
      BY <1>4, <2>1 DEF Mark, Leave, TypeOK
    <2>5. \/ pc'[w] = "work" /\ at'[w] = at[w] /\ state'[at[w]] = "running"
          \/ pc'[w] = "check"
      BY <1>4, <2>1 DEF Mark, Leave, Goto, Arrives, TypeOK
    <2>6. QED BY <1>1, <1>2, <2>1, <2>3, <2>4, <2>5 DEF AloneInv, Placed
  <1>5. QED BY <1>3, <1>4

\* Planning, executing, refusing and diagnosing.
LEMMA AloneWork ==
  ASSUME Alone, TypeOK, AloneInv, NEW w \in Workers,
         Plan(w) \/ DryRun(w) \/ Diagnose(w) \/ Execute(w) \/ Refuse(w)
  PROVE  AloneInv'
  <1>1. \A v \in Workers : v = w
    BY DEF Alone
  <1>2. /\ Placed(w) /\ pc[w] = "work" /\ at[w] \in Ops
        /\ UNCHANGED <<state, scan, at>>
    BY DEF AloneInv, Plan, DryRun, Diagnose, Execute, Refuse, TypeOK, records
  <1>3. scan[w] = {} /\ state[at[w]] = "running" /\ executed[at[w]] = 0
    BY <1>2 DEF Placed
  <1>4. /\ pc'[w] \in {"record", "report"}
        /\ verdict'[w] \in {"planned", "verified", "failed"}
        /\ pc'[w] = "record" => verdict'[w] # "planned"
        /\ verdict'[w] = "planned" => UNCHANGED executed
    BY <1>2 DEF Plan, DryRun, Diagnose, Execute, Refuse, Decide, Goto, TypeOK, records
  <1>5. \A o \in Ops : executed'[o] = executed[o] \/ (o = at[w] /\ executed'[o] = 1)
    <2>1. CASE UNCHANGED executed
      BY <2>1
    <2>2. CASE Execute(w)
      <3>1. executed' = [executed EXCEPT ![at[w]] = IF executed[at[w]] = 0 THEN 1 ELSE 2]
        BY <2>2 DEF Execute
      <3>2. QED BY <1>3, <3>1 DEF TypeOK
    <2>3. QED BY <2>1, <2>2 DEF Plan, DryRun, Diagnose, Refuse, records
  <1>6. QED BY <1>1, <1>2, <1>3, <1>4, <1>5 DEF AloneInv, Placed

\* Both ways of writing a verdict.
LEMMA AloneVerdict ==
  ASSUME Alone, TypeOK, AloneInv, NEW w \in Workers, Record(w) \/ Report(w)
  PROVE  AloneInv'
  <1>1. \A v \in Workers : v = w
    BY DEF Alone
  <1>2. /\ Placed(w) /\ at[w] \in Ops /\ UNCHANGED <<scan, executed>>
        /\ scan[w] = {}
    BY DEF AloneInv, Placed, Record, Report, TypeOK
  <1>3. verdict[w] \in {"planned", "verified", "failed", "uncertain"}
    BY DEF Record, Report, TypeOK
  <1>4. CASE Record(w)
    <2>1. verdict[w] # "planned"
      BY <1>2, <1>4 DEF Record, Placed
    <2>2. \A o \in Ops : state'[o] = state[o] \/ state'[o] = verdict[w]
      BY <1>4 DEF Record, Arrives, TypeOK
    <2>3. \/ pc'[w] = "check" /\ verdict'[w] = "none"
          \/ pc'[w] = "fallback" /\ verdict'[w] = "uncertain"
      BY <1>4 DEF Record, Leave, Decide, Goto, TypeOK
    <2>4. QED BY <1>1, <1>2, <1>3, <2>1, <2>2, <2>3 DEF AloneInv, Placed
  <1>5. CASE Report(w)
    <2>1. \A o \in Ops : state'[o] = state[o] \/ (o = at[w] /\ state'[o] = verdict[w])
      BY <1>5 DEF Report, Arrives, TypeOK
    <2>2. pc'[w] = "check" /\ verdict'[w] = "none"
      BY <1>5 DEF Report, Leave, Goto, TypeOK
    <2>3. verdict[w] = "planned" => executed[at[w]] = 0
      BY <1>2 DEF Placed
    <2>4. QED BY <1>1, <1>2, <1>3, <2>1, <2>2, <2>3 DEF AloneInv, Placed
  <1>6. QED BY <1>4, <1>5

\* A step of the lone worker, or of a person, keeps what is in hand.
LEMMA AloneInductive ==
  ASSUME Alone
  PROVE  TypeOK /\ AloneInv /\ [Next]_vars => AloneInv'
  <1>1. ASSUME AloneInv, UNCHANGED vars PROVE AloneInv'
    BY <1>1 DEF AloneInv, Placed, vars, records
  <1>2. QED BY <1>1, AloneUser, AloneRound, AloneClaim, AloneWork, AloneVerdict DEF Next, Step

\* A lone worker executes no operation twice, wherever it dies and whatever gets lost.
THEOREM LoneExecutesOnce ==
  ASSUME Alone
  PROVE  Spec => []ExecutedOnce
  <1>1. AloneInv => ExecutedOnce
    BY DEF AloneInv, ExecutedOnce
  <1>2. QED BY <1>1, AloneInit, AloneInductive, OpsTypeCorrect, PTL DEF Spec

\* And where sync_to_odoo finds the record the operation came from, or creates another,
\* it takes back no verdict.
THEOREM LoneVerdictIsFinal ==
  ASSUME Alone, \A o \in Ops : RecordOf[o] \in {o, NoOp}
  PROVE  Spec => VerdictIsFinal
  <1> DEFINE Final == \A o \in Ops : state[o] \in {"verified", "uncertain"} =>
           \/ state'[o] = state[o]
           \/ state'[o] = "uncertain" /\ \E w \in Workers : at[w] = o /\ pc[w] = "fallback"
  <1>1. TypeOK /\ AloneInv /\ [Next]_vars => [Final]_vars
    <2> SUFFICES ASSUME TypeOK, AloneInv, Next PROVE Final
      OBVIOUS
    <2>1. CASE UNCHANGED state
      BY <2>1
    <2>2. ASSUME NEW o \in Ops, Approve(o) \/ Reject(o) PROVE Final
      <3>1. /\ state[o] \in {"planned", "awaiting_approval"}
            /\ \E s \in States : state' = [state EXCEPT ![o] = s]
        BY <2>2 DEF Approve, Reject, Arrives, States
      <3>2. QED BY <3>1 DEF TypeOK
    <2>3. ASSUME NEW o \in Ops, CliPlan(o) PROVE Final
      BY <2>3 DEF CliPlan, Alone
    <2>4. ASSUME NEW w \in Workers, Recover(w) PROVE Final
      <3>1. PICK o \in scan[w] : state' = [state EXCEPT ![o] = "uncertain"] \/ UNCHANGED state
        BY <2>4 DEF Recover, Arrives
      <3>2. state[o] = "running"
        BY DEF AloneInv, Placed
      <3>3. QED BY <3>1, <3>2 DEF TypeOK
    <2>5. ASSUME NEW w \in Workers, Mark(w) PROVE Final
      <3>1. state' = [state EXCEPT ![at[w]] = "running"] \/ UNCHANGED state
        BY <2>5 DEF Mark, Arrives
      <3>2. state[at[w]] \in {"draft", "awaiting_approval", "failed"}
        BY <2>5 DEF Mark, AloneInv, Placed
      <3>3. QED BY <3>1, <3>2 DEF TypeOK
    <2>6. ASSUME NEW w \in Workers, Record(w) PROVE Final
      <3>1. state[at[w]] = "running" /\ at[w] \in Ops
        BY <2>6 DEF Record, AloneInv, Placed, TypeOK
      <3>2. RecordOf[at[w]] \in {at[w], NoOp}
        BY <3>1
      <3>3. state' = [state EXCEPT ![at[w]] = verdict[w]] \/ UNCHANGED state
        BY <2>6, <3>2, OperationConstantsOK DEF Record, Arrives
      <3>4. QED BY <3>1, <3>3 DEF TypeOK
    <2>7. ASSUME NEW w \in Workers, Report(w) PROVE Final
      <3>1. \A o \in Ops : state'[o] = state[o] \/ (o = at[w] /\ state'[o] = verdict[w])
        BY <2>7 DEF Report, Arrives, TypeOK
      <3>2. \/ state[at[w]] = "running"
            \/ pc[w] = "fallback" /\ verdict[w] = "uncertain"
        BY <2>7 DEF Report, AloneInv, Placed
      <3>3. QED BY <3>1, <3>2
    <2>8. QED
      BY <2>1, <2>2, <2>3, <2>4, <2>5, <2>6, <2>7
      DEF Next, Step, BecomeOverdue, Scan, Fetch, Check, Plan, DryRun, Diagnose, Execute,
          Refuse, Crash, Restart, records
  <1>2. QED BY <1>1, AloneInit, AloneInductive, OpsTypeCorrect, PTL DEF Spec, VerdictIsFinal
=================================================================================
