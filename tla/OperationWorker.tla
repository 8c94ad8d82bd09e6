----------------------------- MODULE OperationWorker -----------------------------
(***************************************************************************)
(* Microsoft 365 operations: an operator drafts an operation in Odoo, a    *)
(* worker plans it, the operator approves or rejects the plan, a worker    *)
(* executes it against Microsoft Graph and writes the verdict back.        *)
(*                                                                         *)
(* What Graph does with a mutation, and what its read-back says, is a      *)
(* choice here; every call to Odoo is a step of its own.                   *)
(***************************************************************************)
EXTENDS Naturals

CONSTANTS
    Ops,         \* operation records of Odoo
    Workers,     \* OperationWorker processes
    NoOp,        \* no record
    Kind,        \* Kind[o]: x_operation_type
    RecordOf,    \* RecordOf[o]: the record sync_to_odoo finds for o's user and type,
                 \* NoOp when it finds none and creates one of its own
    Submitted,   \* records that may be created as awaiting approval, without a dry run
    CliPlans,    \* onboardings that somebody also plans with cli --plan-onboarding
    StoresPlan,  \* does sync_to_odoo store the plan (x_m365_operation), or not (addon)?
    SlowRuns,    \* may an execution outlive M365_OPERATION_STALE_RUNNING_SECONDS?
    Faults,      \* what may go wrong, a subset of FaultKinds
    MaxMishaps   \* bound: how often something goes wrong

Kinds == {"onboarding", "remediation", "offboarding", "user_360", "unknown"}

\* "read": a search fails.  "lost": a write never arrives.  "answer": a write is
\* carried out and its answer is lost.  "crash": the process dies.
FaultKinds == {"read", "lost", "answer", "crash"}

ASSUME OperationConstantsOK ==
    /\ NoOp \notin Ops
    /\ Kind \in [Ops -> Kinds]
    /\ RecordOf \in [Ops -> Ops \cup {NoOp}]
    /\ \A o \in Ops : RecordOf[o] \in Ops => Kind[RecordOf[o]] = Kind[o]
    /\ Submitted \subseteq Ops
    /\ CliPlans \subseteq {o \in Ops : Kind[o] = "onboarding"}
    /\ {StoresPlan, SlowRuns} \subseteq BOOLEAN
    /\ Faults \subseteq FaultKinds
    /\ MaxMishaps \in Nat

VARIABLES
    state,     \* state[o]: x_state
    overdue,   \* overdue[o]: x_started_at is older than the limit
    plan,      \* plan[o]: x_planned_mutations holds an onboarding plan
    consent,   \* history: "none", "given" by Approve (or by whoever submitted o), or
               \* "withdrawn" by Reject after it
    executed,  \* history: executions of o against Graph (0, 1, 2 = more)
    pc,        \* pc[w]: where worker w is
    scan,      \* scan[w]: stale records still to be marked uncertain
    todo,      \* todo[w]: fetched records still to be processed
    planned,   \* planned[w]: those whose fetched copy holds a plan
    at,        \* at[w]: the record being processed
    live,      \* live[w]: it was awaiting approval when it was checked (not is_dry_run)
    verdict,   \* verdict[w]: the state to be written
    mishaps    \* mishaps so far

records == <<state, overdue, plan, consent, executed>>
vars == <<records, pc, scan, todo, planned, at, live, verdict, mishaps>>

States == {"draft", "planned", "awaiting_approval", "running", "verified", "failed",
           "needs_human", "uncertain"}

\* Mutant: planned records are polled as well.
PendingPlanned == {"draft", "planned", "awaiting_approval"}

\* What fetch_pending_operations searches and process_operation searches again.
Pending == {"draft", "awaiting_approval"}

Points  == {"scan", "recover", "check", "mark", "work", "record", "fallback", "report",
            "down"}

\* Kinds that change Microsoft 365, and those whose verdict sync_to_odoo writes.
Mutating == {"onboarding", "remediation", "offboarding"}
Synced   == {"remediation", "offboarding"}
-------------------------------------------------------------------------------
Init ==
    /\ state \in [Ops -> {"draft", "awaiting_approval"}]
    /\ \A o \in Ops : state[o] = "awaiting_approval" => o \in Submitted
    /\ overdue = [o \in Ops |-> FALSE]
    /\ plan = [o \in Ops |-> FALSE]
    /\ consent = [o \in Ops |-> IF state[o] = "draft" THEN "none" ELSE "given"]
    /\ executed = [o \in Ops |-> 0]
    /\ pc = [w \in Workers |-> "scan"]
    /\ scan = [w \in Workers |-> {}]
    /\ todo = [w \in Workers |-> {}]
    /\ planned = [w \in Workers |-> {}]
    /\ at = [w \in Workers |-> NoOp]
    /\ live = [w \in Workers |-> FALSE]
    /\ verdict = [w \in Workers |-> "none"]
    /\ mishaps = 0

Mishap(kind) ==
    /\ kind \in Faults
    /\ mishaps < MaxMishaps
    /\ mishaps' = mishaps + 1

NoMishap == UNCHANGED mishaps

Goto(w, p) == pc' = [pc EXCEPT ![w] = p]

\* A write of the state field of o, by id, is carried out.
Arrives(o, s) == state' = [state EXCEPT ![o] = s]

\* process_operation returns; the loop goes on with the next fetched record.
Leave(w) ==
    /\ Goto(w, "check")
    /\ at' = [at EXCEPT ![w] = NoOp]
    /\ live' = [live EXCEPT ![w] = FALSE]
    /\ verdict' = [verdict EXCEPT ![w] = "none"]

Decide(w, v, p) ==
    /\ verdict' = [verdict EXCEPT ![w] = v]
    /\ Goto(w, p)
-------------------------------------------------------------------------------
(* Operators, the command line and the clock.                              *)

\* action_approve
Approve(o) ==
    /\ state[o] = "planned"
    /\ Arrives(o, "awaiting_approval")
    /\ consent' = [consent EXCEPT ![o] = "given"]
    /\ UNCHANGED <<overdue, plan, executed, pc, scan, todo, planned, at, live, verdict, mishaps>>

\* action_reject
Reject(o) ==
    /\ state[o] \in {"planned", "awaiting_approval"}
    /\ Arrives(o, "failed")
    /\ consent' = [consent EXCEPT ![o] = IF consent[o] = "given" THEN "withdrawn" ELSE @]
    /\ UNCHANGED <<overdue, plan, executed, pc, scan, todo, planned, at, live, verdict, mishaps>>

\* cli --plan-onboarding: plan_result has stage "planned", for which sync_to_odoo
\* writes "awaiting_approval" into the record of that user, whatever its state.
CliPlan(o) ==
    /\ o \in CliPlans
    /\ RecordOf[o] \in Ops
    /\ Arrives(RecordOf[o], "awaiting_approval")
    /\ plan' = [plan EXCEPT ![RecordOf[o]] = @ \/ StoresPlan]
    /\ UNCHANGED <<overdue, consent, executed, pc, scan, todo, planned, at, live, verdict,
                   mishaps>>

\* The clock: a running operation's start becomes older than the limit.
BecomeOverdue(o) ==
    /\ state[o] = "running"
    /\ ~overdue[o]
    /\ SlowRuns \/ \A w \in Workers : at[w] # o
    /\ overdue' = [overdue EXCEPT ![o] = TRUE]
    /\ UNCHANGED <<state, plan, consent, executed, pc, scan, todo, planned, at, live, verdict,
                   mishaps>>
-------------------------------------------------------------------------------
(* recover_stale_running_operations and fetch_pending_operations           *)

\* Mutant: the search goes by the start time alone.
ScanOld(w) ==
    /\ pc[w] = "scan"
    /\ Goto(w, "recover")
    /\ scan' = [scan EXCEPT ![w] = {o \in Ops : overdue[o]}]
    /\ UNCHANGED <<records, todo, planned, at, live, verdict, mishaps>>

\* Mutant: the search looks for starts after the cutoff.
ScanRecent(w) ==
    /\ pc[w] = "scan"
    /\ Goto(w, "recover")
    /\ scan' = [scan EXCEPT ![w] = {o \in Ops : state[o] = "running" /\ ~overdue[o]}]
    /\ UNCHANGED <<records, todo, planned, at, live, verdict, mishaps>>

\* Search the stale records; any exception leaves none.
Scan(w) ==
    /\ pc[w] = "scan"
    /\ Goto(w, "recover")
    /\ \/ /\ scan' = [scan EXCEPT ![w] = {o \in Ops : state[o] = "running" /\ overdue[o]}]
          /\ NoMishap
       \/ Mishap("read") /\ UNCHANGED scan
    /\ UNCHANGED <<records, todo, planned, at, live, verdict>>

\* Mutant: what a crash left running goes back to the queue.
RequeueStale(w) ==
    /\ pc[w] = "recover"
    /\ \E o \in scan[w] :
        /\ scan' = [scan EXCEPT ![w] = @ \ {o}]
        /\ Arrives(o, "awaiting_approval")
    /\ UNCHANGED <<overdue, plan, consent, executed, pc, todo, planned, at, live, verdict, mishaps>>

\* Write "uncertain" by id; _safe_write swallows what goes wrong.
Recover(w) ==
    /\ pc[w] = "recover"
    /\ \E o \in scan[w] :
        /\ scan' = [scan EXCEPT ![w] = @ \ {o}]
        /\ \/ Arrives(o, "uncertain") /\ NoMishap
           \/ Mishap("lost") /\ UNCHANGED state
    /\ UNCHANGED <<overdue, plan, consent, executed, pc, todo, planned, at, live, verdict>>

\* Mutant: only new records are fetched.
FetchDrafts(w) ==
    /\ pc[w] = "recover"
    /\ scan[w] = {}
    /\ todo' = [todo EXCEPT ![w] = {o \in Ops : state[o] = "draft"}]
    /\ planned' = [planned EXCEPT ![w] = {}]
    /\ Goto(w, "check")
    /\ UNCHANGED <<records, scan, at, live, verdict, mishaps>>

\* Read the pending records with their plans; an exception ends the round.
Fetch(w) ==
    /\ pc[w] = "recover"
    /\ scan[w] = {}
    /\ \/ /\ todo' = [todo EXCEPT ![w] = {o \in Ops : state[o] \in Pending}]
          /\ planned' = [planned EXCEPT ![w] = {o \in Ops : state[o] \in Pending /\ plan[o]}]
          /\ Goto(w, "check")
          /\ NoMishap
       \/ /\ Mishap("read")
          /\ Goto(w, "scan")
          /\ UNCHANGED <<todo, planned>>
    /\ UNCHANGED <<records, scan, at, live, verdict>>
-------------------------------------------------------------------------------
(* process_operation                                                       *)

\* Read the state again: skip a record that is no longer pending.  An exception is
\* not caught before the daemon's loop, which forgets the rest of the round.
Check(w) ==
    /\ pc[w] = "check"
    /\ \/ \E o \in todo[w] :
           /\ todo' = [todo EXCEPT ![w] = @ \ {o}]
           /\ NoMishap
           /\ \/ /\ state[o] \in Pending
                 /\ at' = [at EXCEPT ![w] = o]
                 /\ live' = [live EXCEPT ![w] = (state[o] # "draft")]
                 /\ Goto(w, "mark")
              \/ /\ state[o] \notin Pending
                 /\ UNCHANGED <<pc, at, live>>
           /\ UNCHANGED planned
       \/ /\ \/ todo[w] = {} /\ NoMishap
             \/ todo[w] # {} /\ Mishap("read")
          /\ todo' = [todo EXCEPT ![w] = {}]
          /\ planned' = [planned EXCEPT ![w] = {}]
          /\ Goto(w, "scan")
          /\ UNCHANGED <<at, live>>
    /\ UNCHANGED <<records, scan, verdict>>

\* Write "running" by id, whatever the record says by now.  Without an answer the
\* operation is given up.
Mark(w) ==
    LET o == at[w] IN
    /\ pc[w] = "mark"
    /\ \/ /\ Arrives(o, "running")
          /\ overdue' = [overdue EXCEPT ![o] = FALSE]
          /\ \/ NoMishap /\ Goto(w, "work") /\ UNCHANGED <<at, live, verdict>>
             \/ Mishap("answer") /\ Leave(w)
       \/ /\ Mishap("lost")
          /\ Leave(w)
          /\ UNCHANGED <<state, overdue>>
    /\ UNCHANGED <<plan, consent, executed, scan, todo, planned>>

\* Mutant: the dry run is reported the way the other services report theirs.
PlanVerified(w) ==
    /\ pc[w] = "work"
    /\ Kind[at[w]] = "onboarding"
    /\ ~live[w]
    /\ Decide(w, "verified", "report")
    /\ UNCHANGED <<records, scan, todo, planned, at, live, mishaps>>

\* The dry run of an onboarding makes a plan.
Plan(w) ==
    /\ pc[w] = "work"
    /\ Kind[at[w]] = "onboarding"
    /\ ~live[w]
    /\ Decide(w, "planned", "report")
    /\ UNCHANGED <<records, scan, todo, planned, at, live, mishaps>>

\* The dry run of the others passes its verification: nothing was to be done.
DryRun(w) ==
    /\ pc[w] = "work"
    /\ Kind[at[w]] \in Synced
    /\ ~live[w]
    /\ Decide(w, "verified", "record")
    /\ UNCHANGED <<records, scan, todo, planned, at, live, mishaps>>

\* User 360 only reads.
Diagnose(w) ==
    /\ pc[w] = "work"
    /\ Kind[at[w]] = "user_360"
    /\ Decide(w, "verified", "report")
    /\ UNCHANGED <<records, scan, todo, planned, at, live, mishaps>>

\* The approved mutations are sent and read back.  Onboarding writes its own record,
\* the other services leave that to sync_to_odoo.
Execute(w) ==
    LET o == at[w] IN
    /\ pc[w] = "work"
    /\ Kind[o] \in Mutating
    /\ live[w]
    /\ Kind[o] = "onboarding" => o \in planned[w]
    /\ executed' = [executed EXCEPT ![o] = IF @ = 0 THEN 1 ELSE 2]
    /\ \E v \in {"verified", "failed"} :
           Decide(w, v, IF Kind[o] \in Synced THEN "record" ELSE "report")
    /\ UNCHANGED <<state, overdue, plan, consent, scan, todo, planned, at, live, mishaps>>

\* No plan, an unreadable plan, a target outside the LAB boundary, an unknown user or
\* type, an exception on the way: nothing is mutated and the operation has failed.
Refuse(w) ==
    /\ pc[w] = "work"
    /\ \/ Decide(w, "failed", "report")
       \/ Kind[at[w]] \in Synced /\ Decide(w, "failed", "record")
    /\ UNCHANGED <<records, scan, todo, planned, at, live, mishaps>>

\* sync_to_odoo writes the verdict into the record it finds, or into a new one.
Record(w) ==
    LET r == RecordOf[at[w]] IN
    /\ pc[w] = "record"
    /\ \/ /\ IF r \in Ops THEN Arrives(r, verdict[w]) ELSE UNCHANGED state
          /\ \/ NoMishap /\ Leave(w)
             \/ Mishap("answer") /\ Decide(w, "uncertain", "fallback") /\ UNCHANGED <<at, live>>
       \/ /\ Mishap("lost")
          /\ Decide(w, "uncertain", "fallback")
          /\ UNCHANGED <<state, at, live>>
    /\ UNCHANGED <<overdue, plan, consent, executed, scan, todo, planned>>

\* The worker's own write of the verdict, or of "uncertain" after a failed sync.
\* _safe_write swallows what goes wrong.
Report(w) ==
    LET o == at[w] IN
    /\ pc[w] \in {"report", "fallback"}
    /\ Leave(w)
    /\ \/ /\ Arrives(o, verdict[w])
          /\ plan' = [plan EXCEPT ![o] = @ \/ verdict[w] = "planned"]
          /\ NoMishap
       \/ Mishap("lost") /\ UNCHANGED <<state, plan>>
    /\ UNCHANGED <<overdue, consent, executed, scan, todo, planned>>
-------------------------------------------------------------------------------
Crash(w) ==
    /\ pc[w] # "down"
    /\ Mishap("crash")
    /\ Goto(w, "down")
    /\ scan' = [scan EXCEPT ![w] = {}]
    /\ todo' = [todo EXCEPT ![w] = {}]
    /\ at' = [at EXCEPT ![w] = NoOp]
    /\ live' = [live EXCEPT ![w] = FALSE]
    /\ verdict' = [verdict EXCEPT ![w] = "none"]
    /\ planned' = [planned EXCEPT ![w] = {}]
    /\ UNCHANGED records

Restart(w) ==
    /\ pc[w] = "down"
    /\ Goto(w, "scan")
    /\ UNCHANGED <<records, scan, todo, planned, at, live, verdict, mishaps>>

Step(w) ==
    \/ Scan(w) \/ Recover(w) \/ Fetch(w) \/ Check(w) \/ Mark(w)
    \/ Plan(w) \/ DryRun(w) \/ Diagnose(w) \/ Execute(w) \/ Refuse(w)
    \/ Record(w) \/ Report(w)

Next ==
    \/ \E o \in Ops : Approve(o) \/ Reject(o) \/ CliPlan(o) \/ BecomeOverdue(o)
    \/ \E w \in Workers : Step(w) \/ Crash(w) \/ Restart(w)

Spec == Init /\ [][Next]_vars

\* The daemon loops for ever and time passes.  Nothing restarts a dead worker, and
\* no operator has to approve anything.
Fairness ==
    /\ \A w \in Workers : WF_vars(Step(w))
    /\ \A o \in Ops : WF_vars(BecomeOverdue(o))

FairSpec == Spec /\ Fairness
-------------------------------------------------------------------------------
\* Every variable has its type; a worker holds a record and a verdict where its place
\* in process_operation says so.
TypeOK ==
    /\ state \in [Ops -> States]
    /\ overdue \in [Ops -> BOOLEAN]
    /\ plan \in [Ops -> BOOLEAN]
    /\ consent \in [Ops -> {"none", "given", "withdrawn"}]
    /\ executed \in [Ops -> 0..2]
    /\ pc \in [Workers -> Points]
    /\ scan \in [Workers -> SUBSET Ops]
    /\ todo \in [Workers -> SUBSET Ops]
    /\ planned \in [Workers -> SUBSET Ops]
    /\ at \in [Workers -> Ops \cup {NoOp}]
    /\ live \in [Workers -> BOOLEAN]
    /\ verdict \in [Workers -> {"none", "planned", "verified", "failed", "uncertain"}]
    /\ mishaps \in Nat
    /\ \A w \in Workers :
        /\ pc[w] \in {"mark", "work", "record", "fallback", "report"} <=> at[w] # NoOp
        /\ pc[w] \in {"record", "fallback", "report"} <=> verdict[w] # "none"

\* Operations whose record a plan made on the command line may overwrite.
HandPlanned == {RecordOf[o] : o \in CliPlans}

\* "an explicit Odoo approval gate": whatever stale copy a worker reads and whichever
\* worker it is, nothing is executed that no operator has approved.  Records that a
\* command-line plan overwrites are the exception: store_plan makes them executable unasked.
OnlyApprovedIsExecuted ==
    \A o \in Ops \ HandPlanned : executed[o] > 0 => consent[o] # "none"

\* "A restarted worker must not blindly repeat mutations after a process crash": one
\* worker, however often it dies or loses an answer, executes nothing twice.
ExecutedOnce == \A o \in Ops : executed[o] <= 1

\* A verified onboarding was carried out: a plan, a dry run or a stale copy never
\* makes one verified.
VerifiedHireIsReal ==
    \A o \in Ops : Kind[o] = "onboarding" /\ state[o] = "verified" => executed[o] > 0

\* The same for everything that changes Microsoft 365.
VerifiedIsReal ==
    \A o \in Ops : Kind[o] \in Mutating /\ state[o] = "verified" => executed[o] > 0

\* What was verified stays verified, and what recovery calls uncertain waits for an
\* operator: no later round touches it.  Only the worker that holds the record may
\* still doubt a verdict whose sync gave no answer.
VerdictIsFinal ==
    [][\A o \in Ops : state[o] \in {"verified", "uncertain"} =>
           \/ state'[o] = state[o]
           \/ state'[o] = "uncertain" /\ \E w \in Workers : at[w] = o /\ pc[w] = "fallback"]_vars

\* An approved operation is carried out, refused or flagged for inspection, as long as
\* somebody runs the worker.
ApprovalsAreAnswered ==
    \A o \in Ops :
        state[o] = "awaiting_approval" ~>
            \/ state[o] \in {"verified", "failed", "uncertain"}
            \/ \A w \in Workers : pc[w] = "down"

\* Recovery: as long as somebody runs the worker, nothing stays in "running".
RunningEnds ==
    \A o \in Ops :
        state[o] = "running" ~> state[o] # "running" \/ \A w \in Workers : pc[w] = "down"
===============================================================================
