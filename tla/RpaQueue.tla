-------------------------------- MODULE RpaQueue --------------------------------
(***************************************************************************)
(* The RPA job queue: operators put jobs in Odoo, several RpaWorker        *)
(* processes poll it, recover stale jobs, claim one, run the browser       *)
(* workflow, note the outcome in a ledger file and write it back.          *)
(*                                                                         *)
(* Every remote call of a worker is a step of its own, because another     *)
(* process may act between any two of them.  A call can be lost on its way *)
(* to the server, or be carried out and lose its answer.                   *)
(***************************************************************************)
EXTENDS Naturals

CONSTANTS
    Jobs,                \* record ids (numbers: the queue is read newest first)
    Workers,             \* RpaWorker processes
    Hosts,               \* places where a ledger file lives
    HostOf,              \* HostOf[w]: whose ledger file worker w uses
    Backend,             \* "addon": model cs.rpa.job, "studio": model x_rpa_job
    Invalid,             \* jobs whose payload validate_job_payload refuses
    NoJob,               \* the record id held by a worker that holds none
    WriteTries,          \* write_result's max_retries
    CrashPoints,         \* program points at which a worker may be killed
    SlowRuns,            \* may a run outlive stale_running_timeout_seconds?
    UnconfirmedEffects,  \* may the workflow raise after its effect took place?
    LedgerFaults,        \* may the ledger file be impossible to write?
    MaxAttempts,         \* bound: no retry of a job with this attempt count
    MaxMishaps           \* bound: lost messages, file faults and crashes

ASSUME ConstantsOK ==
    /\ Jobs \subseteq Nat
    /\ NoJob \notin Jobs
    /\ HostOf \in [Workers -> Hosts]
    /\ Backend \in {"addon", "studio"}
    /\ Invalid \subseteq Jobs
    /\ WriteTries \in Nat \ {0}
    /\ {SlowRuns, UnconfirmedEffects, LedgerFaults} \subseteq BOOLEAN
    /\ MaxAttempts \in Nat
    /\ MaxMishaps \in Nat

VARIABLES
    job,       \* job[j]: the record in Odoo
    claimers,  \* history: workers whose claim of j was accepted since it was queued
    effects,   \* history: times the workflow of j took effect outside (0, 1, 2 = more)
    ledger,    \* ledger[h]: jobs with an outcome in h's ledger file, {} if unreadable
    pc,        \* pc[w]: where worker w is in its loop
    loc,       \* loc[w]: its local variables
    mishaps    \* mishaps so far

vars == <<job, claimers, effects, ledger, pc, loc, mishaps>>
-------------------------------------------------------------------------------
Lifecycle == INSTANCE RpaLifecycle WITH
    status <- [j \in Jobs |-> job[j].state], owners <- claimers

States   == Lifecycle!States
Outcomes == {"success", "failed", "needs_human"}

Points == {"poll", "recover", "recoverWrite", "claim", "claimCheck", "claimWrite",
           "claimRead", "process", "browser", "confirm", "ledgerOpen", "ledgerDump",
           "writeResult", "down"}

\* The fields of the record that steer the code.  "overdue" is elapsed > timeout,
\* "done" is last_successful_step in ("completed", "reconciled_prior_outcome"); the
\* shipped workflows return no order_id, so external_reference is never evidence.
JobRecord == [state : States, overdue : BOOLEAN, attempt : Nat, done : BOOLEAN]

\* scan: stale records still to recover.  job: the record at hand.  attempt: its
\* count when it was fetched.  done: the claimed copy's evidence of completion.
\* seen: ledger as loaded.  result: outcome to write.  tries: attempts left for it.
Locals == [scan : SUBSET Jobs, job : Jobs \cup {NoJob}, attempt : Nat, done : BOOLEAN,
           seen : SUBSET Jobs, result : Outcomes \cup {"none"}, tries : 0..WriteTries]

Rest == [scan |-> {}, job |-> NoJob, attempt |-> 0, done |-> FALSE,
         seen |-> {}, result |-> "none", tries |-> 0]

Queued == {j \in Jobs : job[j].state = "queued"}

\* Between a won claim and the end of write_result a worker works on its job.
Working(w, j) ==
    /\ loc[w].job = j
    /\ pc[w] \in {"claimRead", "process", "browser", "confirm", "ledgerOpen",
                  "ledgerDump", "writeResult"}
-------------------------------------------------------------------------------
Init ==
    /\ job \in [Jobs -> {[state |-> s, overdue |-> FALSE, attempt |-> 0, done |-> FALSE] :
                            s \in {"draft", "queued"}}]
    /\ claimers = [j \in Jobs |-> {}]
    /\ effects = [j \in Jobs |-> 0]
    /\ ledger = [h \in Hosts |-> {}]
    /\ pc = [w \in Workers |-> "poll"]
    /\ loc = [w \in Workers |-> Rest]
    /\ mishaps = 0

Mishap   == mishaps < MaxMishaps /\ mishaps' = mishaps + 1
NoMishap == UNCHANGED mishaps

Goto(w, p) == pc' = [pc EXCEPT ![w] = p]

\* The loop body returns: back to polling with nothing in hand.
Release(w) ==
    /\ Goto(w, "poll")
    /\ loc' = [loc EXCEPT ![w] = Rest]

\* Mutant: write() without the transition table.
AcceptsAnything(j, s) == TRUE

\* Does the server carry out a write of the state field?  The addon checks it
\* against the table inside the transaction, x_rpa_job has no server code.
Accepts(j, s) ==
    Backend = "studio" \/ s \in Lifecycle!AllowedTransitions[job[j].state]

\* The claim's write, with the attempt count n it carries.
SetRunning(w, j, n) ==
    /\ job' = [job EXCEPT ![j] = [@ EXCEPT !.state = "running", !.overdue = FALSE,
                                           !.attempt = n]]
    /\ claimers' = [claimers EXCEPT ![j] = @ \cup {w}]
-------------------------------------------------------------------------------
(* Operators, in the Odoo user interface.                                  *)

Queue(j) ==
    /\ job[j].state = "draft"
    /\ job' = [job EXCEPT ![j].state = "queued"]
    /\ UNCHANGED <<claimers, effects, ledger, pc, loc, mishaps>>

\* Mutant: Retry also takes a job that looks stuck in running.
RetryStuck(j) ==
    /\ job[j].state \in {"failed", "needs_human", "running"}
    /\ job[j].attempt < MaxAttempts
    /\ job' = [job EXCEPT ![j] = [@ EXCEPT !.state = "queued",
                                           !.attempt = job[j].attempt + 1]]
    /\ claimers' = [claimers EXCEPT ![j] = {}]
    /\ UNCHANGED <<effects, ledger, pc, loc, mishaps>>

Retry(j) ==
    /\ job[j].state \in {"failed", "needs_human"}
    /\ job[j].attempt < MaxAttempts
    /\ job' = [job EXCEPT ![j] = [@ EXCEPT !.state = "queued",
                                           !.attempt = job[j].attempt + 1]]
    /\ claimers' = [claimers EXCEPT ![j] = {}]
    /\ UNCHANGED <<effects, ledger, pc, loc, mishaps>>

\* The clock: a running job's started_at becomes older than the timeout.
BecomeOverdue(j) ==
    /\ job[j].state = "running"
    /\ ~job[j].overdue
    /\ SlowRuns \/ \A w \in Workers : ~Working(w, j)
    /\ job' = [job EXCEPT ![j].overdue = TRUE]
    /\ UNCHANGED <<claimers, effects, ledger, pc, loc, mishaps>>
-------------------------------------------------------------------------------
(* recover_stale_running_jobs                                              *)

\* Mutant: every running job is taken for a stale one.
ScanAllRunning(w) ==
    /\ pc[w] = "poll"
    /\ Goto(w, "recover")
    /\ loc' = [loc EXCEPT ![w].scan = {j \in Jobs : job[j].state = "running"}]
    /\ UNCHANGED <<job, claimers, effects, ledger, mishaps>>

\* Mutant: the comparison with the timeout is turned round.
ScanYoung(w) ==
    /\ pc[w] = "poll"
    /\ Goto(w, "recover")
    /\ loc' = [loc EXCEPT ![w].scan =
                  {j \in Jobs : job[j].state = "running" /\ ~job[j].overdue}]
    /\ UNCHANGED <<job, claimers, effects, ledger, mishaps>>

\* Search the running records and keep the stale ones; OdooError leaves none.
Scan(w) ==
    /\ pc[w] = "poll"
    /\ Goto(w, "recover")
    /\ \/ /\ loc' = [loc EXCEPT ![w].scan =
                        {j \in Jobs : job[j].state = "running" /\ job[j].overdue}]
          /\ NoMishap
       \/ Mishap /\ UNCHANGED loc
    /\ UNCHANGED <<job, claimers, effects, ledger>>

\* recover_stale_job_atomic reads the state again ...
RecoverCheck(w) ==
    /\ pc[w] = "recover"
    /\ \E j \in loc[w].scan :
        \/ /\ job[j].state = "running"
           /\ Goto(w, "recoverWrite")
           /\ loc' = [loc EXCEPT ![w].job = j]
           /\ NoMishap
        \/ /\ loc' = [loc EXCEPT ![w].scan = @ \ {j}]
           /\ \/ job[j].state # "running" /\ NoMishap
              \/ Mishap
           /\ UNCHANGED pc
    /\ UNCHANGED <<job, claimers, effects, ledger>>

\* ... and then writes.  A refused or lost write is logged and the scan goes on.
RecoverWrite(w) ==
    LET j == loc[w].job IN
    /\ pc[w] = "recoverWrite"
    /\ Goto(w, "recover")
    /\ loc' = [loc EXCEPT ![w] = [@ EXCEPT !.scan = loc[w].scan \ {j}, !.job = NoJob]]
    /\ \/ /\ Accepts(j, "failed")
          /\ job' = [job EXCEPT ![j] = [@ EXCEPT !.state = "failed", !.overdue = FALSE]]
          /\ NoMishap
       \/ /\ \/ ~Accepts(j, "failed") /\ NoMishap
             \/ Mishap
          /\ UNCHANGED job
    /\ UNCHANGED <<claimers, effects, ledger>>
-------------------------------------------------------------------------------
(* fetch_queued_jobs and claim_job                                         *)

\* Mutant: the search forgets its domain.
FetchNewest(w) ==
    /\ pc[w] = "recover"
    /\ loc[w].scan = {}
    /\ \E j \in Jobs :
        /\ \A k \in Jobs : k <= j
        /\ Goto(w, "claim")
        /\ loc' = [loc EXCEPT ![w] = [@ EXCEPT !.job = j, !.attempt = job[j].attempt]]
    /\ UNCHANGED <<job, claimers, effects, ledger, mishaps>>

\* limit 1, order "id desc": the newest queued job.
Fetch(w) ==
    /\ pc[w] = "recover"
    /\ loc[w].scan = {}
    /\ \/ \E j \in Queued :
           /\ \A k \in Queued : k <= j
           /\ Goto(w, "claim")
           /\ loc' = [loc EXCEPT ![w] = [@ EXCEPT !.job = j, !.attempt = job[j].attempt]]
           /\ NoMishap
       \/ /\ \/ Queued = {} /\ NoMishap
             \/ Mishap
          /\ Release(w)
    /\ UNCHANGED <<job, claimers, effects, ledger>>

\* action_claim_job_atomic, one transaction of the addon.  When it answers False
\* the worker gives up; when no answer comes it tries the fallback.
ClaimAtomic(w) ==
    LET j == loc[w].job IN
    /\ pc[w] = "claim"
    /\ Backend = "addon"
    /\ \/ /\ job[j].state = "queued"
          /\ SetRunning(w, j, job[j].attempt + 1)
          /\ \/ /\ NoMishap
                /\ Goto(w, "process")
                /\ loc' = [loc EXCEPT ![w].done = job[j].done]
             \/ /\ Mishap
                /\ Goto(w, "claimCheck")
                /\ UNCHANGED loc
       \/ /\ job[j].state # "queued"
          /\ NoMishap
          /\ Release(w)
          /\ UNCHANGED <<job, claimers>>
       \/ /\ Mishap
          /\ Goto(w, "claimCheck")
          /\ UNCHANGED <<job, claimers, loc>>
    /\ UNCHANGED <<effects, ledger>>

\* x_rpa_job has no such method: OdooError, and the fallback is all there is.
ClaimUnavailable(w) ==
    /\ pc[w] = "claim"
    /\ Backend = "studio"
    /\ Goto(w, "claimCheck")
    /\ UNCHANGED <<job, claimers, effects, ledger, loc, mishaps>>

\* Fallback, first call: is the job still queued?
ClaimCheck(w) ==
    LET j == loc[w].job IN
    /\ pc[w] = "claimCheck"
    /\ \/ /\ job[j].state = "queued"
          /\ NoMishap
          /\ Goto(w, "claimWrite")
          /\ UNCHANGED loc
       \/ /\ \/ job[j].state # "queued" /\ NoMishap
             \/ Mishap
          /\ Release(w)
    /\ UNCHANGED <<job, claimers, effects, ledger>>

\* Fallback, second call: write update_vals, with the attempt count of the fetch.
ClaimWrite(w) ==
    LET j == loc[w].job IN
    /\ pc[w] = "claimWrite"
    /\ \/ /\ Accepts(j, "running")
          /\ SetRunning(w, j, loc[w].attempt + 1)
          /\ \/ NoMishap /\ Goto(w, "claimRead") /\ UNCHANGED loc
             \/ Mishap /\ Release(w)
       \/ /\ \/ ~Accepts(j, "running") /\ NoMishap
             \/ Mishap
          /\ Release(w)
          /\ UNCHANGED <<job, claimers>>
    /\ UNCHANGED <<effects, ledger>>

\* Fallback, third call: read the record back, whatever it says by now.
ClaimRead(w) ==
    /\ pc[w] = "claimRead"
    /\ \/ /\ NoMishap
          /\ Goto(w, "process")
          /\ loc' = [loc EXCEPT ![w].done = job[loc[w].job].done]
       \/ Mishap /\ Release(w)
    /\ UNCHANGED <<job, claimers, effects, ledger>>
-------------------------------------------------------------------------------
(* process_job                                                             *)

\* The ExecutionResult r is ready to be written.
Report(w, r) ==
    /\ Goto(w, "writeResult")
    /\ loc' = [loc EXCEPT ![w] = [@ EXCEPT !.result = r, !.tries = WriteTries]]

\* Mutant: any ledger content counts, whatever the idempotency key.
PriorOutcomeOfAnyone(w) == ledger[HostOf[w]] # {} \/ loc[w].done

\* Mutant: only the Odoo record is consulted.
PriorOutcomeInOdoo(w) == loc[w].done

\* reconcile_prior_outcome: the ledger, or the record's own last step.
PriorOutcome(w) == loc[w].job \in ledger[HostOf[w]] \/ loc[w].done

\* Validate the payload, then look for an earlier outcome before any browser work.
Reconcile(w) ==
    /\ pc[w] = "process"
    /\ \/ loc[w].job \in Invalid /\ Report(w, "failed")
       \/ loc[w].job \notin Invalid /\ PriorOutcome(w) /\ Report(w, "success")
       \/ /\ loc[w].job \notin Invalid
          /\ ~PriorOutcome(w)
          /\ Goto(w, "browser")
          /\ UNCHANGED loc
    /\ UNCHANGED <<job, claimers, effects, ledger, mishaps>>

\* The workflow does what it was asked to do in the outside world.
BrowserEffect(w) ==
    /\ pc[w] = "browser"
    /\ Goto(w, "confirm")
    /\ effects' = [effects EXCEPT ![loc[w].job] = IF @ = 0 THEN 1 ELSE 2]
    /\ UNCHANGED <<job, claimers, ledger, loc, mishaps>>

\* An exception becomes "failed", or "needs_human" for a challenge: before the
\* effect, or after it when the confirmation (or the ledger's directory) is missing.
BrowserRaises(w) ==
    /\ pc[w] = "browser" \/ (pc[w] = "confirm" /\ UnconfirmedEffects)
    /\ \E r \in {"failed", "needs_human"} : Report(w, r)
    /\ UNCHANGED <<job, claimers, effects, ledger, mishaps>>

\* save_outcome loads the whole file, ...
LedgerLoad(w) ==
    /\ pc[w] = "confirm"
    /\ Goto(w, "ledgerOpen")
    /\ loc' = [loc EXCEPT ![w].seen = ledger[HostOf[w]]]
    /\ UNCHANGED <<job, claimers, effects, ledger, mishaps>>

\* ... opens it for writing, which empties it, ...
LedgerOpen(w) ==
    /\ pc[w] = "ledgerOpen"
    /\ \/ /\ NoMishap
          /\ Goto(w, "ledgerDump")
          /\ ledger' = [ledger EXCEPT ![HostOf[w]] = {}]
          /\ UNCHANGED loc
       \/ /\ LedgerFaults
          /\ Mishap
          /\ Report(w, "success")
          /\ UNCHANGED ledger
    /\ UNCHANGED <<job, claimers, effects>>

\* ... and writes its own copy.  Over another writer's text, or on a full disk, what
\* remains may not parse, and then it loads as {}.
LedgerDump(w) ==
    LET h == HostOf[w] IN
    /\ pc[w] = "ledgerDump"
    /\ Report(w, "success")
    /\ \/ /\ ledger' = [ledger EXCEPT ![h] = loc[w].seen \cup {loc[w].job}]
          /\ NoMishap
       \/ /\ ledger' = [ledger EXCEPT ![h] = {}]
          /\ \/ ledger[h] # {} /\ NoMishap
             \/ LedgerFaults /\ Mishap
    /\ UNCHANGED <<job, claimers, effects>>
-------------------------------------------------------------------------------
(* write_result, one attempt per step                                      *)

\* Any exception costs one attempt; after the last one the outcome is dropped.
AttemptFails(w) ==
    IF loc[w].tries = 1
    THEN Release(w)
    ELSE loc' = [loc EXCEPT ![w].tries = @ - 1] /\ UNCHANGED pc

WriteResult(w) ==
    LET j == loc[w].job
        r == loc[w].result
    IN
    /\ pc[w] = "writeResult"
    /\ \/ /\ Accepts(j, r)
          /\ job' = [job EXCEPT ![j] = [@ EXCEPT !.state = r, !.overdue = FALSE,
                                                 !.done = (r = "success")]]
          /\ \/ NoMishap /\ Release(w)
             \/ Mishap /\ AttemptFails(w)
       \/ /\ \/ ~Accepts(j, r) /\ NoMishap
             \/ Mishap
          /\ AttemptFails(w)
          /\ UNCHANGED job
    /\ UNCHANGED <<claimers, effects, ledger>>

\* The process dies (or is stopped) and only its files and Odoo remain.
Crash(w) ==
    /\ pc[w] \in CrashPoints \ {"down"}
    /\ Mishap
    /\ Goto(w, "down")
    /\ loc' = [loc EXCEPT ![w] = Rest]
    /\ UNCHANGED <<job, claimers, effects, ledger>>

Restart(w) ==
    /\ pc[w] = "down"
    /\ Goto(w, "poll")
    /\ UNCHANGED <<job, claimers, effects, ledger, loc, mishaps>>
-------------------------------------------------------------------------------
\* process_next_job, step by step.
Step(w) ==
    \/ Scan(w) \/ RecoverCheck(w) \/ RecoverWrite(w)
    \/ Fetch(w) \/ ClaimAtomic(w) \/ ClaimUnavailable(w)
    \/ ClaimCheck(w) \/ ClaimWrite(w) \/ ClaimRead(w)
    \/ Reconcile(w) \/ BrowserEffect(w) \/ BrowserRaises(w)
    \/ LedgerLoad(w) \/ LedgerOpen(w) \/ LedgerDump(w)
    \/ WriteResult(w)

Operator(j) == Queue(j) \/ Retry(j)

Next ==
    \/ \E j \in Jobs : Operator(j) \/ BecomeOverdue(j)
    \/ \E w \in Workers : Step(w) \/ Crash(w) \/ Restart(w)

Spec == Init /\ [][Next]_vars

\* A live worker keeps looping (start() catches every exception) and time passes.
\* Nothing restarts a dead worker and no operator is obliged to retry.
Fairness ==
    /\ \A w \in Workers : WF_vars(Step(w))
    /\ \A j \in Jobs : WF_vars(BecomeOverdue(j))

FairSpec == Spec /\ Fairness
-------------------------------------------------------------------------------
(* What should be true of it.                                              *)

\* A worker past the fetch has a record at hand, one that reports has an outcome and
\* an attempt left for it.
HoldsWhatItNeeds(w) ==
    /\ pc[w] \notin {"poll", "recover", "down"} => loc[w].job \in Jobs
    /\ pc[w] = "writeResult" => loc[w].result \in Outcomes /\ loc[w].tries > 0

\* Every variable has its type, and a worker's local variables fit its program point.
TypeOK ==
    /\ job \in [Jobs -> JobRecord]
    /\ claimers \in [Jobs -> SUBSET Workers]
    /\ effects \in [Jobs -> 0..2]
    /\ ledger \in [Hosts -> SUBSET Jobs]
    /\ pc \in [Workers -> Points]
    /\ loc \in [Workers -> Locals]
    /\ mishaps \in Nat
    /\ \A w \in Workers : HoldsWhatItNeeds(w)

\* "Only ONE process can transition a job from queued to running"
\* (action_claim_job_atomic; claim_job_atomic promises it for both backends): since
\* a job was last queued, the claim of at most one worker was accepted.
ClaimExclusive == \A j \in Jobs : \A v, w \in claimers[j] : v = w

\* Nothing counts as completed, in Odoo or in a ledger, unless the workflow really
\* took effect: a success is never reported on another job's or no evidence.
CompletionIsReal ==
    \A j \in Jobs :
        job[j].done \/ job[j].state = "success" \/ (\E h \in Hosts : j \in ledger[h])
            => effects[j] > 0

\* OutcomeReconciler: "Prevents duplicate state-changing browser actions when Odoo
\* result write fails".  However often a job is retried, its workflow takes effect
\* at most once.
AtMostOneEffect == \A j \in Jobs : effects[j] <= 1

\* The job's life is the promised one: legal moves only, one owner per stint.
LifecycleSpec == Lifecycle!Spec

\* recover_stale_running_jobs: "If started_at is older than
\* stale_running_timeout_seconds, marks job as failed": the stint that recovery ends
\* is one that is overdue when it ends.
RecoverOnlyOverdue ==
    [][\A w \in Workers :
        pc[w] = "recoverWrite" /\ job' # job /\ pc'[w] # pc[w]
            => job[loc[w].job].overdue]_vars

\* Recovery of crashed workers: no job stays in "running" for ever.
RunningEnds == \A j \in Jobs : job[j].state = "running" ~> job[j].state # "running"

\* A queued job is eventually taken, although the queue is read newest first.
QueuedIsTaken == \A j \in Jobs : job[j].state = "queued" ~> job[j].state # "queued"
===============================================================================
