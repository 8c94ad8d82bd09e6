------------------------------- MODULE SyncRequest -------------------------------
(***************************************************************************)
(* The Sync Now queue.  The button in Odoo marks a row of                  *)
(* x_integration_config as requested; SyncRequestWorker processes          *)
(* (--serve-requests, or --drain-requests from cron) read the requested    *)
(* rows, claim each, run its connector and write the outcome back.         *)
(***************************************************************************)
EXTENDS Naturals

CONSTANTS
    Configs,     \* rows of x_integration_config, one per provider
    Workers,     \* SyncRequestWorker processes
    NoConfig,    \* the row at hand of a worker that has none
    Faults,      \* what may go wrong, a subset of FaultKinds
    MaxMishaps   \* bound: how often something goes wrong

\* "poll": the search of the queue fails.  "claimLost": the claim's write never
\* arrives.  "claimAnswer": it is carried out and its answer is lost.  "check": the
\* read after it fails.  "release": the outcome's write never arrives.  "crash": the
\* process dies.
FaultKinds == {"poll", "claimLost", "claimAnswer", "check", "release", "crash"}

ASSUME SyncConstantsOK ==
    /\ NoConfig \notin Configs
    /\ Faults \subseteq FaultKinds
    /\ MaxMishaps \in Nat

VARIABLES
    state,    \* state[c]: x_sync_state
    active,   \* active[c]: x_active
    pc,       \* pc[w]: where worker w is in drain
    todo,     \* todo[w]: rows of pending() still to be run
    seen,     \* seen[w]: the rows among them that were read as active
    at,       \* at[w]: the row it is running
    verdict,  \* verdict[w]: the state it is going to write, or "none"
    runs,     \* history: connector runs of c since Sync Now was last accepted (2 = more)
    mishaps   \* mishaps so far

vars == <<state, active, pc, todo, seen, at, verdict, runs, mishaps>>

States   == {"idle", "requested", "running", "done", "failed"}
Verdicts == {"done", "failed"}
Points   == {"drain", "check", "run", "release", "down"}
-------------------------------------------------------------------------------
Init ==
    /\ state = [c \in Configs |-> "idle"]
    /\ active \in [Configs -> BOOLEAN]
    /\ pc = [w \in Workers |-> "drain"]
    /\ todo = [w \in Workers |-> {}]
    /\ seen = [w \in Workers |-> {}]
    /\ at = [w \in Workers |-> NoConfig]
    /\ verdict = [w \in Workers |-> "none"]
    /\ runs = [c \in Configs |-> 0]
    /\ mishaps = 0

Mishap(kind) ==
    /\ kind \in Faults
    /\ mishaps < MaxMishaps
    /\ mishaps' = mishaps + 1

Goto(w, p) == pc' = [pc EXCEPT ![w] = p]

\* Done with the row at hand; drain goes on with the rest.
Leave(w) ==
    /\ Goto(w, "drain")
    /\ at' = [at EXCEPT ![w] = NoConfig]
    /\ verdict' = [verdict EXCEPT ![w] = "none"]

\* The Sync Now server action; it leaves a row alone that is requested or running.
Click(c) ==
    /\ state[c] \notin {"requested", "running"}
    /\ state' = [state EXCEPT ![c] = "requested"]
    /\ runs' = [runs EXCEPT ![c] = 0]
    /\ UNCHANGED <<active, pc, todo, seen, at, verdict, mishaps>>

\* A user archives or restores the integration.
ToggleActive(c) ==
    /\ active' = [active EXCEPT ![c] = ~active[c]]
    /\ UNCHANGED <<state, pc, todo, seen, at, verdict, runs, mishaps>>
-------------------------------------------------------------------------------
\* Mutant: running rows count as pending, to pick up what a dead worker left.
PollRunning(w) ==
    /\ pc[w] = "drain"
    /\ todo[w] = {}
    /\ todo' = [todo EXCEPT ![w] = {c \in Configs : state[c] \in {"requested", "running"}}]
    /\ seen' = [seen EXCEPT ![w] = {c \in Configs : active[c]}]
    /\ UNCHANGED <<state, active, pc, at, verdict, runs, mishaps>>

\* Mutant: the search leaves archived integrations out.
PollActive(w) ==
    /\ pc[w] = "drain"
    /\ todo[w] = {}
    /\ todo' = [todo EXCEPT ![w] = {c \in Configs : state[c] = "requested" /\ active[c]}]
    /\ seen' = [seen EXCEPT ![w] = {c \in Configs : state[c] = "requested" /\ active[c]}]
    /\ UNCHANGED <<state, active, pc, at, verdict, runs, mishaps>>

\* pending(): read every requested row.  An error ends the drain with nothing read.
Poll(w) ==
    /\ pc[w] = "drain"
    /\ todo[w] = {}
    /\ \/ /\ todo' = [todo EXCEPT ![w] = {c \in Configs : state[c] = "requested"}]
          /\ seen' = [seen EXCEPT ![w] = {c \in Configs : state[c] = "requested" /\ active[c]}]
          /\ UNCHANGED mishaps
       \/ Mishap("poll") /\ UNCHANGED <<todo, seen>>
    /\ UNCHANGED <<state, active, pc, at, verdict, runs>>

\* _claim, the write: "running", whatever the row says by now.  The rows are taken
\* in any order, the code's is the order of the requests.
Claim(w) ==
    /\ pc[w] = "drain"
    /\ \E c \in todo[w] :
        /\ todo' = [todo EXCEPT ![w] = todo[w] \ {c}]
        /\ \/ /\ state' = [state EXCEPT ![c] = "running"]
              /\ at' = [at EXCEPT ![w] = c]
              /\ Goto(w, "check")
              /\ UNCHANGED mishaps
           \/ /\ Mishap("claimAnswer")
              /\ state' = [state EXCEPT ![c] = "running"]
              /\ UNCHANGED <<pc, at>>
           \/ /\ Mishap("claimLost")
              /\ UNCHANGED <<state, pc, at>>
    /\ UNCHANGED <<active, seen, verdict, runs>>

\* Mutant: an archived integration is left alone instead of released.
CheckSkipsArchived(w) ==
    /\ pc[w] = "check"
    /\ IF state[at[w]] = "running" /\ at[w] \in seen[w]
       THEN Goto(w, "run") /\ UNCHANGED <<at, verdict>>
       ELSE Leave(w)
    /\ UNCHANGED <<state, active, todo, seen, runs, mishaps>>

\* _claim, the read: go on if the row says "running".  An archived integration (as
\* pending() read it) is released as failed.  An error here is not caught until
\* serve_forever: the row stays as it is and the rest of the drain is forgotten.
Check(w) ==
    /\ pc[w] = "check"
    /\ \/ /\ state[at[w]] = "running"
          /\ at[w] \in seen[w]
          /\ Goto(w, "run")
          /\ UNCHANGED <<todo, at, verdict, mishaps>>
       \/ /\ state[at[w]] = "running"
          /\ at[w] \notin seen[w]
          /\ Goto(w, "release")
          /\ verdict' = [verdict EXCEPT ![w] = "failed"]
          /\ UNCHANGED <<todo, at, mishaps>>
       \/ /\ state[at[w]] # "running"
          /\ Leave(w)
          /\ UNCHANGED <<todo, mishaps>>
       \/ /\ Mishap("check")
          /\ Leave(w)
          /\ todo' = [todo EXCEPT ![w] = {}]
    /\ UNCHANGED <<state, active, seen, runs>>

\* Mutant: a connector that cannot start counts as completed.
RunOptimist(w) ==
    /\ pc[w] = "run"
    /\ Goto(w, "release")
    /\ verdict' = [verdict EXCEPT ![w] = "done"]
    /\ \/ runs' = [runs EXCEPT ![at[w]] = IF runs[at[w]] = 0 THEN 1 ELSE 2]
       \/ UNCHANGED runs
    /\ UNCHANGED <<state, active, todo, seen, at, mishaps>>

\* The connector runs to its SyncResult, or raises before it could start.
Run(w) ==
    /\ pc[w] = "run"
    /\ Goto(w, "release")
    /\ \/ /\ \E v \in Verdicts : verdict' = [verdict EXCEPT ![w] = v]
          /\ runs' = [runs EXCEPT ![at[w]] = IF runs[at[w]] = 0 THEN 1 ELSE 2]
       \/ /\ verdict' = [verdict EXCEPT ![w] = "failed"]
          /\ UNCHANGED runs
    /\ UNCHANGED <<state, active, todo, seen, at, mishaps>>

\* _release: write the outcome, whatever the row says by now.  A failed write is
\* logged and forgotten; a lost answer makes no difference.
Release(w) ==
    /\ pc[w] = "release"
    /\ Leave(w)
    /\ \/ /\ state' = [state EXCEPT ![at[w]] = verdict[w]]
          /\ UNCHANGED mishaps
       \/ Mishap("release") /\ UNCHANGED state
    /\ UNCHANGED <<active, todo, seen, runs>>

\* The process is killed; what it had read is gone with it.
Crash(w) ==
    /\ pc[w] # "down"
    /\ Mishap("crash")
    /\ Goto(w, "down")
    /\ todo' = [todo EXCEPT ![w] = {}]
    /\ at' = [at EXCEPT ![w] = NoConfig]
    /\ verdict' = [verdict EXCEPT ![w] = "none"]
    /\ UNCHANGED <<state, active, seen, runs>>

Restart(w) ==
    /\ pc[w] = "down"
    /\ Goto(w, "drain")
    /\ UNCHANGED <<state, active, todo, seen, at, verdict, runs, mishaps>>
-------------------------------------------------------------------------------
Step(w) == Poll(w) \/ Claim(w) \/ Check(w) \/ Run(w) \/ Release(w)

Next ==
    \/ \E c \in Configs : Click(c) \/ ToggleActive(c)
    \/ \E w \in Workers : Step(w) \/ Crash(w) \/ Restart(w)

Spec == Init /\ [][Next]_vars

\* serve_forever keeps polling (and cron keeps starting drains), also after errors.
\* Nothing restarts a dead worker by itself.
Fairness == \A w \in Workers : WF_vars(Step(w))

FairSpec == Spec /\ Fairness
-------------------------------------------------------------------------------
TypeOK ==
    /\ state \in [Configs -> States]
    /\ active \in [Configs -> BOOLEAN]
    /\ pc \in [Workers -> Points]
    /\ todo \in [Workers -> SUBSET Configs]
    /\ seen \in [Workers -> SUBSET Configs]
    /\ at \in [Workers -> Configs \cup {NoConfig}]
    /\ verdict \in [Workers -> Verdicts \cup {"none"}]
    /\ runs \in [Configs -> 0..2]
    /\ mishaps \in Nat
    /\ \A w \in Workers : pc[w] \in {"check", "run", "release"} <=> at[w] # NoConfig
    /\ \A w \in Workers : pc[w] = "release" <=> verdict[w] # "none"

\* A row that says "running" is in the hands of some worker, so Sync Now is never
\* dead for a provider: however many workers race for the row, the last one to
\* leave it has written an outcome.
RunningIsAttended ==
    \A c \in Configs : state[c] = "running" => \E w \in Workers : at[w] = c

\* The module's state diagram: idle -> requested -> running -> done or failed, and a
\* new request from there.
FollowsDiagram ==
    [][\A c \in Configs :
        \/ state'[c] = state[c]
        \/ state[c] \in {"idle", "done", "failed"} /\ state'[c] = "requested"
        \/ state[c] = "requested" /\ state'[c] = "running"
        \/ state[c] = "running" /\ state'[c] \in Verdicts]_vars

\* "a button that reported 'Sync Completed' ... would be reporting something it never
\* did": a row says done only if its connector ran since it was last requested.
DoneIsTrue == \A c \in Configs : state[c] = "done" => runs[c] > 0

\* One accepted click is worth one run of the connector, whatever goes wrong.
OneRunPerClick == \A c \in Configs : runs[c] <= 1

\* Every accepted click is answered in the end.
RequestsAreAnswered ==
    \A c \in Configs : state[c] \in {"requested", "running"} ~> state[c] \in Verdicts
===============================================================================
