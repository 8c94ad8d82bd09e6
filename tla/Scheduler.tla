-------------------------------- MODULE Scheduler --------------------------------
(***************************************************************************)
(* The resident scheduler (--schedule): it runs every provider at once,    *)
(* then at the slots of its interval, sleeping in slices in between.  Time *)
(* counts in slices, and is kept relative to now.                          *)
(***************************************************************************)
EXTENDS Integers, Sequences, FiniteSets, FiniteSetsExt

CONSTANTS
    Order,       \* the providers in the order of a run
    Interval,    \* Interval[p]: slices between two slots of p
    Idle,        \* what an empty schedule sleeps for
    Round,       \* a common multiple of the intervals
    MaxRun,      \* bound: slices that one run may take
    MaxLag,      \* bound: slices that a publication, or the waking up, may take
    MaxLate      \* bound: whoever is later is counted as one Round less late

Providers == {Order[i] : i \in 1..Len(Order)}

ASSUME ScheduleConstantsOK ==
    /\ Len(Order) = Cardinality(Providers) /\ "none" \notin Providers
    /\ Interval \in [Providers -> Nat \ {0}]
    /\ Idle \in Nat \ {0} /\ MaxRun \in Nat /\ MaxLag \in Nat /\ MaxLate \in Nat
    /\ Round \in Nat \ {0} /\ \A p \in Providers : Round % Interval[p] = 0
    /\ MaxRun <= Round /\ MaxLag < Round /\ Round <= MaxLate

VARIABLES
    pc,        \* "cycle", "take", "run", "publish", "sleep", "stopped" or "killed"
    enabled,   \* providers whose flags in Odoo do not switch them off, as read at the start
    wait,      \* wait[p]: next_run_at, counted from now
    queue,     \* providers that were due when the cycle began, and have not had their turn
    at,        \* the one at work, or "none"
    left,      \* _sleep_until_due: what remains to be slept
    stopping,  \* _stopping
    once,      \* --once: a single cycle
    tick       \* history: the time since the start, modulo Round

vars == <<pc, enabled, wait, queue, at, left, stopping, once, tick>>

Ended == pc \in {"stopped", "killed"}

\* _build_entries: every provider is due.  A table of flags that cannot be read switches
\* nobody off.
Init ==
    /\ pc = "cycle"
    /\ enabled \in SUBSET Providers
    /\ wait = [p \in Providers |-> 0]
    /\ queue = {}
    /\ at = "none"
    /\ left = 0
    /\ stopping = FALSE
    /\ once \in BOOLEAN
    /\ tick = 0

\* d slices go by.  Nobody reads the next run of a provider that is switched off.
Later(d, p) ==
    LET w == wait[p] - d IN
    IF p \notin enabled THEN wait[p] ELSE IF w < -MaxLate THEN w + Round ELSE w

Pass(d) ==
    /\ wait' = [p \in Providers |-> Later(d, p)]
    /\ tick' = (tick + d) % Round

Due(p) == p \in enabled /\ wait[p] <= 0

\* Mutant: one provider a cycle.
DueFirst == {Order[i] : i \in {i \in 1..Len(Order) : Due(Order[i]) /\ \A j \in 1..(i - 1) : ~Due(Order[j])}}

due_providers == {p \in Providers : Due(p)}

\* Mutant: a signal during the sleep ends the sleep only.
CycleAnyway ==
    /\ pc = "cycle"
    /\ pc' = "take" /\ queue' = due_providers
    /\ UNCHANGED <<enabled, wait, at, left, stopping, once, tick>>

\* The head of the loop, and of run_due.
Cycle ==
    /\ pc = "cycle"
    /\ IF stopping THEN pc' = "stopped" /\ UNCHANGED queue
       ELSE pc' = "take" /\ queue' = due_providers
    /\ UNCHANGED <<enabled, wait, at, left, stopping, once, tick>>

\* The next one, in the order of the schedule.
Take ==
    /\ pc = "take"
    /\ \E i \in 1..Len(Order) :
        /\ Order[i] \in queue /\ \A j \in 1..(i - 1) : Order[j] \notin queue
        /\ at' = Order[i] /\ queue' = queue \ {Order[i]}
    /\ pc' = "run"
    /\ UNCHANGED <<enabled, wait, left, stopping, once, tick>>

\* Mutant: one slot further.
NextSlotOnly(w, interval) == IF w <= 0 THEN w + interval ELSE w

\* reschedule(): whole intervals, to the first slot in the future.
Rescheduled(w, interval) == IF w <= 0 THEN w + interval * ((-w) \div interval + 1) ELSE w

\* The rest of _run_one: the runner returns or raises, which counts as a failed run.
Run ==
    /\ pc = "run"
    /\ \E d \in 0..MaxRun :
        /\ wait' = [p \in Providers |-> IF p = at THEN Rescheduled(Later(d, p), Interval[p]) ELSE Later(d, p)]
        /\ tick' = (tick + d) % Round
    /\ pc' = "publish"
    /\ UNCHANGED <<enabled, queue, at, left, stopping, once>>

\* _publish: an OdooError is noted; what is none (an answer that is not JSON) leaves the loop.
Publish ==
    /\ pc = "publish"
    /\ \E d \in 0..MaxLag : Pass(d)
    /\ pc' \in {"take", "killed"} /\ at' = "none"
    /\ UNCHANGED <<enabled, queue, left, stopping, once>>

\* Mutant: what is overdue is slept for, too.
UntilNextSigned == IF enabled = {} THEN Idle ELSE Min({wait[p] : p \in enabled})

seconds_until_next == IF enabled = {} THEN Idle ELSE Max({0, Min({wait[p] : p \in enabled})})

\* The cycle is over.
Settle ==
    /\ pc = "take" /\ queue = {}
    /\ IF once THEN pc' = "stopped" /\ UNCHANGED left
       ELSE pc' = "sleep" /\ left' = seconds_until_next
    /\ UNCHANGED <<enabled, wait, queue, at, stopping, once, tick>>

\* _sleep_until_due
Sleep ==
    /\ pc = "sleep"
    /\ left > 0 /\ ~stopping
    /\ \E lag \in 0..MaxLag : Pass(1 + lag)
    /\ left' = left - 1
    /\ UNCHANGED <<pc, enabled, queue, at, stopping, once>>

Wake ==
    /\ pc = "sleep"
    /\ left <= 0 \/ stopping
    /\ pc' = "cycle" /\ left' = 0
    /\ UNCHANGED <<enabled, wait, queue, at, stopping, once, tick>>

\* stop(): a signal.
Stop ==
    /\ ~Ended /\ ~stopping /\ ~once
    /\ stopping' = TRUE
    /\ UNCHANGED <<pc, enabled, wait, queue, at, left, once, tick>>

Step == Cycle \/ Take \/ Run \/ Publish \/ Settle \/ Sleep \/ Wake

Next == Step \/ Stop

Spec == Init /\ [][Next]_vars

\* The process is alive, and every run ends: its requests have timeouts and their retries
\* are counted.
FairSpec == Spec /\ WF_vars(Step)
-------------------------------------------------------------------------------
TypeOK ==
    /\ pc \in {"cycle", "take", "run", "publish", "sleep", "stopped", "killed"}
    /\ enabled \subseteq Providers
    /\ wait \in [Providers -> (-MaxLate)..Round]
    /\ queue \subseteq enabled
    /\ at \in enabled \cup {"none"} /\ (at # "none" <=> pc \in {"run", "publish"})
    /\ left \in Nat
    /\ {stopping, once} \subseteq BOOLEAN
    /\ tick \in 0..(Round - 1)

\* However long runs take and sleeps last, every next run is at a slot of its provider's
\* cadence, no further away than one interval; and after a run it is in the future, so the
\* slots that were missed are not made up for.
SlotsOnCadence ==
    \A p \in enabled :
        /\ (tick + wait[p]) % Interval[p] = 0
        /\ wait[p] <= Interval[p]
        /\ pc = "publish" /\ at = p => wait[p] > 0

\* Every provider that is switched on runs again and again until the loop is stopped, however
\* late the others make it.
EveryProviderRunsAgain ==
    \A p \in Providers : []<>(p \in enabled => at = p \/ Ended)

\* "Request a graceful shutdown": a signal ends the loop.
StopIsHeeded == stopping ~> Ended
==================================================================================
