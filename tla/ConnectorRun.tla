------------------------------ MODULE ConnectorRun ------------------------------
(***************************************************************************)
(* What the five connectors share: BaseConnector.run with the accounting   *)
(* of SyncResult, the guard around one record, the approval activities,    *)
(* the Upserter, and the SyncLogWriter.  One run is followed step by step; *)
(* between its steps people and providers change things, and other runs of *)
(* the connector (Sync Now, the scheduler, the command line) do theirs.    *)
(***************************************************************************)
EXTENDS Naturals, Sequences, FiniteSets, Bags, SequencesExt

CONSTANTS
    MaxMishaps,   \* bound: calls that fail, get lost or are repeated, crashes, overlaps
    MaxChanges    \* bound: changes made by the provider and by people

VARIABLES
    run,      \* the run under way, or the last one
    source,   \* what the run finds, at the provider and in Odoo; its shape is the connector's
    odoo,     \* the records the connector keeps: a sequence, by id
    reviews,  \* a bag of the open approval activities
    log,      \* SyncLogWriter: what it said of the last run, and where
    mishaps,
    changes

vars == <<run, source, odoo, reviews, log, mishaps, changes>>

Counters == {"created", "updated", "skipped", "failed"}
Statuses == {"success", "partial", "failed", "skipped"}
NoRecord == [id |-> 0]
Nothing  == [key |-> "none"]

\* A run with no SyncResult yet.  "raised": run() itself ended in an exception.
Idle == [pc |-> "idle",          \* "idle", "log", "done", "raised", or a point of the connector
         dry |-> FALSE,          \* settings.dry_run
         todo |-> <<>>,          \* what it is still going to handle, as it was fetched
         at |-> Nothing,         \* what it is handling
         cache |-> {},           \* Upserter._cache: what it knows of records
         found |-> NoRecord,     \* what find() returned for `at`
         mem |-> {},             \* what the connector remembers
         count |-> [k \in Counters |-> 0],
         fatal |-> FALSE,
         handed |-> 0,           \* history: records that it has taken up
         wrote |-> FALSE,        \* history: it asked for a change in Odoo or at the provider
         pushed |-> FALSE,       \* history: at the provider, which is news to the next run
         steady |-> TRUE,        \* history: nobody changed anything since it began
         clean |-> FALSE,        \* history: nor did anything go wrong
         calm |-> FALSE]         \* history: that was so of the run before, which left no news

RunTypeOK ==
    /\ DOMAIN run = DOMAIN Idle
    /\ run.count \in [Counters -> Nat]
    /\ run.found.id \in 0..Len(odoo)
    /\ \A c \in run.cache : c.id \in 1..Len(odoo)
    /\ run.handed \in Nat
    /\ {run.dry, run.fatal, run.wrote, run.pushed, run.steady, run.clean, run.calm} \subseteq BOOLEAN
    /\ log.status \in Statuses \cup {"none"}
    /\ log.places \subseteq {"odoo", "file"}
    /\ log.available \in BOOLEAN
    /\ IsABag(reviews)
    /\ mishaps \in 0..MaxMishaps /\ changes \in 0..MaxChanges

RunInit ==
    /\ run = Idle
    /\ reviews = EmptyBag
    /\ log = [status |-> "none", places |-> {}, available |-> TRUE]
    /\ mishaps = 0
    /\ changes = 0
-------------------------------------------------------------------------------
\* A step that goes well, and one that does not.
Well(r) == run' = r /\ UNCHANGED mishaps

Ill(r) ==
    /\ mishaps < MaxMishaps
    /\ mishaps' = mishaps + 1
    /\ run' = [r EXCEPT !.clean = FALSE]

\* A request that changes something: carried out; not carried out; carried out and its
\* answer, and those to its repetitions, lost; carried out twice, because the first
\* answer was lost and ResilientHttpClient sent it again.  Effect(n) is what n times do,
\* Answered(n) the run that has the answer to the n-th.
Send(Effect(_), Answered(_), failed) ==
    \/ Effect(1) /\ Well(Answered(1))
    \/ Effect(0) /\ Ill(failed)
    \/ Effect(1) /\ Ill(failed)
    \/ Effect(2) /\ Ill(Answered(2))

Counted(r, counter) == [r EXCEPT !.count[counter] = @ + 1]
Wrote(r)            == [r EXCEPT !.wrote = TRUE]

\* The with-block of one record is left, and the next one is taken up.
Onward(r) == [r EXCEPT !.pc = "next", !.at = Nothing, !.found = NoRecord]

\* guard(): whatever is raised for a record is counted once, and the run goes on.
Failed(r) == Onward(Counted(r, "failed"))

\* A record, or something else that is counted like one, is taken up.
TakenUp(r, item) == [r EXCEPT !.at = item, !.todo = Tail(@), !.handed = @ + 1]

\* sync() returns, and raises.
Synced(r)  == [r EXCEPT !.pc = "log"]
Aborted(r) == [r EXCEPT !.pc = "log", !.fatal = TRUE]

Ended == run.pc \in {"idle", "done", "raised"}

\* Mutant: a run is a success when anything succeeded.
StatusOptimist(r) ==
    IF r.fatal THEN "failed"
    ELSE IF r.count.created + r.count.updated + r.count.skipped > 0 THEN "success"
    ELSE IF r.count.failed > 0 THEN "failed" ELSE "skipped"

\* SyncResult.status
Status(r) ==
    LET succeeded == r.count.created + r.count.updated + r.count.skipped IN
    CASE r.fatal                               -> "failed"
      [] r.count.failed > 0 /\ succeeded = 0   -> "failed"
      [] r.count.failed > 0 /\ succeeded > 0   -> "partial"
      [] r.count.failed = 0 /\ succeeded = 0   -> "skipped"
      [] OTHER                                 -> "success"

\* run() is called, in the process of the last run or in one of its own.
Begin(start, todo) ==
    /\ Ended
    /\ \E dry \in BOOLEAN :
        run' = [Idle EXCEPT !.pc = start, !.dry = dry, !.todo = todo, !.clean = TRUE,
                            !.calm = run.clean /\ ~run.dry /\ ~run.pushed]
    /\ \E available \in {log.available, TRUE} :
        log' = [status |-> "none", places |-> {}, available |-> available]
    /\ UNCHANGED <<source, odoo, reviews, mishaps, changes>>

\* The rest of run(): SyncLogWriter.write.  After one failure the writer turns to the
\* file; an answer that is not JSON is not an OdooError and leaves run() as an exception.
WriteLog ==
    LET over == [Idle EXCEPT !.pc = "done", !.dry = run.dry, !.count = run.count,
                             !.fatal = run.fatal, !.handed = run.handed, !.wrote = run.wrote, !.pushed = run.pushed,
                             !.steady = run.steady, !.mem = run.mem,
                             !.clean = run.clean, !.calm = run.calm]
        Entry(places, available) ==
            log' = [status |-> Status(run), places |-> places, available |-> available]
        toOdoo == ~run.dry /\ log.available
    IN
    /\ run.pc = "log"
    /\ \/ ~toOdoo /\ Entry({"file"}, log.available) /\ Well(over)
       \/ ~toOdoo /\ Entry({}, log.available) /\ Ill(over)
       \/ toOdoo /\ Entry({"odoo"}, TRUE) /\ Well(over)
       \/ toOdoo /\ \E made \in SUBSET {"odoo"} : Entry(made \cup {"file"}, FALSE) /\ Ill(over)
       \/ toOdoo /\ Entry({"odoo"}, log.available) /\ Ill([over EXCEPT !.pc = "raised"])
    /\ UNCHANGED <<source, odoo, reviews, changes>>

\* The process is killed in the middle of a run.
Crash ==
    /\ ~Ended
    /\ Ill(Idle)
    /\ log' = [status |-> "none", places |-> {}, available |-> TRUE]
    /\ UNCHANGED <<source, odoo, reviews, changes>>

\* Somebody changes something.
Change ==
    /\ changes < MaxChanges
    /\ changes' = changes + 1
    /\ run' = [run EXCEPT !.steady = FALSE, !.clean = FALSE]
    /\ UNCHANGED <<log, mishaps>>

\* A person sees to an approval activity: Odoo deletes the ones that are done.
CloseReview ==
    /\ \E k \in BagToSet(reviews) : reviews' = reviews (-) SetToBag({k})
    /\ Change
    /\ UNCHANGED <<source, odoo>>
-------------------------------------------------------------------------------
\* Mutant: any open activity will do.
RaiseUnlessOpen(k, r) ==
    IF run.dry \/ reviews # EmptyBag THEN UNCHANGED reviews /\ Well(r)
    ELSE Send(LAMBDA n : reviews' = reviews (+) [x \in {k : i \in 1..n} |-> n],
              LAMBDA n : Wrote(r), Wrote(r))

\* _raise_approval_activity: unless there is one with this anchor and summary, it is
\* created; it never raises, and r is how the run goes on.
Raise(k, r) ==
    IF run.dry \/ BagIn(k, reviews) THEN UNCHANGED reviews /\ Well(r)
    ELSE Send(LAMBDA n : reviews' = reviews (+) [x \in {k : i \in 1..n} |-> n],
              LAMBDA n : Wrote(r), Wrote(r))
-------------------------------------------------------------------------------
\* Upserter.  A record has a `key` (its x_external_id) and a `hash` (its x_source_hash).
Indices(key) == {i \in 1..Len(odoo) : odoo[i].key = key}
First(S)     == CHOOSE i \in S : \A j \in S : i <= j

\* find_by_external_id and map_by_external_id: the oldest record with this id.
Lookup(key) ==
    IF Indices(key) = {} THEN NoRecord
    ELSE LET i == First(Indices(key)) IN [id |-> i, key |-> key, hash |-> odoo[i].hash, bare |-> TRUE]

\* A record is there and says this.
Holds(key, hash) == Lookup(key).id # 0 /\ Lookup(key).hash = hash

\* Mutant: an id that nobody has comes back as well.
PreloadedAll(keys) == {Lookup(key) : key \in keys}

\* preload(); when it fails, find() is left with a search for each record.
Preloaded(keys) == {[Lookup(key) EXCEPT !.bare = FALSE] : key \in {k \in keys : Indices(k) # {}}}

Cached(key) == {c \in run.cache : c.key = key}

\* find(): from the cache, or by a search.
Find ==
    LET Found(r) == [run EXCEPT !.pc = "apply", !.found = r,
                                !.cache = IF r = NoRecord THEN @ ELSE @ \cup {r}]
    IN
    /\ run.pc = "find"
    /\ IF Cached(run.at.key) # {}
       THEN Well(Found(CHOOSE c \in Cached(run.at.key) : TRUE))
       ELSE Well(Found(Lookup(run.at.key))) \/ Ill(Failed(run))
    /\ UNCHANGED <<source, odoo, reviews, log, changes>>

\* What the cache holds after a record was written: its id and its hash.
Known(r, id, record) ==
    [r EXCEPT !.cache = {c \in @ : c.key # record.key}
                        \cup {[id |-> id, key |-> record.key, hash |-> record.hash, bare |-> TRUE]}]

\* Mutant: preload() does not read the hash.
UnchangedIfSearched(found, fresh) == found.bare /\ found.hash = fresh.hash

Unchanged(found, fresh) == found.hash = fresh.hash

\* What upsert() does with a record, and counts it as.
Outcome(found, fresh) ==
    IF found = NoRecord THEN "created" ELSE IF Unchanged(found, fresh) THEN "skipped" ELSE "updated"

\* The rest of upsert().  `fresh` is the record as it would be created, Rewrite(old) what a
\* write of its values makes of one that exists, and Then(r, outcome, id) how the connector
\* goes on.
Upsert(fresh, Rewrite(_), Then(_, _, _)) ==
    LET id == run.found.id
        outcome == Outcome(run.found, fresh)
        Done(n) == Then(Counted(run, outcome), outcome, n)
        Written(n) == Known(Wrote(Done(n)), n, fresh)
    IN
    /\ run.pc = "apply"
    /\ \/ /\ run.dry \/ outcome = "skipped"
          /\ Well(Done(id)) /\ UNCHANGED odoo
       \/ /\ ~run.dry /\ outcome = "created"
          /\ Send(LAMBDA n : odoo' = odoo \o [i \in 1..n |-> fresh],
                  LAMBDA n : Written(Len(odoo) + n), Failed(Wrote(run)))
       \/ /\ ~run.dry /\ outcome = "updated"
          /\ Send(LAMBDA n : odoo' = IF n = 0 THEN odoo ELSE [odoo EXCEPT ![id] = Rewrite(@)],
                  LAMBDA n : Written(id), Failed(Wrote(run)))
    /\ UNCHANGED <<source, reviews, log, changes>>

\* Another run of the connector handles one record, from its find() to its write.
Overlap(fresh, Rewrite(_)) ==
    LET same == Indices(fresh.key) IN
    /\ ~Ended
    /\ odoo' = IF same = {} THEN Append(odoo, fresh)
               ELSE IF odoo[First(same)].hash = fresh.hash THEN odoo
               ELSE [odoo EXCEPT ![First(same)] = Rewrite(@)]
    /\ odoo' # odoo
    /\ Ill(run)
    /\ UNCHANGED <<source, reviews, log, changes>>
-------------------------------------------------------------------------------
\* Every record that a run takes up moves one counter by one: "counting it here as well
\* would report one bad record as two".
AccountedOnce ==
    run.pc \in {"next", "log", "done", "raised"} =>
        run.count.created + run.count.updated + run.count.skipped + run.count.failed = run.handed

\* A dry run asks for no change; nor does a run of which everything was already there,
\* because the one before it, and nothing else, changed something.
QuietRuns == run.dry \/ (run.calm /\ run.clean) => ~run.wrote

\* No external id and no approval activity exists more often than things went wrong, plus
\* once: a repeated or overlapping call may cost one duplicate, a rerun never.
NothingTwice ==
    /\ \A i \in 1..Len(odoo) : Cardinality(Indices(odoo[i].key)) <= 1 + mishaps
    /\ \A k \in BagToSet(reviews) : reviews[k] <= 1 + mishaps
==================================================================================
