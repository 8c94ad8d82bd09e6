-------------------------------- MODULE NagerDate --------------------------------
(***************************************************************************)
(* NagerDateConnector: public holidays become calendar events.             *)
(***************************************************************************)
EXTENDS ConnectorRun

CONSTANTS
    Calendars,  \* _pairs(): country and year
    Holidays,   \* rows of the feed, told apart by what _external_id makes of them
    FeedOf,     \* FeedOf[c]: the holidays of a calendar
    Versions    \* what else a row may say

\* Of a row: a version, or "absent", "keyless" (no object, no date or no name: it has no
\* external id) or "undated" (a date that is none).
Rows == Versions \cup {"absent", "keyless", "undated"}

Init ==
    /\ RunInit
    /\ source = [h \in Holidays |-> CHOOSE v \in Versions : TRUE]
    /\ odoo = <<>>

\* run() and _pairs().
Start == Begin("next", SetToSeq({[key |-> c, hash |-> "calendar"] : c \in Calendars}))

Row(h)   == [key |-> h, hash |-> source[h]]
Keyed(c) == {h \in FeedOf[c] : source[h] \notin {"absent", "keyless"}}

\* _sync_calendar: the feed is read and preloaded.  An error, or a body that is no list,
\* fails the calendar; a preload that fails is only noted.
FetchCalendar ==
    LET c == Head(run.todo).key
        rows == SetToSeq({Row(h) : h \in {x \in FeedOf[c] : source[x] # "absent"}})
        Fetched(cache) == [run EXCEPT !.todo = rows \o Tail(@), !.cache = @ \cup cache]
    IN
    /\ run.pc = "next" /\ run.todo # <<>>
    /\ c \in Calendars
    /\ \/ Well(Fetched(Preloaded(Keyed(c))))
       \/ Ill(Fetched({}))
       \/ Ill(Failed(TakenUp(run, Nothing)))
    /\ UNCHANGED <<source, odoo, reviews, log, changes>>

\* _validated: a row that cannot be mapped fails.  One without a date or a name has no
\* external id, and so none of them is withheld for approval.
TakeHoliday ==
    LET row == Head(run.todo) IN
    /\ run.pc = "next" /\ run.todo # <<>>
    /\ row.key \in Holidays
    /\ Well(IF row.hash \in {"keyless", "undated"} THEN Failed(TakenUp(run, row))
            ELSE [TakenUp(run, row) EXCEPT !.pc = "find"])
    /\ UNCHANGED <<source, odoo, reviews, log, changes>>

Event(h, version) == [key |-> h, hash |-> version]

\* _sync_holiday
SyncHoliday ==
    Upsert(Event(run.at.key, run.at.hash),
           LAMBDA old : Event(run.at.key, run.at.hash),
           LAMBDA r, outcome, id : Onward(r))

Finish ==
    /\ run.pc = "next" /\ run.todo = <<>>
    /\ Well(Synced(run))
    /\ UNCHANGED <<source, odoo, reviews, log, changes>>

\* Another run of this connector, with the same feed.
OtherRun ==
    \E h \in Holidays :
        /\ source[h] \in Versions
        /\ Overlap(Event(h, source[h]), LAMBDA old : Event(h, source[h]))

\* The provider changes a row.
Republish ==
    /\ \E h \in Holidays, row \in Rows : row # source[h] /\ source' = [source EXCEPT ![h] = row]
    /\ Change
    /\ UNCHANGED <<odoo, reviews>>

Step == FetchCalendar \/ TakeHoliday \/ Find \/ SyncHoliday \/ Finish \/ WriteLog

Next == Start \/ Step \/ Crash \/ OtherRun \/ Republish

Spec == Init /\ [][Next]_vars
-------------------------------------------------------------------------------
TypeOK ==
    /\ RunTypeOK
    /\ run.pc \in {"idle", "next", "find", "apply", "log", "done", "raised"}
    /\ source \in [Holidays -> Rows]
    /\ odoo \in Seq([key : Holidays, hash : Versions])

\* Every holiday of the feed has its event, and the event says what the feed says.
InStep == \A h \in Holidays : source[h] \in Versions => Holds(h, source[h])

\* A run that says of itself that everything succeeded, while the feed stayed as it was,
\* leaves the calendar in step with the feed.
SuccessMeansSynced ==
    run.pc = "done" /\ log.status = "success" /\ run.steady /\ ~run.dry => InStep
==================================================================================
