-------------------------------- MODULE OpenMeteo --------------------------------
(***************************************************************************)
(* OpenMeteoConnector: a forecast for every contact that has coordinates.  *)
(***************************************************************************)
EXTENDS ConnectorRun

CONSTANTS
    Contacts,  \* ids of contacts: 1..n
    Places,    \* coordinates
    Versions   \* what the provider may say of a place

\* odoo[c].at: where contact c is: a place, "zero" (0/0: not geolocated) or "outside" the
\* range of coordinates.  odoo[c].hash: x_forecast_payload.  source.forecast[p]: a version
\* or "broken".  source.named: OPEN_METEO_PARTNER_IDS, or {}.
Whereabouts == Places \cup {"zero", "outside"}
NoForecast  == <<>>

Init ==
    /\ RunInit
    /\ \E named \in SUBSET Contacts :
        source = [forecast |-> [p \in Places |-> CHOOSE v \in Versions : TRUE], named |-> named]
    /\ odoo \in [Contacts -> [key : {"contact"}, hash : {NoForecast}, at : Places]]

Start == Begin("select", <<>>)

Selected == IF source.named # {} THEN source.named ELSE {c \in Contacts : odoo[c].at # "zero"}

\* _select_partners: the contacts as they are now.  Without them there is no run.
Select ==
    /\ run.pc = "select"
    /\ \/ Well([run EXCEPT !.pc = "next",
                           !.todo = SetToSeq({[key |-> c, at |-> odoo[c].at, stored |-> odoo[c].hash] : c \in Selected})])
       \/ Ill(Aborted(run))
    /\ UNCHANGED <<source, odoo, reviews, log, changes>>

\* _sync_partner, up to the request.
TakePartner ==
    LET partner == Head(run.todo) IN
    /\ run.pc = "next" /\ run.todo # <<>>
    /\ Well(CASE partner.at = "outside" -> Failed(TakenUp(run, partner))
              [] partner.at = "zero"    -> [TakenUp(run, partner) EXCEPT !.pc = "review"]
              [] OTHER                  -> [TakenUp(run, partner) EXCEPT !.pc = "fetch"])
    /\ UNCHANGED <<source, odoo, reviews, log, changes>>

ReviewPartner ==
    /\ run.pc = "review"
    /\ Raise(run.at.key, Onward(Counted(run, "skipped")))
    /\ UNCHANGED <<source, odoo, log, changes>>

\* _fetch_days, which rejects every series that is not whole, and the comparison with what
\* was stored when the run began.
FetchDays ==
    LET days == source.forecast[run.at.at]
        payload == <<run.at.at, days>> IN
    /\ run.pc = "fetch"
    /\ \/ Well(CASE days = "broken"          -> Failed(run)
                 [] payload = run.at.stored  -> Onward(Counted(run, "skipped"))
                 [] OTHER                    -> [run EXCEPT !.pc = "write", !.mem = payload])
       \/ Ill(Failed(run))
    /\ UNCHANGED <<source, odoo, reviews, log, changes>>

\* Mutant: what is about to be written is counted.
WriteCountedFirst ==
    LET counted == Counted(run, IF run.at.stored = NoForecast THEN "created" ELSE "updated") IN
    /\ run.pc = "write"
    /\ IF run.dry THEN Well(Onward(counted)) /\ UNCHANGED odoo
       ELSE Send(LAMBDA n : odoo' = IF n = 0 THEN odoo ELSE [odoo EXCEPT ![run.at.key].hash = run.mem],
                 LAMBDA n : Onward(Wrote(counted)), Failed(Wrote(counted)))
    /\ UNCHANGED <<source, reviews, log, changes>>

\* _write, and the counters after it.
Write ==
    LET counted == Onward(Counted(run, IF run.at.stored = NoForecast THEN "created" ELSE "updated")) IN
    /\ run.pc = "write"
    /\ IF run.dry THEN Well(counted) /\ UNCHANGED odoo
       ELSE Send(LAMBDA n : odoo' = IF n = 0 THEN odoo ELSE [odoo EXCEPT ![run.at.key].hash = run.mem],
                 LAMBDA n : Wrote(counted), Failed(Wrote(run)))
    /\ UNCHANGED <<source, reviews, log, changes>>

Finish ==
    /\ run.pc = "next" /\ run.todo = <<>>
    /\ Well(Synced([run EXCEPT !.mem = {}]))
    /\ UNCHANGED <<source, odoo, reviews, log, changes>>

\* Another run writes the forecast of a contact.
OtherRun ==
    /\ ~Ended
    /\ \E c \in Selected :
        /\ odoo[c].at \in Places /\ source.forecast[odoo[c].at] # "broken"
        /\ odoo' = [odoo EXCEPT ![c].hash = <<odoo[c].at, source.forecast[odoo[c].at]>>]
    /\ odoo' # odoo
    /\ Ill(run)
    /\ UNCHANGED <<source, reviews, log, changes>>

\* There is a new forecast; a contact moves, or its coordinates do.
NewForecast ==
    /\ \E p \in Places, v \in Versions \cup {"broken"} : source' = [source EXCEPT !.forecast[p] = v]
    /\ source' # source
    /\ Change
    /\ UNCHANGED <<odoo, reviews>>

Move ==
    /\ \E c \in Contacts, w \in Whereabouts : odoo' = [odoo EXCEPT ![c].at = w]
    /\ odoo' # odoo
    /\ Change
    /\ UNCHANGED <<source, reviews>>

Step == Select \/ TakePartner \/ ReviewPartner \/ FetchDays \/ Write \/ Finish \/ WriteLog

Next == Start \/ Step \/ Crash \/ OtherRun \/ NewForecast \/ Move \/ CloseReview

Spec == Init /\ [][Next]_vars
-------------------------------------------------------------------------------
Forecasts == Places \X Versions

TypeOK ==
    /\ RunTypeOK
    /\ run.pc \in {"idle", "select", "next", "review", "fetch", "write", "log", "done", "raised"}
    /\ source.named \subseteq Contacts
    /\ odoo \in [Contacts -> [key : {"contact"}, hash : Forecasts \cup {NoForecast}, at : Whereabouts]]
    /\ BagToSet(reviews) \subseteq Contacts

\* Every contact that was asked for has the forecast of the place where it is.
InStep ==
    \A c \in Selected : odoo[c].at \in Places => odoo[c].hash = <<odoo[c].at, source.forecast[odoo[c].at]>>

SuccessMeansSynced ==
    run.pc = "done" /\ log.status = "success" /\ run.steady /\ ~run.dry => InStep

\* Contacts that were named and have no coordinates have an open activity.
GapsAreFlagged ==
    run.pc = "done" /\ run.clean /\ ~run.dry /\ ~run.fatal =>
        {c \in Selected : odoo[c].at = "zero"} \subseteq BagToSet(reviews)
==================================================================================
