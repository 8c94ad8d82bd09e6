------------------------------- MODULE Frankfurter -------------------------------
(***************************************************************************)
(* FrankfurterConnector: exchange rates, rebased onto the currency of the  *)
(* company; a rate that moves too far is withheld until a human has seen   *)
(* to it.                                                                  *)
(***************************************************************************)
EXTENDS ConnectorRun

CONSTANTS
    Currencies,  \* configured quotes, the company's own not among them
    ApiRates,    \* rates the provider may quote, in some small unit
    Divisors,    \* rates it may quote for the company's currency
    LastDate,    \* bound: dates are 1..LastDate
    Threshold    \* rate_change_threshold, in percent

\* source.quote[c]: the rate, 0 for a date or a rate that is none.  source.date: theirs.
\* source.divisor: the company currency's rate, 0 when it is not there.  source.isBase: the
\* company's currency is the one the API counts in.  source.currency[c]: what Odoo has.
Currency == {"active", "archived", "unknown"}

\* Odoo keeps one rate of a currency for a date; odoo[i].by: who entered it last.
Key(c, date) == <<c, date>>

Init ==
    /\ RunInit
    /\ \E isBase \in BOOLEAN, rate \in ApiRates, d \in Divisors, state \in Currency :
        source = [quote |-> [c \in Currencies |-> rate], date |-> 1,
                  divisor |-> IF isBase THEN 1 ELSE d, isBase |-> isBase,
                  currency |-> [c \in Currencies |-> state]]
    /\ odoo = <<>>

Start == Begin("quotes", <<>>)

\* What has been called "rate" since: units per unit of the company's currency.
Rebased(rate, divisor) == rate \div divisor

\* _resolve_company, _fetch_quotes, _company_divisor, _load_currencies.  The company's own
\* quote is skipped.
FetchQuotes ==
    LET own == IF source.isBase THEN run ELSE Counted([run EXCEPT !.handed = @ + 1], "skipped") IN
    /\ run.pc = "quotes"
    /\ \/ /\ source.divisor = 0
          /\ Well(Aborted(run))
       \/ /\ source.divisor # 0
          /\ Well([own EXCEPT !.pc = "next",
                   !.todo = SetToSeq({[key |-> Key(c, source.date), state |-> source.currency[c],
                                       hash |-> Rebased(source.quote[c], source.divisor)] : c \in Currencies})])
       \/ Ill(Aborted(run))
    /\ UNCHANGED <<source, odoo, reviews, log, changes>>

\* The head of _sync_quote.
TakeQuote ==
    LET quote == Head(run.todo)
        Then(pc) == [TakenUp(run, quote) EXCEPT !.pc = pc] IN
    /\ run.pc = "next" /\ run.todo # <<>>
    /\ Well(IF quote.hash = 0 THEN Failed(TakenUp(run, quote))
            ELSE CASE quote.state = "unknown"  -> Then("review")
                   [] quote.state = "archived" -> Then("activate")
                   [] OTHER                    -> Then("prior"))
    /\ UNCHANGED <<source, odoo, reviews, log, changes>>

\* A currency that Odoo lacks is withheld, and fails.
ReviewCurrency ==
    /\ run.pc = "review" /\ run.at.state = "unknown"
    /\ Raise(<<"unmapped", run.at.key[1]>>, Failed(run))
    /\ UNCHANGED <<source, odoo, log, changes>>

\* _activate_currency: whatever becomes of the rate.
Activate ==
    LET active == [source EXCEPT !.currency[run.at.key[1]] = "active"]
        go == [run EXCEPT !.pc = "prior"] IN
    /\ run.pc = "activate"
    /\ IF run.dry THEN Well(go) /\ UNCHANGED source
       ELSE Send(LAMBDA n : source' = IF n = 0 THEN source ELSE active,
                 LAMBDA n : Wrote(go), Failed(Wrote(run)))
    /\ UNCHANGED <<odoo, reviews, log, changes>>

\* Mutant: the search is in the wrong order.
PriorOldest(c, date) ==
    LET earlier == {i \in 1..Len(odoo) : odoo[i].key[1] = c /\ odoo[i].key[2] < date} IN
    IF earlier = {} THEN 0
    ELSE CHOOSE i \in earlier : \A j \in earlier : odoo[j].key[2] >= odoo[i].key[2]

\* The index of the last rate strictly before a date, or 0.
PriorIndex(c, date) ==
    LET earlier == {i \in 1..Len(odoo) : odoo[i].key[1] = c /\ odoo[i].key[2] < date} IN
    IF earlier = {} THEN 0
    ELSE CHOOSE i \in earlier : \A j \in earlier : odoo[j].key[2] <= odoo[i].key[2]

Apart(a, b) == IF a > b THEN a - b ELSE b - a

\* Mutant: the threshold is a share of the new rate.
MovesTooFarOfNew(rate, prior) == Apart(rate, prior) * 100 > Threshold * rate

MovesTooFar(rate, prior) == Apart(rate, prior) * 100 > Threshold * prior

\* _prior_rate and the decision.
ComparePrior ==
    LET i == PriorIndex(run.at.key[1], run.at.key[2]) IN
    /\ run.pc = "prior"
    /\ \/ Well(IF i # 0 /\ MovesTooFar(run.at.hash, odoo[i].hash)
               THEN [run EXCEPT !.pc = "review", !.mem = odoo[i].hash]
               ELSE [run EXCEPT !.pc = "search"])
       \/ Ill(Failed(run))
    /\ UNCHANGED <<source, odoo, reviews, log, changes>>

\* _withhold_for_approval: the summary names the currency, the date and the change.
ReviewRate ==
    /\ run.pc = "review" /\ run.at.state # "unknown"
    /\ Raise(<<run.at.key, run.mem, run.at.hash>>, Onward(Counted([run EXCEPT !.mem = {}], "skipped")))
    /\ UNCHANGED <<source, odoo, log, changes>>

\* _store_rate: is there a rate for this date?
SearchRate ==
    /\ run.pc = "search"
    /\ \/ Well([run EXCEPT !.pc = "store", !.found = Lookup(run.at.key)])
       \/ Ill(Failed(run))
    /\ UNCHANGED <<source, odoo, reviews, log, changes>>

Stored(by) == [key |-> run.at.key, hash |-> run.at.hash, by |-> by]

\* Odoo refuses a second rate for the date, which is taken for another run's work.  The
\* repetition of a request that was carried out is refused as well.
Create ==
    /\ run.pc = "store" /\ run.found = NoRecord
    /\ \/ run.dry /\ Well(Onward(Counted(run, "created"))) /\ UNCHANGED odoo
       \/ /\ ~run.dry /\ Indices(run.at.key) # {}
          /\ Well(Onward(Counted(Wrote(run), "skipped"))) /\ UNCHANGED odoo
       \/ /\ ~run.dry /\ Indices(run.at.key) = {}
          /\ \/ odoo' = Append(odoo, Stored("sync")) /\ Well(Onward(Counted(Wrote(run), "created")))
             \/ odoo' = Append(odoo, Stored("sync")) /\ Ill(Onward(Counted(Wrote(run), "skipped")))
             \/ \E arrived \in {<<>>, <<Stored("sync")>>} :
                    odoo' = odoo \o arrived /\ Ill(Failed(Wrote(run)))
    /\ UNCHANGED <<source, reviews, log, changes>>

Replace ==
    LET updated == Onward(Counted(run, "updated")) IN
    /\ run.pc = "store" /\ run.found # NoRecord
    /\ \/ /\ run.found.hash = run.at.hash
          /\ Well(Onward(Counted(run, "skipped"))) /\ UNCHANGED odoo
       \/ /\ run.found.hash # run.at.hash /\ run.dry
          /\ Well(updated) /\ UNCHANGED odoo
       \/ /\ run.found.hash # run.at.hash /\ ~run.dry
          /\ Send(LAMBDA n : odoo' = IF n = 0 THEN odoo ELSE [odoo EXCEPT ![run.found.id] = Stored("sync")],
                  LAMBDA n : Wrote(updated), Failed(Wrote(run)))
    /\ UNCHANGED <<source, reviews, log, changes>>

Finish ==
    /\ run.pc = "next" /\ run.todo = <<>>
    /\ Well(Synced(run))
    /\ UNCHANGED <<source, odoo, reviews, log, changes>>
-------------------------------------------------------------------------------
\* Another run stores the rate that the one under way is about to store.
OtherRun ==
    /\ run.pc \in {"prior", "search", "store"} /\ ~run.dry
    /\ Indices(run.at.key) = {}
    /\ LET i == PriorIndex(run.at.key[1], run.at.key[2]) IN
        i # 0 => ~MovesTooFar(run.at.hash, odoo[i].hash)
    /\ odoo' = Append(odoo, Stored("sync"))
    /\ Ill(run)
    /\ UNCHANGED <<source, reviews, log, changes>>

\* The provider's rates change, on a new date or on the same.
Quote ==
    /\ \/ \E c \in Currencies, rate \in ApiRates \cup {0}, day \in {0, 1} :
            /\ source.date + day <= LastDate
            /\ source' = [source EXCEPT !.quote[c] = rate, !.date = @ + day]
       \/ ~source.isBase /\ \E d \in Divisors \cup {0} : source' = [source EXCEPT !.divisor = d]
    /\ source' # source
    /\ Change
    /\ UNCHANGED <<odoo, reviews>>

\* A person archives, restores or adds a currency.
Administer ==
    /\ \E c \in Currencies, state \in {"active", "archived"} : source' = [source EXCEPT !.currency[c] = state]
    /\ source' # source
    /\ Change
    /\ UNCHANGED <<odoo, reviews>>

\* "Approve it by entering the rate manually": for a currency, a date and a rate that were
\* withheld.
Approve ==
    /\ \E k \in BagToSet(reviews) :
        /\ Len(k) = 3
        /\ LET entered == [key |-> k[1], hash |-> k[3], by |-> "hand"] IN
           odoo' = IF Indices(k[1]) = {} THEN Append(odoo, entered)
                   ELSE [odoo EXCEPT ![First(Indices(k[1]))] = entered]
    /\ odoo' # odoo
    /\ Change
    /\ UNCHANGED <<source, reviews>>

Step ==
    \/ FetchQuotes \/ TakeQuote \/ ReviewCurrency \/ Activate \/ ComparePrior \/ ReviewRate
    \/ SearchRate \/ Create \/ Replace \/ Finish \/ WriteLog

Next == Start \/ Step \/ Crash \/ OtherRun \/ Quote \/ Administer \/ Approve \/ CloseReview

Spec == Init /\ [][Next]_vars
-------------------------------------------------------------------------------
TypeOK ==
    /\ RunTypeOK
    /\ run.pc \in {"idle", "quotes", "next", "review", "activate", "prior", "search", "store", "log",
                   "done", "raised"}
    /\ source.quote \in [Currencies -> ApiRates \cup {0}]
    /\ source.currency \in [Currencies -> Currency]
    /\ source.date \in 1..LastDate
    /\ odoo \in Seq([key : Currencies \X (1..LastDate), hash : Nat, by : {"sync", "hand"}])

\* "move more than the threshold", measured from the earlier rate.
Leaps(rate, prior) == Apart(rate, prior) * 100 > Threshold * prior

\* The last rate before a date, for the properties.
IsPrior(i, c, date) ==
    /\ odoo[i].key[1] = c /\ odoo[i].key[2] < date
    /\ \A j \in 1..Len(odoo) : odoo[j].key[1] = c /\ odoo[j].key[2] < date => odoo[j].key[2] <= odoo[i].key[2]

\* Every rate of the day is stored, or withheld because it moves too far.
InStep ==
    \A c \in Currencies :
        LET rate == Rebased(source.quote[c], source.divisor) IN
        \/ Holds(Key(c, source.date), rate)
        \/ \E i \in 1..Len(odoo) : IsPrior(i, c, source.date) /\ Leaps(rate, odoo[i].hash)

SuccessMeansSynced ==
    run.pc = "done" /\ log.status = "success" /\ run.steady /\ ~run.dry => InStep

\* Withheld rates and currencies that Odoo lacks have an open activity.
GapsAreFlagged ==
    run.pc = "done" /\ run.clean /\ ~run.dry /\ ~run.fatal =>
        \A c \in Currencies :
            LET rate == Rebased(source.quote[c], source.divisor) IN
            \/ source.quote[c] = 0
            \/ source.currency[c] = "unknown" /\ BagIn(<<"unmapped", c>>, reviews)
            \/ \E i \in 1..Len(odoo) :
                /\ IsPrior(i, c, source.date) /\ Leaps(rate, odoo[i].hash)
                /\ BagIn(<<Key(c, source.date), odoo[i].hash, rate>>, reviews)
            \/ Holds(Key(c, source.date), rate)

\* No rate that the connector stored leaps away from the one before it, unless a person
\* entered that one.
RatesMoveSlowly ==
    \A i, p \in 1..Len(odoo) :
        IsPrior(p, odoo[i].key[1], odoo[i].key[2]) /\ odoo[i].by = "sync" /\ odoo[p].by = "sync" =>
            ~Leaps(odoo[i].hash, odoo[p].hash)
==================================================================================
