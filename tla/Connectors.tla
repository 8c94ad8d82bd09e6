------------------------------- MODULE Connectors -------------------------------
(***************************************************************************)
(* The five connectors side by side.  They share no record and no run, so  *)
(* one of them is at work, whichever; each keeps the promises of           *)
(* ConnectorRun in its own way.                                            *)
(***************************************************************************)
EXTENDS ConnectorRun

CONSTANTS
    Calendars, Holidays, FeedOf,            \* NagerDate
    Users, Posts, AuthorOf, Anonymous,      \* JsonPlaceholder
    Contacts, Places,                       \* OpenMeteo
    Currencies, ApiRates, Divisors, LastDate, Threshold,  \* Frankfurter
    Bodies,                                 \* GitHub
    Versions,
    ChangesOf   \* bound: ChangesOf[provider] of the MaxChanges

Providers == {"nager_date", "jsonplaceholder", "open_meteo", "frankfurter", "github"}

ASSUME ConnectorConstantsOK ==
    /\ FeedOf \in [Calendars -> SUBSET Holidays] /\ Calendars \cap Holidays = {}
    /\ AuthorOf \in [Posts -> Users \cup {Anonymous}] /\ Anonymous \notin Users
    /\ IsFiniteSet(Users) /\ IsFiniteSet(Posts)
    /\ Contacts = 1..Cardinality(Contacts)
    /\ ApiRates \subseteq Nat \ {0} /\ Divisors \subseteq Nat \ {0}
    /\ \A r \in ApiRates, d \in Divisors : r >= d
    /\ IsFiniteSet(Currencies) /\ LastDate \in Nat \ {0} /\ Threshold \in Nat
    /\ "blank" \notin Versions
    /\ ChangesOf \in [Providers -> 0..MaxChanges]

VARIABLE provider   \* the connector at work

NG == INSTANCE NagerDate       WITH MaxChanges <- ChangesOf["nager_date"]
JP == INSTANCE JsonPlaceholder WITH MaxChanges <- ChangesOf["jsonplaceholder"]
OM == INSTANCE OpenMeteo       WITH MaxChanges <- ChangesOf["open_meteo"]
FF == INSTANCE Frankfurter     WITH MaxChanges <- ChangesOf["frankfurter"]
GH == INSTANCE GitHub          WITH MaxChanges <- ChangesOf["github"]

Init ==
    \/ provider = "nager_date"      /\ NG!Init
    \/ provider = "jsonplaceholder" /\ JP!Init
    \/ provider = "open_meteo"      /\ OM!Init
    \/ provider = "frankfurter"     /\ FF!Init
    \/ provider = "github"          /\ GH!Init

NagerDate       == provider = "nager_date"      /\ NG!Next /\ UNCHANGED provider
JsonPlaceholder == provider = "jsonplaceholder" /\ JP!Next /\ UNCHANGED provider
OpenMeteo       == provider = "open_meteo"      /\ OM!Next /\ UNCHANGED provider
Frankfurter     == provider = "frankfurter"     /\ FF!Next /\ UNCHANGED provider
GitHub          == provider = "github"          /\ GH!Next /\ UNCHANGED provider

Next == NagerDate \/ JsonPlaceholder \/ OpenMeteo \/ Frankfurter \/ GitHub

Spec == Init /\ [][Next]_<<vars, provider>>
-------------------------------------------------------------------------------
\* The promises of the five, by whichever is at work; see there.
TypeOK ==
    /\ provider \in Providers
    /\ provider = "nager_date"      => NG!TypeOK
    /\ provider = "jsonplaceholder" => JP!TypeOK
    /\ provider = "open_meteo"      => OM!TypeOK
    /\ provider = "frankfurter"     => FF!TypeOK
    /\ provider = "github"          => GH!TypeOK

\* A run that reports success leaves Odoo in step with the provider (for GitHub, both with
\* each other, when nothing went wrong).
SuccessMeansSynced ==
    /\ provider = "nager_date"      => NG!SuccessMeansSynced
    /\ provider = "jsonplaceholder" => JP!SuccessMeansSynced
    /\ provider = "open_meteo"      => OM!SuccessMeansSynced
    /\ provider = "frankfurter"     => FF!SuccessMeansSynced
    /\ provider = "github"          => GH!SuccessMeansSynced

\* What a run withheld or imported in part is in an open approval activity.
GapsAreFlagged ==
    /\ provider = "jsonplaceholder" => JP!GapsAreFlagged
    /\ provider = "open_meteo"      => OM!GapsAreFlagged
    /\ provider = "frankfurter"     => FF!GapsAreFlagged

\* Nothing is kept twice by a rerun: no record or activity (NothingTwice), no post in two
\* models, no comment and no issue made from a task.
OnceForGood ==
    /\ provider # "open_meteo"     => NothingTwice
    /\ provider = "jsonplaceholder" => JP!PostsOnce
    /\ provider = "github"          => GH!PostedOnce

\* A stored rate does not leap away from the stored rate before it.
RatesMoveSlowly == provider = "frankfurter" => FF!RatesMoveSlowly
==================================================================================
