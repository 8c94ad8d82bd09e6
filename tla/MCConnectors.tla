------------------------------ MODULE MCConnectors ------------------------------
(***************************************************************************)
(* Connectors with feeds small enough for TLC: two calendars, a post with  *)
(* an author, two contacts in two places, one currency over three days,    *)
(* one issue and one comment.                                              *)
(***************************************************************************)
EXTENDS Connectors

Feeds   == [c \in Calendars |-> IF c = "us" THEN {"h1", "h2"} ELSE {"h3"}]
Authors == [p \in Posts |-> "ann"]

\* Enough for a change in the middle of a run and another before the next; a rate needs
\* three for two dates and a correction.
Changes == [p \in Providers |-> CASE p = "frankfurter" -> 3
                                  [] p \in {"nager_date", "open_meteo"} -> 1
                                  [] OTHER -> 2]
==================================================================================
