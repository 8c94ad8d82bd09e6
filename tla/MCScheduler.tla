------------------------------- MODULE MCScheduler -------------------------------
(***************************************************************************)
(* Three providers, the first of them so often that it is always overdue.  *)
(***************************************************************************)
EXTENDS Scheduler

ThreeProviders == <<"github", "frankfurter", "nager_date">>

Intervals == [p \in Providers |-> CASE p = "github"      -> 2
                                    [] p = "frankfurter" -> 3
                                    [] OTHER             -> 4]
==================================================================================
