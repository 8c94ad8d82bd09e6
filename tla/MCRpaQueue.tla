------------------------------- MODULE MCRpaQueue -------------------------------
(***************************************************************************)
(* Instances of the RPA queue small enough for TLC.                        *)
(***************************************************************************)
EXTENDS RpaQueue, TLC

\* Every worker shares one ledger file (one machine, one working directory).
OneHost == [w \in Workers |-> CHOOSE h \in Hosts : TRUE]

WorkerSymmetry == Permutations(Workers)

\* A kill may come anywhere, or anywhere but between the effect and the moment its
\* outcome is safe in the ledger file.
Anywhere     == Points
EffectIsSafe == Points \ {"confirm", "ledgerOpen", "ledgerDump"}
================================================================================
