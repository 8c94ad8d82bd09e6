------------------------------ MODULE MCSyncRequest ------------------------------
(***************************************************************************)
(* Instances of the Sync Now queue small enough for TLC.                   *)
(***************************************************************************)
EXTENDS SyncRequest

\* Faults after which no row is left in "running".
Harmless == {"poll", "claimLost"}

Everything == FaultKinds

==================================================================================
