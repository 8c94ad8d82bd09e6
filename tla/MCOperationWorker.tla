---------------------------- MODULE MCOperationWorker ----------------------------
(***************************************************************************)
(* Instances of the Microsoft 365 operation queue small enough for TLC.    *)
(***************************************************************************)
EXTENDS OperationWorker, TLC

CONSTANTS hire, again, leave, fix, other

WorkerSymmetry == Permutations(Workers)

\* What each operation of an instance is.
KindsOf ==
    hire :> "onboarding" @@ again :> "onboarding" @@ leave :> "offboarding"
        @@ fix :> "remediation" @@ other :> "user_360"
KindOf == [o \in Ops |-> KindsOf[o]]

\* sync_to_odoo finds the operation it was run for; or it finds none, as for the
\* first remediation of a user on the addon.
OwnRecord == [o \in Ops |-> o]
NewRecord == [o \in Ops |-> IF Kind[o] = "remediation" THEN NoOp ELSE o]

Nothing    == {}
Everything == FaultKinds
==================================================================================
