------------------------------ MODULE RpaLifecycle ------------------------------
(***************************************************************************)
(* What the RPA queue promises about a job, whatever the workers do: the   *)
(* status follows the addon's allowed_transitions table, and each stint in *)
(* "running" belongs to the one worker whose claim opened it.              *)
(***************************************************************************)
CONSTANTS Jobs, Workers

VARIABLES
    status,   \* status[j]: the job's state field
    owners    \* owners[j]: the workers whose claim was accepted since j was queued

vars == <<status, owners>>

States == {"draft", "queued", "running", "success", "failed", "needs_human"}

\* RpaJob.write, the table of legal moves of the state field.
AllowedTransitions ==
    [s \in States |->
        CASE s = "draft"                      -> {"queued"}
          [] s = "queued"                     -> {"running"}
          [] s = "running"                    -> {"success", "failed", "needs_human"}
          [] s \in {"failed", "needs_human"}  -> {"queued"}
          [] s = "success"                    -> {}]

\* RpaJob.create accepts a new job in one of two states only.
Init ==
    /\ status \in [Jobs -> {"draft", "queued"}]
    /\ owners = [j \in Jobs |-> {}]

Move(j, s) ==
    /\ s \in AllowedTransitions[status[j]]
    /\ status' = [status EXCEPT ![j] = s]

\* One worker takes the queued job; nobody shares the stint it opens.
Claim(j, w) ==
    /\ Move(j, "running")
    /\ owners' = [owners EXCEPT ![j] = {w}]

\* The stint ends in an outcome; its owner stays on record.
Finish(j) ==
    /\ \E s \in {"success", "failed", "needs_human"} : Move(j, s)
    /\ UNCHANGED owners

\* Queue / Run and Retry put the job in the queue and forget the last owner.
Enqueue(j) ==
    /\ Move(j, "queued")
    /\ owners' = [owners EXCEPT ![j] = {}]

Next == \E j \in Jobs : Enqueue(j) \/ Finish(j) \/ \E w \in Workers : Claim(j, w)

Spec == Init /\ [][Next]_vars
================================================================================
