----------------------------- MODULE RpaQueueProofs -----------------------------
(***************************************************************************)
(* Proofs about the RPA queue, for any jobs, workers, hosts and bounds.    *)
(***************************************************************************)
EXTENDS RpaQueue, TLAPS

\* Facts about the numbers and the rest position that the leaves below need.
LEMMA TriesType == 0 \in 0..WriteTries /\ WriteTries \in 0..WriteTries
  BY ConstantsOK

\* The rest position is a value of the type of the locals.
LEMMA RestType == Rest \in Locals
  BY TriesType DEF Rest, Locals, Outcomes

\* Rewriting some fields of a record keeps its type.
LEMMA RecordUpdate ==
  ASSUME NEW r \in JobRecord
  PROVE  /\ \A s \in States : /\ [r EXCEPT !.state = s] \in JobRecord
                              /\ [r EXCEPT !.state = s, !.overdue = FALSE] \in JobRecord
         /\ \A s \in States, n \in Nat : 
               /\ [r EXCEPT !.state = s, !.attempt = n] \in JobRecord
               /\ [r EXCEPT !.state = s, !.overdue = FALSE, !.attempt = n] \in JobRecord
         /\ \A s \in States, b \in BOOLEAN :
               [r EXCEPT !.state = s, !.overdue = FALSE, !.done = b] \in JobRecord
         /\ [r EXCEPT !.overdue = TRUE] \in JobRecord
  BY DEF JobRecord

\* A write of an outcome sets the state and the evidence it names, within the type.
LEMMA WrittenState ==
  ASSUME NEW r \in JobRecord, NEW s, NEW d
  PROVE  /\ [r EXCEPT !.state = s, !.overdue = FALSE, !.done = d].state = s
         /\ [r EXCEPT !.state = s, !.overdue = FALSE, !.done = d].done = d
  BY DEF JobRecord

\* Rewriting some fields of a worker's locals keeps their type.
LEMMA LocalsUpdate ==
  ASSUME NEW r \in Locals
  PROVE  /\ \A S \in SUBSET Jobs : [r EXCEPT !.scan = S] \in Locals
         /\ \A S \in SUBSET Jobs : [r EXCEPT !.scan = S, !.job = NoJob] \in Locals
         /\ \A j \in Jobs : [r EXCEPT !.job = j] \in Locals
         /\ \A j \in Jobs, n \in Nat : [r EXCEPT !.job = j, !.attempt = n] \in Locals
         /\ \A b \in BOOLEAN : [r EXCEPT !.done = b] \in Locals
         /\ \A S \in SUBSET Jobs : [r EXCEPT !.seen = S] \in Locals
         /\ \A o \in Outcomes, t \in 0..WriteTries :
               [r EXCEPT !.result = o, !.tries = t] \in Locals
         /\ \A t \in 0..WriteTries : [r EXCEPT !.tries = t] \in Locals
  BY DEF Locals

-------------------------------------------------------------------------------
(* Types                                                                   *)

\* A fresh queue and workers at rest have their types.
LEMMA InitType == Init => TypeOK
  <1> SUFFICES ASSUME Init PROVE TypeOK
    OBVIOUS
  <1>1. ASSUME NEW s \in {"draft", "queued"}
        PROVE  [state |-> s, overdue |-> FALSE, attempt |-> 0, done |-> FALSE] \in JobRecord
    BY DEF JobRecord, States, Lifecycle!States
  <1>2. job \in [Jobs -> JobRecord]
    BY <1>1 DEF Init
  <1>3. loc \in [Workers -> Locals]
    BY RestType DEF Init
  <1>4. pc \in [Workers -> Points] /\ \A w \in Workers : HoldsWhatItNeeds(w)
    BY DEF Init, Points, HoldsWhatItNeeds
  <1>5. QED
    BY <1>2, <1>3, <1>4 DEF Init, TypeOK

\* A step of an operator or of the clock touches neither pc nor loc.
LEMMA EnvironmentType ==
  ASSUME TypeOK, NEW j \in Jobs, Operator(j) \/ BecomeOverdue(j)
  PROVE  TypeOK'
  <1>1. job[j] \in JobRecord /\ job[j].attempt + 1 \in Nat
    BY DEF TypeOK, JobRecord
  <1>2. "queued" \in States
    BY DEF States, Lifecycle!States
  <1>3. job' \in [Jobs -> JobRecord]
    <2>1. CASE Queue(j)
      BY <1>1, <1>2, <2>1, RecordUpdate DEF TypeOK, Queue
    <2>2. CASE Retry(j)
      <3>1. [job[j] EXCEPT !.state = "queued", !.attempt = job[j].attempt + 1] \in JobRecord
        BY <1>1, <1>2, RecordUpdate
      <3>2. job' = [job EXCEPT ![j] = [job[j] EXCEPT !.state = "queued",
                                                    !.attempt = job[j].attempt + 1]]
        BY <2>2 DEF Retry
      <3>3. QED BY <3>1, <3>2 DEF TypeOK
    <2>3. CASE BecomeOverdue(j)
      BY <1>1, <2>3, RecordUpdate DEF TypeOK, BecomeOverdue
    <2>4. QED BY <2>1, <2>2, <2>3 DEF Operator
  <1>4. claimers' \in [Jobs -> SUBSET Workers]
    BY DEF TypeOK, Operator, Queue, Retry, BecomeOverdue
  <1>5. UNCHANGED <<effects, ledger, pc, loc, mishaps>>
    BY DEF Operator, Queue, Retry, BecomeOverdue
  <1>6. QED
    BY <1>3, <1>4, <1>5 DEF TypeOK, HoldsWhatItNeeds

\* The shared moves of a worker.
LEMMA ReleaseType ==
  ASSUME TypeOK, NEW w \in Workers, Release(w)
  PROVE  /\ pc' \in [Workers -> Points]
         /\ loc' \in [Workers -> Locals]
         /\ \A v \in Workers : HoldsWhatItNeeds(v)'
  BY RestType DEF TypeOK, Release, Goto, Points, HoldsWhatItNeeds

\* Reporting an outcome leaves a worker with an outcome and attempts to write it.
LEMMA ReportType ==
  ASSUME TypeOK, NEW w \in Workers, NEW r \in Outcomes, Report(w, r), loc[w].job \in Jobs
  PROVE  /\ pc' \in [Workers -> Points]
         /\ loc' \in [Workers -> Locals]
         /\ \A v \in Workers : HoldsWhatItNeeds(v)'
  <1>1. pc' \in [Workers -> Points] /\ pc' = [pc EXCEPT ![w] = "writeResult"]
    BY DEF TypeOK, Report, Goto, Points
  <1>2. loc[w] \in Locals
    BY DEF TypeOK
  <1>3. [loc[w] EXCEPT !.result = r, !.tries = WriteTries] \in Locals
    BY <1>2, TriesType, LocalsUpdate
  <1>4. loc' = [loc EXCEPT ![w] = [loc[w] EXCEPT !.result = r, !.tries = WriteTries]]
    BY DEF Report
  <1>5. loc' \in [Workers -> Locals]
    BY <1>3, <1>4 DEF TypeOK
  <1>6. WriteTries > 0
    BY ConstantsOK
  <1>7. loc'[w].job = loc[w].job /\ loc'[w].result = r /\ loc'[w].tries = WriteTries
    BY <1>2, <1>4 DEF TypeOK, Locals
  <1>8. ASSUME NEW v \in Workers PROVE HoldsWhatItNeeds(v)'
    <2>1. CASE v = w
      BY <1>6, <1>7, <2>1 DEF HoldsWhatItNeeds
    <2>2. CASE v # w
      BY <1>1, <1>4, <2>2 DEF TypeOK, HoldsWhatItNeeds
    <2>3. QED BY <2>1, <2>2
  <1>9. QED BY <1>1, <1>5, <1>8

\* A failed attempt either gives up or leaves at least one more.
LEMMA AttemptFailsType ==
  ASSUME TypeOK, NEW w \in Workers, pc[w] = "writeResult", AttemptFails(w)
  PROVE  /\ pc' \in [Workers -> Points]
         /\ loc' \in [Workers -> Locals]
         /\ \A v \in Workers : HoldsWhatItNeeds(v)'
  <1>1. CASE loc[w].tries = 1
    BY <1>1, ReleaseType DEF AttemptFails
  <1>2. CASE loc[w].tries # 1
    <2>1. loc[w] \in Locals /\ loc[w].tries \in 0..WriteTries /\ loc[w].tries > 0
      BY DEF TypeOK, HoldsWhatItNeeds, Locals
    <2>2. loc[w].tries - 1 \in 0..WriteTries /\ loc[w].tries - 1 > 0
      BY <1>2, <2>1, ConstantsOK
    <2>3. [loc[w] EXCEPT !.tries = loc[w].tries - 1] \in Locals
      BY <2>1, <2>2, LocalsUpdate
    <2>4. loc' = [loc EXCEPT ![w] = [loc[w] EXCEPT !.tries = loc[w].tries - 1]] /\ pc' = pc
      BY <1>2 DEF AttemptFails
    <2>5. loc' \in [Workers -> Locals]
      BY <2>3, <2>4 DEF TypeOK
    <2>6. ASSUME NEW v \in Workers PROVE HoldsWhatItNeeds(v)'
      BY <2>1, <2>2, <2>4 DEF TypeOK, HoldsWhatItNeeds, Locals
    <2>7. QED BY <2>4, <2>5, <2>6 DEF TypeOK
  <1>3. QED BY <1>1, <1>2

\* The claim's write keeps the types of the record and of its claimers.
LEMMA SetRunningType ==
  ASSUME TypeOK, NEW w \in Workers, NEW j \in Jobs, NEW n \in Nat, SetRunning(w, j, n)
  PROVE  job' \in [Jobs -> JobRecord] /\ claimers' \in [Jobs -> SUBSET Workers]
  <1>1. job[j] \in JobRecord /\ "running" \in States
    BY DEF TypeOK, States, Lifecycle!States
  <1>2. QED
    BY <1>1, RecordUpdate DEF TypeOK, SetRunning

\* Counting something that went wrong keeps the counter a number.
LEMMA MishapType ==
  ASSUME TypeOK, Mishap \/ NoMishap
  PROVE  mishaps' \in Nat
  BY DEF TypeOK, Mishap, NoMishap

\* One step of a worker, action by action.
LEMMA StepType ==
  ASSUME TypeOK, NEW w \in Workers, Step(w)
  PROVE  TypeOK'
  <1>1. CASE Scan(w)
    <2>1. {j \in Jobs : job[j].state = "running" /\ job[j].overdue} \in SUBSET Jobs
      OBVIOUS
    <2>2. loc[w] \in Locals
      BY DEF TypeOK
    <2>3. loc' \in [Workers -> Locals]
      BY <1>1, <2>1, <2>2, LocalsUpdate DEF Scan, TypeOK
    <2>4. pc' = [pc EXCEPT ![w] = "recover"] /\ "recover" \in Points
      BY <1>1 DEF Scan, Goto, Points
    <2>5. \A v \in Workers : v # w => loc'[v] = loc[v]
      BY <1>1 DEF Scan, TypeOK
    <2>6. \A v \in Workers : HoldsWhatItNeeds(v)'
      BY <2>4, <2>5 DEF TypeOK, HoldsWhatItNeeds
    <2>7. mishaps' \in Nat
      BY <1>1, MishapType DEF Scan
    <2>8. QED
      BY <1>1, <2>3, <2>4, <2>6, <2>7 DEF Scan, TypeOK
  <1>2. CASE RecoverCheck(w)
    <2>1. PICK j \in loc[w].scan :
            \/ /\ Goto(w, "recoverWrite")
               /\ loc' = [loc EXCEPT ![w].job = j]
               /\ NoMishap
            \/ /\ loc' = [loc EXCEPT ![w].scan = @ \ {j}]
               /\ Mishap \/ NoMishap
               /\ UNCHANGED pc
      BY <1>2 DEF RecoverCheck
    <2>2. loc[w] \in Locals /\ j \in Jobs /\ loc[w].scan \ {j} \in SUBSET Jobs
      BY <2>1 DEF TypeOK, Locals
    <2>3. CASE Goto(w, "recoverWrite") /\ loc' = [loc EXCEPT ![w].job = j] /\ NoMishap
      <3>1. loc' \in [Workers -> Locals]
        BY <2>2, <2>3, LocalsUpdate DEF TypeOK
      <3>2. pc' = [pc EXCEPT ![w] = "recoverWrite"] /\ "recoverWrite" \in Points
        BY <2>3 DEF Goto, Points
      <3>3. \A v \in Workers : HoldsWhatItNeeds(v)'
        BY <2>2, <2>3, <3>2 DEF TypeOK, HoldsWhatItNeeds, Locals
      <3>4. QED
        BY <1>2, <2>3, <3>1, <3>2, <3>3, MishapType DEF RecoverCheck, TypeOK
    <2>4. CASE loc' = [loc EXCEPT ![w].scan = @ \ {j}] /\ (Mishap \/ NoMishap) /\ UNCHANGED pc
      <3>1. loc' \in [Workers -> Locals]
        BY <2>2, <2>4, LocalsUpdate DEF TypeOK
      <3>2. pc[w] = "recover"
        BY <1>2 DEF RecoverCheck
      <3>3. \A v \in Workers : HoldsWhatItNeeds(v)'
        BY <2>4, <3>2 DEF TypeOK, HoldsWhatItNeeds
      <3>4. QED
        BY <1>2, <2>4, <3>1, <3>3, MishapType DEF RecoverCheck, TypeOK
    <2>5. QED BY <2>1, <2>3, <2>4
  <1>3. CASE RecoverWrite(w)
    <2> DEFINE j == loc[w].job
    <2>1. loc[w] \in Locals /\ j \in Jobs /\ loc[w].scan \ {j} \in SUBSET Jobs
      BY <1>3 DEF RecoverWrite, TypeOK, HoldsWhatItNeeds, Locals
    <2>2. job[j] \in JobRecord /\ "failed" \in States
      BY <2>1 DEF TypeOK, States, Lifecycle!States
    <2>3. job' \in [Jobs -> JobRecord]
      <3>1. [job[j] EXCEPT !.state = "failed", !.overdue = FALSE] \in JobRecord
        BY <2>2, RecordUpdate
      <3>2. \/ job' = job
            \/ job' = [job EXCEPT ![j] = [job[j] EXCEPT !.state = "failed", !.overdue = FALSE]]
        BY <1>3 DEF RecoverWrite
      <3>3. QED BY <3>1, <3>2 DEF TypeOK
    <2>4. loc' \in [Workers -> Locals]
      <3>1. [loc[w] EXCEPT !.scan = loc[w].scan \ {j}, !.job = NoJob] \in Locals
        BY <2>1, LocalsUpdate
      <3>2. loc' = [loc EXCEPT ![w] = [loc[w] EXCEPT !.scan = loc[w].scan \ {j}, !.job = NoJob]]
        BY <1>3 DEF RecoverWrite
      <3>3. QED BY <3>1, <3>2 DEF TypeOK
    <2>5. pc' = [pc EXCEPT ![w] = "recover"] /\ "recover" \in Points
      BY <1>3 DEF RecoverWrite, Goto, Points
    <2>6. \A v \in Workers : HoldsWhatItNeeds(v)'
      BY <1>3, <2>5 DEF RecoverWrite, TypeOK, HoldsWhatItNeeds
    <2>7. mishaps' \in Nat
      BY <1>3, MishapType DEF RecoverWrite
    <2>8. QED
      BY <1>3, <2>3, <2>4, <2>5, <2>6, <2>7 DEF RecoverWrite, TypeOK
  <1>4. CASE Fetch(w)
    <2>1. CASE \E j \in Queued :
                 /\ Goto(w, "claim")
                 /\ loc' = [loc EXCEPT ![w] = [@ EXCEPT !.job = j, !.attempt = job[j].attempt]]
                 /\ NoMishap
      <3>1. PICK j \in Jobs :
                 /\ Goto(w, "claim")
                 /\ loc' = [loc EXCEPT ![w] = [@ EXCEPT !.job = j, !.attempt = job[j].attempt]]
                 /\ NoMishap
        BY <2>1 DEF Queued
      <3>2. loc[w] \in Locals /\ job[j].attempt \in Nat
        BY DEF TypeOK, JobRecord
      <3>3. [loc[w] EXCEPT !.job = j, !.attempt = job[j].attempt] \in Locals
        BY <3>2, LocalsUpdate
      <3>4. loc' = [loc EXCEPT ![w] = [loc[w] EXCEPT !.job = j, !.attempt = job[j].attempt]]
        BY <3>1
      <3>5. loc' \in [Workers -> Locals]
        BY <3>3, <3>4 DEF TypeOK
      <3>6. pc' = [pc EXCEPT ![w] = "claim"] /\ "claim" \in Points
        BY <3>1 DEF Goto, Points
      <3>7. loc'[w].job = j
        BY <3>2, <3>4 DEF TypeOK, Locals
      <3>8. \A v \in Workers : HoldsWhatItNeeds(v)'
        BY <3>4, <3>6, <3>7 DEF TypeOK, HoldsWhatItNeeds
      <3>9. QED
        BY <1>4, <3>1, <3>5, <3>6, <3>8, MishapType DEF Fetch, TypeOK
    <2>2. CASE Release(w) /\ (Mishap \/ NoMishap)
      BY <1>4, <2>2, ReleaseType, MishapType DEF Fetch, TypeOK
    <2>3. \/ \E j \in Queued :
                 /\ Goto(w, "claim")
                 /\ loc' = [loc EXCEPT ![w] = [@ EXCEPT !.job = j, !.attempt = job[j].attempt]]
                 /\ NoMishap
          \/ Release(w) /\ (Mishap \/ NoMishap)
      BY <1>4 DEF Fetch
    <2>4. QED
      BY <2>1, <2>2, <2>3
  <1>5. CASE ClaimAtomic(w)
    <2> DEFINE j == loc[w].job
    <2>1. loc[w] \in Locals /\ j \in Jobs
      BY <1>5 DEF ClaimAtomic, TypeOK, HoldsWhatItNeeds
    <2>2. job[j] \in JobRecord /\ job[j].attempt + 1 \in Nat /\ job[j].done \in BOOLEAN
      BY <2>1 DEF TypeOK, JobRecord
    <2>3. job' \in [Jobs -> JobRecord] /\ claimers' \in [Jobs -> SUBSET Workers]
      <3>1. CASE SetRunning(w, j, job[j].attempt + 1)
        BY <2>1, <2>2, <3>1, SetRunningType
      <3>2. CASE UNCHANGED <<job, claimers>>
        BY <3>2 DEF TypeOK
      <3>3. QED BY <1>5, <3>1, <3>2 DEF ClaimAtomic
    <2>4. /\ pc' \in [Workers -> Points]
          /\ loc' \in [Workers -> Locals]
          /\ \A v \in Workers : HoldsWhatItNeeds(v)'
      <3>1. CASE Goto(w, "process") /\ loc' = [loc EXCEPT ![w].done = job[j].done]
        <4>1. loc' \in [Workers -> Locals]
          BY <2>1, <2>2, <3>1, LocalsUpdate DEF TypeOK
        <4>2. pc' = [pc EXCEPT ![w] = "process"] /\ "process" \in Points
          BY <3>1 DEF Goto, Points
        <4>3. \A v \in Workers : HoldsWhatItNeeds(v)'
          BY <2>1, <3>1, <4>2 DEF TypeOK, HoldsWhatItNeeds, Locals
        <4>4. QED BY <4>1, <4>2, <4>3 DEF TypeOK
      <3>2. CASE Goto(w, "claimCheck") /\ UNCHANGED loc
        BY <2>1, <3>2 DEF Goto, Points, TypeOK, HoldsWhatItNeeds
      <3>3. CASE Release(w)
        BY <3>3, ReleaseType
      <3>4. QED BY <1>5, <3>1, <3>2, <3>3 DEF ClaimAtomic
    <2>5. Mishap \/ NoMishap
      BY <1>5 DEF ClaimAtomic
    <2>6. UNCHANGED <<effects, ledger>>
      BY <1>5 DEF ClaimAtomic
    <2>7. QED
      BY <2>3, <2>4, <2>5, <2>6, MishapType DEF TypeOK
  <1>6. CASE ClaimUnavailable(w)
    BY <1>6 DEF ClaimUnavailable, Goto, Points, TypeOK, HoldsWhatItNeeds
  <1>7. CASE ClaimCheck(w)
    <2>1. CASE Goto(w, "claimWrite") /\ UNCHANGED loc /\ NoMishap
      BY <1>7, <2>1, MishapType DEF ClaimCheck, Goto, Points, TypeOK, HoldsWhatItNeeds
    <2>2. CASE Release(w) /\ (Mishap \/ NoMishap)
      BY <1>7, <2>2, MishapType, ReleaseType DEF ClaimCheck, TypeOK
    <2>3. QED BY <1>7, <2>1, <2>2 DEF ClaimCheck
  <1>8. CASE ClaimWrite(w)
    <2> DEFINE j == loc[w].job
    <2>1. loc[w] \in Locals /\ j \in Jobs
      BY <1>8 DEF ClaimWrite, TypeOK, HoldsWhatItNeeds
    <2>2. loc[w].attempt + 1 \in Nat
      BY <2>1 DEF Locals
    <2>3. job' \in [Jobs -> JobRecord] /\ claimers' \in [Jobs -> SUBSET Workers]
      <3>1. CASE SetRunning(w, j, loc[w].attempt + 1)
        BY <2>1, <2>2, <3>1, SetRunningType
      <3>2. CASE UNCHANGED <<job, claimers>>
        BY <3>2 DEF TypeOK
      <3>3. QED BY <1>8, <3>1, <3>2 DEF ClaimWrite
    <2>4. /\ pc' \in [Workers -> Points]
          /\ loc' \in [Workers -> Locals]
          /\ \A v \in Workers : HoldsWhatItNeeds(v)'
      <3>1. CASE Goto(w, "claimRead") /\ UNCHANGED loc
        BY <2>1, <3>1 DEF Goto, Points, TypeOK, HoldsWhatItNeeds
      <3>2. CASE Release(w)
        BY <3>2, ReleaseType
      <3>3. QED BY <1>8, <3>1, <3>2 DEF ClaimWrite
    <2>5. Mishap \/ NoMishap
      BY <1>8 DEF ClaimWrite
    <2>6. UNCHANGED <<effects, ledger>>
      BY <1>8 DEF ClaimWrite
    <2>7. QED
      BY <2>3, <2>4, <2>5, <2>6, MishapType DEF TypeOK
  <1>9. CASE ClaimRead(w)
    <2>1. loc[w] \in Locals /\ loc[w].job \in Jobs
      BY <1>9 DEF ClaimRead, TypeOK, HoldsWhatItNeeds
    <2>2. CASE /\ NoMishap
               /\ Goto(w, "process")
               /\ loc' = [loc EXCEPT ![w].done = job[loc[w].job].done]
      <3>1. job[loc[w].job].done \in BOOLEAN
        BY <2>1 DEF TypeOK, JobRecord
      <3>2. loc' \in [Workers -> Locals]
        BY <2>1, <2>2, <3>1, LocalsUpdate DEF TypeOK
      <3>3. pc' = [pc EXCEPT ![w] = "process"] /\ "process" \in Points
        BY <2>2 DEF Goto, Points
      <3>4. \A v \in Workers : HoldsWhatItNeeds(v)'
        BY <2>1, <2>2, <3>3 DEF TypeOK, HoldsWhatItNeeds, Locals
      <3>5. QED
        BY <1>9, <2>2, <3>2, <3>3, <3>4, MishapType DEF ClaimRead, TypeOK
    <2>3. CASE Mishap /\ Release(w)
      BY <1>9, <2>3, MishapType, ReleaseType DEF ClaimRead, TypeOK
    <2>4. QED BY <1>9, <2>2, <2>3 DEF ClaimRead
  <1>10. CASE Reconcile(w)
    <2>1. loc[w].job \in Jobs
      BY <1>10 DEF Reconcile, TypeOK, HoldsWhatItNeeds
    <2>2. CASE Goto(w, "browser") /\ UNCHANGED loc
      BY <1>10, <2>1, <2>2 DEF Reconcile, Goto, Points, TypeOK, HoldsWhatItNeeds
    <2>3. CASE \E r \in Outcomes : Report(w, r)
      BY <1>10, <2>1, <2>3, ReportType DEF Reconcile, TypeOK
    <2>4. QED BY <1>10, <2>2, <2>3 DEF Reconcile, Outcomes
  <1>11. CASE BrowserEffect(w)
    <2>1. effects' \in [Jobs -> 0..2]
      <3>1. 1 \in 0..2 /\ 2 \in 0..2
        OBVIOUS
      <3>2. \E n \in 0..2 : effects' = [effects EXCEPT ![loc[w].job] = n]
        BY <1>11, <3>1 DEF BrowserEffect
      <3>3. QED BY <3>2 DEF TypeOK
    <2>2. QED
      BY <1>11, <2>1 DEF BrowserEffect, Goto, Points, TypeOK, HoldsWhatItNeeds
  <1>12. CASE BrowserRaises(w)
    <2>1. loc[w].job \in Jobs
      BY <1>12 DEF BrowserRaises, TypeOK, HoldsWhatItNeeds
    <2>2. PICK r \in Outcomes : Report(w, r)
      BY <1>12 DEF BrowserRaises, Outcomes
    <2>3. QED
      BY <1>12, <2>1, <2>2, ReportType DEF BrowserRaises, TypeOK
  <1>13. CASE LedgerLoad(w)
    <2>1. loc[w] \in Locals /\ loc[w].job \in Jobs /\ ledger[HostOf[w]] \in SUBSET Jobs
      BY <1>13, ConstantsOK DEF LedgerLoad, TypeOK, HoldsWhatItNeeds
    <2>2. loc' \in [Workers -> Locals]
      BY <1>13, <2>1, LocalsUpdate DEF LedgerLoad, TypeOK
    <2>3. pc' = [pc EXCEPT ![w] = "ledgerOpen"] /\ "ledgerOpen" \in Points
      BY <1>13 DEF LedgerLoad, Goto, Points
    <2>4. \A v \in Workers : HoldsWhatItNeeds(v)'
      BY <1>13, <2>1, <2>3 DEF LedgerLoad, TypeOK, HoldsWhatItNeeds, Locals
    <2>5. QED
      BY <1>13, <2>2, <2>3, <2>4 DEF LedgerLoad, TypeOK
  <1>14. CASE LedgerOpen(w)
    <2>1. loc[w].job \in Jobs
      BY <1>14 DEF LedgerOpen, TypeOK, HoldsWhatItNeeds
    <2>2. CASE /\ NoMishap
               /\ Goto(w, "ledgerDump")
               /\ ledger' = [ledger EXCEPT ![HostOf[w]] = {}]
               /\ UNCHANGED loc
      <3>1. ledger' \in [Hosts -> SUBSET Jobs]
        BY <2>2 DEF TypeOK
      <3>2. QED
        BY <1>14, <2>1, <2>2, <3>1, MishapType
           DEF LedgerOpen, Goto, Points, TypeOK, HoldsWhatItNeeds
    <2>3. CASE Mishap /\ Report(w, "success") /\ UNCHANGED ledger
      <3>1. "success" \in Outcomes
        BY DEF Outcomes
      <3>2. QED
        BY <1>14, <2>1, <2>3, <3>1, MishapType, ReportType DEF LedgerOpen, TypeOK
    <2>4. QED BY <1>14, <2>2, <2>3 DEF LedgerOpen
  <1>15. CASE LedgerDump(w)
    <2>1. loc[w] \in Locals /\ loc[w].job \in Jobs /\ "success" \in Outcomes
      BY <1>15 DEF LedgerDump, TypeOK, HoldsWhatItNeeds, Outcomes
    <2>2. loc[w].seen \cup {loc[w].job} \in SUBSET Jobs
      BY <2>1 DEF Locals
    <2>3. ledger' \in [Hosts -> SUBSET Jobs]
      BY <1>15, <2>2 DEF LedgerDump, TypeOK
    <2>4. QED
      BY <1>15, <2>1, <2>3, MishapType, ReportType DEF LedgerDump, TypeOK
  <1>16. CASE WriteResult(w)
    <2> DEFINE j == loc[w].job
               r == loc[w].result
    <2>1. j \in Jobs /\ r \in Outcomes /\ r \in States /\ (r = "success") \in BOOLEAN
      BY <1>16 DEF WriteResult, TypeOK, HoldsWhatItNeeds, Outcomes, States, Lifecycle!States
    <2>2. job' \in [Jobs -> JobRecord]
      <3>1. [job[j] EXCEPT !.state = r, !.overdue = FALSE, !.done = (r = "success")] \in JobRecord
        <4>1. job[j] \in JobRecord
          BY <2>1 DEF TypeOK
        <4>2. QED BY <2>1, <4>1, RecordUpdate
      <3>2. \/ job' = job
            \/ job' = [job EXCEPT ![j] = [job[j] EXCEPT !.state = r, !.overdue = FALSE,
                                                       !.done = (r = "success")]]
        BY <1>16 DEF WriteResult
      <3>3. QED BY <3>1, <3>2 DEF TypeOK
    <2>3. /\ pc' \in [Workers -> Points]
          /\ loc' \in [Workers -> Locals]
          /\ \A v \in Workers : HoldsWhatItNeeds(v)'
      BY <1>16, ReleaseType, AttemptFailsType DEF WriteResult
    <2>4. Mishap \/ NoMishap
      BY <1>16 DEF WriteResult
    <2>5. UNCHANGED <<claimers, effects, ledger>>
      BY <1>16 DEF WriteResult
    <2>6. QED
      BY <2>2, <2>3, <2>4, <2>5, MishapType DEF TypeOK
  <1>17. QED
    BY <1>1, <1>2, <1>3, <1>4, <1>5, <1>6, <1>7, <1>8, <1>9, <1>10, <1>11, <1>12, <1>13,
       <1>14, <1>15, <1>16 DEF Step

\* A crash or a restart.
LEMMA CrashType ==
  ASSUME TypeOK, NEW w \in Workers, Crash(w) \/ Restart(w)
  PROVE  TypeOK'
  <1>1. CASE Crash(w)
    <2>1. loc' \in [Workers -> Locals]
      BY <1>1, RestType DEF Crash, TypeOK
    <2>2. pc' = [pc EXCEPT ![w] = "down"] /\ "down" \in Points
      BY <1>1 DEF Crash, Goto, Points
    <2>3. \A v \in Workers : HoldsWhatItNeeds(v)'
      BY <1>1, <2>2 DEF Crash, TypeOK, HoldsWhatItNeeds
    <2>4. QED
      BY <1>1, <2>1, <2>2, <2>3, MishapType DEF Crash, TypeOK
  <1>2. CASE Restart(w)
    BY <1>2 DEF Restart, Goto, Points, TypeOK, HoldsWhatItNeeds
  <1>3. QED BY <1>1, <1>2

\* No step of any process, and no crash, lost message or damaged ledger file, leaves
\* the types, nor lets a worker act without a record or an outcome to act on.
THEOREM TypeCorrect == Spec => []TypeOK
  <1>1. TypeOK /\ [Next]_vars => TypeOK'
    <2>1. ASSUME TypeOK, UNCHANGED vars PROVE TypeOK'
      BY <2>1 DEF vars, TypeOK, HoldsWhatItNeeds
    <2>2. QED
      BY <2>1, EnvironmentType, StepType, CrashType DEF Next
  <1>2. QED
    BY InitType, <1>1, PTL DEF Spec

-------------------------------------------------------------------------------
(* One claimer per stint, on the addon                                     *)

\* The strengthening: a job that is not yet queued, or queued again, has no claimer.
ClaimInv ==
    /\ ClaimExclusive
    /\ \A j \in Jobs : job[j].state \in {"draft", "queued"} => claimers[j] = {}

\* On the addon a write to "running" goes through for a queued job only, and the
\* writes that end a stint never put the job back in the queue.
LEMMA AddonAccepts ==
  ASSUME Backend = "addon", TypeOK, NEW j \in Jobs, NEW s \in States, Accepts(j, s)
  PROVE  /\ s = "running" => job[j].state = "queued"
         /\ s \in Outcomes => job[j].state = "running"
  BY DEF Accepts, Lifecycle!AllowedTransitions, Outcomes, States, Lifecycle!States, TypeOK,
         JobRecord

\* The claim of a queued job makes its worker the only claimer.
LEMMA SetRunningClaim ==
  ASSUME TypeOK, ClaimInv, NEW w \in Workers, NEW j \in Jobs, NEW n \in Nat,
         job[j].state = "queued", SetRunning(w, j, n)
  PROVE  ClaimInv'
  <1>1. claimers[j] = {}
    BY DEF ClaimInv
  <1>2. \A k \in Jobs : claimers'[k] = IF k = j THEN {w} ELSE claimers[k]
    BY <1>1 DEF SetRunning, TypeOK
  <1>3. job' = [job EXCEPT ![j] = [job[j] EXCEPT !.state = "running", !.overdue = FALSE,
                                                 !.attempt = n]]
    BY DEF SetRunning
  <1>4. job[j] \in JobRecord
    BY DEF TypeOK
  <1>5. job'[j].state = "running"
    BY <1>3, <1>4 DEF TypeOK, JobRecord
  <1>6. \A k \in Jobs : k # j => job'[k] = job[k]
    BY <1>3 DEF TypeOK
  <1>7. ClaimExclusive'
    BY <1>2 DEF ClaimInv, ClaimExclusive
  <1>8. ASSUME NEW k \in Jobs, job'[k].state \in {"draft", "queued"}
        PROVE  claimers'[k] = {}
    BY <1>2, <1>5, <1>6, <1>8 DEF ClaimInv
  <1>9. QED BY <1>7, <1>8 DEF ClaimInv

\* The other writes of a worker.
LEMMA EndStintClaim ==
  ASSUME TypeOK, ClaimInv, UNCHANGED claimers, NEW j \in Jobs, NEW s \in Outcomes, 
         \A k \in Jobs : job'[k] = job[k] \/ job'[k].state = s
  PROVE  ClaimInv'
  BY DEF ClaimInv, ClaimExclusive, Outcomes

\* No step of a worker gives a job a second claimer.
LEMMA ClaimStep ==
  ASSUME Backend = "addon", TypeOK, ClaimInv, NEW w \in Workers, Step(w)
  PROVE  ClaimInv'
  <1> DEFINE j == loc[w].job
  <1>1. CASE UNCHANGED <<job, claimers>>
    BY <1>1 DEF ClaimInv, ClaimExclusive
  <1>2. CASE ClaimAtomic(w)
    <2>1. j \in Jobs /\ job[j].attempt + 1 \in Nat
      <3>1. j \in Jobs
        BY <1>2 DEF ClaimAtomic, TypeOK, HoldsWhatItNeeds
      <3>2. QED BY <3>1 DEF TypeOK, JobRecord
    <2>2. CASE job[j].state = "queued" /\ SetRunning(w, j, job[j].attempt + 1)
      BY <2>1, <2>2, SetRunningClaim
    <2>3. QED BY <1>1, <1>2, <2>2 DEF ClaimAtomic
  <1>3. CASE ClaimWrite(w)
    <2>1. j \in Jobs /\ loc[w].attempt + 1 \in Nat
      BY <1>3 DEF ClaimWrite, TypeOK, HoldsWhatItNeeds, Locals
    <2>2. CASE Accepts(j, "running") /\ SetRunning(w, j, loc[w].attempt + 1)
      <3>1. job[j].state = "queued"
        BY <2>1, <2>2, AddonAccepts DEF States, Lifecycle!States
      <3>2. QED BY <2>1, <2>2, <3>1, SetRunningClaim
    <2>3. QED BY <1>1, <1>3, <2>2 DEF ClaimWrite
  <1>4. CASE RecoverWrite(w)
    <2>1. j \in Jobs
      BY <1>4 DEF RecoverWrite, TypeOK, HoldsWhatItNeeds
    <2>2. job[j] \in JobRecord
      BY <2>1 DEF TypeOK
    <2>3. \/ job' = job
          \/ job' = [job EXCEPT ![j] = [job[j] EXCEPT !.state = "failed", !.overdue = FALSE]]
      BY <1>4 DEF RecoverWrite
    <2>4. \A k \in Jobs : job'[k] = job[k] \/ job'[k].state = "failed"
      BY <2>2, <2>3 DEF TypeOK, JobRecord
    <2>5. UNCHANGED claimers /\ "failed" \in Outcomes
      BY <1>4 DEF RecoverWrite, Outcomes
    <2>6. QED BY <2>1, <2>4, <2>5, EndStintClaim
  <1>5. CASE WriteResult(w)
    <2> DEFINE r == loc[w].result
    <2>1. j \in Jobs /\ r \in Outcomes
      BY <1>5 DEF WriteResult, TypeOK, HoldsWhatItNeeds
    <2>2. job[j] \in JobRecord
      BY <2>1 DEF TypeOK
    <2>3. \/ job' = job
          \/ job' = [job EXCEPT ![j] = [job[j] EXCEPT !.state = r, !.overdue = FALSE,
                                                     !.done = (r = "success")]]
      BY <1>5 DEF WriteResult
    <2> DEFINE new == [job[j] EXCEPT !.state = r, !.overdue = FALSE, !.done = (r = "success")]
    <2>4. new.state = r
      BY <2>2, WrittenState
    <2>5. job' = job \/ job' = [job EXCEPT ![j] = new]
      BY <2>3
    <2> HIDE DEF new
    <2>6. \A k \in Jobs : job'[k] = job[k] \/ job'[k].state = r
      BY <2>4, <2>5 DEF TypeOK
    <2>7. UNCHANGED claimers
      BY <1>5 DEF WriteResult
    <2>8. QED BY <2>1, <2>6, <2>7, EndStintClaim
  <1>6. QED
    BY <1>1, <1>2, <1>3, <1>4, <1>5
       DEF Step, Scan, RecoverCheck, Fetch, ClaimUnavailable, ClaimCheck, ClaimRead, Reconcile,
           BrowserEffect, BrowserRaises, LedgerLoad, LedgerOpen, LedgerDump

\* Operators, the clock, crashes and restarts add no claimer; queueing forgets them all.
LEMMA ClaimEnvironment ==
  ASSUME TypeOK, ClaimInv, NEW j \in Jobs, Operator(j) \/ BecomeOverdue(j)
  PROVE  ClaimInv'
  <1>1. job[j] \in JobRecord
    BY DEF TypeOK
  <1>2. CASE Queue(j)
    <2>1. \A k \in Jobs : job'[k] = job[k] \/ claimers[k] = {}
      BY <1>2 DEF Queue, ClaimInv, TypeOK
    <2>2. QED BY <1>2, <2>1 DEF Queue, ClaimInv, ClaimExclusive
  <1>3. CASE Retry(j)
    <2>1. \A k \in Jobs : k # j => job'[k] = job[k]
      BY <1>3 DEF Retry, TypeOK
    <2>2. \A k \in Jobs : claimers'[k] = IF k = j THEN {} ELSE claimers[k]
      BY <1>3 DEF Retry, TypeOK
    <2>3. QED BY <2>1, <2>2 DEF ClaimInv, ClaimExclusive
  <1>4. CASE BecomeOverdue(j)
    <2>1. \A k \in Jobs : job'[k].state = job[k].state
      BY <1>1, <1>4 DEF BecomeOverdue, TypeOK, JobRecord
    <2>2. QED BY <1>4, <2>1 DEF BecomeOverdue, ClaimInv, ClaimExclusive
  <1>5. QED BY <1>2, <1>3, <1>4 DEF Operator

\* "Only ONE process can transition a job from queued to running": with the addon's
\* transaction and transition table this holds however many workers race, whichever
\* of the two claim paths each of them takes and whatever messages are lost.
THEOREM AddonClaimsAreExclusive ==
  ASSUME Backend = "addon"
  PROVE  Spec => []ClaimExclusive
  <1>1. Init => ClaimInv
    BY DEF Init, ClaimInv, ClaimExclusive
  <1>2. TypeOK /\ ClaimInv /\ [Next]_vars => ClaimInv'
    <2>1. ASSUME TypeOK, ClaimInv, UNCHANGED <<job, claimers>> PROVE ClaimInv'
      BY <2>1 DEF ClaimInv, ClaimExclusive
    <2>2. QED
      BY <2>1, ClaimStep, ClaimEnvironment DEF Next, Crash, Restart, vars
  <1>3. ClaimInv => ClaimExclusive
    BY DEF ClaimInv
  <1>4. QED
    BY <1>1, <1>2, <1>3, TypeCorrect, PTL DEF Spec

-------------------------------------------------------------------------------
(* Refinement of the abstract life of a job                                *)

\* The state that the abstract specification sees of the jobs.
status == [j \in Jobs |-> job[j].state]

\* A write of one job's state is a move in the abstract table.
LEMMA WriteIsMove ==
  ASSUME TypeOK, NEW j \in Jobs, NEW s \in States,
         NEW new, new.state = s, job' = [job EXCEPT ![j] = new],
         s \in Lifecycle!AllowedTransitions[job[j].state]
  PROVE  Lifecycle!Move(j, s)
  <1>1. \A k \in Jobs : job'[k] = IF k = j THEN new ELSE job[k]
    BY DEF TypeOK
  <1>2. [k \in Jobs |-> job'[k].state] = [[k \in Jobs |-> job[k].state] EXCEPT ![j] = s]
    <2> DEFINE f == [k \in Jobs |-> job[k].state]
               g == [k \in Jobs |-> job'[k].state]
    <2>1. \A k \in Jobs : g[k] = IF k = j THEN s ELSE f[k]
      BY <1>1
    <2>2. f = [k \in Jobs |-> f[k]] /\ g = [k \in Jobs |-> g[k]]
      OBVIOUS
    <2> HIDE DEF f, g
    <2>3. g = [f EXCEPT ![j] = s]
      BY <2>1, <2>2
    <2>4. QED BY <2>3 DEF f, g
  <1>3. QED BY <1>2 DEF Lifecycle!Move

\* The rows of the table that the code's guards stand for.
LEMMA Table ==
  /\ Lifecycle!AllowedTransitions["draft"] = {"queued"}
  /\ Lifecycle!AllowedTransitions["queued"] = {"running"}
  /\ Lifecycle!AllowedTransitions["running"] = {"success", "failed", "needs_human"}
  /\ Lifecycle!AllowedTransitions["failed"] = {"queued"}
  /\ Lifecycle!AllowedTransitions["needs_human"] = {"queued"}
  BY DEF Lifecycle!AllowedTransitions, Lifecycle!States

\* The claim of a queued job, by either path, is the abstract Claim.
LEMMA ClaimRefines ==
  ASSUME TypeOK, ClaimInv, NEW w \in Workers, NEW j \in Jobs, NEW n \in Nat,
         job[j].state = "queued", SetRunning(w, j, n)
  PROVE  Lifecycle!Next
  <1> DEFINE new == [job[j] EXCEPT !.state = "running", !.overdue = FALSE, !.attempt = n]
  <1>1. job' = [job EXCEPT ![j] = new]
    BY DEF SetRunning
  <1>2. new.state = "running"
    BY DEF TypeOK, JobRecord
  <1>3. claimers[j] = {}
    BY DEF ClaimInv
  <1>4. claimers' = [claimers EXCEPT ![j] = {w}]
    BY <1>3 DEF SetRunning
  <1> HIDE DEF new
  <1>5. Lifecycle!Move(j, "running")
    BY <1>1, <1>2, Table, WriteIsMove DEF States, Lifecycle!States
  <1>6. QED BY <1>4, <1>5 DEF Lifecycle!Next, Lifecycle!Claim

\* A write that ends a stint is the abstract Finish.
LEMMA FinishRefines ==
  ASSUME TypeOK, NEW j \in Jobs, NEW s \in Outcomes, NEW new,
         job[j].state = "running", new.state = s, job' = [job EXCEPT ![j] = new],
         UNCHANGED claimers
  PROVE  Lifecycle!Next
  <1>1. Lifecycle!Move(j, s)
    BY Table, WriteIsMove DEF Outcomes, States, Lifecycle!States
  <1>2. QED BY <1>1 DEF Lifecycle!Next, Lifecycle!Finish, Outcomes

\* A worker's step claims a queued job, finishes a running one or leaves both alone.
LEMMA StepRefines ==
  ASSUME Backend = "addon", TypeOK, ClaimInv, NEW w \in Workers, Step(w)
  PROVE  Lifecycle!Next \/ UNCHANGED <<job, claimers>>
  <1> DEFINE j == loc[w].job
  <1>1. CASE UNCHANGED <<job, claimers>>
    BY <1>1
  <1>2. CASE ClaimAtomic(w)
    <2>1. j \in Jobs
      BY <1>2 DEF ClaimAtomic, TypeOK, HoldsWhatItNeeds
    <2>2. job[j].attempt + 1 \in Nat
      BY <2>1 DEF TypeOK, JobRecord
    <2>3. QED BY <1>1, <1>2, <2>1, <2>2, ClaimRefines DEF ClaimAtomic
  <1>3. CASE ClaimWrite(w)
    <2>1. j \in Jobs /\ loc[w].attempt + 1 \in Nat
      BY <1>3 DEF ClaimWrite, TypeOK, HoldsWhatItNeeds, Locals
    <2>2. Accepts(j, "running") => job[j].state = "queued"
      BY <2>1, AddonAccepts DEF States, Lifecycle!States
    <2>3. QED BY <1>1, <1>3, <2>1, <2>2, ClaimRefines DEF ClaimWrite
  <1>4. CASE RecoverWrite(w) /\ job' # job
    <2> DEFINE new == [job[j] EXCEPT !.state = "failed", !.overdue = FALSE]
    <2>1. j \in Jobs
      BY <1>4 DEF RecoverWrite, TypeOK, HoldsWhatItNeeds
    <2>2. new.state = "failed"
      BY <2>1 DEF TypeOK, JobRecord
    <2>3. job' = [job EXCEPT ![j] = new] /\ Accepts(j, "failed") /\ UNCHANGED claimers
      BY <1>4 DEF RecoverWrite
    <2>4. "failed" \in Outcomes /\ "failed" \in States
      BY DEF Outcomes, States, Lifecycle!States
    <2> HIDE DEF new
    <2>5. job[j].state = "running"
      BY <2>1, <2>3, <2>4, AddonAccepts
    <2>6. QED BY <2>1, <2>2, <2>3, <2>4, <2>5, FinishRefines
  <1>5. CASE WriteResult(w) /\ job' # job
    <2> DEFINE r == loc[w].result
               new == [job[j] EXCEPT !.state = r, !.overdue = FALSE, !.done = (r = "success")]
    <2>1. j \in Jobs /\ r \in Outcomes
      BY <1>5 DEF WriteResult, TypeOK, HoldsWhatItNeeds
    <2>2. job[j] \in JobRecord
      BY <2>1 DEF TypeOK
    <2>3. new.state = r
      BY <2>2, WrittenState
    <2>4. job' = [job EXCEPT ![j] = new] /\ Accepts(j, r) /\ UNCHANGED claimers
      BY <1>5 DEF WriteResult
    <2> HIDE DEF new
    <2>5. r \in States
      BY <2>1 DEF Outcomes, States, Lifecycle!States
    <2>6. job[j].state = "running"
      BY <2>1, <2>4, <2>5, AddonAccepts
    <2>7. QED BY <2>1, <2>3, <2>4, <2>6, FinishRefines
  <1>6. QED
    BY <1>1, <1>2, <1>3, <1>4, <1>5
       DEF Step, Scan, RecoverCheck, RecoverWrite, Fetch, ClaimUnavailable, ClaimCheck,
           ClaimRead, Reconcile, BrowserEffect, BrowserRaises, LedgerLoad, LedgerOpen,
           LedgerDump, WriteResult

\* An operator queues a job that has no claimer, or resets it; the clock is invisible.
LEMMA EnvironmentRefines ==
  ASSUME TypeOK, ClaimInv, NEW j \in Jobs, Operator(j) \/ BecomeOverdue(j)
  PROVE  Lifecycle!Next \/ (UNCHANGED claimers /\ UNCHANGED status)
  <1>1. job[j] \in JobRecord /\ "queued" \in States
    BY DEF TypeOK, States, Lifecycle!States
  <1>2. CASE Queue(j)
    <2> DEFINE new == [job[j] EXCEPT !.state = "queued"]
    <2>1. new.state = "queued" /\ job' = [job EXCEPT ![j] = new] /\ job[j].state = "draft"
      BY <1>1, <1>2 DEF Queue, JobRecord
    <2>2. claimers' = [claimers EXCEPT ![j] = {}]
      BY <1>2, <2>1 DEF Queue, ClaimInv, TypeOK
    <2> HIDE DEF new
    <2>3. Lifecycle!Move(j, "queued")
      BY <1>1, <2>1, Table, WriteIsMove
    <2>4. QED BY <2>2, <2>3 DEF Lifecycle!Next, Lifecycle!Enqueue
  <1>3. CASE Retry(j)
    <2> DEFINE new == [job[j] EXCEPT !.state = "queued", !.attempt = job[j].attempt + 1]
    <2>1. job' = [job EXCEPT ![j] = new] /\ job[j].state \in {"failed", "needs_human"}
      BY <1>3 DEF Retry
    <2>2. new.state = "queued"
      BY <1>1 DEF JobRecord
    <2> HIDE DEF new
    <2>3. Lifecycle!Move(j, "queued")
      BY <1>1, <2>1, <2>2, Table, WriteIsMove
    <2>4. QED BY <1>3, <2>3 DEF Retry, Lifecycle!Next, Lifecycle!Enqueue
  <1>4. CASE BecomeOverdue(j)
    <2>1. job' = [job EXCEPT ![j] = [job[j] EXCEPT !.overdue = TRUE]] /\ UNCHANGED claimers
      BY <1>4 DEF BecomeOverdue
    <2>2. \A k \in Jobs : job'[k].state = job[k].state
      BY <1>1, <2>1 DEF TypeOK, JobRecord
    <2>3. QED BY <2>1, <2>2 DEF status
  <1>5. QED BY <1>2, <1>3, <1>4 DEF Operator

\* The addon's queue implements the lifecycle it promises: only the moves of the
\* allowed_transitions table, and one owner from each claim to the end of its stint,
\* through every race, lost message, crash and recovery.
THEOREM AddonFollowsLifecycle ==
  ASSUME Backend = "addon"
  PROVE  Spec => LifecycleSpec
  <1>1. Init => ClaimInv
    BY DEF Init, ClaimInv, ClaimExclusive
  <1>2. TypeOK /\ ClaimInv /\ [Next]_vars => ClaimInv'
    <2>1. ASSUME ClaimInv, UNCHANGED <<job, claimers>> PROVE ClaimInv'
      BY <2>1 DEF ClaimInv, ClaimExclusive
    <2>2. QED
      BY <2>1, ClaimStep, ClaimEnvironment DEF Next, Crash, Restart, vars
  <1>3. Init => Lifecycle!Init
    <2>1. ASSUME Init, NEW j \in Jobs PROVE job[j].state \in {"draft", "queued"}
      BY <2>1 DEF Init
    <2>2. QED BY <2>1 DEF Init, Lifecycle!Init
  <1>4. TypeOK /\ ClaimInv /\ [Next]_vars => [Lifecycle!Next]_(Lifecycle!vars)
    <2>1. ASSUME UNCHANGED claimers, UNCHANGED status PROVE UNCHANGED Lifecycle!vars
      BY <2>1 DEF status, Lifecycle!vars
    <2>2. ASSUME UNCHANGED <<job, claimers>> PROVE UNCHANGED Lifecycle!vars
      BY <2>2 DEF Lifecycle!vars
    <2>3. QED
      BY <2>1, <2>2, StepRefines, EnvironmentRefines DEF Next, Crash, Restart, vars
  <1>5. QED
    BY <1>1, <1>2, <1>3, <1>4, TypeCorrect, PTL DEF Spec, LifecycleSpec, Lifecycle!Spec
--------------------------------------------------------------------------------
\* What the queue says of the outside world: a reported completion took place, a lone worker
\* never repeats one, and it recovers only what is overdue.

\* What a worker does to its own program counter and locals leaves the others' alone.
LEMMA StepIsLocal ==
  ASSUME TypeOK, NEW w \in Workers, Step(w) \/ Crash(w) \/ Restart(w),
         NEW v \in Workers, v # w
  PROVE  pc'[v] = pc[v] /\ loc'[v] = loc[v]
  BY DEF TypeOK, Step, Crash, Restart, Goto, Release, Report, AttemptFails, Scan, RecoverCheck,
         RecoverWrite, Fetch, ClaimAtomic, ClaimUnavailable, ClaimCheck, ClaimWrite, ClaimRead,
         Reconcile, BrowserEffect, BrowserRaises, LedgerLoad, LedgerOpen, LedgerDump, WriteResult

\* What the browser did is never undone.
LEMMA EffectsLast ==
  ASSUME TypeOK, [Next]_vars, NEW j \in Jobs, effects[j] > 0
  PROVE  effects'[j] > 0
  <1>1. CASE UNCHANGED effects
    BY <1>1
  <1>2. ASSUME NEW w \in Workers, BrowserEffect(w) PROVE effects'[j] > 0
    BY <1>2 DEF BrowserEffect, TypeOK
  <1>3. QED
    BY <1>1, <1>2 DEF Next, Operator, Queue, Retry, BecomeOverdue, Step, Crash, Restart, Scan,
         RecoverCheck, RecoverWrite, Fetch, ClaimAtomic, ClaimUnavailable, ClaimCheck,
         ClaimWrite, ClaimRead, Reconcile, BrowserRaises, LedgerLoad, LedgerOpen, LedgerDump,
         WriteResult, vars

-------------------------------------------------------------------------------
(* Completion is real                                                      *)

InProcess == {"process", "browser", "confirm", "ledgerOpen", "ledgerDump", "writeResult"}

\* Everything a worker holds that will be taken for evidence is backed by an effect.
Backed(w) ==
    /\ loc[w].done => pc[w] \in InProcess /\ effects[loc[w].job] > 0
    /\ \A j \in loc[w].seen : effects[j] > 0
    /\ pc[w] \in {"confirm", "ledgerOpen", "ledgerDump"} => effects[loc[w].job] > 0
    /\ pc[w] = "writeResult" /\ loc[w].result = "success" => effects[loc[w].job] > 0

\* The record of j claims completion.
Claimed(j) == job[j].done \/ job[j].state = "success"

RealInv ==
    /\ \A j \in Jobs : Claimed(j) => effects[j] > 0
    /\ \A h \in Hosts : \A j \in ledger[h] : effects[j] > 0
    /\ \A w \in Workers : Backed(w)

\* What a step of w has to show: no new claim without an effect behind it.
LEMMA RealFrame ==
  ASSUME TypeOK, RealInv, [Next]_vars, NEW w \in Workers,
         Step(w) \/ Crash(w) \/ Restart(w),
         \A j \in Jobs : Claimed(j)' => Claimed(j) \/ effects'[j] > 0,
         \A h \in Hosts : \A j \in ledger'[h] : j \in ledger[h] \/ effects'[j] > 0,
         Backed(w)'
  PROVE  RealInv'
  <1>1. \A j \in Jobs : effects[j] > 0 => effects'[j] > 0
    BY EffectsLast
  <1>2. ASSUME NEW v \in Workers PROVE Backed(v)'
    <2>1. CASE v = w
      BY <2>1
    <2>2. CASE v # w
      <3>1. pc'[v] = pc[v] /\ loc'[v] = loc[v]
        BY <2>2, StepIsLocal
      <3>2. pc[v] \in InProcess => loc[v].job \in Jobs
        BY DEF TypeOK, HoldsWhatItNeeds, InProcess
      <3>3. Backed(v)
        BY DEF RealInv
      <3>4. loc[v].seen \subseteq Jobs
        BY DEF TypeOK, Locals
      <3>5. QED BY <1>1, <3>1, <3>2, <3>3, <3>4 DEF Backed, InProcess
    <2>3. QED BY <2>1, <2>2
  <1>3. \A h \in Hosts : ledger[h] \subseteq Jobs
    BY DEF TypeOK
  <1>4. QED BY <1>1, <1>2, <1>3 DEF RealInv

\* An outcome about to be reported is backed when the effect behind it is.
LEMMA ReportBacked ==
  ASSUME TypeOK, NEW w \in Workers, Backed(w), NEW r \in Outcomes, Report(w, r),
         UNCHANGED effects, r = "success" => effects[loc[w].job] > 0
  PROVE  Backed(w)'
  <1>1. loc[w] \in Locals
    BY DEF TypeOK
  <1>2. loc' = [loc EXCEPT ![w] = [loc[w] EXCEPT !.result = r, !.tries = WriteTries]]
    BY DEF Report
  <1>3. /\ loc'[w].done = loc[w].done /\ loc'[w].seen = loc[w].seen
        /\ loc'[w].job = loc[w].job /\ loc'[w].result = r
    BY <1>1, <1>2 DEF TypeOK, Locals
  <1>4. pc'[w] = "writeResult"
    BY DEF Report, Goto, TypeOK
  <1>5. QED BY <1>3, <1>4 DEF Backed, InProcess

\* A worker that returns to polling holds nothing.
LEMMA ReleaseBacked ==
  ASSUME TypeOK, NEW w \in Workers, Release(w)
  PROVE  Backed(w)'
  BY DEF TypeOK, Release, Goto, Rest, Backed

\* Claiming a job changes no claim of completion.
LEMMA SetRunningClaimed ==
  ASSUME TypeOK, NEW w \in Workers, NEW i \in Jobs, NEW n \in Nat, SetRunning(w, i, n)
  PROVE  \A j \in Jobs : Claimed(j)' => Claimed(j)
  <1>1. job' = [job EXCEPT ![i] = [job[i] EXCEPT !.state = "running", !.overdue = FALSE,
                                                 !.attempt = n]]
    BY DEF SetRunning
  <1>2. job[i] \in JobRecord
    BY DEF TypeOK
  <1>3. job'[i].done = job[i].done /\ job'[i].state = "running"
    BY <1>1, <1>2 DEF TypeOK, JobRecord
  <1>4. QED BY <1>1, <1>3 DEF TypeOK, Claimed

\* The steps of recovery, fetch and claim.
LEMMA ClaimingReal ==
  ASSUME TypeOK, RealInv, NEW w \in Workers, [Next]_vars,
         \/ Scan(w) \/ RecoverCheck(w) \/ RecoverWrite(w) \/ Fetch(w) \/ ClaimAtomic(w)
         \/ ClaimUnavailable(w) \/ ClaimCheck(w) \/ ClaimWrite(w) \/ ClaimRead(w)
  PROVE  RealInv'
  <1> DEFINE j == loc[w].job
  <1>1. Step(w) /\ UNCHANGED <<effects, ledger>> /\ Backed(w) /\ loc[w] \in Locals
    BY DEF Step, RealInv, TypeOK, Scan, RecoverCheck, RecoverWrite, Fetch, ClaimAtomic,
           ClaimUnavailable, ClaimCheck, ClaimWrite, ClaimRead
  <1>2. loc[w].done = FALSE
    BY <1>1 DEF Backed, InProcess, Locals, Scan, RecoverCheck, RecoverWrite, Fetch, ClaimAtomic,
           ClaimUnavailable, ClaimCheck, ClaimWrite, ClaimRead
  <1>3. ASSUME NEW k \in Jobs, Claimed(k)' PROVE Claimed(k)
    <2>1. CASE UNCHANGED job
      BY <1>3, <2>1 DEF Claimed
    <2>2. CASE RecoverWrite(w)
      <3>1. j \in Jobs /\ job[j] \in JobRecord
        BY <2>2 DEF RecoverWrite, TypeOK, HoldsWhatItNeeds
      <3>2. \/ job' = job
            \/ job' = [job EXCEPT ![j] = [job[j] EXCEPT !.state = "failed", !.overdue = FALSE]]
        BY <2>2 DEF RecoverWrite
      <3> DEFINE new == [job[j] EXCEPT !.state = "failed", !.overdue = FALSE]
      <3>3. new.done = job[j].done /\ new.state = "failed"
        BY <3>1 DEF JobRecord
      <3>4. job' = job \/ job' = [job EXCEPT ![j] = new]
        BY <3>2
      <3> HIDE DEF new
      <3>5. k = j /\ job' # job => job'[k] = new
        BY <3>4 DEF TypeOK
      <3>6. k # j => job'[k] = job[k]
        BY <3>4 DEF TypeOK
      <3>7. QED BY <1>3, <3>3, <3>4, <3>5, <3>6 DEF Claimed
    <2>3. CASE ClaimAtomic(w)
      <3>1. j \in Jobs
        BY <2>3 DEF ClaimAtomic, TypeOK, HoldsWhatItNeeds
      <3>2. job[j].attempt + 1 \in Nat
        BY <3>1 DEF TypeOK, JobRecord
      <3>3. QED BY <1>3, <2>1, <2>3, <3>1, <3>2, SetRunningClaimed DEF ClaimAtomic
    <2>4. CASE ClaimWrite(w)
      <3>1. j \in Jobs /\ loc[w].attempt + 1 \in Nat
        BY <2>4 DEF ClaimWrite, TypeOK, HoldsWhatItNeeds, Locals
      <3>2. QED BY <1>3, <2>1, <2>4, <3>1, SetRunningClaimed DEF ClaimWrite
    <2>5. QED
      BY <2>1, <2>2, <2>3, <2>4 DEF Scan, RecoverCheck, Fetch, ClaimUnavailable, ClaimCheck,
         ClaimRead
  <1>4. Backed(w)'
    <2>1. CASE Release(w)
      BY <2>1, ReleaseBacked
    <2>2. CASE /\ loc'[w].done = FALSE /\ loc'[w].seen = loc[w].seen
               /\ pc'[w] \notin InProcess
      BY <1>1, <2>2 DEF Backed, InProcess
    <2>3. CASE /\ loc'[w] = [loc[w] EXCEPT !.done = job[j].done]
               /\ pc'[w] = "process"
               /\ j \in Jobs
      <3>1. /\ loc'[w].done = job[j].done /\ loc'[w].seen = loc[w].seen
            /\ loc'[w].job = j
        BY <1>1, <2>3 DEF Locals
      <3>2. job[j].done => effects[j] > 0
        BY <2>3 DEF RealInv, Claimed
      <3>3. QED BY <1>1, <2>3, <3>1, <3>2 DEF Backed, InProcess
    <2>4. CASE Scan(w)
      <3>1. loc'[w].done = loc[w].done /\ loc'[w].seen = loc[w].seen
        <4>1. CASE loc' = loc
          BY <4>1
        <4>2. CASE loc' # loc
          BY <1>1, <2>4, <4>2 DEF Scan, TypeOK, Locals
        <4>3. QED BY <4>1, <4>2
      <3>2. pc'[w] = "recover"
        BY <2>4 DEF Scan, Goto, TypeOK
      <3>3. QED BY <1>2, <2>2, <3>1, <3>2 DEF InProcess
    <2>5. CASE RecoverCheck(w)
      <3>1. loc'[w].done = loc[w].done /\ loc'[w].seen = loc[w].seen
        BY <1>1, <2>5 DEF RecoverCheck, TypeOK, Locals
      <3>2. pc'[w] \in {"recover", "recoverWrite"}
        BY <2>5 DEF RecoverCheck, Goto, TypeOK
      <3>3. QED BY <1>2, <2>2, <3>1, <3>2 DEF InProcess
    <2>6. CASE RecoverWrite(w)
      <3>1. loc' = [loc EXCEPT ![w] = [loc[w] EXCEPT !.scan = loc[w].scan \ {j}, !.job = NoJob]]
        BY <2>6 DEF RecoverWrite
      <3>2. loc'[w].done = loc[w].done /\ loc'[w].seen = loc[w].seen
        BY <1>1, <3>1 DEF TypeOK, Locals
      <3>3. pc'[w] = "recover"
        BY <2>6 DEF RecoverWrite, Goto, TypeOK
      <3>4. QED BY <1>2, <2>2, <3>2, <3>3 DEF InProcess
    <2>7. CASE Fetch(w)
      <3>1. ASSUME NEW k \in Jobs, Goto(w, "claim"),
                   loc' = [loc EXCEPT ![w] = [@ EXCEPT !.job = k, !.attempt = job[k].attempt]]
            PROVE  Backed(w)'
        <4>1. loc' = [loc EXCEPT ![w] = [loc[w] EXCEPT !.job = k, !.attempt = job[k].attempt]]
          BY <3>1
        <4>2. loc'[w].done = loc[w].done /\ loc'[w].seen = loc[w].seen
          BY <1>1, <4>1 DEF TypeOK, Locals
        <4>3. pc'[w] = "claim"
          BY <3>1 DEF Goto, TypeOK
        <4>4. QED BY <1>2, <2>2, <4>2, <4>3 DEF InProcess
      <3>2. QED BY <2>1, <2>7, <3>1 DEF Fetch, Queued
    <2>8. CASE ClaimAtomic(w)
      <3>1. j \in Jobs
        BY <2>8 DEF ClaimAtomic, TypeOK, HoldsWhatItNeeds
      <3>2. CASE Goto(w, "process") /\ loc' = [loc EXCEPT ![w].done = job[j].done]
        BY <2>3, <3>1, <3>2 DEF Goto, TypeOK
      <3>3. CASE Goto(w, "claimCheck") /\ UNCHANGED loc
        BY <1>2, <2>2, <3>3 DEF Goto, TypeOK, InProcess
      <3>4. QED BY <2>1, <2>8, <3>2, <3>3 DEF ClaimAtomic
    <2>9. CASE ClaimRead(w)
      <3>1. j \in Jobs
        BY <2>9 DEF ClaimRead, TypeOK, HoldsWhatItNeeds
      <3>2. CASE Goto(w, "process") /\ loc' = [loc EXCEPT ![w].done = job[j].done]
        BY <2>3, <3>1, <3>2 DEF Goto, TypeOK
      <3>3. QED BY <2>1, <2>9, <3>2 DEF ClaimRead
    <2>10. CASE ClaimUnavailable(w) \/ ClaimCheck(w) \/ ClaimWrite(w)
      <3>1. Release(w) \/ (UNCHANGED loc /\ pc'[w] \in {"claimCheck", "claimWrite", "claimRead"})
        BY <2>10 DEF ClaimUnavailable, ClaimCheck, ClaimWrite, Goto, TypeOK
      <3>2. QED BY <1>2, <2>1, <2>2, <3>1 DEF InProcess
    <2>11. QED BY <2>4, <2>5, <2>6, <2>7, <2>8, <2>9, <2>10
  <1>5. QED BY <1>1, <1>3, <1>4, RealFrame

\* The steps of process_job up to the report.
LEMMA ProcessingReal ==
  ASSUME TypeOK, RealInv, NEW w \in Workers, [Next]_vars,
         \/ Reconcile(w) \/ BrowserEffect(w) \/ BrowserRaises(w)
         \/ LedgerLoad(w) \/ LedgerOpen(w) \/ LedgerDump(w)
  PROVE  RealInv'
  <1> DEFINE j == loc[w].job
             h == HostOf[w]
  <1>1. Step(w) /\ UNCHANGED job /\ Backed(w) /\ loc[w] \in Locals /\ h \in Hosts
    BY ConstantsOK DEF Step, RealInv, TypeOK, Reconcile, BrowserEffect, BrowserRaises,
       LedgerLoad, LedgerOpen, LedgerDump
  <1>2. j \in Jobs
    BY DEF TypeOK, HoldsWhatItNeeds, Reconcile, BrowserEffect, BrowserRaises, LedgerLoad,
       LedgerOpen, LedgerDump
  <1>3. \A k \in Jobs : Claimed(k)' => Claimed(k)
    BY <1>1 DEF Claimed
  <1>4. {"success", "failed", "needs_human"} = Outcomes
    BY DEF Outcomes
  <1>5. CASE Reconcile(w)
    <2>1. UNCHANGED <<effects, ledger>> /\ pc[w] = "process"
      BY <1>5 DEF Reconcile
    <2>2. Backed(w)'
      <3>1. CASE Report(w, "failed")
        BY <1>1, <1>4, <2>1, <3>1, ReportBacked
      <3>2. CASE PriorOutcome(w) /\ Report(w, "success")
        <4>1. effects[j] > 0
          BY <1>1, <1>2, <3>2 DEF PriorOutcome, RealInv, Backed
        <4>2. QED BY <1>1, <1>4, <2>1, <3>2, <4>1, ReportBacked
      <3>3. CASE Goto(w, "browser") /\ UNCHANGED loc
        BY <1>1, <2>1, <3>3 DEF Backed, InProcess, Goto, TypeOK
      <3>4. QED BY <1>5, <3>1, <3>2, <3>3 DEF Reconcile
    <2>3. QED BY <1>1, <1>3, <2>1, <2>2, RealFrame
  <1>6. CASE BrowserEffect(w)
    <2>1. UNCHANGED <<ledger, loc>> /\ pc' = [pc EXCEPT ![w] = "confirm"]
      BY <1>6 DEF BrowserEffect, Goto
    <2>2. effects'[j] > 0
      BY <1>2, <1>6 DEF BrowserEffect, TypeOK
    <2>3. \A k \in Jobs : effects[k] > 0 => effects'[k] > 0
      BY EffectsLast
    <2>4. loc[w].seen \subseteq Jobs
      BY <1>1 DEF Locals
    <2>5. Backed(w)'
      BY <1>1, <2>1, <2>2, <2>3, <2>4 DEF Backed, InProcess, TypeOK
    <2>6. QED BY <1>1, <1>3, <2>1, <2>5, RealFrame
  <1>7. CASE BrowserRaises(w)
    <2>1. UNCHANGED <<effects, ledger>>
      BY <1>7 DEF BrowserRaises
    <2>2. PICK r \in {"failed", "needs_human"} : Report(w, r)
      BY <1>7 DEF BrowserRaises
    <2>3. Backed(w)'
      BY <1>1, <1>4, <2>1, <2>2, ReportBacked
    <2>4. QED BY <1>1, <1>3, <2>1, <2>3, RealFrame
  <1>8. CASE LedgerLoad(w)
    <2>1. UNCHANGED <<effects, ledger>> /\ pc' = [pc EXCEPT ![w] = "ledgerOpen"]
      BY <1>8 DEF LedgerLoad, Goto
    <2>2. effects[j] > 0
      BY <1>1, <1>8 DEF LedgerLoad, Backed
    <2>3. /\ loc'[w].done = loc[w].done /\ loc'[w].job = j
          /\ loc'[w].seen = ledger[h]
      BY <1>1, <1>8 DEF LedgerLoad, TypeOK, Locals
    <2>4. \A k \in ledger[h] : effects[k] > 0
      BY <1>1 DEF RealInv
    <2>5. Backed(w)'
      BY <1>1, <2>1, <2>2, <2>3, <2>4 DEF Backed, InProcess, TypeOK
    <2>6. QED BY <1>1, <1>3, <2>1, <2>5, RealFrame
  <1>9. CASE LedgerOpen(w)
    <2>1. UNCHANGED effects /\ effects[j] > 0
      BY <1>1, <1>9 DEF LedgerOpen, Backed
    <2>2. \A g \in Hosts : ledger'[g] \subseteq ledger[g]
      BY <1>9 DEF LedgerOpen, TypeOK
    <2>3. Backed(w)'
      <3>1. CASE Goto(w, "ledgerDump") /\ UNCHANGED loc
        BY <1>1, <2>1, <3>1 DEF Backed, InProcess, Goto, TypeOK
      <3>2. CASE Report(w, "success")
        BY <1>1, <1>4, <2>1, <3>2, ReportBacked
      <3>3. QED BY <1>9, <3>1, <3>2 DEF LedgerOpen
    <2>4. QED BY <1>1, <1>3, <2>2, <2>3, RealFrame
  <1>10. CASE LedgerDump(w)
    <2>1. UNCHANGED effects /\ effects[j] > 0 /\ Report(w, "success")
      BY <1>1, <1>10 DEF LedgerDump, Backed
    <2>2. ASSUME NEW g \in Hosts, NEW k \in ledger'[g]
          PROVE  k \in ledger[g] \/ effects'[k] > 0
      <3>1. \A i \in loc[w].seen \cup {j} : effects'[i] > 0
        BY <1>1, <2>1 DEF Backed
      <3>2. ledger' = [ledger EXCEPT ![h] = loc[w].seen \cup {j}]
              \/ ledger' = [ledger EXCEPT ![h] = {}]
        BY <1>10 DEF LedgerDump
      <3>3. QED BY <2>2, <3>1, <3>2 DEF TypeOK
    <2>3. Backed(w)'
      BY <1>1, <1>4, <2>1, ReportBacked
    <2>4. QED BY <1>1, <1>3, <2>2, <2>3, RealFrame
  <1>11. QED BY <1>5, <1>6, <1>7, <1>8, <1>9, <1>10

\* write_result marks as done only what it reports as a success.
LEMMA WriteResultReal ==
  ASSUME TypeOK, RealInv, NEW w \in Workers, [Next]_vars, WriteResult(w)
  PROVE  RealInv'
  <1> DEFINE j == loc[w].job
             r == loc[w].result
  <1>1. Step(w) /\ UNCHANGED <<effects, ledger>> /\ Backed(w) /\ loc[w] \in Locals
    BY DEF Step, RealInv, TypeOK, WriteResult
  <1>2. j \in Jobs /\ job[j] \in JobRecord /\ pc[w] = "writeResult"
    BY DEF TypeOK, HoldsWhatItNeeds, WriteResult
  <1>3. ASSUME NEW k \in Jobs, Claimed(k)' PROVE Claimed(k) \/ effects'[k] > 0
    <2> DEFINE new == [job[j] EXCEPT !.state = r, !.overdue = FALSE, !.done = (r = "success")]
    <2>1. new.state = r /\ (new.done => r = "success")
      <3> DEFINE d == r = "success"
      <3>1. job[j] \in JobRecord
        BY <1>2
      <3>2. d => r = "success"
        OBVIOUS
      <3> HIDE DEF d
      <3>3. /\ [job[j] EXCEPT !.state = r, !.overdue = FALSE, !.done = d].state = r
            /\ [job[j] EXCEPT !.state = r, !.overdue = FALSE, !.done = d].done = d
        BY <3>1, WrittenState
      <3>4. [job[j] EXCEPT !.state = r, !.overdue = FALSE, !.done = d].done => r = "success"
        BY <3>2, <3>3
      <3>5. QED BY <3>3, <3>4, Zenon DEF d
    <2>2. job' = job \/ job' = [job EXCEPT ![j] = new]
      BY DEF WriteResult
    <2>3. r = "success" => effects[j] > 0
      BY <1>1, <1>2 DEF Backed
    <2> HIDE DEF new
    <2>4. k # j => job'[k] = job[k]
      BY <2>2 DEF TypeOK
    <2>5. job' # job /\ k = j => job'[k] = new
      BY <2>2 DEF TypeOK
    <2>6. QED BY <1>1, <1>3, <2>1, <2>2, <2>3, <2>4, <2>5 DEF Claimed
  <1>4. Backed(w)'
    <2>1. CASE Release(w)
      BY <2>1, ReleaseBacked
    <2>2. CASE loc' = [loc EXCEPT ![w].tries = @ - 1] /\ UNCHANGED pc
      <3>1. loc' = [loc EXCEPT ![w] = [loc[w] EXCEPT !.tries = loc[w].tries - 1]]
        BY <2>2
      <3>2. /\ loc'[w].done = loc[w].done /\ loc'[w].seen = loc[w].seen
            /\ loc'[w].job = j /\ loc'[w].result = r
        BY <1>1, <3>1 DEF TypeOK, Locals
      <3>3. pc'[w] = pc[w]
        BY <2>2
      <3>4. QED BY <1>1, <1>2, <3>2, <3>3 DEF Backed
    <2>3. QED BY <2>1, <2>2 DEF WriteResult, AttemptFails
  <1>5. QED BY <1>1, <1>3, <1>4, RealFrame

\* Operators, the clock and crashes bring no evidence of their own.
LEMMA EnvironmentReal ==
  ASSUME TypeOK, RealInv, NEW j \in Jobs, Operator(j) \/ BecomeOverdue(j)
  PROVE  RealInv'
  <1>1. job[j] \in JobRecord
    BY DEF TypeOK
  <1>2. ASSUME NEW k \in Jobs, Claimed(k)' PROVE Claimed(k)
    <2>1. CASE Retry(j)
      <3>1. job' = [job EXCEPT ![j] = [job[j] EXCEPT !.state = "queued",
                                                    !.attempt = job[j].attempt + 1]]
        BY <2>1 DEF Retry
      <3>2. job'[j].done = job[j].done /\ job'[j].state = "queued"
        BY <1>1, <3>1 DEF TypeOK, JobRecord
      <3>3. QED BY <1>2, <3>1, <3>2 DEF Claimed, TypeOK
    <2>2. CASE Queue(j)
      <3>1. job'[j].done = job[j].done /\ job'[j].state = "queued"
        BY <1>1, <2>2 DEF Queue, TypeOK, JobRecord
      <3>2. QED BY <1>2, <2>2, <3>1 DEF Queue, Claimed, TypeOK
    <2>3. CASE BecomeOverdue(j)
      <3>1. job' = [job EXCEPT ![j] = [job[j] EXCEPT !.overdue = TRUE]]
        BY <2>3 DEF BecomeOverdue
      <3>2. job'[j].done = job[j].done /\ job'[j].state = job[j].state
        BY <1>1, <3>1 DEF TypeOK, JobRecord
      <3>3. QED BY <1>2, <3>1, <3>2 DEF Claimed, TypeOK
    <2>4. QED BY <2>1, <2>2, <2>3 DEF Operator
  <1>3. UNCHANGED <<effects, ledger, pc, loc>>
    BY DEF Operator, Queue, Retry, BecomeOverdue
  <1>4. QED BY <1>2, <1>3 DEF RealInv, Backed

\* A crash or a restart leaves every effect and every record of it alone.
LEMMA CrashReal ==
  ASSUME TypeOK, RealInv, NEW w \in Workers, [Next]_vars, Crash(w) \/ Restart(w)
  PROVE  RealInv'
  <1>1. UNCHANGED <<job, effects, ledger>>
    BY DEF Crash, Restart
  <1>2. Backed(w)'
    <2>1. CASE Crash(w)
      BY <2>1 DEF Crash, Goto, Rest, Backed, TypeOK
    <2>2. CASE Restart(w)
      BY <2>2 DEF Restart, Goto, Backed, InProcess, RealInv, TypeOK
    <2>3. QED BY <2>1, <2>2
  <1>3. QED BY <1>1, <1>2, RealFrame DEF Claimed

\* Whatever a record or a ledger shows as completed did take effect: for either
\* backend, any number of workers, any crashes, lost messages and damaged ledgers.
THEOREM CompletionsAreReal == Spec => []CompletionIsReal
  <1>1. Init => RealInv
    BY DEF Init, RealInv, Backed, Claimed, Rest
  <1>2. TypeOK /\ RealInv /\ [Next]_vars => RealInv'
    <2>1. ASSUME TypeOK, RealInv, UNCHANGED vars PROVE RealInv'
      BY <2>1 DEF RealInv, Backed, Claimed, vars
    <2>2. ASSUME TypeOK, RealInv, [Next]_vars, NEW w \in Workers, Step(w) PROVE RealInv'
      BY <2>2, ClaimingReal, ProcessingReal, WriteResultReal DEF Step
    <2>3. QED
      BY <2>1, <2>2, EnvironmentReal, CrashReal DEF Next
  <1>3. RealInv => CompletionIsReal
    BY DEF RealInv, CompletionIsReal, Claimed
  <1>4. QED
    BY <1>1, <1>2, <1>3, TypeCorrect, PTL DEF Spec

-------------------------------------------------------------------------------
(* At most one effect, for a worker that is alone                          *)

Saving == {"confirm", "ledgerOpen", "ledgerDump"}

\* The deployment in which the ledger does its work: one worker, never killed and
\* never failing between the effect and the moment its outcome is in the file.
Undisturbed ==
    /\ \A v, w \in Workers : v = w
    /\ CrashPoints \cap Saving = {}
    /\ ~UnconfirmedEffects
    /\ ~LedgerFaults

\* Where the outcome of j is while w saves it.
Kept(w, j) ==
    \/ j \in ledger[HostOf[w]]
    \/ pc[w] = "ledgerDump" /\ j \in loc[w].seen
    \/ pc[w] \in Saving /\ loc[w].job = j

OnceInv ==
    /\ AtMostOneEffect
    /\ \A w \in Workers :
        /\ \A j \in Jobs : effects[j] > 0 => Kept(w, j)
        /\ pc[w] = "ledgerOpen" => loc[w].seen = ledger[HostOf[w]]
        /\ pc[w] = "ledgerDump" => ledger[HostOf[w]] = {}
        /\ pc[w] = "browser" => loc[w].job \notin ledger[HostOf[w]]

\* Outside the browser and the saving of its outcome, nothing that matters moves.
LEMMA QuietOnce ==
  ASSUME TypeOK, OnceInv, NEW w \in Workers, \A v \in Workers : v = w,
         UNCHANGED <<effects, ledger>>,
         pc[w] \notin Saving, pc'[w] \notin Saving,
         pc'[w] = "browser" => loc'[w].job \notin ledger[HostOf[w]]
  PROVE  OnceInv'
  BY DEF OnceInv, AtMostOneEffect, Kept, Saving

\* Every step of the lone worker.
LEMMA StepOnce ==
  ASSUME Undisturbed, TypeOK, OnceInv, NEW w \in Workers,
         Step(w) \/ Crash(w) \/ Restart(w)
  PROVE  OnceInv'
  <1> DEFINE j == loc[w].job
             h == HostOf[w]
  <1>1. /\ \A v \in Workers : v = w
        /\ h \in Hosts /\ loc[w] \in Locals
    BY ConstantsOK DEF Undisturbed, TypeOK
  <1>2. \A k \in Jobs : effects[k] \in 0..2
    BY DEF TypeOK
  <1>3. CASE BrowserEffect(w)
    <2>1. j \in Jobs /\ pc[w] = "browser" /\ j \notin ledger[h]
      BY <1>3 DEF BrowserEffect, TypeOK, HoldsWhatItNeeds, OnceInv
    <2>2. effects[j] = 0
      BY <1>2, <2>1 DEF OnceInv, Kept, Saving
    <2>3. effects' = [effects EXCEPT ![j] = 1] /\ UNCHANGED <<ledger, loc>>
      BY <1>3, <2>2 DEF BrowserEffect
    <2>4. pc'[w] = "confirm"
      BY <1>3 DEF BrowserEffect, Goto, TypeOK
    <2>5. \A k \in Jobs : effects'[k] = IF k = j THEN 1 ELSE effects[k]
      BY <2>3 DEF TypeOK
    <2>6. \A k \in Jobs : effects'[k] > 0 => Kept(w, k)'
      BY <2>1, <2>3, <2>4, <2>5 DEF OnceInv, Kept, Saving
    <2>7. AtMostOneEffect'
      BY <2>5 DEF OnceInv, AtMostOneEffect
    <2>8. QED BY <1>1, <2>4, <2>6, <2>7 DEF OnceInv
  <1>4. CASE LedgerLoad(w)
    <2>1. UNCHANGED <<effects, ledger>> /\ pc[w] = "confirm" /\ pc'[w] = "ledgerOpen"
      BY <1>4 DEF LedgerLoad, Goto, TypeOK
    <2>2. loc'[w].seen = ledger[h] /\ loc'[w].job = j
      BY <1>1, <1>4 DEF LedgerLoad, TypeOK, Locals
    <2>3. QED BY <1>1, <2>1, <2>2 DEF OnceInv, AtMostOneEffect, Kept, Saving
  <1>5. CASE LedgerOpen(w)
    <2>1. UNCHANGED <<effects, loc>> /\ pc[w] = "ledgerOpen" /\ pc'[w] = "ledgerDump"
      BY <1>5 DEF LedgerOpen, Goto, TypeOK, Undisturbed
    <2>2. ledger'[h] = {}
      BY <1>1, <1>5 DEF LedgerOpen, TypeOK, Undisturbed
    <2>3. loc[w].seen = ledger[h]
      BY <2>1 DEF OnceInv
    <2>4. QED BY <1>1, <2>1, <2>2, <2>3 DEF OnceInv, AtMostOneEffect, Kept, Saving
  <1>6. CASE LedgerDump(w)
    <2>1. UNCHANGED effects /\ pc[w] = "ledgerDump" /\ pc'[w] = "writeResult"
      BY <1>6 DEF LedgerDump, Report, Goto, TypeOK
    <2>2. ledger[h] = {}
      BY <2>1 DEF OnceInv
    <2>3. ledger'[h] = loc[w].seen \cup {j}
      BY <1>1, <1>6, <2>2 DEF LedgerDump, TypeOK, Undisturbed
    <2>4. QED BY <1>1, <2>1, <2>2, <2>3 DEF OnceInv, AtMostOneEffect, Kept, Saving
  <1>7. CASE Reconcile(w)
    <2>1. UNCHANGED <<effects, ledger>> /\ pc[w] = "process"
      BY <1>7 DEF Reconcile
    <2>2. pc'[w] = "writeResult" \/ (pc'[w] = "browser" /\ UNCHANGED loc /\ ~PriorOutcome(w))
      BY <1>7 DEF Reconcile, Report, Goto, TypeOK
    <2>3. QED BY <1>1, <2>1, <2>2, QuietOnce DEF PriorOutcome, Saving
  <1>8. CASE BrowserRaises(w)
    <2>1. UNCHANGED <<effects, ledger>> /\ pc[w] = "browser" /\ pc'[w] = "writeResult"
      BY <1>8 DEF BrowserRaises, Report, Goto, TypeOK, Undisturbed
    <2>2. QED BY <1>1, <2>1, QuietOnce DEF Saving
  <1>9. CASE Crash(w)
    <2>1. UNCHANGED <<effects, ledger>> /\ pc[w] \in CrashPoints /\ pc'[w] = "down"
      BY <1>9 DEF Crash, Goto, TypeOK
    <2>2. pc[w] \notin Saving
      BY <2>1 DEF Undisturbed
    <2>3. QED BY <1>1, <2>1, <2>2, QuietOnce DEF Saving
  <1>10. CASE \/ Scan(w) \/ RecoverCheck(w) \/ RecoverWrite(w) \/ Fetch(w) \/ ClaimAtomic(w)
              \/ ClaimUnavailable(w) \/ ClaimCheck(w) \/ ClaimWrite(w) \/ ClaimRead(w)
              \/ WriteResult(w) \/ Restart(w)
    <2>1. /\ UNCHANGED <<effects, ledger>>
          /\ pc[w] \notin Saving /\ pc'[w] \notin Saving \cup {"browser"}
      BY <1>10 DEF Scan, RecoverCheck, RecoverWrite, Fetch, ClaimAtomic, ClaimUnavailable,
         ClaimCheck, ClaimWrite, ClaimRead, WriteResult, AttemptFails, Restart, Release, Goto,
         Saving, TypeOK
    <2>2. QED BY <1>1, <2>1, QuietOnce
  <1>11. QED
    BY <1>3, <1>4, <1>5, <1>6, <1>7, <1>8, <1>9, <1>10 DEF Step

\* "Prevents duplicate state-changing browser actions when Odoo result write fails":
\* a lone worker that is not disturbed while it saves an outcome repeats no effect,
\* however often the job is recovered, retried or its result lost.
THEOREM LoneWorkerNeverRepeats ==
  ASSUME Undisturbed
  PROVE  Spec => []AtMostOneEffect
  <1>1. Init => OnceInv
    BY DEF Init, OnceInv, AtMostOneEffect
  <1>2. TypeOK /\ OnceInv /\ [Next]_vars => OnceInv'
    <2>1. ASSUME OnceInv, UNCHANGED <<effects, ledger, pc, loc>> PROVE OnceInv'
      BY <2>1 DEF OnceInv, AtMostOneEffect, Kept
    <2>2. ASSUME NEW j \in Jobs, Operator(j) \/ BecomeOverdue(j)
          PROVE  UNCHANGED <<effects, ledger, pc, loc>>
      BY <2>2 DEF Operator, Queue, Retry, BecomeOverdue
    <2>3. QED
      BY <2>1, <2>2, StepOnce DEF Next, vars
  <1>3. OnceInv => AtMostOneEffect
    BY DEF OnceInv
  <1>4. QED
    BY <1>1, <1>2, <1>3, TypeCorrect, PTL DEF Spec

-------------------------------------------------------------------------------
(* Recovery by the only worker there is                                    *)

\* What a worker knows of the jobs that it is about to recover, if nobody else writes
\* the state of a running job: they are still the stale ones that it found.
TimelyInv ==
    \A w \in Workers :
        /\ pc[w] \in {"poll", "down"} => loc[w].scan = {}
        /\ pc[w] \in {"recover", "recoverWrite"} =>
            \A j \in loc[w].scan : job[j].state = "running" /\ job[j].overdue
        /\ pc[w] = "recoverWrite" => loc[w].job \in loc[w].scan

\* An operator leaves a running job alone, and the clock does not turn back.
LEMMA EnvironmentTimely ==
  ASSUME TypeOK, TimelyInv, NEW j \in Jobs, Operator(j) \/ BecomeOverdue(j)
  PROVE  TimelyInv' /\ UNCHANGED pc
  <1>1. UNCHANGED <<pc, loc>>
    BY DEF Operator, Queue, Retry, BecomeOverdue
  <1>2. ASSUME NEW k \in Jobs, job[k].state = "running", job[k].overdue
        PROVE  job'[k].state = "running" /\ job'[k].overdue
    <2>1. job[k] \in JobRecord /\ job[j] \in JobRecord
      BY DEF TypeOK
    <2>2. CASE k # j
      BY <1>2, <2>2 DEF TypeOK, Operator, Queue, Retry, BecomeOverdue
    <2>3. CASE k = j
      BY <1>2, <2>3 DEF Operator, Queue, Retry, BecomeOverdue
    <2> QED BY <2>2, <2>3
  <1>3. \A w \in Workers : loc[w].scan \subseteq Jobs
    BY DEF TypeOK, Locals
  <1> QED BY <1>1, <1>2, <1>3 DEF TimelyInv

\* Every step of the lone worker.
LEMMA StepTimely ==
  ASSUME TypeOK, TimelyInv, NEW w \in Workers, \A v \in Workers : v = w,
         Step(w) \/ Crash(w) \/ Restart(w)
  PROVE  TimelyInv'
  <1>1. loc[w] \in Locals /\ Rest.scan = {}
    BY DEF TypeOK, Rest
  <1>2. CASE Scan(w)
    <2>1. pc'[w] = "recover" /\ UNCHANGED job /\ pc[w] = "poll"
      BY <1>2 DEF Scan, Goto, TypeOK
    <2>2. \/ loc'[w].scan = {j \in Jobs : job[j].state = "running" /\ job[j].overdue}
          \/ loc'[w].scan = {}
      BY <1>1, <1>2, <2>1 DEF Scan, TypeOK, Locals, TimelyInv
    <2> QED BY <2>1, <2>2 DEF TimelyInv
  <1>3. CASE RecoverCheck(w)
    <2>1. UNCHANGED job /\ pc[w] = "recover"
      BY <1>3 DEF RecoverCheck
    <2>2. \/ pc'[w] = "recoverWrite" /\ loc'[w].scan = loc[w].scan /\ loc'[w].job \in loc[w].scan
          \/ pc'[w] = "recover" /\ loc'[w].scan \subseteq loc[w].scan
      BY <1>1, <1>3 DEF RecoverCheck, Goto, TypeOK, Locals
    <2> QED BY <2>1, <2>2 DEF TimelyInv
  <1>4. CASE RecoverWrite(w)
    <2> DEFINE j == loc[w].job
    <2>1. pc[w] = "recoverWrite" /\ pc'[w] = "recover" /\ j \in Jobs
      BY <1>4 DEF RecoverWrite, Goto, TypeOK, HoldsWhatItNeeds
    <2>2. loc'[w].scan = loc[w].scan \ {j} /\ loc[w].scan \subseteq Jobs
      BY <1>1, <1>4 DEF RecoverWrite, TypeOK, Locals
    <2>3. \A k \in Jobs \ {j} : job'[k] = job[k]
      BY <1>4, <2>1 DEF RecoverWrite, TypeOK
    <2> QED BY <2>1, <2>2, <2>3 DEF TimelyInv
  <1>5. CASE Restart(w)
    <2>1. pc[w] = "down" /\ pc'[w] = "poll" /\ loc' = loc
      BY <1>5 DEF Restart, Goto, TypeOK
    <2> QED BY <2>1 DEF TimelyInv
  <1>6. CASE Crash(w) \/ Release(w)
    <2>1. pc'[w] \in {"poll", "down"} /\ loc'[w].scan = {}
      BY <1>1, <1>6 DEF Crash, Release, Goto, TypeOK
    <2> QED BY <2>1 DEF TimelyInv
  <1>7. CASE pc'[w] \notin {"poll", "recover", "recoverWrite", "down"}
    BY <1>7 DEF TimelyInv
  <1>8. CASE Fetch(w)
    BY <1>6, <1>7, <1>8 DEF Fetch, Goto, TypeOK
  <1>9. CASE ClaimAtomic(w) \/ ClaimUnavailable(w) \/ ClaimCheck(w) \/ ClaimWrite(w) \/ ClaimRead(w)
    BY <1>6, <1>7, <1>9
       DEF ClaimAtomic, ClaimUnavailable, ClaimCheck, ClaimWrite, ClaimRead, Goto, TypeOK
  <1>10. CASE \/ Reconcile(w) \/ BrowserEffect(w) \/ BrowserRaises(w)
              \/ LedgerLoad(w) \/ LedgerOpen(w) \/ LedgerDump(w)
    BY <1>7, <1>10
       DEF Reconcile, BrowserEffect, BrowserRaises, LedgerLoad, LedgerOpen, LedgerDump,
           Report, Goto, TypeOK
  <1>11. CASE WriteResult(w)
    <2>1. Release(w) \/ (pc'[w] = "writeResult")
      BY <1>11 DEF WriteResult, AttemptFails, TypeOK
    <2> QED BY <1>6, <1>7, <2>1
  <1> QED
    BY <1>2, <1>3, <1>4, <1>5, <1>6, <1>8, <1>9, <1>10, <1>11 DEF Step

\* "If started_at is older than stale_running_timeout_seconds, marks job as failed":
\* the stint that recovery ends is overdue when it ends, on either backend and however
\* the operators act, as long as one worker serves the queue.  (With two, a job may be
\* recovered, retried and claimed again between the scan and the write.)
THEOREM LoneRecoveryIsTimely ==
  ASSUME \A v, w \in Workers : v = w
  PROVE  Spec => RecoverOnlyOverdue
  <1> DEFINE Timely ==
        \A w \in Workers :
            pc[w] = "recoverWrite" /\ job' # job /\ pc'[w] # pc[w] => job[loc[w].job].overdue
  <1>1. Init => TimelyInv
    BY DEF Init, TimelyInv, Rest
  <1>2. TypeOK /\ TimelyInv /\ [Next]_vars => TimelyInv'
    <2>1. ASSUME TimelyInv, UNCHANGED <<job, pc, loc>> PROVE TimelyInv'
      BY <2>1 DEF TimelyInv
    <2> QED BY <2>1, StepTimely, EnvironmentTimely DEF Next, vars
  <1>3. TimelyInv => \A w \in Workers : pc[w] = "recoverWrite" => job[loc[w].job].overdue
    BY DEF TimelyInv
  <1>4. TimelyInv => [Timely]_vars
    BY <1>3
  <1> HIDE DEF Timely
  <1>5. Spec => [][Timely]_vars
    BY <1>1, <1>2, <1>4, TypeCorrect, PTL DEF Spec
  <1> QED BY <1>5 DEF Timely, RecoverOnlyOverdue
=================================================================================
