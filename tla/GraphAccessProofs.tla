---------------------------- MODULE GraphAccessProofs ----------------------------
(***************************************************************************)
(* Theorems about GraphAccess, for any number of retries, any delays that  *)
(* servers advise, any lifetimes of tokens and any links between pages.    *)
(* First the audit and the pages, which stand alone; then the request in   *)
(* flight, the tokens, and the call that uses both.                        *)
(***************************************************************************)
EXTENDS GraphAccess, FiniteSetTheorems, TLAPS

\* The walk, as long as it has not failed: what is marked as seen was yielded or is being
\* waited for, and the next page is the one the last page leads to.
WalkUnderWay ==
    /\ ToSet(walk.got) \subseteq walk.seen
    /\ walk.pc \in {"ask", "done"} => walk.seen = ToSet(walk.got)
    /\ walk.pc = "wait" =>
        /\ walk.seen = ToSet(walk.got) \cup {walk.next}
        /\ walk.next \in Pages \ ToSet(walk.got)
    /\ IsInjective(walk.got)
    /\ \A i \in 2..Len(walk.got) : walk.got[i] = walk.chain[walk.got[i - 1]]
    /\ IF walk.got = <<>> THEN walk.next \in Pages ELSE walk.next = walk.chain[Last(walk.got)]

WalkInv ==
    /\ walk \in Walks
    /\ walk.pc \in {"ask", "wait", "done"} => WalkUnderWay
    /\ walk.pc = "done" =>
        walk.next = NoPage \/ walk.next \in walk.seen \/ Len(walk.got) >= MaxPages

AuditInv == audit \in Audits /\ AuditIsComplete

\* No walk, at the start of a command.
LEMMA NoWalkType == NoWalk \in Walks /\ NoWalk.pc = "idle"
  <1>1. \E c \in Chains : TRUE
    BY GraphAccessConstantsOK
  <1>2. (CHOOSE c \in Chains : TRUE) \in Chains
    BY <1>1
  <1>3. <<>> \in Seq(Pages)
    OBVIOUS
  <1> QED BY <1>2, <1>3 DEF NoWalk, Walks

\* One more page on a list of different pages that are linked.
LEMMA OneMorePage ==
  ASSUME NEW got \in Seq(Pages), NEW p \in Pages, p \notin ToSet(got), IsInjective(got),
         NEW chain \in Chains,
         \A i \in 2..Len(got) : got[i] = chain[got[i - 1]],
         got # <<>> => p = chain[Last(got)]
  PROVE  LET more == Append(got, p) IN
         /\ more \in Seq(Pages) /\ more # <<>> /\ Last(more) = p
         /\ ToSet(more) = ToSet(got) \cup {p}
         /\ IsInjective(more)
         /\ \A i \in 2..Len(more) : more[i] = chain[more[i - 1]]
  <1> DEFINE more == Append(got, p)
  <1>1. /\ more \in Seq(Pages) /\ Len(more) = Len(got) + 1 /\ Len(got) \in Nat
        /\ \A i \in 1..Len(got) : more[i] = got[i]
        /\ more[Len(got) + 1] = p
        /\ DOMAIN more = 1..(Len(got) + 1) /\ DOMAIN got = 1..Len(got)
    OBVIOUS
  <1> HIDE DEF more
  <1>2. more # <<>> /\ Last(more) = p
    BY <1>1 DEF Last
  <1>3. ToSet(more) = ToSet(got) \cup {p}
    <2>1. ToSet(more) \subseteq ToSet(got) \cup {p}
      BY <1>1 DEF ToSet
    <2>2. ToSet(got) \subseteq ToSet(more)
      BY <1>1 DEF ToSet
    <2>3. p \in ToSet(more)
      BY <1>1 DEF ToSet
    <2> QED BY <2>1, <2>2, <2>3
  <1>4. IsInjective(more)
    <2>1. \A a \in 1..Len(got) : got[a] # p
      BY <1>1 DEF ToSet
    <2>2. \A a, b \in 1..Len(got) : got[a] = got[b] => a = b
      BY <1>1 DEF IsInjective
    <2>3. \A a \in DOMAIN more : a \in 1..Len(got) \/ a = Len(got) + 1
      BY <1>1
    <2> QED BY <1>1, <2>1, <2>2, <2>3 DEF IsInjective
  <1>5. ASSUME NEW i \in 2..Len(more) PROVE more[i] = chain[more[i - 1]]
    <2>1. CASE i = Len(got) + 1
      <3>1. got # <<>> /\ Last(got) = got[Len(got)] /\ i - 1 = Len(got) /\ Len(got) \in 1..Len(got)
        BY <1>1, <2>1 DEF Last
      <3> QED BY <1>1, <2>1, <3>1
    <2>2. CASE i # Len(got) + 1
      <3>1. i \in 2..Len(got) /\ i - 1 \in 1..Len(got) /\ i \in 1..Len(got)
        BY <1>1, <2>2
      <3> QED BY <1>1, <3>1
    <2> QED BY <2>1, <2>2
  <1> QED BY <1>1, <1>2, <1>3, <1>4, <1>5 DEF more

\* A first page: nothing was yielded yet.
LEMMA NothingYielded == ToSet(<<>>) = {} /\ IsInjective(<<>>) /\ Len(<<>>) = 0
  BY DEF ToSet, IsInjective

\* No walk has begun.
LEMMA WalkInit == Init => WalkInv
  BY NoWalkType DEF Init, WalkInv

\* A page that was asked for arrives, or an error.
LEMMA WalkPage ==
  ASSUME WalkInv, PageArrives
  PROVE  WalkInv'
  <1>1. walk.pc = "wait" /\ walk \in Walks /\ WalkUnderWay
    BY DEF PageArrives, WalkInv
  <1> DEFINE more == Append(walk.got, walk.next)
  <1>2. \/ walk' = [walk EXCEPT !.pc = "ask", !.got = more, !.next = walk.chain[walk.next]]
        \/ walk' = [walk EXCEPT !.pc = "failed"]
    BY DEF PageArrives
  <1>3. /\ walk.got \in Seq(Pages) /\ walk.chain \in Chains /\ walk.next \in Pages
        /\ walk.chain \in [Pages -> Pages \cup {NoPage}] /\ walk.seen \in SUBSET Pages
    BY <1>1, GraphAccessConstantsOK DEF Walks, WalkUnderWay
  <1>4. CASE walk' = [walk EXCEPT !.pc = "failed"]
    BY <1>1, <1>4 DEF Walks, WalkInv
  <1>5. CASE walk' = [walk EXCEPT !.pc = "ask", !.got = more, !.next = walk.chain[walk.next]]
    <2>1. /\ walk'.pc = "ask" /\ walk'.got = more /\ walk'.next = walk.chain[walk.next]
          /\ walk'.seen = walk.seen /\ walk'.chain = walk.chain
      BY <1>1, <1>5 DEF Walks
    <2>2. /\ more \in Seq(Pages) /\ more # <<>> /\ Last(more) = walk.next
          /\ ToSet(more) = ToSet(walk.got) \cup {walk.next}
          /\ IsInjective(more)
          /\ \A i \in 2..Len(more) : more[i] = walk.chain[more[i - 1]]
      <3>1. walk.next \notin ToSet(walk.got) /\ IsInjective(walk.got)
        BY <1>1 DEF WalkUnderWay
      <3>2. \A i \in 2..Len(walk.got) : walk.got[i] = walk.chain[walk.got[i - 1]]
        BY <1>1 DEF WalkUnderWay
      <3>3. walk.got # <<>> => walk.next = walk.chain[Last(walk.got)]
        BY <1>1 DEF WalkUnderWay
      <3> QED BY <1>3, <3>1, <3>2, <3>3, OneMorePage
    <2> HIDE DEF more
    <2>3. walk' \in Walks
      <3>1. walk.chain[walk.next] \in Pages \cup {NoPage}
        BY <1>3
      <3> QED BY <1>1, <1>3, <1>5, <2>2, <3>1 DEF Walks
    <2>4. walk.seen = ToSet(more)
      BY <1>1, <2>2 DEF WalkUnderWay
    <2>5. WalkUnderWay'
      BY <2>1, <2>2, <2>4 DEF WalkUnderWay
    <2> QED BY <2>1, <2>3, <2>5 DEF WalkInv
  <1> QED BY <1>2, <1>4, <1>5

\* The head of the loop.
LEMMA WalkNext ==
  ASSUME WalkInv, NextPage
  PROVE  WalkInv'
  <1>1. walk.pc = "ask" /\ walk \in Walks /\ WalkUnderWay
    BY DEF NextPage, WalkInv
  <1> DEFINE wants == walk.next # NoPage /\ WantsPage(walk.next, walk.seen, Len(walk.got), MaxPages)
  <1>2. IF wants THEN walk' = [walk EXCEPT !.pc = "wait", !.seen = @ \cup {walk.next}]
        ELSE walk' = [walk EXCEPT !.pc = "done"]
    BY DEF NextPage
  <1>3. /\ walk.got \in Seq(Pages) /\ walk.next \in Pages \cup {NoPage}
        /\ walk.seen \in SUBSET Pages /\ walk.seen = ToSet(walk.got)
    BY <1>1 DEF Walks, WalkUnderWay
  <1>4. CASE wants
    <2>1. walk' = [walk EXCEPT !.pc = "wait", !.seen = @ \cup {walk.next}]
      BY <1>2, <1>4
    <2>2. walk.next \in Pages /\ walk.next \notin walk.seen
      BY <1>3, <1>4 DEF WantsPage
    <2>3. /\ walk'.pc = "wait" /\ walk'.got = walk.got /\ walk'.next = walk.next
          /\ walk'.seen = walk.seen \cup {walk.next} /\ walk'.chain = walk.chain
      BY <1>1, <2>1 DEF Walks
    <2>4. walk' \in Walks
      BY <1>1, <1>3, <2>1, <2>2 DEF Walks
    <2>5. WalkUnderWay'
      BY <1>1, <1>3, <2>2, <2>3 DEF WalkUnderWay
    <2> QED BY <2>3, <2>4, <2>5 DEF WalkInv
  <1>5. CASE ~wants
    <2>1. walk' = [walk EXCEPT !.pc = "done"]
      BY <1>2, <1>5
    <2>2. walk.next = NoPage \/ walk.next \in walk.seen \/ Len(walk.got) >= MaxPages
      BY <1>3, <1>5, GraphAccessConstantsOK DEF WantsPage
    <2>3. /\ walk'.pc = "done" /\ walk'.got = walk.got /\ walk'.next = walk.next
          /\ walk'.seen = walk.seen /\ walk'.chain = walk.chain
      BY <1>1, <2>1 DEF Walks
    <2>4. walk' \in Walks
      BY <1>1, <2>1 DEF Walks
    <2>5. WalkUnderWay'
      BY <1>1, <1>3, <2>3 DEF WalkUnderWay
    <2> QED BY <2>2, <2>3, <2>4, <2>5 DEF WalkInv
  <1> QED BY <1>4, <1>5

\* Every step, of a walk or not, keeps what is known of the walk.
LEMMA WalkStep == WalkInv /\ [Next]_vars => WalkInv'
  <1> SUFFICES ASSUME WalkInv, [Next]_vars PROVE WalkInv'
    OBVIOUS
  <1>1. ASSUME walk' = NoWalk PROVE WalkInv'
    BY <1>1, NoWalkType DEF WalkInv
  <1>2. ASSUME walk' = walk PROVE WalkInv'
    BY <1>2 DEF WalkInv, WalkUnderWay
  <1>3. CASE BeginWalk
    <2>1. PICK chain \in Chains, first \in Pages :
             walk' = [NoWalk EXCEPT !.pc = "ask", !.chain = chain, !.next = first]
      BY <1>3 DEF BeginWalk
    <2>2. /\ walk' \in Walks /\ walk'.pc = "ask" /\ walk'.got = <<>> /\ walk'.next = first
          /\ walk'.seen = {} /\ walk'.chain = chain
      BY <2>1, NoWalkType DEF NoWalk, Walks
    <2>3. WalkUnderWay'
      BY <2>2, NothingYielded DEF WalkUnderWay
    <2> QED BY <2>2, <2>3 DEF WalkInv
  <1>4. CASE NextPage
    BY <1>4, WalkNext
  <1>5. CASE PageArrives
    BY <1>5, WalkPage
  <1>6. CASE Call \/ SyncToOdoo
    BY <1>1, <1>6 DEF Call, SyncToOdoo, Forget
  <1>7. CASE Request
    BY <1>2, <1>7 DEF Request, GetToken, Send, Wait, FirstEnds, Refresh, SecondEnds
  <1>8. CASE NextCommand \/ Tick \/ (\E t \in Tokens : Revoke(t)) \/ UNCHANGED vars
    BY <1>2, <1>8 DEF NextCommand, Tick, Revoke, vars
  <1> QED BY <1>3, <1>4, <1>5, <1>6, <1>7, <1>8 DEF Next, Paging

\* WalkIsExact for every collection, however its pages are linked, and every budget.
THEOREM WalkExact == Spec => []WalkIsExact
  <1>1. WalkInv => WalkIsExact
    <2> SUFFICES ASSUME WalkInv, walk.pc = "done"
                 PROVE  /\ IsInjective(walk.got)
                        /\ \A i \in 2..Len(walk.got) : walk.got[i] = walk.chain[walk.got[i - 1]]
                        /\ Len(walk.got) < MaxPages =>
                             walk.chain[Last(walk.got)] \in {NoPage} \cup ToSet(walk.got)
      BY DEF WalkIsExact
    <2>1. WalkUnderWay /\ walk.got \in Seq(Pages) /\ walk.seen = ToSet(walk.got)
      BY DEF WalkInv, WalkUnderWay, Walks
    <2>2. ASSUME Len(walk.got) < MaxPages PROVE walk.next \in {NoPage} \cup ToSet(walk.got)
      BY <2>1, <2>2, GraphAccessConstantsOK DEF WalkInv
    <2>3. ASSUME Len(walk.got) < MaxPages PROVE walk.got # <<>>
      <3>1. walk.got = <<>> => walk.next \in Pages
        BY <2>1 DEF WalkUnderWay
      <3> QED BY <2>2, <2>3, <3>1, NothingYielded, GraphAccessConstantsOK
    <2> QED BY <2>1, <2>2, <2>3 DEF WalkUnderWay
  <1> QED BY <1>1, WalkInit, WalkStep, PTL DEF Spec
-------------------------------------------------------------------------------
\* Nothing was sent and nothing recorded.
LEMMA AuditInit == Init => AuditInv
  <1>1. <<>> \in Seq(BOOLEAN)
    OBVIOUS
  <1> QED BY <1>1 DEF Init, AuditInv, AuditIsComplete, NewAudit, Audits

\* An event is recorded with the request it is about.
LEMMA RecordKeepsAudit ==
  ASSUME AuditInv, NEW result, Record(result)
  PROVE  AuditInv'
  <1> DEFINE ok == result = "ok"
  <1>1. ok \in BOOLEAN
    OBVIOUS
  <1>2. audit \in Audits /\ audit.events = audit.truth /\ audit.written <= audit.kept
    BY DEF AuditInv, AuditIsComplete
  <1>3. audit' = [audit EXCEPT !.truth = Append(audit.truth, ok), !.events = Append(audit.events, ok)]
    BY DEF Record
  <1> HIDE DEF ok
  <1>4. Append(audit.truth, ok) \in Seq(BOOLEAN) /\ Append(audit.events, ok) \in Seq(BOOLEAN)
    BY <1>1, <1>2 DEF Audits
  <1>5. audit' = [events |-> Append(audit.events, ok), truth |-> Append(audit.truth, ok),
                  pc |-> audit.pc, kept |-> audit.kept, written |-> audit.written]
    BY <1>2, <1>3 DEF Audits
  <1> QED BY <1>2, <1>4, <1>5 DEF AuditInv, AuditIsComplete, Audits

\* Events are stored, or some are lost, and the report says how many are.
LEMMA StoreKeepsAudit ==
  ASSUME AuditInv, SyncToOdoo
  PROVE  AuditInv'
  <1>1. PICK kept \in 0..Len(audit.events) : \E lost \in 0..kept : Store(kept, lost)
    BY DEF SyncToOdoo
  <1>2. PICK lost \in 0..kept : Store(kept, lost)
    BY <1>1
  <1>3. audit \in Audits /\ audit.events = audit.truth
    BY DEF AuditInv, AuditIsComplete
  <1>4. kept \in Nat /\ kept - lost \in Nat /\ kept - lost <= kept
    BY <1>3 DEF Audits
  <1>5. audit' = [events |-> audit.events, truth |-> audit.truth, pc |-> "closed",
                  kept |-> kept, written |-> kept - lost]
    BY <1>2, <1>3 DEF Audits, Store
  <1> QED BY <1>3, <1>4, <1>5 DEF AuditInv, AuditIsComplete, Audits

\* Every step, of the audit or not, keeps the trail complete.
LEMMA AuditStep == AuditInv /\ [Next]_vars => AuditInv'
  <1> SUFFICES ASSUME AuditInv, [Next]_vars PROVE AuditInv'
    OBVIOUS
  <1>1. ASSUME audit' = audit PROVE AuditInv'
    BY <1>1 DEF AuditInv, AuditIsComplete
  <1>2. CASE FirstEnds
    BY <1>1, <1>2, RecordKeepsAudit DEF FirstEnds
  <1>3. CASE Refresh
    BY <1>1, <1>3, RecordKeepsAudit DEF Refresh
  <1>4. CASE SecondEnds
    BY <1>4, RecordKeepsAudit DEF SecondEnds
  <1>5. CASE SyncToOdoo
    BY <1>5, StoreKeepsAudit
  <1>6. CASE NextCommand
    <2>1. <<>> \in Seq(BOOLEAN)
      OBVIOUS
    <2> QED BY <1>6, <2>1 DEF NextCommand, AuditInv, AuditIsComplete, NewAudit, Audits
  <1>7. CASE Call \/ GetToken \/ Send \/ Wait \/ Paging \/ Tick \/ (\E t \in Tokens : Revoke(t)) \/ UNCHANGED vars
    BY <1>1, <1>7 DEF Call, GetToken, Send, Wait, Paging, BeginWalk, NextPage, PageArrives, Tick, Revoke, vars
  <1> QED BY <1>2, <1>3, <1>4, <1>5, <1>6, <1>7 DEF Next, Request

\* AuditIsComplete for any number of requests, however they end.
THEOREM AuditComplete == Spec => []AuditIsComplete
  <1>1. AuditInv => AuditIsComplete
    BY DEF AuditInv
  <1> QED BY <1>1, AuditInit, AuditStep, PTL DEF Spec
-------------------------------------------------------------------------------
\* What is known of the request in flight: it has slept once less often than it was sent,
\* each time for LongestDelay at most, and an attempt that was refused did nothing.
Counted(r) ==
    /\ r.pc # "idle" => r.attempt \in 1..r.limit /\ r.limit <= MaxRetries + 1
    /\ r.pc = "sleep" => r.attempt < r.limit
    /\ r.slept <= (IF r.pc = "idle" THEN 0 ELSE (r.attempt - 1) * LongestDelay)
    /\ r.carried <= r.attempt
    /\ r.pc = "send" \/ r.outcome = "refused" => r.carried < r.attempt
    /\ r.pc = "done" => r.outcome \in Outcomes

HttpInv ==
    /\ req \in Requests
    /\ req.advised \in (0..MaxRetryAfter) \cup {NoAdvice}
    /\ Counted(req)

\* The bounds on delays are numbers.
LEMMA DelayTypes ==
  /\ LongestDelay \in Nat /\ MaxRetryAfter <= LongestDelay /\ BackoffMax <= LongestDelay
  /\ MaxSlept \in Nat
  BY HttpConstantsOK DEF LongestDelay, MaxSlept

\* No more than n retries sleep no longer than MaxRetries of them.
LEMMA SleptInAll ==
  ASSUME NEW n \in Nat, n <= MaxRetries
  PROVE  n * LongestDelay \in 0..MaxSlept
  <1>1. \A a, b, d \in Nat : a <= b => a * d <= b * d /\ a * d \in Nat
    OBVIOUS
  <1> QED BY <1>1, DelayTypes, HttpConstantsOK DEF MaxSlept

\* Before a request nothing was slept.
LEMMA IdleIsCounted == Idle \in Requests /\ Counted(Idle)
  BY DelayTypes DEF Idle, Requests, Counted

\* No request is in flight at the start.
LEMMA HttpInit == Init => HttpInv
  BY IdleIsCounted DEF Init, HttpInv, Idle

\* A request starts.
LEMMA StartIsCounted ==
  ASSUME NEW retries \in 0..MaxRetries
  PROVE  /\ Start(retries) \in Requests /\ Counted(Start(retries))
         /\ Start(retries).advised = NoAdvice /\ Start(retries).pc = "send"
         /\ Start(retries).limit = retries + 1 /\ Start(retries).slept = 0
         /\ Start(retries).outcome = "none"
  <1>1. Start(retries) = [pc |-> "send", limit |-> retries + 1, attempt |-> 1, outcome |-> "none",
                          advised |-> NoAdvice, slept |-> 0, carried |-> 0]
    <2>1. ASSUME NEW r, r = [Idle EXCEPT !.pc = "send", !.limit = retries + 1, !.attempt = 1]
          PROVE  r = [pc |-> "send", limit |-> retries + 1, attempt |-> 1, outcome |-> "none",
                      advised |-> NoAdvice, slept |-> 0, carried |-> 0]
      BY <2>1, Zenon DEF Idle
    <2> QED BY <2>1 DEF Start
  <1>2. 0 * LongestDelay = 0
    BY DelayTypes
  <1> QED BY <1>1, <1>2, DelayTypes, HttpConstantsOK DEF Requests, Counted

\* What a header says is clamped.
LEMMA AdviceIsClamped ==
  ASSUME NEW advice \in Advice \cup {NoAdvice}
  PROVE  ParseRetryAfter(advice) \in (0..MaxRetryAfter) \cup {NoAdvice}
  BY HttpConstantsOK DEF ParseRetryAfter, AtMost

\* An attempt ends.
LEMMA AttemptIsCounted ==
  ASSUME HttpInv, NEW possible \in SUBSET Outcomes, Attempt(possible)
  PROVE  /\ HttpInv'
         /\ req'.pc \in {"sleep", "done"} /\ req'.limit = req.limit /\ req'.slept = req.slept
         /\ req'.outcome \in possible
  <1>1. PICK outcome \in possible, advice \in Advice \cup {NoAdvice}, carried \in BOOLEAN :
           /\ CarriedOut(outcome) => carried
           /\ carried => CarriedOut(outcome) \/ MaybeCarried(outcome)
           /\ req' = Evaluate(req, outcome, advice, carried)
    BY DEF Attempt
  <1> DEFINE advised == IF outcome = "throttled" THEN ParseRetryAfter(advice) ELSE NoAdvice
             number == IF carried THEN Twice(req.carried + 1) ELSE req.carried
             pc == IF Retryable(outcome) /\ req.attempt < req.limit THEN "sleep" ELSE "done"
  <1>2. /\ req.pc = "send" /\ req \in Requests /\ Counted(req)
        /\ req.carried \in 0..2 /\ req.attempt \in Nat /\ req.limit \in Nat /\ req.slept \in 0..MaxSlept
        /\ req.carried < req.attempt /\ req.attempt \in 1..req.limit /\ req.limit <= MaxRetries + 1
        /\ req.slept <= (req.attempt - 1) * LongestDelay
    BY DEF Attempt, HttpInv, Counted, Requests
  <1>3. req' = [pc |-> pc, limit |-> req.limit, attempt |-> req.attempt, outcome |-> outcome,
                advised |-> advised, slept |-> req.slept, carried |-> number]
    BY <1>1, <1>2 DEF Evaluate, Requests
  <1>4. advised \in (0..MaxRetryAfter) \cup {NoAdvice}
    BY AdviceIsClamped
  <1>5. number \in 0..2 /\ number <= req.attempt /\ (outcome = "refused" => number < req.attempt)
    <2>1. outcome = "refused" => ~carried
      BY <1>1 DEF CarriedOut, MaybeCarried
    <2> QED BY <1>2, <2>1 DEF Twice, AtMost
  <1>6. pc \in {"sleep", "done"} /\ (pc = "sleep" => req.attempt < req.limit)
    OBVIOUS
  <1>7. outcome \in Outcomes
    OBVIOUS
  <1> HIDE DEF advised, number, pc
  <1>8. advised \in Int \cup {NoAdvice}
    BY <1>4, HttpConstantsOK
  <1>9. req' \in Requests
    BY <1>2, <1>3, <1>5, <1>6, <1>7, <1>8 DEF Requests
  <1>10. Counted(req')
    BY <1>2, <1>3, <1>5, <1>6, <1>7 DEF Counted
  <1>11. HttpInv'
    BY <1>3, <1>4, <1>9, <1>10 DEF HttpInv, Counted, LongestDelay
  <1> QED BY <1>3, <1>6, <1>11

\* A delay.
LEMMA DelaysAreShort ==
  ASSUME HttpInv, req.pc = "sleep", NEW d \in Delays(req)
  PROVE  d \in 0..LongestDelay
  <1>1. CASE req.outcome = "throttled" /\ req.advised # NoAdvice
    BY <1>1, DelayTypes, HttpConstantsOK DEF Delays, HttpInv
  <1>2. CASE ~(req.outcome = "throttled" /\ req.advised # NoAdvice)
    <2>1. d \in 0..BackoffMax
      BY <1>2 DEF Delays
    <2> QED BY <2>1, DelayTypes, HttpConstantsOK
  <1> QED BY <1>1, <1>2

\* It sleeps, and sends again.
LEMMA SleepIsCounted ==
  ASSUME HttpInv, NEW d \in Delays(req), Sleep(d)
  PROVE  /\ HttpInv' /\ d \in 0..LongestDelay
         /\ req'.pc = "send" /\ req'.limit = req.limit /\ req'.slept = req.slept + d
  <1>1. /\ req.pc = "sleep" /\ req \in Requests
        /\ req.attempt \in Nat /\ req.limit \in Nat /\ req.slept \in Nat /\ req.carried \in 0..2
        /\ req.attempt \in 1..req.limit /\ req.attempt < req.limit /\ req.limit <= MaxRetries + 1
        /\ req.slept <= (req.attempt - 1) * LongestDelay /\ req.carried <= req.attempt
    BY DEF Sleep, HttpInv, Counted, Requests
  <1>2. d \in 0..LongestDelay
    BY <1>1, DelaysAreShort
  <1>3. req' = [pc |-> "send", limit |-> req.limit, attempt |-> req.attempt + 1, outcome |-> "none",
                advised |-> NoAdvice, slept |-> req.slept + d, carried |-> req.carried]
    BY <1>1 DEF Sleep, Requests
  <1>4. req.slept + d <= req.attempt * LongestDelay
    <2>1. \A a, n \in Nat : (a - 1) * n + n = a * n
      OBVIOUS
    <2>2. (req.attempt - 1) * LongestDelay + LongestDelay = req.attempt * LongestDelay
      BY <1>1, <2>1, DelayTypes
    <2>3. (req.attempt - 1) * LongestDelay \in Int /\ req.attempt * LongestDelay \in Int
      BY <1>1, DelayTypes
    <2> QED BY ONLY <1>1, <1>2, <2>2, <2>3, DelayTypes
  <1>5. req.attempt * LongestDelay \in 0..MaxSlept
    <2>1. req.attempt <= MaxRetries
      BY <1>1, HttpConstantsOK
    <2> QED BY <1>1, <2>1, SleptInAll
  <1>6. req.slept + d \in 0..MaxSlept
    BY <1>1, <1>2, <1>4, <1>5, DelayTypes
  <1>7. req' \in Requests
    BY <1>1, <1>3, <1>6 DEF Requests
  <1>8. (req.attempt + 1) - 1 = req.attempt
    BY <1>1
  <1>9. Counted(req')
    BY <1>1, <1>3, <1>4, <1>8 DEF Counted
  <1> QED BY <1>2, <1>3, <1>7, <1>9 DEF HttpInv, Counted, LongestDelay
-------------------------------------------------------------------------------
TokensInv ==
    /\ left \in [Tokens -> 0..Life]
    /\ revoked \subseteq Tokens
    /\ cache \in [token : Tokens \cup {NoToken}, fresh : 0..Life]
    /\ issued \in Tokens \cup {NoToken}

\* There are more names than somebody can hold tokens.
LEMMA FreeToken == \E t \in Tokens : t \notin Held
  <1>1. IsFiniteSet(Tokens) /\ Cardinality(Tokens) >= 4 /\ Cardinality(Tokens) \in Nat
    BY GraphAccessConstantsOK, FS_CardinalityType
  <1> DEFINE A == {} \cup {cache.token}
             B == A \cup {issued}
             C == B \cup {call.token}
  <1>2. IsFiniteSet({}) /\ Cardinality({}) = 0
    BY FS_EmptySet
  <1>3. IsFiniteSet(A) /\ Cardinality(A) \in Nat /\ Cardinality(A) <= 1
    <2>1. IsFiniteSet(A) /\ Cardinality(A) = IF cache.token \in {} THEN 0 ELSE 0 + 1
      BY <1>2, FS_AddElement
    <2> QED BY <2>1
  <1> HIDE DEF A
  <1>4. IsFiniteSet(B) /\ Cardinality(B) \in Nat /\ Cardinality(B) <= 2
    <2>1. IsFiniteSet(B) /\ Cardinality(B) = IF issued \in A THEN Cardinality(A) ELSE Cardinality(A) + 1
      BY <1>3, FS_AddElement
    <2> QED BY <1>3, <2>1
  <1> HIDE DEF B
  <1>5. IsFiniteSet(C) /\ Cardinality(C) \in Nat /\ Cardinality(C) <= 3
    <2>1. IsFiniteSet(C) /\ Cardinality(C) = IF call.token \in B THEN Cardinality(B) ELSE Cardinality(B) + 1
      BY <1>4, FS_AddElement
    <2> QED BY <1>4, <2>1
  <1>6. C = Held
    BY DEF A, B, C, Held
  <1> HIDE DEF C
  <1>7. CASE Tokens \subseteq C
    <2>1. Cardinality(Tokens) <= Cardinality(C)
      BY <1>5, <1>7, FS_Subset
    <2> QED BY <1>1, <1>5, <2>1
  <1> QED BY <1>6, <1>7

\* What MSAL answers with is good for longer than the margin, or new.
LEMMA OfferedTokens ==
  ASSUME NEW t \in Offers
  PROVE  t \in Tokens /\ (t = issued => left[t] > Margin)
  <1> DEFINE free == CHOOSE u \in Tokens : u \notin Held
  <1>1. free \in Tokens /\ free \notin Held
    BY FreeToken
  <1>2. issued \in Held
    BY DEF Held
  <1> HIDE DEF free
  <1>3. (t \in Tokens /\ t = issued /\ left[t] > Margin) \/ t = free
    BY DEF Offers, free
  <1> QED BY <1>1, <1>2, <1>3

\* A token is acquired.
LEMMA AcquireKeepsTokens ==
  ASSUME TokensInv, NEW t \in Tokens, Acquire(t)
  PROVE  /\ TokensInv'
         /\ left'[t] = IF t = issued THEN left[t] ELSE Life
  <1> DEFINE life == IF t = issued THEN left[t] ELSE Life
  <1>1. life \in 0..Life /\ Life \in Nat /\ Margin \in Nat
    BY GraphAccessConstantsOK DEF TokensInv
  <1>2. left' = [u \in Tokens |-> IF u = t THEN life ELSE IF u \in Held THEN left[u] ELSE 0]
    BY DEF Acquire
  <1>3. issued' = t /\ (CacheToken(t, life) \/ UNCHANGED cache)
    BY DEF Acquire
  <1>4. revoked' \subseteq Tokens
    BY DEF Acquire, TokensInv
  <1> HIDE DEF life
  <1>5. left' \in [Tokens -> 0..Life]
    BY <1>1, <1>2 DEF TokensInv
  <1>6. cache' \in [token : Tokens \cup {NoToken}, fresh : 0..Life]
    <2>1. CASE life > Margin /\ cache' = [token |-> t, fresh |-> life - Margin]
      BY <1>1, <2>1
    <2>2. CASE cache' = [token |-> NoToken, fresh |-> 0]
      BY <1>1, <2>2
    <2> QED BY <1>3, <2>1, <2>2 DEF CacheToken, TokensInv
  <1>7. left'[t] = life
    BY <1>2
  <1> QED BY <1>3, <1>4, <1>5, <1>6, <1>7 DEF TokensInv, life

\* A token is asked for; one that was asked for in spite of the cache is good for longer
\* than the margin.
LEMMA TokenAnswer ==
  ASSUME TokensInv, NEW forced \in BOOLEAN, NEW t \in Tokens \cup {NoToken},
         get_access_token(forced, t)
  PROVE  /\ TokensInv'
         /\ forced /\ t # NoToken /\ Margin < Life => left'[t] > Margin
  <1>1. CASE Hit(forced) /\ UNCHANGED tokenVars
    BY <1>1 DEF Hit, tokenVars, TokensInv
  <1>2. CASE t \in Offers /\ Acquire(t)
    <2>1. t \in Tokens /\ (t = issued => left[t] > Margin)
      BY <1>2, OfferedTokens
    <2> QED BY <1>2, <2>1, AcquireKeepsTokens
  <1>3. CASE t = NoToken /\ UNCHANGED tokenVars
    BY <1>3 DEF tokenVars, TokensInv
  <1> QED BY <1>1, <1>2, <1>3 DEF get_access_token

\* Time passes; no token has lost more than that.
LEMMA TimePasses ==
  ASSUME TokensInv, NEW d \in Nat, Elapse(d), revoked' \subseteq Tokens, issued' = issued
  PROVE  /\ TokensInv'
         /\ \A t \in Tokens : left'[t] + d >= left[t]
  <1>1. \A n \in 0..Life : Less(n, d) \in 0..Life /\ Less(n, d) + d >= n
    BY GraphAccessConstantsOK DEF Less
  <1>2. \A t \in Tokens : left[t] \in 0..Life /\ left'[t] = Less(left[t], d)
    BY DEF Elapse, TokensInv
  <1>3. left' \in [Tokens -> 0..Life]
    BY <1>1 DEF Elapse, TokensInv
  <1>4. cache' = [cache EXCEPT !.fresh = Less(cache.fresh, d)] /\ cache.fresh \in 0..Life
    BY DEF Elapse, TokensInv
  <1>5. cache' \in [token : Tokens \cup {NoToken}, fresh : 0..Life]
    BY <1>1, <1>4 DEF TokensInv
  <1> QED BY <1>1, <1>2, <1>3, <1>5 DEF TokensInv
-------------------------------------------------------------------------------
\* A call whose end is not reached has no result, and one that must not be retried sends
\* requests of one attempt each, of which the first did nothing if there is a second.
CallInv ==
    /\ call \in Calls
    /\ CarriedOutOnce
    /\ call.pc # "done" =>
        /\ call.result = "none" /\ call.cause = "none"
        /\ ~call.retryable => call.carried = 0
    /\ call.pc = "second" => call.asked /\ call.token \in Tokens
    /\ call.pc \in {"first", "second"} =>
        /\ req.pc # "idle"
        /\ ~call.retryable => req.limit = 1

AccessInv == HttpInv /\ TokensInv /\ CallInv

\* The token of a second request is good for longer than the margin, but for the time the
\* request has slept.
HealInv ==
    /\ RefusalIsHealed
    /\ call.pc = "second" =>
        /\ call.token \in revoked \/ left[call.token] + req.slept > Margin
        /\ req.pc = "done" /\ req.outcome = "refused" =>
            call.token \in revoked \/ req.slept > Margin

\* No call, at the start of a command.
LEMMA NoCallType == NoCall \in Calls /\ NoCall.pc = "idle"
  BY DelayTypes DEF NoCall, Calls

\* Without a call there is nothing to say.
LEMMA NoCallInv == ASSUME call' = NoCall PROVE CallInv' /\ HealInv'
  BY NoCallType DEF NoCall, CallInv, HealInv, CarriedOutOnce, RefusalIsHealed

\* A call ends: what is kept of it.
LEMMA EndedFields ==
  ASSUME NEW c \in Calls, NEW result \in Results
  PROVE  LET e == Ended(c, result) IN
         /\ e \in Calls /\ e.pc = "done" /\ e.result = result /\ e.retryable = c.retryable
         /\ ~c.retryable => e.carried = c.carried
         /\ result = "authentication" =>
              e.token = c.token /\ e.slept = c.slept /\ e.asked = c.asked /\ e.cause = c.cause
  <1>1. CASE result = "authentication"
    <2>1. Ended(c, result) = [c EXCEPT !.pc = "done", !.result = result]
      BY <1>1 DEF Ended
    <2> QED BY <1>1, <2>1 DEF Calls
  <1>2. CASE result # "authentication"
    <2> DEFINE number == IF c.retryable THEN 0 ELSE c.carried
    <2>1. ASSUME NEW e,
                 e = [NoCall EXCEPT !.pc = "done", !.result = result, !.retryable = c.retryable,
                                    !.carried = number]
          PROVE  e = [pc |-> "done", retryable |-> c.retryable, token |-> NoToken,
                      result |-> result, carried |-> number, slept |-> 0, asked |-> FALSE,
                      cause |-> "none"]
      BY <2>1, Zenon DEF NoCall
    <2>2. Ended(c, result) =
            [pc |-> "done", retryable |-> c.retryable, token |-> NoToken,
             result |-> result, carried |-> number, slept |-> 0, asked |-> FALSE, cause |-> "none"]
      BY <1>2, <2>1 DEF Ended
    <2>3. number \in 0..2 /\ (~c.retryable => number = c.carried) /\ c.retryable \in BOOLEAN
      BY DEF Calls
    <2> HIDE DEF number
    <2> DEFINE e == Ended(c, result)
    <2>4. /\ e.pc = "done" /\ e.result = result /\ e.retryable = c.retryable
          /\ e.carried = number
      BY <2>2
    <2>5. e \in Calls
      BY <2>2, <2>3, DelayTypes DEF Calls
    <2> HIDE DEF e
    <2>6. ~c.retryable => e.carried = c.carried
      BY <2>3, <2>4, Zenon
    <2> QED BY <1>2, <2>4, <2>5, <2>6 DEF e
  <1> QED BY <1>1, <1>2

\* A call whose request has ended.
LEMMA SettledFields ==
  ASSUME HttpInv, call \in Calls
  PROVE  /\ Settled \in Calls /\ Settled.pc = call.pc /\ Settled.retryable = call.retryable
         /\ Settled.token = call.token /\ Settled.result = call.result
         /\ Settled.asked = call.asked /\ Settled.cause = call.cause
         /\ Settled.slept = req.slept
         /\ Settled.carried = Twice(call.carried + req.carried)
  <1>1. req.slept \in 0..MaxSlept /\ Twice(call.carried + req.carried) \in 0..2
    BY DEF HttpInv, Requests, Calls, Twice, AtMost
  <1> QED BY <1>1 DEF Settled, Calls
-------------------------------------------------------------------------------
\* A call begins.
LEMMA BeginKeepsCall ==
  ASSUME NEW retryable \in BOOLEAN, BeginCall(retryable)
  PROVE  CallInv' /\ HealInv'
  <1>1. call' = [NoCall EXCEPT !.pc = "token", !.retryable = retryable]
    BY DEF BeginCall
  <1>2. /\ call' \in Calls /\ call'.pc = "token" /\ call'.result = "none" /\ call'.cause = "none"
        /\ call'.carried = 0
    BY <1>1, NoCallType DEF NoCall, Calls
  <1> QED BY <1>2 DEF CallInv, HealInv, CarriedOutOnce, RefusalIsHealed

\* A token is there, and the first request starts; or there is none.
LEMMA GetTokenKeepsCall ==
  ASSUME AccessInv, GetToken
  PROVE  AccessInv' /\ HealInv'
  <1>1. call.pc = "token" /\ call \in Calls /\ (~call.retryable => call.carried = 0)
    BY DEF GetToken, AccessInv, CallInv
  <1>2. PICK t \in Tokens \cup {NoToken} :
           /\ get_access_token(FALSE, t)
           /\ IF t = NoToken
              THEN call' = Ended(call, "no_token") /\ UNCHANGED req
              ELSE /\ call' = [call EXCEPT !.pc = "first", !.token = t]
                   /\ req' = Start(EffectiveRetries(call.retryable))
    BY DEF GetToken
  <1>3. TokensInv'
    BY <1>2, TokenAnswer DEF AccessInv
  <1>4. CASE t = NoToken
    <2>1. call' = Ended(call, "no_token") /\ req' = req
      BY <1>2, <1>4
    <2>2. /\ call' \in Calls /\ call'.pc = "done" /\ call'.result = "no_token"
          /\ ~call'.retryable => call'.carried = 0
      <3>1. "no_token" \in Results
        BY DEF Results
      <3>2. /\ call' \in Calls /\ call'.pc = "done" /\ call'.result = "no_token"
            /\ call'.retryable = call.retryable /\ (~call.retryable => call'.carried = call.carried)
        BY <1>1, <2>1, <3>1, EndedFields
      <3> QED BY <1>1, <3>2, Zenon
    <2>3. HttpInv'
      BY <2>1 DEF AccessInv, HttpInv, Counted, LongestDelay
    <2>4. CarriedOutOnce'
      BY <2>2 DEF CarriedOutOnce
    <2> QED BY <1>3, <2>2, <2>3, <2>4 DEF AccessInv, CallInv, HealInv, RefusalIsHealed
  <1>5. CASE t # NoToken
    <2>1. call' = [call EXCEPT !.pc = "first", !.token = t] /\ req' = Start(EffectiveRetries(call.retryable))
      BY <1>2, <1>5
    <2>2. EffectiveRetries(call.retryable) \in 0..MaxRetries
          /\ (~call.retryable => EffectiveRetries(call.retryable) = 0)
      BY HttpConstantsOK DEF EffectiveRetries
    <2>3. HttpInv' /\ req'.pc = "send" /\ req'.limit = EffectiveRetries(call.retryable) + 1
      BY <2>1, <2>2, StartIsCounted DEF HttpInv, Counted, LongestDelay
    <2>4. /\ call' \in Calls /\ call'.pc = "first" /\ call'.result = call.result
          /\ call'.cause = call.cause /\ call'.retryable = call.retryable /\ call'.carried = call.carried
      BY <1>1, <2>1 DEF Calls
    <2>5. ~call'.retryable => call'.carried = 0 /\ req'.limit = 1
      <3>1. EffectiveRetries(call.retryable) = 0 => req'.limit = 1
        BY <2>3
      <3> QED BY <1>1, <2>2, <2>4, <3>1, Zenon
    <2>6. call'.result = "none" /\ call'.cause = "none"
      BY <1>1, <2>4 DEF AccessInv, CallInv
    <2>7. CarriedOutOnce'
      BY <2>5 DEF CarriedOutOnce
    <2> QED BY <1>3, <2>3, <2>4, <2>5, <2>6, <2>7 DEF AccessInv, CallInv, HealInv, RefusalIsHealed
  <1> QED BY <1>4, <1>5

\* An attempt: whoever is refused sent a token that was not good any more.
LEMMA SendKeepsCall ==
  ASSUME AccessInv, Send
  PROVE  AccessInv' /\ (HealInv => HealInv')
  <1>1. Attempt(Possible) /\ UNCHANGED <<left, revoked, cache, issued, call>>
    BY DEF Send, tokenVars
  <1>2. Possible \in SUBSET Outcomes /\ ("refused" \in Possible => ~Accepted(call.token))
    BY DEF Possible, Outcomes
  <1>3. /\ HttpInv' /\ req'.pc \in {"sleep", "done"} /\ req'.limit = req.limit
        /\ req'.slept = req.slept /\ req'.outcome \in Possible
    BY <1>1, <1>2, AttemptIsCounted DEF AccessInv
  <1>4. TokensInv'
    BY <1>1 DEF AccessInv, TokensInv
  <1>5. CallInv'
    BY <1>1, <1>3 DEF AccessInv, CallInv, CarriedOutOnce
  <1>6. ASSUME HealInv PROVE HealInv'
    <2>1. RefusalIsHealed'
      BY <1>1, <1>6 DEF HealInv, RefusalIsHealed
    <2>2. ASSUME call.pc = "second" PROVE call.token \in revoked \/ left[call.token] + req'.slept > Margin
      BY <1>3, <1>6, <2>2 DEF HealInv
    <2>3. ASSUME call.pc = "second", req'.outcome = "refused"
          PROVE  call.token \in revoked \/ req'.slept > Margin
      <3>1. ~Accepted(call.token)
        BY <1>2, <1>3, <2>3
      <3>2. CASE call.token \notin revoked
        <4>1. call.token \in Tokens /\ left[call.token] \in 0..Life /\ req.slept \in 0..MaxSlept
          BY <2>3 DEF AccessInv, CallInv, TokensInv, HttpInv, Requests
        <4>2. left[call.token] = 0
          BY <3>1, <3>2, <4>1, GraphAccessConstantsOK DEF Accepted
        <4> QED BY <2>2, <2>3, <3>2, <4>1, <4>2, <1>3, DelayTypes
      <3> QED BY <3>2
    <2> QED BY <1>1, <2>1, <2>2, <2>3 DEF HealInv
  <1> QED BY <1>3, <1>4, <1>5, <1>6 DEF AccessInv

\* The request sleeps, and the tokens get older.
LEMMA WaitKeepsCall ==
  ASSUME AccessInv, Wait
  PROVE  AccessInv' /\ (HealInv => HealInv')
  <1>1. PICK d \in Delays(req) : Sleep(d) /\ Elapse(d)
    BY DEF Wait
  <1>2. revoked' = revoked /\ issued' = issued /\ call' = call
    BY DEF Wait
  <1>3. /\ HttpInv' /\ d \in 0..LongestDelay
        /\ req'.pc = "send" /\ req'.limit = req.limit /\ req'.slept = req.slept + d
    BY <1>1, SleepIsCounted DEF AccessInv
  <1>4. d \in Nat
    BY <1>3, DelayTypes
  <1>5. TokensInv' /\ \A t \in Tokens : left'[t] + d >= left[t]
    <2>1. TokensInv /\ revoked' \subseteq Tokens
      BY <1>2 DEF AccessInv, TokensInv
    <2> QED BY <1>1, <1>2, <1>4, <2>1, TimePasses
  <1>6. CallInv'
    BY <1>2, <1>3 DEF AccessInv, CallInv, CarriedOutOnce
  <1>7. ASSUME HealInv PROVE HealInv'
    <2>1. RefusalIsHealed'
      BY <1>2, <1>7 DEF HealInv, RefusalIsHealed
    <2>2. ASSUME call.pc = "second", call.token \notin revoked
          PROVE  left'[call.token] + req'.slept > Margin
      <3>1. /\ call.token \in Tokens /\ left[call.token] \in Int /\ left'[call.token] \in Int
            /\ req.slept \in Int /\ Margin \in Int
        BY <1>5, <2>2, GraphAccessConstantsOK, DelayTypes DEF AccessInv, CallInv, TokensInv, HttpInv, Requests
      <3>2. left[call.token] + req.slept > Margin
        BY <1>7, <2>2 DEF HealInv
      <3>3. left'[call.token] + d >= left[call.token]
        BY <1>5, <3>1
      <3> QED BY <1>3, <1>4, <3>1, <3>2, <3>3
    <2> QED BY <1>2, <1>3, <2>1, <2>2 DEF HealInv
  <1> QED BY <1>3, <1>5, <1>6, <1>7 DEF AccessInv

\* Twice, of small numbers.
LEMMA TwiceIsSmall ==
  ASSUME NEW n \in Nat
  PROVE  Twice(n) \in 0..2 /\ (n <= 1 => Twice(n) = n)
  BY DEF Twice, AtMost

\* The first request ends: refused, it did nothing that must not be repeated.
LEMMA FirstKeepsCall ==
  ASSUME AccessInv, FirstEnds
  PROVE  AccessInv' /\ HealInv'
  <1>1. /\ call.pc = "first" /\ req.pc = "done" /\ req' = Idle /\ call \in Calls /\ req \in Requests
        /\ UNCHANGED <<left, revoked, cache, issued>>
    BY DEF FirstEnds, AccessInv, CallInv, HttpInv, tokenVars
  <1>2. HttpInv' /\ TokensInv'
    <2>1. HttpInv'
      BY <1>1, IdleIsCounted DEF HttpInv, Counted, Idle, LongestDelay
    <2> QED BY <1>1, <2>1 DEF AccessInv, TokensInv
  <1>3. /\ Settled \in Calls /\ Settled.pc = call.pc /\ Settled.retryable = call.retryable
        /\ Settled.result = call.result /\ Settled.cause = call.cause
        /\ Settled.carried = Twice(call.carried + req.carried)
    BY <1>1, SettledFields DEF AccessInv
  <1>4. call.result = "none" /\ call.cause = "none"
    BY <1>1 DEF AccessInv, CallInv
  <1>5. ~call.retryable => Settled.carried \in 0..1 /\ (req.outcome = "refused" => Settled.carried = 0)
    <2>1. ASSUME ~call.retryable
          PROVE  call.carried = 0 /\ req.limit = 1
      BY <1>1, <2>1, Zenon DEF AccessInv, CallInv
    <2>2. /\ req.carried \in 0..2 /\ req.carried <= req.attempt /\ req.attempt \in 1..req.limit
          /\ req.outcome = "refused" => req.carried < req.attempt
      BY <1>1 DEF AccessInv, HttpInv, Counted, Requests
    <2>3. ASSUME call.carried = 0, req.limit = 1
          PROVE  Settled.carried \in 0..1 /\ (req.outcome = "refused" => Settled.carried = 0)
      <3>1. req.carried \in 0..1 /\ (req.outcome = "refused" => req.carried = 0)
        BY <2>2, <2>3
      <3> QED BY <1>3, <2>3, <3>1, TwiceIsSmall
    <2> QED BY <2>1, <2>3
  <1>6. CASE req.outcome = "refused"
    <2>1. call' = [Settled EXCEPT !.pc = "refresh"]
      BY <1>6 DEF FirstEnds
    <2>2. /\ call' \in Calls /\ call'.pc = "refresh" /\ call'.result = "none" /\ call'.cause = "none"
          /\ call'.retryable = call.retryable /\ call'.carried = Settled.carried
      BY <1>3, <1>4, <2>1 DEF Calls
    <2>3. ~call'.retryable => call'.carried = 0
      BY <1>5, <1>6, <2>2, Zenon
    <2>4. CarriedOutOnce'
      BY <2>3 DEF CarriedOutOnce
    <2> QED BY <1>2, <2>2, <2>3, <2>4 DEF AccessInv, CallInv, HealInv, RefusalIsHealed
  <1>7. CASE req.outcome # "refused"
    <2>1. call' = Ended(Settled, req.outcome)
      BY <1>7 DEF FirstEnds
    <2>2. req.outcome \in Results /\ req.outcome # "authentication"
      BY <1>1, <1>7 DEF AccessInv, HttpInv, Counted, Outcomes, Results
    <2>3. /\ call' \in Calls /\ call'.pc = "done" /\ call'.result = req.outcome
          /\ call'.retryable = Settled.retryable
          /\ ~Settled.retryable => call'.carried = Settled.carried
      BY <1>3, <2>1, <2>2, EndedFields
    <2>4. ~call'.retryable => call'.carried \in 0..1
      BY <1>3, <1>5, <2>3, Zenon
    <2>5. CarriedOutOnce'
      BY <2>4 DEF CarriedOutOnce
    <2> QED BY <1>2, <2>2, <2>3, <2>5 DEF AccessInv, CallInv, HealInv, RefusalIsHealed
  <1> QED BY <1>6, <1>7

\* A token is asked for again, whatever the cache holds.
LEMMA RefreshKeepsCall ==
  ASSUME AccessInv, Refresh
  PROVE  AccessInv' /\ (Margin < Life => HealInv')
  <1>1. /\ call.pc = "refresh" /\ call \in Calls /\ (~call.retryable => call.carried = 0)
        /\ call.result = "none" /\ call.cause = "none"
    BY DEF Refresh, AccessInv, CallInv
  <1>2. PICK t \in Tokens \cup {NoToken} :
           /\ get_access_token(TRUE, t)
           /\ IF t = NoToken
              THEN /\ call' = Ended([call EXCEPT !.asked = TRUE], "authentication")
                   /\ Record("authentication")
                   /\ UNCHANGED req
              ELSE /\ call' = [call EXCEPT !.pc = "second", !.token = t, !.asked = ~Hit(TRUE)]
                   /\ req' = Start(EffectiveRetries(call.retryable))
                   /\ UNCHANGED audit
    BY DEF Refresh
  <1>3. TokensInv' /\ (t # NoToken /\ Margin < Life => left'[t] > Margin)
    BY <1>2, TokenAnswer DEF AccessInv
  <1>4. CASE t = NoToken
    <2> DEFINE c == [call EXCEPT !.asked = TRUE]
    <2>1. call' = Ended(c, "authentication") /\ req' = req
      BY <1>2, <1>4
    <2>2. /\ c \in Calls /\ c.asked = TRUE /\ c.retryable = call.retryable /\ c.carried = call.carried
          /\ c.cause = "none"
      BY <1>1 DEF Calls
    <2>3. "authentication" \in Results
      BY DEF Results
    <2> HIDE DEF c
    <2>4. /\ call' \in Calls /\ call'.pc = "done" /\ call'.result = "authentication"
          /\ call'.retryable = c.retryable /\ (~c.retryable => call'.carried = c.carried)
          /\ call'.asked = c.asked /\ call'.cause = c.cause
      BY <2>1, <2>2, <2>3, EndedFields
    <2>5. ~call'.retryable => call'.carried = 0
      BY <1>1, <2>2, <2>4, Zenon
    <2>6. CarriedOutOnce'
      BY <2>5 DEF CarriedOutOnce
    <2>7. RefusalIsHealed'
      BY <2>2, <2>4 DEF RefusalIsHealed
    <2>8. HttpInv'
      BY <2>1 DEF AccessInv, HttpInv, Counted, LongestDelay
    <2> QED BY <1>3, <2>4, <2>6, <2>7, <2>8 DEF AccessInv, CallInv, HealInv
  <1>5. CASE t # NoToken
    <2>1. /\ call' = [call EXCEPT !.pc = "second", !.token = t, !.asked = ~Hit(TRUE)]
          /\ req' = Start(EffectiveRetries(call.retryable)) /\ t \in Tokens
      BY <1>2, <1>5
    <2>2. EffectiveRetries(call.retryable) \in 0..MaxRetries
          /\ (~call.retryable => EffectiveRetries(call.retryable) = 0)
      BY HttpConstantsOK DEF EffectiveRetries
    <2>3. /\ HttpInv' /\ req'.pc = "send" /\ req'.limit = EffectiveRetries(call.retryable) + 1
          /\ req'.slept = 0
      BY <2>1, <2>2, StartIsCounted DEF HttpInv, Counted, LongestDelay
    <2>4. ~Hit(TRUE) = TRUE
      BY DEF Hit
    <2>5. call' = [call EXCEPT !.pc = "second", !.token = t, !.asked = TRUE]
      BY <2>1, <2>4
    <2>6. /\ call' \in Calls /\ call'.pc = "second" /\ call'.result = call.result /\ call'.asked = TRUE
          /\ call'.cause = call.cause /\ call'.retryable = call.retryable /\ call'.carried = call.carried
          /\ call'.token = t
      BY <1>1, <2>1, <2>5 DEF Calls
    <2>7. ~call'.retryable => call'.carried = 0 /\ req'.limit = 1
      <3>1. EffectiveRetries(call.retryable) = 0 => req'.limit = 1
        BY <2>3
      <3> QED BY <1>1, <2>2, <2>6, <3>1, Zenon
    <2>8. CarriedOutOnce'
      BY <2>7 DEF CarriedOutOnce
    <2>9. Margin < Life => left'[call'.token] + req'.slept > Margin
      BY <1>3, <1>5, <2>1, <2>3, <2>6, GraphAccessConstantsOK DEF TokensInv
    <2>10. CallInv'
      BY <1>1, <2>1, <2>3, <2>6, <2>7, <2>8 DEF CallInv
    <2>11. Margin < Life => HealInv'
      BY <1>1, <2>3, <2>6, <2>9 DEF HealInv, RefusalIsHealed
    <2> QED BY <1>3, <2>3, <2>10, <2>11 DEF AccessInv
  <1> QED BY <1>4, <1>5

\* The second request ends.
LEMMA SecondKeepsCall ==
  ASSUME AccessInv, SecondEnds
  PROVE  AccessInv' /\ (HealInv => HealInv')
  <1> DEFINE result == IF req.outcome = "ok" THEN "ok" ELSE "authentication"
             e == Ended(Settled, result)
  <1>1. /\ call.pc = "second" /\ req.pc = "done" /\ req' = Idle /\ call \in Calls
        /\ UNCHANGED <<left, revoked, cache, issued>>
        /\ call' = [e EXCEPT !.cause = req.outcome]
    BY DEF SecondEnds, AccessInv, CallInv, tokenVars
  <1>2. HttpInv' /\ TokensInv'
    <2>1. HttpInv'
      BY <1>1, IdleIsCounted DEF HttpInv, Counted, Idle, LongestDelay
    <2> QED BY <1>1, <2>1 DEF AccessInv, TokensInv
  <1>3. /\ Settled \in Calls /\ Settled.retryable = call.retryable /\ Settled.token = call.token
        /\ Settled.asked = call.asked /\ Settled.slept = req.slept
        /\ Settled.carried = Twice(call.carried + req.carried)
    BY <1>1, SettledFields DEF AccessInv
  <1>4. result \in Results /\ req.outcome \in Outcomes
    BY <1>1 DEF Results, AccessInv, HttpInv, Counted
  <1> HIDE DEF result
  <1>5. /\ e \in Calls /\ e.pc = "done" /\ e.result = result /\ e.retryable = Settled.retryable
        /\ ~Settled.retryable => e.carried = Settled.carried
        /\ result = "authentication" =>
             e.token = Settled.token /\ e.slept = Settled.slept /\ e.asked = Settled.asked
    BY <1>3, <1>4, EndedFields
  <1> HIDE DEF e
  <1>6. /\ call' \in Calls /\ call'.pc = "done" /\ call'.result = result /\ call'.retryable = e.retryable
        /\ call'.carried = e.carried /\ call'.token = e.token /\ call'.slept = e.slept
        /\ call'.asked = e.asked /\ call'.cause = req.outcome
    BY <1>1, <1>4, <1>5 DEF Calls
  <1>7. ~call.retryable => Settled.carried \in 0..1
    <2>1. ASSUME ~call.retryable
          PROVE  call.carried = 0 /\ req.limit = 1
      BY <1>1, <2>1, Zenon DEF AccessInv, CallInv
    <2>2. req.carried \in 0..2 /\ req.carried <= req.attempt /\ req.attempt \in 1..req.limit
      BY <1>1 DEF AccessInv, HttpInv, Counted, Requests
    <2>3. ASSUME call.carried = 0, req.limit = 1
          PROVE  Settled.carried \in 0..1
      <3>1. req.carried \in 0..1
        BY <2>2, <2>3
      <3> QED BY <1>3, <2>3, <3>1, TwiceIsSmall
    <2> QED BY <2>1, <2>3
  <1>8. CarriedOutOnce'
    <2>1. ~call'.retryable => call'.carried \in 0..1
      BY <1>3, <1>5, <1>6, <1>7, Zenon
    <2> QED BY <2>1 DEF CarriedOutOnce
  <1>9. call.asked
    BY <1>1 DEF AccessInv, CallInv
  <1>10. ASSUME HealInv PROVE RefusalIsHealed'
    <2>1. ASSUME result = "authentication"
          PROVE  /\ call'.asked = call.asked /\ call'.token = call.token /\ call'.slept = req.slept
      BY <1>3, <1>5, <1>6, <2>1
    <2>2. req.outcome = "refused" => call.token \in revoked \/ req.slept > Margin
      BY <1>1, <1>10 DEF HealInv
    <2>3. revoked' = revoked
      BY <1>1
    <2> QED BY <1>6, <1>9, <2>1, <2>2, <2>3 DEF RefusalIsHealed
  <1> QED BY <1>2, <1>6, <1>8, <1>10 DEF AccessInv, CallInv, HealInv
-------------------------------------------------------------------------------
\* The invariants hold at the start.
LEMMA AccessInit == Init => AccessInv /\ HealInv
  <1> SUFFICES ASSUME Init PROVE AccessInv /\ HealInv
    OBVIOUS
  <1>1. TokensInv
    BY GraphAccessConstantsOK DEF Init, TokensInv
  <1>2. CallInv /\ HealInv
    BY NoCallType DEF Init, NoCall, CallInv, HealInv, CarriedOutOnce, RefusalIsHealed
  <1> QED BY <1>1, <1>2, HttpInit DEF AccessInv

\* Steps that neither send nor wait for anything.
LEMMA OthersKeepCall ==
  ASSUME AccessInv, Call \/ Paging \/ SyncToOdoo \/ NextCommand \/ Tick
                      \/ (\E t \in Tokens : Revoke(t)) \/ UNCHANGED vars
  PROVE  AccessInv' /\ (HealInv => HealInv')
  <1>1. req' = req
    BY DEF Call, Paging, BeginWalk, NextPage, PageArrives, SyncToOdoo, NextCommand, Tick, Revoke, vars
  <1>2. HttpInv'
    BY <1>1 DEF AccessInv, HttpInv, Counted, LongestDelay
  <1>3. ASSUME UNCHANGED tokenVars PROVE TokensInv'
    BY <1>3 DEF AccessInv, TokensInv, tokenVars
  <1>4. ASSUME UNCHANGED <<call, left, revoked>> PROVE CallInv' /\ (HealInv => HealInv')
    BY <1>1, <1>4 DEF AccessInv, CallInv, CarriedOutOnce, HealInv, RefusalIsHealed
  <1>5. CASE Call
    <2>1. PICK retryable \in BOOLEAN : BeginCall(retryable)
      BY <1>5 DEF Call
    <2> QED BY <1>2, <1>3, <1>5, <2>1, BeginKeepsCall DEF Call, AccessInv
  <1>6. CASE BeginWalk \/ NextCommand \/ UNCHANGED vars
    BY <1>2, <1>3, <1>4, <1>6 DEF BeginWalk, NextCommand, vars, tokenVars, AccessInv
  <1>7. CASE NextPage
    <2>1. UNCHANGED tokenVars /\ (BeginCall(TRUE) \/ UNCHANGED call)
      BY <1>7 DEF NextPage
    <2> QED BY <1>2, <1>3, <1>4, <2>1, BeginKeepsCall DEF AccessInv, tokenVars
  <1>8. CASE PageArrives
    BY <1>2, <1>3, <1>8, NoCallInv DEF PageArrives, AccessInv
  <1>9. CASE SyncToOdoo
    <2>1. Forget
      BY <1>9 DEF SyncToOdoo
    <2>2. TokensInv'
      BY <2>1, GraphAccessConstantsOK DEF Forget, TokensInv
    <2> QED BY <1>2, <2>1, <2>2, NoCallInv DEF Forget, AccessInv
  <1>10. CASE Tick
    <2>1. Elapse(1) /\ revoked' = revoked /\ issued' = issued /\ call' = call
          /\ call.pc \in {"idle", "done"}
      BY <1>10 DEF Tick
    <2>2. TokensInv /\ revoked' \subseteq Tokens
      BY <2>1 DEF AccessInv, TokensInv
    <2>3. TokensInv'
      BY <2>1, <2>2, TimePasses
    <2>4. CallInv'
      BY <1>1, <2>1 DEF AccessInv, CallInv, CarriedOutOnce
    <2>5. HealInv => HealInv'
      BY <2>1 DEF HealInv, RefusalIsHealed
    <2> QED BY <1>2, <2>3, <2>4, <2>5 DEF AccessInv
  <1>11. ASSUME NEW t \in Tokens, Revoke(t) PROVE AccessInv' /\ (HealInv => HealInv')
    <2>1. revoked' = revoked \cup {t} /\ UNCHANGED <<left, cache, issued, call>>
      BY <1>11 DEF Revoke
    <2>2. TokensInv'
      BY <2>1 DEF AccessInv, TokensInv
    <2>3. CallInv'
      BY <1>1, <2>1 DEF AccessInv, CallInv, CarriedOutOnce
    <2>4. HealInv => HealInv'
      BY <1>1, <2>1 DEF HealInv, RefusalIsHealed
    <2> QED BY <1>2, <2>2, <2>3, <2>4 DEF AccessInv
  <1> QED BY <1>5, <1>6, <1>7, <1>8, <1>9, <1>10, <1>11 DEF Paging

\* Every step keeps the invariants; the second one if new tokens outlive the margin.
LEMMA AccessStep == AccessInv /\ [Next]_vars => AccessInv' /\ (HealInv /\ Margin < Life => HealInv')
  <1> SUFFICES ASSUME AccessInv, [Next]_vars
               PROVE  AccessInv' /\ (HealInv /\ Margin < Life => HealInv')
    OBVIOUS
  <1>1. CASE GetToken
    BY <1>1, GetTokenKeepsCall
  <1>2. CASE Send
    BY <1>2, SendKeepsCall
  <1>3. CASE Wait
    BY <1>3, WaitKeepsCall
  <1>4. CASE FirstEnds
    BY <1>4, FirstKeepsCall
  <1>5. CASE Refresh
    BY <1>5, RefreshKeepsCall
  <1>6. CASE SecondEnds
    BY <1>6, SecondKeepsCall
  <1>7. CASE Call \/ Paging \/ SyncToOdoo \/ NextCommand \/ Tick
               \/ (\E t \in Tokens : Revoke(t)) \/ UNCHANGED vars
    BY <1>7, OthersKeepCall
  <1> QED BY <1>1, <1>2, <1>3, <1>4, <1>5, <1>6, <1>7 DEF Next, Request

\* The types of the whole; that whatever servers advise no request sleeps for longer than
\* MaxRetries of the longest delays is one of them.
THEOREM TypeCorrect == Spec => []TypeOK
  <1>1. AccessInv /\ WalkInv /\ AuditInv => TypeOK
    BY DEF AccessInv, HttpInv, TokensInv, CallInv, WalkInv, AuditInv, TypeOK
  <1> QED BY <1>1, AccessInit, AccessStep, WalkInit, WalkStep, AuditInit, AuditStep, PTL DEF Spec

\* CarriedOutOnce for any number of retries: what must not be retried is not, and what is
\* sent again after a refusal was not carried out.
THEOREM CarriedOutOnceOnly == Spec => []CarriedOutOnce
  <1>1. AccessInv => CarriedOutOnce
    BY DEF AccessInv, CallInv
  <1> QED BY <1>1, AccessInit, AccessStep, PTL DEF Spec

\* RefusalIsHealed for any delays and lifetimes, if a new token lives for longer than the
\* margin at which the cache gives it up.
THEOREM RefusalHealed == ASSUME Margin < Life PROVE Spec => []RefusalIsHealed
  <1> DEFINE Inv == AccessInv /\ HealInv
  <1>1. Init => Inv
    BY AccessInit
  <1>2. Inv /\ [Next]_vars => Inv'
    BY AccessStep
  <1>3. Inv => RefusalIsHealed
    BY DEF HealInv
  <1> QED BY <1>1, <1>2, <1>3, PTL DEF Spec
==================================================================================
