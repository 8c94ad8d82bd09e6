------------------------------- MODULE GraphAccess -------------------------------
(***************************************************************************)
(* A command's way to Microsoft Graph: MSALTokenProvider with its cache,   *)
(* MSGraphClient.request with its one retry after a 401, paginate(), and   *)
(* the audit record of every request, kept in memory and stored in Odoo    *)
(* when the command ends.  One process, one request at a time; time passes *)
(* while it sleeps and between its requests.                               *)
(***************************************************************************)
EXTENDS HttpClient, FiniteSets, Sequences, SequencesExt

CONSTANTS
    Tokens,      \* names for access tokens, reused once nobody holds them
    NoToken,
    Life,        \* lifetime of a new token
    Margin,      \* the 300 s a cached token is given up early
    Pages,       \* pages of a collection
    NoPage,      \* the end of one
    Chains,      \* how pages may be linked: a set of functions Pages -> Pages \cup {NoPage}
    MaxPages,    \* max_pages
    MaxCalls     \* bound: requests of one command

ASSUME GraphAccessConstantsOK ==
    /\ NoToken \notin Tokens /\ IsFiniteSet(Tokens) /\ Cardinality(Tokens) >= 4
    /\ Life \in Nat \ {0} /\ Margin \in Nat /\ MaxPages \in Nat /\ MaxCalls \in Nat
    /\ NoPage \notin Pages
    /\ Chains # {} /\ Chains \subseteq [Pages -> Pages \cup {NoPage}]

VARIABLES
    left,     \* left[t]: time until Microsoft stops accepting t
    revoked,  \* tokens revoked before their time
    cache,    \* _cached_token and how long it is going to be handed out
    issued,   \* the token that MSAL keeps in a cache of its own
    call,     \* the call of MSGraphClient.request under way, or the last one
    walk,     \* the paginate() under way, or the last one
    audit     \* audit_logger.events and what became of them

tokenVars == <<left, revoked, cache, issued>>
vars == <<req, tokenVars, call, walk, audit>>

Results ==
    {"ok", "throttled", "authentication", "forbidden", "rejected", "unavailable",
     "no_answer", "unsendable", "garbled", "no_token"}

Calls ==
    [pc : {"idle", "token", "first", "refresh", "second", "done"},
     retryable : BOOLEAN,
     token : Tokens \cup {NoToken},    \* the bearer of its Authorization header
     result : Results \cup {"none"},   \* what it returned or raised
     carried : 0..2,                   \* history: times the server carried it out, 2 for more
     slept : 0..MaxSlept,              \* history: time its last request slept
     asked : BOOLEAN,                  \* history: MSAL was asked after a refusal
     cause : Outcomes \cup {"none"}]   \* history: how the second request ended

NoCall == [pc |-> "idle", retryable |-> TRUE, token |-> NoToken, result |-> "none",
           carried |-> 0, slept |-> 0, asked |-> FALSE, cause |-> "none"]

NoWalk == [pc |-> "idle", chain |-> CHOOSE c \in Chains : TRUE, next |-> NoPage, seen |-> {},
           got |-> <<>>]

Walks ==
    [pc : {"idle", "ask", "wait", "done", "failed"},
     chain : Chains,
     next : Pages \cup {NoPage},   \* next_url
     seen : SUBSET Pages,          \* seen_urls
     got : Seq(Pages)]             \* pages whose items were yielded, in order

Audits ==
    [events : Seq(BOOLEAN),   \* the events' success flags, in order
     truth : Seq(BOOLEAN),    \* history: which of the requests made were answered
     pc : {"open", "closed"},
     kept : Nat,              \* records of the events since sync_to_odoo
     written : Nat]           \* records it reports as written

NewAudit == [events |-> <<>>, truth |-> <<>>, pc |-> "open", kept |-> 0, written |-> 0]

Init ==
    /\ req = Idle
    /\ left = [t \in Tokens |-> 0]
    /\ revoked = {}
    /\ cache = [token |-> NoToken, fresh |-> 0]
    /\ issued = NoToken
    /\ call = NoCall
    /\ walk = NoWalk
    /\ audit = NewAudit
-------------------------------------------------------------------------------
Accepted(t) == left[t] > 0 /\ t \notin revoked

Less(n, d) == IF n > d THEN n - d ELSE 0

\* d units of time pass.
Elapse(d) ==
    /\ left' = [t \in Tokens |-> Less(left[t], d)]
    /\ cache' = [cache EXCEPT !.fresh = Less(@, d)]

\* A new token that says how long it lives is kept, unless that is not worth while.
CacheToken(t, life) ==
    cache' = IF life > Margin THEN [token |-> t, fresh |-> life - Margin]
             ELSE [token |-> NoToken, fresh |-> 0]

\* Mutant: force_refresh is not passed on.
HitForced(forced) == cache.token # NoToken /\ cache.fresh > 0

\* The head of get_access_token.
Hit(forced) == ~forced /\ cache.token # NoToken /\ cache.fresh > 0

\* Tokens that somebody can still send; the name of another one is free.
Held == {cache.token, issued, call.token}

\* MSAL answers with a token of its own cache, while that is good for more than the
\* margin it shares with this client, or with a new one.
Offers ==
    {t \in Tokens : t = issued /\ left[t] > Margin}
    \cup {CHOOSE t \in Tokens : t \notin Held}

\* The rest of get_access_token when the cache does not serve: MSAL answers with t, and
\* says how long it lives, or does not.
Acquire(t) ==
    LET life == IF t = issued THEN left[t] ELSE Life IN
    /\ left' = [u \in Tokens |-> IF u = t THEN life ELSE IF u \in Held THEN left[u] ELSE 0]
    /\ revoked' = IF t = issued THEN revoked ELSE (revoked \cap Held) \ {t}
    /\ issued' = t
    /\ CacheToken(t, life) \/ UNCHANGED cache

\* It returns t, or it raises: no token.
get_access_token(forced, t) ==
    \/ Hit(forced) /\ t = cache.token /\ UNCHANGED tokenVars
    \/ ~Hit(forced) /\ t \in Offers /\ Acquire(t)
    \/ ~Hit(forced) /\ t = NoToken /\ UNCHANGED tokenVars
-------------------------------------------------------------------------------
\* Mutant: only what succeeded is recorded.
RecordSuccess(result) ==
    audit' = [audit EXCEPT !.truth = Append(@, result = "ok"),
                           !.events = IF result = "ok" THEN Append(@, TRUE) ELSE @]

\* audit_logger.record, for a request that ended in a result.
Record(result) ==
    audit' = [audit EXCEPT !.truth = Append(@, result = "ok"),
                           !.events = Append(@, result = "ok")]

\* The call returns or raises.  Of what it knew, only what the properties are about is kept.
Ended(c, result) ==
    IF result = "authentication" THEN [c EXCEPT !.pc = "done", !.result = result]
    ELSE [NoCall EXCEPT !.pc = "done", !.result = result, !.retryable = c.retryable,
                        !.carried = IF c.retryable THEN 0 ELSE c.carried]

\* Mutant: retryable is ignored.
RetriesAnyway(retryable) == MaxRetries

\* effective_max_retries
EffectiveRetries(retryable) == IF retryable THEN MaxRetries ELSE 0

\* A call to request() begins.
BeginCall(retryable) ==
    /\ call.pc \in {"idle", "done"}
    /\ audit.pc = "open"
    /\ Len(audit.truth) < MaxCalls
    /\ call' = [NoCall EXCEPT !.pc = "token", !.retryable = retryable]

\* A service asks for something other than a page.
Call ==
    /\ walk.pc \notin {"ask", "wait"}
    /\ \E retryable \in BOOLEAN : BeginCall(retryable)
    /\ walk' = NoWalk
    /\ UNCHANGED <<req, tokenVars, audit>>

\* get_access_token(), outside the try: without a token there is no request, and no event.
GetToken ==
    LET Go(t) ==
          IF t = NoToken
          THEN call' = Ended(call, "no_token") /\ UNCHANGED req
          ELSE /\ call' = [call EXCEPT !.pc = "first", !.token = t]
               /\ req' = Start(EffectiveRetries(call.retryable))
    IN
    /\ call.pc = "token"
    /\ \E t \in Tokens \cup {NoToken} : get_access_token(FALSE, t) /\ Go(t)
    /\ UNCHANGED <<walk, audit>>

\* What the server makes of the token; throttling and failures come before the token is
\* looked at.
Possible ==
    IF Accepted(call.token) THEN Outcomes \ {"refused"}
    ELSE Outcomes \ {"ok", "garbled", "forbidden", "rejected"}

Send ==
    /\ Attempt(Possible)
    /\ UNCHANGED <<tokenVars, call, walk, audit>>

Wait ==
    /\ req.pc = "sleep"
    /\ \E d \in Delays(req) : Sleep(d) /\ Elapse(d)
    /\ UNCHANGED <<revoked, issued, call, walk, audit>>

\* The call as it is when its request has ended.
Settled == [call EXCEPT !.carried = Twice(@ + req.carried), !.slept = req.slept]

\* The except clauses: a call that is refused once goes on with a new token, every other
\* one is recorded and ends.
FirstEnds ==
    /\ call.pc = "first"
    /\ req.pc = "done"
    /\ req' = Idle
    /\ IF req.outcome = "refused"
       THEN call' = [Settled EXCEPT !.pc = "refresh"] /\ UNCHANGED audit
       ELSE call' = Ended(Settled, req.outcome) /\ Record(req.outcome)
    /\ UNCHANGED <<tokenVars, walk>>

\* The token is acquired again, whatever the cache holds.
Refresh ==
    LET Go(t) ==
          IF t = NoToken
          THEN /\ call' = Ended([call EXCEPT !.asked = TRUE], "authentication")
               /\ Record("authentication")
               /\ UNCHANGED req
          ELSE /\ call' = [call EXCEPT !.pc = "second", !.token = t, !.asked = ~Hit(TRUE)]
               /\ req' = Start(EffectiveRetries(call.retryable))
               /\ UNCHANGED audit
    IN
    /\ call.pc = "refresh"
    /\ \E t \in Tokens \cup {NoToken} : get_access_token(TRUE, t) /\ Go(t)
    /\ UNCHANGED walk

\* The second request; however it fails, AuthenticationError is raised.
SecondEnds ==
    /\ call.pc = "second"
    /\ req.pc = "done"
    /\ req' = Idle
    /\ LET result == IF req.outcome = "ok" THEN "ok" ELSE "authentication" IN
       /\ call' = [Ended(Settled, result) EXCEPT !.cause = req.outcome]
       /\ Record(result)
    /\ UNCHANGED <<tokenVars, walk>>

\* Time passes between two requests.
Tick ==
    /\ call.pc \in {"idle", "done"}
    /\ \E t \in Held \ {NoToken} : left[t] > 0
    /\ Elapse(1)
    /\ UNCHANGED <<req, revoked, issued, call, walk, audit>>

\* An administrator revokes a token.
Revoke(t) ==
    /\ Accepted(t) /\ t \in Held
    /\ revoked' = revoked \cup {t}
    /\ UNCHANGED <<req, left, cache, issued, call, walk, audit>>
-------------------------------------------------------------------------------
\* paginate(): the collection may be linked in any way.
BeginWalk ==
    /\ walk.pc \notin {"ask", "wait"}
    /\ call.pc \in {"idle", "done"}
    /\ audit.pc = "open"
    /\ Len(audit.truth) + MaxPages <= MaxCalls
    /\ \E chain \in Chains, first \in Pages :
        walk' = [NoWalk EXCEPT !.pc = "ask", !.chain = chain, !.next = first]
    /\ UNCHANGED <<req, tokenVars, call, audit>>

\* The head of the loop: ask for the next page, or return.
NextPage ==
    /\ walk.pc = "ask"
    /\ IF walk.next # NoPage /\ WantsPage(walk.next, walk.seen, Len(walk.got), MaxPages)
       THEN /\ walk' = [walk EXCEPT !.pc = "wait", !.seen = @ \cup {walk.next}]
            /\ BeginCall(TRUE)
       ELSE walk' = [walk EXCEPT !.pc = "done"] /\ UNCHANGED call
    /\ UNCHANGED <<req, tokenVars, audit>>

\* The rest of the loop: an error of the request is raised, and so is a body that is no
\* object or has no list; otherwise the page's items are yielded.
PageArrives ==
    /\ walk.pc = "wait"
    /\ call.pc = "done"
    /\ \E shaped \in BOOLEAN :
        walk' = IF call.result = "ok" /\ shaped
                THEN [walk EXCEPT !.pc = "ask", !.got = Append(@, walk.next),
                                  !.next = walk.chain[walk.next]]
                ELSE [walk EXCEPT !.pc = "failed"]
    /\ call' = NoCall
    /\ UNCHANGED <<req, tokenVars, audit>>
-------------------------------------------------------------------------------
\* Mutant: an attempt to store counts as a record.
StoreAll(kept, lost) ==
    audit' = [audit EXCEPT !.pc = "closed", !.kept = kept, !.written = Len(audit.events)]

\* The loops of sync_to_odoo: of the records that are created, `lost` are reported as
\* errors, because their answer was lost.
Store(kept, lost) ==
    audit' = [audit EXCEPT !.pc = "closed", !.kept = kept, !.written = kept - lost]

Forget ==
    /\ call' = NoCall
    /\ walk' = NoWalk
    /\ left' = [t \in Tokens |-> 0]
    /\ revoked' = {}
    /\ cache' = [token |-> NoToken, fresh |-> 0]
    /\ issued' = NoToken

\* sync_to_odoo at the end of the command: into the model of the addon, the one made with
\* Studio, or the file, whichever is the first to be there; a failure to write the file
\* ends it.  So does the process, and what it remembers is gone.
SyncToOdoo ==
    /\ call.pc \in {"idle", "done"}
    /\ walk.pc \notin {"ask", "wait"}
    /\ audit.pc = "open"
    /\ \E kept \in 0..Len(audit.events) : \E lost \in 0..kept : Store(kept, lost)
    /\ Forget
    /\ UNCHANGED req

\* The next command is a process of its own.
NextCommand ==
    /\ audit.pc = "closed"
    /\ audit' = NewAudit
    /\ UNCHANGED <<req, tokenVars, call, walk>>

Request == GetToken \/ Send \/ Wait \/ FirstEnds \/ Refresh \/ SecondEnds
Paging  == BeginWalk \/ NextPage \/ PageArrives

Next ==
    \/ Call \/ Request \/ Paging \/ SyncToOdoo \/ NextCommand
    \/ Tick \/ (\E t \in Tokens : Revoke(t))

Spec == Init /\ [][Next]_vars
-------------------------------------------------------------------------------
\* The type invariant; that no server stalls a request, whatever it advises, is part of it.
TypeOK ==
    /\ req \in Requests
    /\ left \in [Tokens -> 0..Life]
    /\ revoked \subseteq Tokens
    /\ cache \in [token : Tokens \cup {NoToken}, fresh : 0..Life]
    /\ issued \in Tokens \cup {NoToken}
    /\ call \in Calls
    /\ walk \in Walks
    /\ audit \in Audits

\* A call fails for its credentials only after Microsoft was asked for a new token: a
\* token that expired in the cache or during the retries, or was revoked, does not fail
\* it.  If the new token is refused too, it was revoked or has expired since, waiting for
\* the server longer than the margin.
RefusalIsHealed ==
    call.result = "authentication" =>
        /\ call.asked
        /\ call.cause = "refused" => call.token \in revoked \/ call.slept > Margin

\* A call that must not be retried reaches the tenant at most once, in spite of the
\* second request after a refusal.
CarriedOutOnce == ~call.retryable => call.carried <= 1

\* Every request that was made left one event, that says what became of it, and what is
\* reported as stored is stored.
AuditIsComplete == audit.events = audit.truth /\ audit.written <= audit.kept

\* paginate() yields no page twice and leaves none out, however they are linked, unless
\* there are more than it may read.
WalkIsExact ==
    walk.pc = "done" =>
        /\ IsInjective(walk.got)
        /\ \A i \in 2..Len(walk.got) : walk.got[i] = walk.chain[walk.got[i - 1]]
        /\ Len(walk.got) < MaxPages => walk.chain[Last(walk.got)] \in {NoPage} \cup ToSet(walk.got)
==================================================================================
