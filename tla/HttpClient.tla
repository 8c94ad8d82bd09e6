-------------------------------- MODULE HttpClient --------------------------------
(***************************************************************************)
(* ResilientHttpClient.request: one request, sent until it is answered, or *)
(* rejected, or the retries are spent.  The server is not code of this     *)
(* repository: an attempt ends in any way `requests` or HTTP allow.        *)
(***************************************************************************)
EXTENDS Integers

CONSTANTS
    MaxRetries,     \* HttpSettings.max_retries
    Backoff,        \* backoff_factor
    BackoffMax,     \* backoff_max
    MaxRetryAfter,  \* MAX_RETRY_AFTER
    Advice,         \* delays a server may ask for, in either header; negative: a past date
    NoAdvice        \* no such header, or one that does not parse

ASSUME HttpConstantsOK ==
    /\ MaxRetries \in Nat /\ Backoff \in Nat /\ BackoffMax \in Nat /\ MaxRetryAfter \in Nat
    /\ Advice \subseteq Int
    /\ NoAdvice \notin Int

VARIABLE req   \* the request in flight, or the last one

\* How an attempt ends.  "no_answer": Timeout or ConnectionError; "unsendable": any other
\* RequestException; "unavailable": 408, 425, 5xx; "refused": 401; "forbidden": 403;
\* "rejected": any other 4xx; "garbled": a success whose body is not JSON.
Outcomes ==
    {"ok", "garbled", "no_answer", "unsendable", "throttled", "unavailable",
     "refused", "forbidden", "rejected"}

\* The server has done what the request asks, it may have, or it has not.
CarriedOut(outcome)   == outcome \in {"ok", "garbled"}
MaybeCarried(outcome) == outcome \in {"no_answer", "unavailable"}

\* The longest a request may sleep at a time, and in all, whatever the server says.
LongestDelay == IF MaxRetryAfter > BackoffMax THEN MaxRetryAfter ELSE BackoffMax
MaxSlept     == MaxRetries * LongestDelay

Requests ==
    [pc : {"idle", "send", "sleep", "done"},
     limit : Nat,                      \* attempts
     attempt : Nat,                    \* attempts made, the one under way included
     outcome : Outcomes \cup {"none"}, \* last_error, or the response
     advised : Int \cup {NoAdvice},    \* retry_after of a RateLimitError
     slept : 0..MaxSlept,              \* history: time slept since it was started
     carried : 0..2]                   \* history: times the server carried it out, 2 for more

Idle == [pc |-> "idle", limit |-> 0, attempt |-> 0, outcome |-> "none",
         advised |-> NoAdvice, slept |-> 0, carried |-> 0]
-------------------------------------------------------------------------------
AtMost(a, b) == IF a < b THEN a ELSE b

\* Mutant: the header is believed as it is.
TrustRetryAfter(advice) == IF advice = NoAdvice \/ advice >= 0 THEN advice ELSE 0

\* parse_retry_after, _reset_header_delay: clamped, or None.
ParseRetryAfter(advice) ==
    CASE advice = NoAdvice -> NoAdvice
      [] advice < 0        -> 0
      [] OTHER             -> AtMost(advice, MaxRetryAfter)

\* The error classes of errors.py that a retry could help.
Retryable(outcome) == outcome \in {"no_answer", "throttled", "unavailable"}

\* _delay_for: what the server advised, or the backoff, jittered into its upper half.
Delays(r) ==
    IF r.outcome = "throttled" /\ r.advised # NoAdvice THEN {r.advised}
    ELSE LET delay == AtMost(Backoff * 2 ^ (r.attempt - 1), BackoffMax)
         IN  {d \in 0..BackoffMax : delay \div 2 <= d /\ d <= delay}

\* Counts beyond two are all the same.
Twice(n) == AtMost(n, 2)

\* The head of request().
Start(retries) == [Idle EXCEPT !.pc = "send", !.limit = retries + 1, !.attempt = 1]

\* _evaluate and the end of the loop's body: r's attempt ends in an outcome.
Evaluate(r, outcome, advice, carried) ==
    [r EXCEPT !.pc = IF Retryable(outcome) /\ r.attempt < r.limit THEN "sleep" ELSE "done",
              !.outcome = outcome,
              !.advised = IF outcome = "throttled" THEN ParseRetryAfter(advice) ELSE NoAdvice,
              !.carried = IF carried THEN Twice(r.carried + 1) ELSE r.carried]

\* An attempt; what is possible of `possible` is up to the server and the network.
Attempt(possible) ==
    /\ req.pc = "send"
    /\ \E outcome \in possible, advice \in Advice \cup {NoAdvice}, carried \in BOOLEAN :
        /\ CarriedOut(outcome) => carried
        /\ carried => CarriedOut(outcome) \/ MaybeCarried(outcome)
        /\ outcome # "throttled" => advice = NoAdvice
        /\ req' = Evaluate(req, outcome, advice, carried)

\* _sleep, and the next round of the loop.
Sleep(d) ==
    /\ req.pc = "sleep"
    /\ d \in Delays(req)
    /\ req' = [req EXCEPT !.pc = "send", !.attempt = @ + 1, !.slept = @ + d,
                       !.outcome = "none", !.advised = NoAdvice]
-------------------------------------------------------------------------------
\* Mutant: links are followed wherever they lead.
WantsAnyPage(next, seen, pages, limit) == pages < limit

\* The head of both paginate() loops: there is a next page, it has not been read yet,
\* and the budget of pages is not spent.
WantsPage(next, seen, pages, limit) == pages < limit /\ next \notin seen
==================================================================================
