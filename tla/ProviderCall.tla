----------------------------- MODULE ProviderCall -----------------------------
(***************************************************************************)
(* Provider calls: askProviderStream() and askProvider() of                 *)
(* lib/providers.ts, the retry loop of lib/retry.ts and the circuit-breaker *)
(* registry of lib/breaker.ts, through which protectedFetch() of            *)
(* lib/providers/baseProvider.ts sends every request.                       *)
(*                                                                         *)
(* A provider's call() may send several requests: an answer that asks for   *)
(* tools is followed by a further round (lib/providers/concrete/openai.ts,  *)
(* anthropic.ts and google.ts).                                             *)
(*                                                                         *)
(* Several calls run concurrently and share the retry budget and the        *)
(* breakers; a call is identified with the requests it means to send.  The  *)
(* breaker itself is the opossum library: closed, open, half-open.          *)
(***************************************************************************)
EXTENDS Integers, FiniteSets, Sequences

CONSTANTS
  Calls,            \* the askProviderStream calls
  Names,            \* provider names (breakers are kept by name)
  WithFallback,     \* names of type "api", when the fallback key is configured
  Misconfigured,    \* names for which createProvider throws
  MaxTotalAttempts, \* MAX_TOTAL_ATTEMPTS
  MaxRetries,       \* retries after the first attempt
  MaxToolRounds,    \* the depth at which a provider's call() throws
  RetryBudget,      \* MAX_CONCURRENT_RETRIES
  MaxBreakers       \* MAX_BREAKERS

ASSUME CallsAssumption ==
  /\ IsFiniteSet(Calls) /\ IsFiniteSet(Names)
  /\ WithFallback \subseteq Names /\ Misconfigured \subseteq Names
ASSUME LimitsAssumption ==
  /\ MaxTotalAttempts \in Nat \ {0} /\ MaxRetries \in Nat
  /\ MaxToolRounds \in Nat \ {0}
  /\ RetryBudget \in Nat /\ MaxBreakers \in Nat \ {0}
\* Six attempts, counted twice each, with two retries in the code.
ASSUME AttemptsAssumption ==
  2 <= MaxTotalAttempts /\ MaxTotalAttempts <= 2 * (MaxRetries + 1)

VARIABLES
  name,            \* the name of the provider each call asks
  pc,              \* where each call is
  asking,          \* whom it asks: its "primary" provider or the "fallback"
  isFallback,      \* ctx.isFallback
  totalAttempts,   \* ctx.totalAttempts
  attempt,         \* failed attempts counted by withRetry
  lastResort,      \* it asks the fallback from outside the retry loop
  depth,           \* _depth: rounds of tool calls in the current call()
  aborted,         \* its abort signal has fired
  flight,          \* the request it waits for: by which breaker, of which call
  answer,          \* the call whose request was answered to it
  begun,           \* history: call()s of each that sent a request
  sent,            \* history: requests it sent to each
  activeRetries,   \* calls in backoff, system-wide
  breakers,        \* the registry: per key the first request and the state
  recency          \* pairs of keys, the first one used before the second

callVars    == <<pc, asking, isFallback, totalAttempts, attempt, lastResort,
                 depth>>
sentVars    == <<begun, sent>>
breakerVars == <<breakers, recency>>
vars == <<name, callVars, aborted, flight, answer, sentVars, activeRetries,
          breakerVars>>

Whom   == {"primary", "fallback"}
Keys   == Names \X Whom
NoKey  == <<>>
NoCall == "none"
NoFlight == [key |-> NoKey, request |-> NoCall]
Phases == {"attempt", "request", "flight", "backoff", "answered", "failed"}
Over   == {"answered", "failed"}

BreakerState == {"closed", "open", "halfOpen", "probing"}

HasFallback(c) == name[c] \in WithFallback
KeyOf(c) == <<name[c], asking[c]>>

Init ==
  /\ name \in [Calls -> Names]
  /\ pc = [c \in Calls |-> "attempt"]
  /\ asking = [c \in Calls |-> "primary"]
  /\ isFallback = [c \in Calls |-> FALSE]
  /\ totalAttempts = [c \in Calls |-> 0]
  /\ attempt = [c \in Calls |-> 0]
  /\ lastResort = [c \in Calls |-> FALSE]
  /\ depth = [c \in Calls |-> 0]
  /\ aborted = [c \in Calls |-> FALSE]
  /\ flight = [c \in Calls |-> NoFlight]
  /\ answer = [c \in Calls |-> NoCall]
  /\ begun = [c \in Calls |-> [w \in Whom |-> 0]]
  /\ sent = begun
  /\ activeRetries = 0
  /\ breakers = <<>> /\ recency = {}

-------------------------------------------------------------------------------
(* How a failure travels outwards: askProvider, withRetry, askProviderStream *)

\* In these operators `total` and `tried` are ctx.totalAttempts and
\* ctx.isFallback as the failure leaves them.

\* The retry loop has given up: the fallback once more, if it was never asked.
GiveUp(c, total, tried) ==
  IF ~tried /\ ~aborted[c] /\ total < MaxTotalAttempts /\ HasFallback(c)
  THEN /\ pc' = [pc EXCEPT ![c] = "request"]
       /\ asking' = [asking EXCEPT ![c] = "fallback"]
       /\ isFallback' = [isFallback EXCEPT ![c] = TRUE]
       /\ totalAttempts' = [totalAttempts EXCEPT ![c] = total + 1]
       /\ lastResort' = [lastResort EXCEPT ![c] = TRUE]
  ELSE /\ pc' = [pc EXCEPT ![c] = "failed"]
       /\ isFallback' = [isFallback EXCEPT ![c] = tried]
       /\ totalAttempts' = [totalAttempts EXCEPT ![c] = total]
       /\ UNCHANGED <<asking, lastResort>>

MayRetry(c) == attempt[c] < MaxRetries /\ activeRetries < RetryBudget

\* withRetry catches the error of an attempt.  It is never an AbortError, and
\* no signal was passed: an aborted call is retried like any other.
AttemptFails(c, total, tried) ==
  /\ attempt' = [attempt EXCEPT ![c] = @ + 1]
  /\ IF MayRetry(c)
     THEN /\ pc' = [pc EXCEPT ![c] = "backoff"]
          /\ activeRetries' = activeRetries + 1
          /\ isFallback' = [isFallback EXCEPT ![c] = tried]
          /\ totalAttempts' = [totalAttempts EXCEPT ![c] = total]
          /\ UNCHANGED <<asking, lastResort>>
     ELSE GiveUp(c, total, tried) /\ UNCHANGED activeRetries

MayFallBackAgain(c) == HasFallback(c)
MayFallBackUnlessAborted(c) == HasFallback(c) /\ ~isFallback[c] /\ ~aborted[c]
MayFallBack(c) == HasFallback(c) /\ ~isFallback[c]

\* provider.call() has thrown: the first time, askProvider asks the fallback,
\* unless that makes one attempt too many.
AskFails(c) ==
  LET total == totalAttempts[c] + 1 IN
  /\ depth' = [depth EXCEPT ![c] = 0]
  /\ IF MayFallBack(c) /\ total <= MaxTotalAttempts
     THEN /\ pc' = [pc EXCEPT ![c] = "request"]
          /\ asking' = [asking EXCEPT ![c] = "fallback"]
          /\ isFallback' = [isFallback EXCEPT ![c] = TRUE]
          /\ totalAttempts' = [totalAttempts EXCEPT ![c] = total]
          /\ UNCHANGED <<attempt, lastResort, activeRetries>>
     ELSE IF MayFallBack(c)
     THEN AttemptFails(c, total, TRUE)
     ELSE IF ~lastResort[c]
     THEN AttemptFails(c, totalAttempts[c], isFallback[c])
     ELSE /\ pc' = [pc EXCEPT ![c] = "failed"]
          /\ UNCHANGED <<asking, isFallback, totalAttempts, attempt, lastResort,
                         activeRetries>>

-------------------------------------------------------------------------------
(* One attempt: both askProviderStream and askProvider count it *)

\* ctx.totalAttempts when the guards of an attempt have been passed or not.
CountedOnce(c) == totalAttempts[c] + 1
CountedTwice(c) ==
  IF totalAttempts[c] + 1 > MaxTotalAttempts THEN totalAttempts[c] + 1
                                             ELSE totalAttempts[c] + 2

Attempt(c) ==
  LET counted == CountedTwice(c) IN
  /\ pc[c] = "attempt"
  /\ depth' = [depth EXCEPT ![c] = 0]
  /\ IF counted > MaxTotalAttempts \/ name[c] \in Misconfigured
     THEN AttemptFails(c, counted, isFallback[c])
     ELSE /\ pc' = [pc EXCEPT ![c] = "request"]
          /\ asking' = [asking EXCEPT ![c] = "primary"]
          /\ totalAttempts' = [totalAttempts EXCEPT ![c] = counted]
          /\ UNCHANGED <<isFallback, attempt, lastResort, activeRetries>>
  /\ UNCHANGED <<name, aborted, flight, answer, sentVars, breakerVars>>

WakeKeepingSlot(c) ==
  /\ pc[c] = "backoff"
  /\ pc' = [pc EXCEPT ![c] = "attempt"]
  /\ activeRetries' = IF aborted[c] THEN activeRetries ELSE activeRetries - 1
  /\ UNCHANGED <<asking, isFallback, totalAttempts, attempt, lastResort,
                 depth, name, aborted, flight, answer, sentVars, breakerVars>>
WakeUnlessAborted(c) ==
  /\ pc[c] = "backoff" /\ ~aborted[c]
  /\ pc' = [pc EXCEPT ![c] = "attempt"]
  /\ activeRetries' = activeRetries - 1
  /\ UNCHANGED <<asking, isFallback, totalAttempts, attempt, lastResort,
                 depth, name, aborted, flight, answer, sentVars, breakerVars>>
\* The backoff sleep ends.
Wake(c) ==
  /\ pc[c] = "backoff"
  /\ pc' = [pc EXCEPT ![c] = "attempt"]
  /\ activeRetries' = activeRetries - 1
  /\ UNCHANGED <<asking, isFallback, totalAttempts, attempt, lastResort,
                 depth, name, aborted, flight, answer, sentVars, breakerVars>>

-------------------------------------------------------------------------------
(* Breakers *)

Known(k) == k \in DOMAIN breakers
Least == CHOOSE k \in DOMAIN breakers : \A x \in DOMAIN breakers : <<x, k>> \notin recency
Among(keys) == {p \in recency : p[1] \in keys /\ p[2] \in keys}

\* The key evicted to make room for a new one.
Evicted(k) ==
  IF Known(k) \/ Cardinality(DOMAIN breakers) < MaxBreakers THEN {} ELSE {Least}

\* getBreaker: the registered breaker, with the request of the call that
\* registered it, or a new one for the request of this call.
BreakerFor(c) ==
  IF Known(KeyOf(c)) THEN breakers[KeyOf(c)]
                     ELSE [request |-> c, state |-> "closed"]

\* Below its depth limit a call() sends one more request; at it, it throws.
RoundsLeftOneMore(c) == depth[c] <= MaxToolRounds
RoundsLeft(c) == depth[c] < MaxToolRounds

Rejects(entry) == entry.state \in {"open", "probing"}

\* getBreaker(...).fire(), in one go.  An evicted breaker no longer hears of
\* the requests it has under way.
Fire(c) ==
  LET k     == KeyOf(c)
      entry == BreakerFor(c)
      gone  == Evicted(k)
      kept  == (DOMAIN breakers) \ (gone \cup {k})
      fired == IF entry.state = "halfOpen" THEN [entry EXCEPT !.state = "probing"]
                                           ELSE entry
      orphaned == [d \in Calls |-> IF flight[d].key \in gone
                                   THEN [flight[d] EXCEPT !.key = NoKey]
                                   ELSE flight[d]]
  IN
  /\ pc[c] = "request" /\ RoundsLeft(c)
  /\ breakers' = [x \in kept \cup {k} |-> IF x = k THEN fired ELSE breakers[x]]
  /\ recency' = Among(kept) \cup (kept \X {k})
  /\ IF Rejects(entry)
     THEN AskFails(c) /\ flight' = orphaned /\ UNCHANGED sentVars
     ELSE /\ pc' = [pc EXCEPT ![c] = "flight"]
          /\ flight' = [orphaned EXCEPT ![c] =
                          [key |-> k, request |-> entry.request]]
          /\ sent' = [sent EXCEPT ![c][asking[c]] = @ + 1]
          /\ begun' = IF depth[c] = 0
                      THEN [begun EXCEPT ![c][asking[c]] = @ + 1] ELSE begun
          /\ UNCHANGED <<asking, isFallback, totalAttempts, attempt, lastResort,
                         depth, activeRetries>>
  /\ UNCHANGED <<name, aborted, answer>>

\* call() throws before it sends anything: it is at its depth limit, or its URL
\* is refused.
Unsent(c) ==
  /\ pc[c] = "request"
  /\ AskFails(c)
  /\ UNCHANGED <<name, aborted, flight, answer, sentVars, breakerVars>>

\* What a breaker becomes when a request comes back, and when it is refused.
AfterSuccess ==
  [s \in BreakerState |-> IF s \in {"halfOpen", "probing"} THEN {"closed"}
                                                          ELSE {s}]
AfterFailure ==
  [s \in BreakerState |-> IF s = "closed" THEN {"closed", "open"} ELSE {"open"}]

Hear(k, becomes) ==
  IF Known(k)
  THEN \E s \in becomes[breakers[k].state] :
         breakers' = [breakers EXCEPT ![k].state = s]
  ELSE UNCHANGED breakers

\* The request comes back: an HTTP answer counts as a success of the breaker
\* whatever its status; one with an error status, or that breaks off, fails
\* the call.
Answered(c) ==
  /\ pc[c] = "flight" /\ ~aborted[flight[c].request]
  /\ Hear(flight[c].key, AfterSuccess)
  /\ pc' = [pc EXCEPT ![c] = "answered"]
  /\ answer' = [answer EXCEPT ![c] = flight[c].request]
  /\ flight' = [flight EXCEPT ![c] = NoFlight]
  /\ UNCHANGED <<asking, isFallback, totalAttempts, attempt, lastResort,
                 depth, name, aborted, sentVars, activeRetries, recency>>

\* The answer asks for tools: they are run, their errors caught, and call()
\* calls itself with the results.
ToolCalls(c) ==
  /\ pc[c] = "flight" /\ ~aborted[flight[c].request]
  /\ Hear(flight[c].key, AfterSuccess)
  /\ pc' = [pc EXCEPT ![c] = "request"]
  /\ depth' = [depth EXCEPT ![c] = @ + 1]
  /\ flight' = [flight EXCEPT ![c] = NoFlight]
  /\ UNCHANGED <<asking, isFallback, totalAttempts, attempt, lastResort,
                 name, aborted, answer, sentVars, activeRetries, recency>>

ErrorStatus(c) ==
  /\ pc[c] = "flight"
  /\ Hear(flight[c].key, AfterSuccess)
  /\ AskFails(c)
  /\ flight' = [flight EXCEPT ![c] = NoFlight]
  /\ UNCHANGED <<name, aborted, answer, sentVars, recency>>

\* No answer: a network error, or the signal of the request has fired.
Refused(c) ==
  /\ pc[c] = "flight"
  /\ Hear(flight[c].key, AfterFailure)
  /\ AskFails(c)
  /\ flight' = [flight EXCEPT ![c] = NoFlight]
  /\ UNCHANGED <<name, aborted, answer, sentVars, recency>>

\* The reset timeout of an open breaker.
HalfOpen(k) ==
  /\ Known(k) /\ breakers[k].state = "open"
  /\ breakers' = [breakers EXCEPT ![k].state = "halfOpen"]
  /\ UNCHANGED <<name, callVars, aborted, flight, answer, sentVars, activeRetries,
                 recency>>

\* The periodic cleanup drops a breaker unused for ten minutes, longer than
\* any request takes.
DropStale(k) ==
  /\ Known(k) /\ \A c \in Calls : flight[c].key # k
  /\ breakers' = [x \in (DOMAIN breakers) \ {k} |-> breakers[x]]
  /\ recency' = Among((DOMAIN breakers) \ {k})
  /\ UNCHANGED <<name, callVars, aborted, flight, answer, sentVars, activeRetries>>

\* The signal of a call fires: its caller aborts, or its timeout runs out,
\* which it also does after the call has ended.
Abort(c) ==
  /\ ~aborted[c]
  /\ aborted' = [aborted EXCEPT ![c] = TRUE]
  /\ UNCHANGED <<name, callVars, flight, answer, sentVars, activeRetries,
                 breakerVars>>

-------------------------------------------------------------------------------
CallStep(c) ==
  \/ Attempt(c)
  \/ Fire(c)
  \/ Unsent(c)
  \/ ToolCalls(c)
  \/ Answered(c)
  \/ ErrorStatus(c)
  \/ Refused(c)
  \/ Wake(c)

Next ==
  \/ \E c \in Calls : CallStep(c) \/ Abort(c)
  \/ \E k \in Keys : HalfOpen(k) \/ DropStale(k)

Spec == Init /\ [][Next]_vars

\* Requests carry a signal or a timeout and backoff sleeps end; breakers may
\* stay open and callers need not abort.
FairSpec == Spec /\ \A c \in Calls : WF_vars(CallStep(c))

-------------------------------------------------------------------------------
(* Properties *)

Entry == [request : Calls, state : BreakerState]

\* Of any two breakers one was used before the other, in an order without cycles,
\* so that there is a least recently used one to evict.
UseOrder ==
  /\ recency \subseteq (DOMAIN breakers) \X (DOMAIN breakers)
  /\ \A x, y \in DOMAIN breakers :
       /\ x # y => (<<x, y>> \in recency <=> <<y, x>> \notin recency)
       /\ <<x, x>> \notin recency
  /\ \A x, y, z \in DOMAIN breakers :
       <<x, y>> \in recency /\ <<y, z>> \in recency => <<x, z>> \in recency

\* Every variable stays in its range, and the registry is in step with its
\* order of use.
TypeOK ==
  /\ name \in [Calls -> Names]
  /\ pc \in [Calls -> Phases]
  /\ asking \in [Calls -> Whom]
  /\ isFallback \in [Calls -> BOOLEAN] /\ lastResort \in [Calls -> BOOLEAN]
  /\ totalAttempts \in [Calls -> Nat] /\ attempt \in [Calls -> Nat]
  /\ depth \in [Calls -> Nat]
  /\ aborted \in [Calls -> BOOLEAN]
  /\ flight \in [Calls -> [key : Keys \cup {NoKey}, request : Calls \cup {NoCall}]]
  /\ answer \in [Calls -> Calls \cup {NoCall}]
  /\ begun \in [Calls -> [Whom -> Nat]] /\ sent \in [Calls -> [Whom -> Nat]]
  /\ activeRetries \in Nat
  /\ DOMAIN breakers \subseteq Keys
  /\ \A k \in DOMAIN breakers : breakers[k] \in Entry
  /\ UseOrder

\* The budget counts the calls in backoff, no more and no less, and is never
\* overdrawn: whatever way a call leaves its backoff, the slot comes back
\* (retry.ts:80-142).
BudgetBalanced ==
  /\ activeRetries = Cardinality({c \in Calls : pc[c] = "backoff"})
  /\ activeRetries <= RetryBudget

\* Retries, fallback and tool calls together: a call sends at most ten requests
\* for each of its three attempts (retry.ts:29-30, openai.ts:23-25), and at most
\* ten of them to the fallback, however the three loops nest
\* (providers.ts:32-33).
RequestsBounded ==
  \A c \in Calls :
    /\ sent[c]["fallback"] <= MaxToolRounds
    /\ sent[c]["primary"] + sent[c]["fallback"] <= MaxToolRounds * (MaxRetries + 1)

\* A call to a well-configured provider does not fail before its fallback has
\* been asked (providers.ts:93-99).
FallbackBeforeFailure ==
  \A c \in Calls :
    pc[c] = "failed" /\ HasFallback(c) /\ name[c] \notin Misconfigured
      => isFallback[c]

\* Seen from the council, the nested loops, the shared budget and the breakers
\* come down to what AbstractCalls promises of each call by itself
\* (providers.ts:42-149, retry.ts:64-147, openai.ts:15-156).
Service == INSTANCE AbstractCalls WITH
  MaxRounds <- MaxToolRounds,
  MaxRequests <- MaxToolRounds * (MaxRetries + 1),
  entitled <- {c \in Calls : HasFallback(c) /\ name[c] \notin Misconfigured},
  outcome <- [c \in Calls |-> IF pc[c] \in Over THEN pc[c] ELSE "pending"],
  tried <- isFallback
ImplementsService == Service!Spec

\* What a call still has to do: once its retries are given up, ask the fallback;
\* before that, the rest of this attempt and all of the others left.
CallLength == 2 * MaxToolRounds + 1   \* steps of a provider's call() at most
Lap == 2 * CallLength + 2             \* of an attempt, with fallback and backoff
RoundsAhead(c) == 2 * (MaxToolRounds - depth[c])
Later(c) == IF asking[c] = "primary" THEN CallLength ELSE 0
Stage(c) ==
  CASE pc[c] = "backoff" -> Lap
    [] pc[c] = "attempt" -> Lap - 1
    [] pc[c] = "request" -> Later(c) + RoundsAhead(c) + 1
    [] pc[c] = "flight"  -> Later(c) + RoundsAhead(c)
    [] OTHER -> 0
Remaining(c) ==
  CASE pc[c] \in Over -> 0
    [] pc[c] \notin Over /\ lastResort[c] -> Stage(c)
    [] OTHER -> CallLength + Lap * (MaxRetries - attempt[c]) + Stage(c)

\* The endless loop of withRetry (retry.ts:64), the fallbacks nested in it and
\* the recursion over tool calls in both (openai.ts:156) only ever wind down:
\* each step of a call leaves it less to do, whatever the breakers answer, and no
\* step gives more to another.
CallsWindDown ==
  [][\A c \in Calls :
       /\ Remaining(c)' \in 0..Remaining(c)
       /\ CallStep(c) => Remaining(c)' < Remaining(c)]_vars

\* Every call is answered or fails.
EveryCallEnds == \A c \in Calls : <>(pc[c] \in Over)

-------------------------------------------------------------------------------
(* What comments say and the code does not do. *)

\* "Wraps a fetch call through the circuit breaker for this provider"
\* (baseProvider.ts:26): the fetch a call goes through is its own.
OwnRequestAnswered ==
  \A c \in Calls : pc[c] = "answered" => answer[c] = c
===============================================================================
