--------------------------------- MODULE Ask ---------------------------------
(***************************************************************************)
(* The questions of one signed-in user on one day: POST /api/ask and       *)
(* POST /api/ask/stream (routes/ask.ts), the quota in front of them        *)
(* (middleware/quota.ts), the answer caches behind them (lib/cache.ts, the *)
(* memo of askCouncil in lib/council.ts) and the rows they write.  An      *)
(* action is the code from one await to the next.  A verdict is named by   *)
(* the request whose council gave it, and what a council costs is one unit *)
(* of the token quota.  (An operator directly above another, same          *)
(* parameters and no mapping to the code, is a faulty variant that the     *)
(* mutation runs put in its place.)                                        *)
(***************************************************************************)
EXTENDS Integers, Sequences, FiniteSets

CONSTANTS
  Requests,          \* the requests of the day (bound)
  Questions,
  Attachments,       \* what else a prompt is made of: files, citations, memory
  Images,            \* those that are an image and nothing else
  Settings,          \* prompts and models of a council, whose members' names are
                     \* the same in all of them
  Bodies,            \* the bodies sent
  Kinds,             \* the endpoints asked: "ask", "stream"
  MaxDailyRequests,  \* DAILY_REQUEST_LIMIT
  MaxDailyTokens,    \* DAILY_TOKEN_LIMIT, in councils
  HistoryLimit,      \* chats handed to the council as history
  NoConversation,    \* a body without a conversationId
  Empty,             \* the verdict ""
  Unanswered         \* no verdict yet

ASSUME RequestsAssumption ==
  /\ IsFiniteSet(Requests)
  /\ NoConversation \notin Requests
  /\ Empty \notin Requests /\ Unanswered \notin Requests \cup {Empty}
ASSUME LimitsAssumption ==
  /\ MaxDailyRequests \in Nat /\ MaxDailyTokens \in Nat
  /\ HistoryLimit \in Nat \ {0}
ASSUME BodiesAssumption ==
  /\ Bodies # {}
  /\ Bodies \subseteq [question : Questions, attached : Attachments,
                      settings : Settings]
ASSUME KindsAssumption == Kinds \subseteq {"ask", "stream"}

VARIABLES
  requests, tokens,         \* the user's dailyUsage row
  redis, postgres, memo,    \* answer caches: sets of entries, one per key
  convs,                    \* conversation rows, named by their first request
  chats,                    \* chat rows of each conversation, oldest first
  pc, kind, question,       \* the requests: where they are, what they ask
  attached, settings, conv, \* ... with what, of whom, in which conversation
  hist, verdict, source,    \* ... their history, their answer and its origin
  counted,                  \* history: the requests the row counts
  admitted, rejected,       \* history: those the quota let pass, and did not
  lost,                     \* history: streams whose council came to no verdict
  saved, billed             \* history: those with a chat row; with tokens paid

usage    == <<requests, tokens>>
caches   == <<redis, postgres, memo>>
rows     == <<convs, chats>>
body     == <<kind, question, attached, settings>>
answer   == <<verdict, source>>
quotaLog == <<counted, admitted, rejected>>
paidLog  == <<saved, billed>>
vars == <<usage, caches, rows, pc, body, conv, hist, answer, quotaLog, lost,
          paidLog>>

Verdicts == Requests \cup {Empty}
Chats    == [question : Questions, verdict : Verdicts]
Keys     == Questions \X Seq(Chats) \X Settings
Entries  == [key : Keys, verdict : Verdicts]
Contents == SUBSET (Questions \X Attachments)
Memos    == [key : Contents \X Seq(Chats), verdict : Requests]
Steps    == {"new", "rollback", "admitted", "lookup", "council", "deliberating",
             "store", "open", "save", "bill", "ended"}

TypeOK ==
  /\ requests \in Nat /\ tokens \in Nat
  /\ redis \subseteq Entries /\ postgres \subseteq Entries
  /\ memo \subseteq Memos
  /\ convs \subseteq Requests /\ chats \in [Requests -> Seq(Chats)]
  /\ pc \in [Requests -> Steps] /\ kind \in [Requests -> {"ask", "stream"}]
  /\ question \in [Requests -> Questions]
  /\ attached \in [Requests -> Attachments] /\ settings \in [Requests -> Settings]
  /\ conv \in [Requests -> Requests \cup {NoConversation}]
  /\ hist \in [Requests -> Seq(Chats)]
  /\ verdict \in [Requests -> Verdicts \cup {Unanswered}]
  /\ \A r \in Requests :
       pc[r] \in {"store", "open", "save"} => verdict[r] \in Verdicts
  /\ source \in [Requests -> {"none", "cache", "memo", "council"}]
  /\ counted \subseteq Requests /\ admitted \subseteq Requests
  /\ rejected \subseteq Requests /\ lost \subseteq Requests
  /\ saved \subseteq Requests /\ billed \subseteq Requests

Init ==
  /\ requests = 0 /\ tokens = 0
  /\ redis = {} /\ postgres = {} /\ memo = {}
  /\ convs = {} /\ chats = [r \in Requests |-> << >>]
  /\ pc = [r \in Requests |-> "new"] /\ kind = [r \in Requests |-> "ask"]
  /\ LET any == CHOOSE b \in Bodies : TRUE IN
       /\ question = [r \in Requests |-> any.question]
       /\ attached = [r \in Requests |-> any.attached]
       /\ settings = [r \in Requests |-> any.settings]
  /\ conv = [r \in Requests |-> NoConversation]
  /\ hist = [r \in Requests |-> << >>]
  /\ verdict = [r \in Requests |-> Unanswered]
  /\ source = [r \in Requests |-> "none"]
  /\ counted = {} /\ admitted = {} /\ rejected = {}
  /\ lost = {} /\ saved = {} /\ billed = {}

Goto(r, step) == pc' = [pc EXCEPT ![r] = step]

-------------------------------------------------------------------------------
(* The quota *)

OverQuotaLenient(count) ==
  count > MaxDailyRequests + 1 \/ tokens > MaxDailyTokens
OverQuota(count) == count > MaxDailyRequests \/ tokens > MaxDailyTokens

\* A request arrives; one statement counts it and returns the new totals.  Of
\* its body, which a rejected one never shows, the conversation must be one that
\* exists by now; the rest is drawn when it is first looked at.
Count(r, c) ==
  /\ pc[r] = "new"
  /\ requests' = requests + 1 /\ counted' = counted \cup {r}
  /\ IF OverQuota(requests + 1)
     THEN Goto(r, "rollback") /\ rejected' = rejected \cup {r}
                              /\ UNCHANGED <<admitted, conv>>
     ELSE Goto(r, "admitted") /\ admitted' = admitted \cup {r}
                              /\ conv' = [conv EXCEPT ![r] = c]
                              /\ UNCHANGED rejected
  /\ UNCHANGED <<tokens, caches, rows, body, hist, answer, lost, paidLog>>

\* The count is taken back in a second statement, which may fail.
RollBack(r) ==
  /\ pc[r] = "rollback" /\ Goto(r, "ended")
  /\ \/ /\ requests' = IF requests > 0 THEN requests - 1 ELSE 0
        /\ counted' = counted \ {r}
     \/ UNCHANGED <<requests, counted>>
  /\ UNCHANGED <<tokens, caches, rows, body, conv, hist, answer, admitted,
                 rejected, lost, paidLog>>

-------------------------------------------------------------------------------
(* From the body to the caches *)

\* The request ends before the caches are asked: an invalid body, a spending
\* cap, a scanner or filter that objects, a conversation that is not there.
Refuse(r) ==
  /\ pc[r] = "admitted" /\ Goto(r, "ended")
  /\ UNCHANGED <<usage, caches, rows, body, conv, hist, answer, quotaLog, lost,
                 paidLog>>

\* getRecentHistory: ordered by creation, ascending, and cut after the limit.
RecentHistory(c) ==
  SubSeq(chats[c], 1, IF Len(chats[c]) < HistoryLimit THEN Len(chats[c])
                      ELSE HistoryLimit)

\* A stream opens its conversation before it asks, POST / after the answer.
Prepare(r, k, b) ==
  /\ pc[r] = "admitted" /\ Goto(r, "lookup")
  /\ kind' = [kind EXCEPT ![r] = k]
  /\ question' = [question EXCEPT ![r] = b.question]
  /\ attached' = [attached EXCEPT ![r] = b.attached]
  /\ settings' = [settings EXCEPT ![r] = b.settings]
  /\ \/ /\ conv[r] # NoConversation
        /\ hist' = [hist EXCEPT ![r] = RecentHistory(conv[r])]
        /\ UNCHANGED <<conv, convs>>
     \/ /\ conv[r] = NoConversation /\ k = "stream"
        /\ conv' = [conv EXCEPT ![r] = r] /\ convs' = convs \cup {r}
        /\ UNCHANGED hist
     \/ /\ conv[r] = NoConversation /\ k = "ask"
        /\ UNCHANGED <<conv, convs, hist>>
  /\ UNCHANGED <<usage, caches, chats, answer, quotaLog, lost, paidLog>>

KeyWithoutHistory(r) == <<question[r], << >>, settings[r]>>
\* generateCacheKey: what makes two requests of this user the same one.  The
\* attachments are not in it.
Key(r) == <<question[r], hist[r], settings[r]>>

\* What the council is handed of the body: a stream hands on blocks of text and
\* image; POST / joins them into one string, and nothing is left of the text
\* beside an image but "[object Object]".
Garbled(r) == kind[r] = "ask" /\ attached[r] \in Images
Content(r) == IF Garbled(r) THEN {} ELSE {<<question[r], attached[r]>>}

MemoKeyOfQuestion(r) == <<{question[r]}, hist[r]>>
\* getCacheKey of the memo: the messages and the names of the members.
MemoKey(r) == <<Content(r), hist[r]>>

Hits(store, key) == {e \in store : e.key = key}
Put(store, key, v) ==
  (store \ Hits(store, key)) \cup {[key |-> key, verdict |-> v]}

Take(r, e, from) ==
  /\ verdict' = [verdict EXCEPT ![r] = e.verdict]
  /\ source' = [source EXCEPT ![r] = from]

\* The step after an answer is there: POST / opens the conversation it lacks.
AfterAnswer(r) == IF kind[r] = "ask" /\ conv[r] = NoConversation THEN "open"
                  ELSE "save"

\* A stream is served the cached answer and that is all it does; POST / goes on.
\* An answer of the second layer is put back into the first, if that succeeds.
ServeCached(r) ==
  /\ pc[r] = "lookup"
  /\ Goto(r, IF kind[r] = "stream" THEN "ended" ELSE AfterAnswer(r))
  /\ \/ \E e \in Hits(redis, Key(r)) : Take(r, e, "cache") /\ UNCHANGED redis
     \/ /\ Hits(redis, Key(r)) = {}
        /\ \E e \in Hits(postgres, Key(r)) :
             /\ Take(r, e, "cache")
             /\ redis' \in {redis, Put(redis, Key(r), e.verdict)}
  /\ UNCHANGED <<usage, postgres, memo, rows, body, conv, hist, quotaLog, lost,
                 paidLog>>

MissCaches(r) ==
  /\ pc[r] = "lookup" /\ Hits(redis, Key(r)) = {} /\ Hits(postgres, Key(r)) = {}
  /\ Goto(r, "council")
  /\ UNCHANGED <<usage, caches, rows, body, conv, hist, answer, quotaLog, lost,
                 paidLog>>

-------------------------------------------------------------------------------
(* The council *)

\* askCouncil looks into its own memo first; streamCouncil has none.
CallCouncil(r) ==
  /\ pc[r] = "council"
  /\ \/ /\ kind[r] = "ask"
        /\ \E e \in Hits(memo, MemoKey(r)) : Take(r, e, "memo")
        /\ Goto(r, "store")
     \/ /\ kind[r] = "ask" => Hits(memo, MemoKey(r)) = {}
        /\ Goto(r, "deliberating") /\ UNCHANGED answer
  /\ UNCHANGED <<usage, caches, rows, body, conv, hist, quotaLog, lost, paidLog>>

CouncilAnswers(r) ==
  /\ pc[r] = "deliberating" /\ Goto(r, "store")
  /\ verdict' = [verdict EXCEPT ![r] = r]
  /\ source' = [source EXCEPT ![r] = "council"]
  /\ memo' = IF kind[r] = "ask" THEN Put(memo, MemoKey(r), r) ELSE memo
  /\ UNCHANGED <<usage, redis, postgres, rows, body, conv, hist, quotaLog, lost,
                 paidLog>>

\* The client of a stream leaves, or its council fails: streamCouncil catches
\* that and returns the verdict "".
LoseStream(r) ==
  /\ pc[r] = "deliberating" /\ kind[r] = "stream" /\ Goto(r, "store")
  /\ verdict' = [verdict EXCEPT ![r] = Empty]
  /\ source' = [source EXCEPT ![r] = "council"]
  /\ lost' = lost \cup {r}
  /\ UNCHANGED <<usage, caches, rows, body, conv, hist, quotaLog, paidLog>>

\* The answer, an empty one too, goes into both layers; each write may fail.
Store(r) ==
  /\ pc[r] = "store"
  /\ redis' \in {redis, Put(redis, Key(r), verdict[r])}
  /\ postgres' \in {postgres, Put(postgres, Key(r), verdict[r])}
  /\ Goto(r, IF kind[r] = "stream" /\ verdict[r] = Empty THEN "bill"
             ELSE AfterAnswer(r))
  /\ UNCHANGED <<usage, memo, rows, body, conv, hist, answer, quotaLog, lost,
                 paidLog>>

-------------------------------------------------------------------------------
(* The rows *)

OpenConversation(r) ==
  /\ pc[r] = "open" /\ Goto(r, "save")
  /\ conv' = [conv EXCEPT ![r] = r] /\ convs' = convs \cup {r}
  /\ UNCHANGED <<usage, caches, chats, body, hist, answer, quotaLog, lost,
                 paidLog>>

SaveChat(r) ==
  /\ pc[r] = "save" /\ Goto(r, "bill")
  /\ chats' = [chats EXCEPT ![conv[r]] =
       Append(@, [question |-> question[r], verdict |-> verdict[r]])]
  /\ saved' = saved \cup {r}
  /\ UNCHANGED <<usage, caches, convs, body, conv, hist, answer, quotaLog, lost,
                 billed>>

TokensUsedAnyway(r) == 1
\* What the request believes its council cost.  An answer of the memo carries
\* the metrics of the council that gave it; the "done" event of a stream has no
\* field tokensUsed, so a stream counts none.
TokensUsed(r) == IF kind[r] = "stream" \/ source[r] = "cache" THEN 0 ELSE 1

Bill(r) ==
  /\ pc[r] = "bill" /\ Goto(r, "ended")
  /\ tokens' = tokens + TokensUsed(r)
  /\ billed' = IF TokensUsed(r) > 0 THEN billed \cup {r} ELSE billed
  /\ UNCHANGED <<requests, caches, rows, body, conv, hist, answer, quotaLog,
                 lost, saved>>

\* An exception on the way: POST / answers 500, a stream sends an error event.
\* What was written stays, and so does the request's count.
Fail(r) ==
  /\ pc[r] \in {"lookup", "council", "deliberating", "open", "save", "bill"}
  /\ pc[r] = "deliberating" => kind[r] = "ask"  \* else LoseStream
  /\ Goto(r, "ended")
  /\ UNCHANGED <<usage, caches, rows, body, conv, hist, answer, quotaLog, lost,
                 paidLog>>

\* An entry expires, is evicted, or is gone with the process that held it.
Expire(e) ==
  /\ \/ e \in redis /\ redis' = redis \ {e} /\ UNCHANGED <<postgres, memo>>
     \/ e \in postgres /\ postgres' = postgres \ {e} /\ UNCHANGED <<redis, memo>>
     \/ e \in memo /\ memo' = memo \ {e} /\ UNCHANGED <<redis, postgres>>
  /\ UNCHANGED <<usage, rows, pc, body, conv, hist, answer, quotaLog, lost,
                 paidLog>>

-------------------------------------------------------------------------------
Next ==
  \/ \E r \in Requests :
       \/ \E c \in convs \cup {NoConversation} : Count(r, c)
       \/ RollBack(r)
       \/ Refuse(r)
       \/ \E k \in Kinds, b \in Bodies : Prepare(r, k, b)
       \/ ServeCached(r)
       \/ MissCaches(r)
       \/ CallCouncil(r)
       \/ CouncilAnswers(r)
       \/ LoseStream(r)
       \/ Store(r)
       \/ OpenConversation(r)
       \/ SaveChat(r)
       \/ Bill(r)
       \/ Fail(r)
  \/ \E e \in redis \cup postgres \cup memo : Expire(e)

Spec == Init /\ [][Next]_vars

-------------------------------------------------------------------------------
(* Properties *)

\* However the counts and the take-backs of concurrent requests interleave, and
\* also when take-backs fail, the day's limit is never passed, and nobody is
\* sent away while it is not exhausted (middleware/quota.ts: a comment there
\* fears that a take-back could steal a slot).
QuotaExact ==
  /\ Cardinality(admitted) <= MaxDailyRequests
  /\ rejected # {} => \/ Cardinality(admitted) = MaxDailyRequests
                      \/ tokens > MaxDailyTokens

\* Tokens are paid once, by requests whose answer came from a council or from
\* the council's memo and is saved as a chat: a failed request, an abandoned
\* stream and an answer out of the cache cost nothing (usage.service.ts: "Only
\* bill tokens after successful completion").
OnlyAnswersBilled ==
  /\ tokens = Cardinality(billed)
  /\ billed \subseteq {r \in saved : source[r] \in {"memo", "council"}}

\* What a request asked, and of whom.
Asked(r) == <<question[r], hist[r], settings[r]>>

\* The verdict v answers what was asked.  Of a garbled request the council has
\* seen the history only; an empty verdict goes back to a lost stream that asked
\* the same of the same council.
Fits(v, asked) ==
  IF v = Empty THEN \E s \in lost : Asked(s) = asked
  ELSE hist[v] = asked[2] /\ (Garbled(v) \/ question[v] = asked[1])

\* Whatever caches an answer has passed, one after the other, and whatever other
\* requests did in between, a council that was handed the question gave it with
\* the same history, or one that was handed "[object Object]" did
\* (routes/ask.ts:526-530, council.ts:50-54); an empty one was left behind by a
\* stream lost with that question and history (routes/ask.ts:1064).  No more is
\* certain: the memo's key leaves out the settings of the council, the caches'
\* the attachments, and an answer goes from the one into the others.  An answer
\* of the memo was at least given to the very messages of the request.
AnswersFit ==
  \A r \in Requests : verdict[r] # Unanswered =>
    /\ Fits(verdict[r], Asked(r))
    /\ source[r] # "cache" /\ verdict[r] # Empty
         => Content(verdict[r]) = Content(r)

-------------------------------------------------------------------------------
(* The inductive invariant *)

Unprepared == {r \in Requests : pc[r] \in {"new", "rollback", "admitted"}}

CountInv ==
  /\ requests = Cardinality(counted)
  /\ admitted \subseteq counted /\ counted \subseteq admitted \cup rejected
  /\ admitted \cap rejected = {}
  /\ \A r \in Requests :
       /\ pc[r] = "new" => r \notin admitted \cup rejected
       /\ pc[r] = "rollback" => r \in counted \cap rejected

PaidInv ==
  \A r \in Requests :
    /\ pc[r] \in {"store", "open", "save", "bill"} => source[r] # "none"
    /\ pc[r] = "bill" /\ kind[r] = "ask" => r \in saved
    /\ r \in billed => pc[r] = "ended"

ConvInv ==
  \A r \in Requests :
    /\ conv[r] # NoConversation => conv[r] \in convs
    /\ pc[r] = "save" => conv[r] # NoConversation
    /\ kind[r] = "stream" /\ pc[r] \notin {"new", "rollback", "admitted", "ended"}
         => conv[r] # NoConversation

CacheInv ==
  /\ \A e \in redis \cup postgres \cup memo :
       e.verdict \notin Unprepared
  /\ \A e \in redis \cup postgres : Fits(e.verdict, e.key)
  /\ \A e \in memo : e.key = <<Content(e.verdict), hist[e.verdict]>>
  /\ \A r \in Requests :
       /\ verdict[r] \notin Unprepared
       /\ r \in Unprepared => verdict[r] = Unanswered
  /\ lost \cap Unprepared = {}

\* TypeOK, the quota, the bill and the caches in one inductive invariant.
IInv == /\ TypeOK /\ CountInv /\ QuotaExact
        /\ PaidInv /\ OnlyAnswersBilled
        /\ ConvInv /\ CacheInv /\ AnswersFit
===============================================================================
