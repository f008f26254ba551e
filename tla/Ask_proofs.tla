------------------------------ MODULE Ask_proofs ------------------------------
(***************************************************************************)
(* What Ask keeps for any number of requests, questions and limits: types,  *)
(* the quota, the bill, and the fit of every answer to what was asked.      *)
(***************************************************************************)
EXTENDS Ask, FiniteSetTheorems, TLAPS

-------------------------------------------------------------------------------
(* Types *)

\* The history is a sequence of chats.
LEMMA HistoryType ==
  ASSUME TypeOK, NEW c \in Requests
  PROVE  RecentHistory(c) \in Seq(Chats)
<1>1. chats[c] \in Seq(Chats)
  BY DEF TypeOK
<1> DEFINE n == IF Len(chats[c]) < HistoryLimit THEN Len(chats[c]) ELSE HistoryLimit
<1>2. n \in Nat /\ n <= Len(chats[c])
  BY <1>1, LimitsAssumption
<1> QED BY <1>1, <1>2 DEF RecentHistory

\* What is put into a cache is an entry.
LEMMA PutType ==
  ASSUME TypeOK, NEW r \in Requests, NEW v \in Verdicts, NEW store \in SUBSET Entries
  PROVE  Put(store, Key(r), v) \in SUBSET Entries
<1>1. Key(r) \in Keys
  BY DEF Key, Keys, TypeOK
<1> QED BY <1>1 DEF Put, Hits, Entries

\* Every step of a request keeps the types.
LEMMA TypeStep ==
  ASSUME TypeOK, [Next]_vars
  PROVE  TypeOK'
<1> USE DEF usage, caches, rows, body, answer, quotaLog, paidLog, Steps, Goto
<1>1. CASE UNCHANGED vars
  BY <1>1 DEF vars, TypeOK
<1>2. ASSUME NEW r \in Requests, NEW c \in convs \cup {NoConversation}, Count(r, c)
      PROVE  TypeOK'
  <2>1. c \in Requests \cup {NoConversation}
    BY <1>2 DEF TypeOK
  <2>2. /\ pc[r] = "new" /\ requests' = requests + 1 /\ counted' = counted \cup {r}
        /\ UNCHANGED <<tokens, caches, rows, body, hist, answer, lost, paidLog>>
        /\ \/ /\ pc' = [pc EXCEPT ![r] = "rollback"] /\ rejected' = rejected \cup {r}
              /\ admitted' = admitted /\ conv' = conv
           \/ /\ pc' = [pc EXCEPT ![r] = "admitted"] /\ admitted' = admitted \cup {r}
              /\ rejected' = rejected /\ conv' = [conv EXCEPT ![r] = c]
    BY <1>2, Zenon DEF Count
  <2>3. /\ requests' \in Nat /\ counted' \subseteq Requests
        /\ admitted' \subseteq Requests /\ rejected' \subseteq Requests
    BY <2>2 DEF TypeOK
  <2>3a. pc' \in [Requests -> Steps]
    BY <2>2 DEF TypeOK
  <2>3b. conv' \in [Requests -> Requests \cup {NoConversation}]
    <3>1. conv \in [Requests -> Requests \cup {NoConversation}]
      BY DEF TypeOK
    <3>2. conv' = conv \/ conv' = [conv EXCEPT ![r] = c]
      BY <2>2
    <3> QED BY <2>1, <3>1, <3>2
  <2>4. \A s \in Requests :
          pc'[s] \in {"store", "open", "save"} => verdict'[s] \in Verdicts
    BY <2>2 DEF TypeOK
  <2> QED BY <2>2, <2>3, <2>3a, <2>3b, <2>4 DEF TypeOK
<1>3. ASSUME NEW r \in Requests, RollBack(r) PROVE TypeOK'
  BY <1>3 DEF TypeOK, RollBack
<1>4. ASSUME NEW r \in Requests, Refuse(r) PROVE TypeOK'
  BY <1>4 DEF TypeOK, Refuse
<1>5. ASSUME NEW r \in Requests, NEW k \in Kinds, NEW b \in Bodies, Prepare(r, k, b)
      PROVE  TypeOK'
  <2>0. /\ k \in {"ask", "stream"} /\ b.question \in Questions
        /\ b.attached \in Attachments /\ b.settings \in Settings
    BY KindsAssumption, BodiesAssumption
  <2>1. conv[r] # NoConversation => RecentHistory(conv[r]) \in Seq(Chats)
    BY HistoryType DEF TypeOK
  <2>2. hist' \in [Requests -> Seq(Chats)]
    BY <1>5, <2>1 DEF TypeOK, Prepare
  <2>3. /\ kind' \in [Requests -> {"ask", "stream"}]
        /\ question' \in [Requests -> Questions]
        /\ attached' \in [Requests -> Attachments]
        /\ settings' \in [Requests -> Settings]
    BY <1>5, <2>0 DEF TypeOK, Prepare
  <2>4. /\ convs' \subseteq Requests
        /\ conv' \in [Requests -> Requests \cup {NoConversation}]
    <3>1. /\ convs \subseteq Requests
          /\ conv \in [Requests -> Requests \cup {NoConversation}]
      BY DEF TypeOK
    <3>2. \/ conv' = conv /\ convs' = convs
          \/ conv' = [conv EXCEPT ![r] = r] /\ convs' = convs \cup {r}
      BY <1>5 DEF Prepare
    <3> QED BY <3>1, <3>2
  <2>5. /\ UNCHANGED <<usage, caches, chats, answer, quotaLog, lost, paidLog>>
        /\ pc' = [pc EXCEPT ![r] = "lookup"]
    BY <1>5 DEF Prepare
  <2>6. pc' \in [Requests -> Steps]
    BY <2>5 DEF TypeOK
  <2>7. \A s \in Requests :
          pc'[s] \in {"store", "open", "save"} => verdict'[s] \in Verdicts
    BY <2>5 DEF TypeOK
  <2> QED BY <2>2, <2>3, <2>4, <2>5, <2>6, <2>7 DEF TypeOK
<1>6. ASSUME NEW r \in Requests, ServeCached(r) PROVE TypeOK'
  <2>1. PICK e \in Entries : Take(r, e, "cache") /\ redis' \in {redis, Put(redis, Key(r), e.verdict)}
    BY <1>6 DEF ServeCached, Hits, TypeOK
  <2>2. e.verdict \in Verdicts
    BY <2>1 DEF Entries
  <2>3. redis' \subseteq Entries
    <3>1. redis \in SUBSET Entries
      BY DEF TypeOK
    <3>2. Put(redis, Key(r), e.verdict) \in SUBSET Entries
      BY <2>2, <3>1, PutType
    <3> QED BY <2>1, <3>1, <3>2
  <2> QED BY <1>6, <2>1, <2>2, <2>3 DEF TypeOK, ServeCached, Take, AfterAnswer
<1>7. ASSUME NEW r \in Requests, MissCaches(r) PROVE TypeOK'
  BY <1>7 DEF TypeOK, MissCaches
<1>8. ASSUME NEW r \in Requests, CallCouncil(r) PROVE TypeOK'
  <2>1. \/ \E e \in memo : verdict' = [verdict EXCEPT ![r] = e.verdict]
                          /\ source' = [source EXCEPT ![r] = "memo"]
        \/ UNCHANGED answer
    BY <1>8 DEF CallCouncil, Hits, Take
  <2>2. \A e \in memo : e.verdict \in Verdicts
    BY DEF TypeOK, Memos, Verdicts
  <2>3. /\ verdict' \in [Requests -> Verdicts \cup {Unanswered}]
        /\ source' \in [Requests -> {"none", "cache", "memo", "council"}]
    BY <2>1, <2>2 DEF TypeOK
  <2>4. /\ UNCHANGED <<usage, caches, rows, body, conv, hist, quotaLog, lost, paidLog>>
        /\ pc' = [pc EXCEPT ![r] = "store"] \/ pc' = [pc EXCEPT ![r] = "deliberating"]
    BY <1>8 DEF CallCouncil
  <2>5. \A s \in Requests : pc'[s] \in {"store", "open", "save"} => verdict'[s] \in Verdicts
    <3>1. pc'[r] = "store" => verdict'[r] \in Verdicts
      BY <1>8, <2>2 DEF CallCouncil, Hits, Take, TypeOK
    <3>2. \A s \in Requests \ {r} : pc'[s] = pc[s] /\ verdict'[s] = verdict[s]
      BY <2>1, <2>4 DEF TypeOK
    <3>3. pc'[r] \in {"store", "deliberating"}
      BY <2>4 DEF TypeOK
    <3> QED BY <3>1, <3>2, <3>3 DEF TypeOK
  <2> QED BY <2>3, <2>4, <2>5 DEF TypeOK
<1>9. ASSUME NEW r \in Requests, CouncilAnswers(r) PROVE TypeOK'
  <2>1. MemoKey(r) \in Contents \X Seq(Chats)
    BY DEF MemoKey, Content, Contents, TypeOK
  <2>2. Put(memo, MemoKey(r), r) \subseteq Memos
    BY <2>1 DEF TypeOK, Put, Hits, Memos
  <2>3. memo' \subseteq Memos
    BY <1>9, <2>2 DEF TypeOK, CouncilAnswers
  <2> QED BY <1>9, <2>3 DEF TypeOK, CouncilAnswers, Verdicts
<1>10. ASSUME NEW r \in Requests, LoseStream(r) PROVE TypeOK'
  BY <1>10 DEF TypeOK, LoseStream, Verdicts
<1>11. ASSUME NEW r \in Requests, Store(r) PROVE TypeOK'
  <2>1. verdict[r] \in Verdicts /\ redis \in SUBSET Entries /\ postgres \in SUBSET Entries
    BY <1>11 DEF TypeOK, Store
  <2>2. /\ Put(redis, Key(r), verdict[r]) \in SUBSET Entries
        /\ Put(postgres, Key(r), verdict[r]) \in SUBSET Entries
    BY <2>1, PutType
  <2>3. redis' \subseteq Entries /\ postgres' \subseteq Entries
    BY <1>11, <2>1, <2>2 DEF Store
  <2> QED BY <1>11, <2>1, <2>3 DEF TypeOK, Store, AfterAnswer
<1>12. ASSUME NEW r \in Requests, OpenConversation(r) PROVE TypeOK'
  BY <1>12 DEF TypeOK, OpenConversation
<1>13. ASSUME NEW r \in Requests, SaveChat(r) PROVE TypeOK'
  <2>1. [question |-> question[r], verdict |-> verdict[r]] \in Chats
    BY <1>13 DEF TypeOK, SaveChat, Chats
  <2>2. chats' \in [Requests -> Seq(Chats)]
    <3> DEFINE row == [question |-> question[r], verdict |-> verdict[r]]
    <3>1. chats' = [c \in Requests |-> IF c = conv[r] THEN Append(chats[c], row)
                                                     ELSE chats[c]]
      BY <1>13 DEF TypeOK, SaveChat
    <3>2. \A c \in Requests : chats[c] \in Seq(Chats) /\ Append(chats[c], row) \in Seq(Chats)
      BY <2>1 DEF TypeOK
    <3> HIDE DEF row
    <3> QED BY <3>1, <3>2
  <2> QED BY <1>13, <2>2 DEF TypeOK, SaveChat
<1>14. ASSUME NEW r \in Requests, Bill(r) PROVE TypeOK'
  BY <1>14 DEF TypeOK, Bill, TokensUsed
<1>15. ASSUME NEW r \in Requests, Fail(r) PROVE TypeOK'
  BY <1>15 DEF TypeOK, Fail
<1>16. ASSUME NEW e \in redis \cup postgres \cup memo, Expire(e) PROVE TypeOK'
  BY <1>16 DEF TypeOK, Expire
<1> QED BY <1>1, <1>2, <1>3, <1>4, <1>5, <1>6, <1>7, <1>8, <1>9, <1>10, <1>11,
           <1>12, <1>13, <1>14, <1>15, <1>16 DEF Next

\* Every variable stays in its range, and an answer is there when one is written.
THEOREM TypeCorrect == Spec => []TypeOK
<1>1. Init => TypeOK
  <2>1. (CHOOSE b \in Bodies : TRUE)
          \in [question : Questions, attached : Attachments, settings : Settings]
    BY BodiesAssumption
  <2> QED BY <2>1 DEF Init, TypeOK, Steps
<1> QED BY <1>1, TypeStep, PTL DEF Spec

-------------------------------------------------------------------------------
(* The quota *)

\* A step that counts no request and rolls none back leaves the quota alone.
LEMMA QuotaUndisturbed ==
  ASSUME TypeOK, CountInv, QuotaExact,
         requests' = requests, counted' = counted, admitted' = admitted,
         rejected' = rejected, tokens' >= tokens, tokens' \in Nat,
         \A r \in Requests :
           \/ pc'[r] = pc[r]
           \/ pc[r] # "new" /\ pc'[r] \notin {"new", "rollback"}
  PROVE  CountInv' /\ QuotaExact'
<1>2. CountInv'
  BY DEF CountInv
<1>3. tokens > MaxDailyTokens => tokens' > MaxDailyTokens
  BY LimitsAssumption DEF TypeOK
<1>4. QuotaExact'
  BY <1>3, Zenon DEF QuotaExact
<1> QED BY <1>2, <1>4

\* Counting a request admits it only while fewer than the limit are admitted,
\* and rejects it only when that many are.
LEMMA CountKeepsQuota ==
  ASSUME TypeOK, CountInv, QuotaExact, NEW r \in Requests, NEW c \in convs \cup {NoConversation}, Count(r, c)
  PROVE  CountInv' /\ QuotaExact'
<1>1. /\ IsFiniteSet(counted) /\ IsFiniteSet(admitted)
      /\ Cardinality(counted) \in Nat /\ Cardinality(admitted) \in Nat
  BY RequestsAssumption, FS_Subset, FS_CardinalityType DEF TypeOK
<1>2. r \notin counted /\ r \notin admitted /\ r \notin rejected
  BY DEF Count, CountInv
<1>3. /\ Cardinality(counted \cup {r}) = Cardinality(counted) + 1
      /\ Cardinality(admitted \cup {r}) = Cardinality(admitted) + 1
  BY <1>1, <1>2, FS_AddElement
<1>4. Cardinality(admitted) <= Cardinality(counted)
  BY <1>1, FS_Subset DEF CountInv
<1>5. requests = Cardinality(counted) /\ requests' = requests + 1 /\ counted' = counted \cup {r}
  BY DEF Count, CountInv
<1>6. CASE OverQuota(requests + 1)
  <2>1. /\ rejected' = rejected \cup {r} /\ admitted' = admitted /\ tokens' = tokens
        /\ pc' = [pc EXCEPT ![r] = "rollback"]
    BY <1>6, Zenon DEF Count, Goto
  <2>2. CountInv'
    BY <1>2, <1>3, <1>5, <2>1 DEF CountInv, TypeOK
  <2>3. rejected = {} => counted = admitted
    BY DEF CountInv
  <2>4. Cardinality(admitted) = MaxDailyRequests \/ tokens > MaxDailyTokens
    <3>1. CASE rejected # {}
      BY <3>1 DEF QuotaExact
    <3>2. CASE rejected = {}
      BY <1>1, <1>5, <1>6, <2>3, <3>2, LimitsAssumption DEF OverQuota, QuotaExact
    <3> QED BY <3>1, <3>2
  <2> QED BY <2>1, <2>2, <2>4 DEF QuotaExact
<1>7. CASE ~OverQuota(requests + 1)
  <2>1. /\ admitted' = admitted \cup {r} /\ rejected' = rejected /\ tokens' = tokens
        /\ pc' = [pc EXCEPT ![r] = "admitted"]
    BY <1>7, Zenon DEF Count, Goto
  <2>2. CountInv'
    BY <1>2, <1>3, <1>5, <2>1 DEF CountInv, TypeOK
  <2>3. Cardinality(admitted) + 1 <= MaxDailyRequests /\ ~(tokens > MaxDailyTokens)
    BY <1>1, <1>4, <1>5, <1>7, LimitsAssumption DEF OverQuota
  <2>4. rejected = {}
    BY <1>1, <2>3, LimitsAssumption DEF QuotaExact
  <2> QED BY <1>3, <2>1, <2>2, <2>3, <2>4 DEF QuotaExact
<1> QED BY <1>6, <1>7

\* Taking a count back never takes that of an admitted request.
LEMMA RollBackKeepsQuota ==
  ASSUME TypeOK, CountInv, QuotaExact, NEW r \in Requests, RollBack(r)
  PROVE  CountInv' /\ QuotaExact'
<1>1. r \in counted /\ r \notin admitted
  BY DEF RollBack, CountInv
<1>2. UNCHANGED <<tokens, admitted, rejected>> /\ pc' = [pc EXCEPT ![r] = "ended"]
  BY DEF RollBack, Goto
<1>3. IsFiniteSet(counted) /\ Cardinality(counted) \in Nat
  BY RequestsAssumption, FS_Subset, FS_CardinalityType DEF TypeOK
<1>4. Cardinality(counted \ {r}) = Cardinality(counted) - 1 /\ Cardinality(counted) > 0
  BY <1>1, <1>3, FS_RemoveElement, FS_EmptySet
<1>5. CASE requests' = requests /\ counted' = counted
  BY <1>2, <1>5 DEF CountInv, QuotaExact, TypeOK
<1>6. CASE /\ requests' = IF requests > 0 THEN requests - 1 ELSE 0
           /\ counted' = counted \ {r}
  <2>1. requests' = Cardinality(counted')
    BY <1>3, <1>4, <1>6 DEF CountInv
  <2> QED BY <1>1, <1>2, <1>6, <2>1 DEF CountInv, QuotaExact, TypeOK
<1> QED BY <1>5, <1>6 DEF RollBack

LEMMA QuotaStep ==
  ASSUME TypeOK, CountInv, QuotaExact, [Next]_vars
  PROVE  CountInv' /\ QuotaExact'
<1> USE DEF usage, caches, rows, body, answer, quotaLog, paidLog, Steps, Goto
<1>1. tokens \in Nat /\ requests \in Nat
  BY DEF TypeOK
<1>2. CASE UNCHANGED vars
  <2>1. UNCHANGED <<requests, quotaLog, tokens, pc>>
    BY <1>2 DEF vars
  <2>2. tokens' >= tokens /\ tokens' \in Nat
    BY <1>1, <2>1
  <2>3. \A s \in Requests : pc'[s] = pc[s]
    BY <2>1
  <2>4. requests' = requests /\ counted' = counted /\ admitted' = admitted /\ rejected' = rejected
    BY <2>1
  <2> QED BY <2>2, <2>3, <2>4, QuotaUndisturbed
<1>3. ASSUME NEW r \in Requests, NEW c \in convs \cup {NoConversation}, Count(r, c)
      PROVE  CountInv' /\ QuotaExact'
  BY <1>3, CountKeepsQuota
<1>4. ASSUME NEW r \in Requests, RollBack(r)
      PROVE  CountInv' /\ QuotaExact'
  BY <1>4, RollBackKeepsQuota
<1>5. ASSUME NEW r \in Requests,
             \/ Refuse(r) \/ (\E k \in Kinds, b \in Bodies : Prepare(r, k, b)) \/ ServeCached(r) \/ MissCaches(r)
             \/ CallCouncil(r) \/ CouncilAnswers(r) \/ LoseStream(r) \/ Store(r)
             \/ OpenConversation(r) \/ SaveChat(r) \/ Bill(r) \/ Fail(r)
      PROVE  CountInv' /\ QuotaExact'
  <2>1. requests' = requests /\ counted' = counted /\ admitted' = admitted /\ rejected' = rejected
    BY <1>5 DEF Refuse, Prepare, ServeCached, MissCaches, CallCouncil, CouncilAnswers,
                LoseStream, Store, OpenConversation, SaveChat, Bill, Fail
  <2>2. tokens' >= tokens /\ tokens' \in Nat
    BY <1>1, <1>5 DEF Refuse, Prepare, ServeCached, MissCaches, CallCouncil, CouncilAnswers,
                LoseStream, Store, OpenConversation, SaveChat, Bill, Fail, TokensUsed
  <2>3. /\ pc[r] # "new"
        /\ \E s \in Steps \ {"new", "rollback"} : pc' = [pc EXCEPT ![r] = s]
    BY <1>5 DEF Refuse, Prepare, ServeCached, MissCaches, CallCouncil, CouncilAnswers,
                LoseStream, Store, OpenConversation, SaveChat, Bill, Fail, AfterAnswer
  <2>4. \A s \in Requests :
          \/ pc'[s] = pc[s]
          \/ pc[s] # "new" /\ pc'[s] \notin {"new", "rollback"}
    BY <2>3 DEF TypeOK
  <2> QED BY <2>1, <2>2, <2>4, QuotaUndisturbed
<1>6. ASSUME NEW e \in redis \cup postgres \cup memo, Expire(e)
      PROVE  CountInv' /\ QuotaExact'
  <2>1. UNCHANGED <<requests, quotaLog, tokens, pc>>
    BY <1>6 DEF Expire
  <2>2. tokens' >= tokens /\ tokens' \in Nat
    BY <1>1, <2>1
  <2>3. \A s \in Requests : pc'[s] = pc[s]
    BY <2>1
  <2>4. requests' = requests /\ counted' = counted /\ admitted' = admitted /\ rejected' = rejected
    BY <2>1
  <2> QED BY <2>2, <2>3, <2>4, QuotaUndisturbed
<1> QED BY <1>2, <1>3, <1>4, <1>5, <1>6 DEF Next

LEMMA QuotaInv == Spec => [](CountInv /\ QuotaExact)
<1>1. Init => CountInv /\ QuotaExact
  BY FS_EmptySet, LimitsAssumption DEF Init, CountInv, QuotaExact
<1>2. TypeOK /\ CountInv /\ QuotaExact /\ [Next]_vars => CountInv' /\ QuotaExact'
  BY QuotaStep
<1> QED BY <1>1, <1>2, TypeCorrect, PTL DEF Spec

\* The daily limit holds, and no request is rejected while it is not exhausted,
\* for any number of concurrent requests and any failure of a take-back.
THEOREM QuotaKept == Spec => []QuotaExact
BY QuotaInv, PTL

-------------------------------------------------------------------------------
(* The bill *)

\* A step of one request that pays nothing: what has to hold of that request.
LEMMA BillUndisturbed ==
  ASSUME TypeOK, PaidInv, OnlyAnswersBilled, NEW r \in Requests, pc[r] # "ended",
         tokens' = tokens, billed' = billed, saved \subseteq saved',
         \A s \in Requests \ {r} :
           pc'[s] = pc[s] /\ source'[s] = source[s] /\ kind'[s] = kind[s],
         pc'[r] \in {"store", "open", "save", "bill"} => source'[r] # "none",
         pc'[r] = "bill" /\ kind'[r] = "ask" => r \in saved'
  PROVE  PaidInv' /\ OnlyAnswersBilled'
<1>1. r \notin billed
  BY DEF PaidInv
<1>2. PaidInv'
  BY <1>1 DEF PaidInv
<1>3. OnlyAnswersBilled'
  <2>1. tokens' = Cardinality(billed')
    BY DEF OnlyAnswersBilled
  <2>2. \A b \in billed' : b \in Requests /\ b # r /\ b \in saved /\ source[b] \in {"memo", "council"}
    BY <1>1 DEF OnlyAnswersBilled, TypeOK
  <2>3. \A b \in billed' : b \in saved' /\ source'[b] \in {"memo", "council"}
    BY <2>2
  <2> QED BY <2>1, <2>3 DEF OnlyAnswersBilled
<1> QED BY <1>2, <1>3

\* Paying: the request was not paid for before, and has a chat and a council's answer.
LEMMA BillKeepsBill ==
  ASSUME TypeOK, PaidInv, OnlyAnswersBilled, NEW r \in Requests, Bill(r)
  PROVE  PaidInv' /\ OnlyAnswersBilled'
<1>1. /\ pc[r] = "bill" /\ pc' = [pc EXCEPT ![r] = "ended"] /\ tokens' = tokens + TokensUsed(r)
      /\ billed' = IF TokensUsed(r) > 0 THEN billed \cup {r} ELSE billed
      /\ saved' = saved /\ source' = source /\ kind' = kind
  BY DEF Bill, Goto, body, answer
<1>2. PaidInv'
  BY <1>1 DEF PaidInv, TypeOK
<1>3. r \notin billed
  BY <1>1 DEF PaidInv
<1>4. CASE TokensUsed(r) = 0
  <2>1. tokens' = tokens /\ billed' = billed
    BY <1>1, <1>4 DEF TypeOK
  <2>2. tokens' = Cardinality(billed')
    BY <2>1 DEF OnlyAnswersBilled
  <2>3. billed' \subseteq {s \in saved' : source'[s] \in {"memo", "council"}}
    BY <1>1, <2>1 DEF OnlyAnswersBilled
  <2> QED BY <1>2, <2>2, <2>3 DEF OnlyAnswersBilled
<1>5. CASE TokensUsed(r) # 0
  <2>1. TokensUsed(r) = 1 /\ kind[r] = "ask" /\ source[r] # "cache"
    BY <1>5 DEF TokensUsed, TypeOK
  <2>2. r \in saved /\ source[r] \in {"memo", "council"}
    BY <1>1, <2>1 DEF PaidInv, TypeOK
  <2>3. IsFiniteSet(billed)
    BY RequestsAssumption, FS_Subset DEF TypeOK
  <2>4. Cardinality(billed \cup {r}) = Cardinality(billed) + 1
    BY <1>3, <2>3, FS_AddElement
  <2>5. tokens' = tokens + 1 /\ billed' = billed \cup {r}
    BY <1>1, <2>1
  <2>6. tokens' = Cardinality(billed')
    BY <2>4, <2>5 DEF OnlyAnswersBilled
  <2>7. \A b \in billed' : b \in saved' /\ source'[b] \in {"memo", "council"}
    BY <1>1, <2>2, <2>5 DEF OnlyAnswersBilled
  <2>8. billed' \subseteq {s \in saved' : source'[s] \in {"memo", "council"}}
    BY <2>7
  <2> QED BY <1>2, <2>6, <2>8 DEF OnlyAnswersBilled
<1> QED BY <1>2, <1>4, <1>5

LEMMA BillStep ==
  ASSUME TypeOK, PaidInv, OnlyAnswersBilled, [Next]_vars
  PROVE  PaidInv' /\ OnlyAnswersBilled'
<1> USE DEF usage, caches, rows, body, answer, quotaLog, paidLog, Goto
<1>1. CASE UNCHANGED vars
  BY <1>1 DEF vars, PaidInv, OnlyAnswersBilled
<1>2. ASSUME NEW r \in Requests, NEW c \in convs \cup {NoConversation}, Count(r, c)
      PROVE  PaidInv' /\ OnlyAnswersBilled'
  <2>1. /\ pc[r] = "new" /\ tokens' = tokens /\ billed' = billed /\ saved' = saved
        /\ source' = source /\ kind' = kind
        /\ \E s \in {"rollback", "admitted"} : pc' = [pc EXCEPT ![r] = s]
    BY <1>2 DEF Count
  <2>2. /\ pc'[r] \in {"rollback", "admitted"}
        /\ \A s \in Requests \ {r} :
             pc'[s] = pc[s] /\ source'[s] = source[s] /\ kind'[s] = kind[s]
    BY <2>1 DEF TypeOK
  <2> QED BY <2>1, <2>2, BillUndisturbed
<1>3. ASSUME NEW r \in Requests,
             \/ RollBack(r) \/ Refuse(r) \/ MissCaches(r) \/ Fail(r)
             \/ \E k \in Kinds, b \in Bodies : Prepare(r, k, b)
      PROVE  PaidInv' /\ OnlyAnswersBilled'
  <2>1. /\ pc[r] # "ended" /\ UNCHANGED <<tokens, billed, saved, source>>
        /\ kind' = kind \/ \E k \in Kinds : kind' = [kind EXCEPT ![r] = k]
        /\ \E s \in {"ended", "lookup", "council"} : pc' = [pc EXCEPT ![r] = s]
    BY <1>3 DEF RollBack, Refuse, Prepare, MissCaches, Fail
  <2>2. /\ pc'[r] \in {"ended", "lookup", "council"}
        /\ \A s \in Requests \ {r} :
             pc'[s] = pc[s] /\ source'[s] = source[s] /\ kind'[s] = kind[s]
    BY <2>1 DEF TypeOK
  <2> QED BY <2>1, <2>2, BillUndisturbed
<1>4. ASSUME NEW r \in Requests,
             \/ ServeCached(r) \/ CallCouncil(r) \/ CouncilAnswers(r) \/ LoseStream(r)
      PROVE  PaidInv' /\ OnlyAnswersBilled'
  <2>1. pc[r] # "ended" /\ UNCHANGED <<tokens, billed, saved, kind>>
    BY <1>4 DEF ServeCached, CallCouncil, CouncilAnswers, LoseStream
  <2>2. \/ /\ \E s \in {"cache", "memo", "council"} : source' = [source EXCEPT ![r] = s]
           /\ \E s \in Steps \ {"bill"} : pc' = [pc EXCEPT ![r] = s]
        \/ UNCHANGED source /\ pc' = [pc EXCEPT ![r] = "deliberating"]
    BY <1>4 DEF ServeCached, CallCouncil, CouncilAnswers, LoseStream, Take, AfterAnswer, Steps
  <2>3. /\ pc'[r] # "bill"
        /\ pc'[r] \in {"store", "open", "save"} => source'[r] # "none"
        /\ \A s \in Requests \ {r} :
             pc'[s] = pc[s] /\ source'[s] = source[s] /\ kind'[s] = kind[s]
    BY <2>1, <2>2 DEF TypeOK
  <2> QED BY <2>1, <2>3, BillUndisturbed
<1>5. ASSUME NEW r \in Requests, Store(r) \/ OpenConversation(r) \/ SaveChat(r)
      PROVE  PaidInv' /\ OnlyAnswersBilled'
  <2>1. /\ pc[r] \in {"store", "open", "save"} /\ UNCHANGED <<tokens, billed, source, kind>>
        /\ saved' = saved \/ saved' = saved \cup {r}
        /\ \E s \in Steps : pc' = [pc EXCEPT ![r] = s]
    BY <1>5 DEF Store, OpenConversation, SaveChat, AfterAnswer, Steps
  <2>2. pc'[r] = "bill" /\ kind[r] = "ask" => r \in saved'
    BY <1>5 DEF Store, OpenConversation, SaveChat, AfterAnswer, TypeOK
  <2>3. \A s \in Requests \ {r} :
             pc'[s] = pc[s] /\ source'[s] = source[s] /\ kind'[s] = kind[s]
    BY <2>1 DEF TypeOK
  <2>4. pc[r] # "ended" /\ source'[r] # "none"
    BY <2>1 DEF PaidInv
  <2>5. saved \subseteq saved'
    BY <2>1
  <2> QED BY <2>1, <2>2, <2>3, <2>4, <2>5, BillUndisturbed
<1>6. ASSUME NEW r \in Requests, Bill(r)
      PROVE  PaidInv' /\ OnlyAnswersBilled'
  BY <1>6, BillKeepsBill
<1>7. ASSUME NEW e \in redis \cup postgres \cup memo, Expire(e)
      PROVE  PaidInv' /\ OnlyAnswersBilled'
  BY <1>7 DEF Expire, PaidInv, OnlyAnswersBilled
<1> QED BY <1>1, <1>2, <1>3, <1>4, <1>5, <1>6, <1>7 DEF Next

LEMMA BillInv == Spec => [](PaidInv /\ OnlyAnswersBilled)
<1>1. Init => PaidInv /\ OnlyAnswersBilled
  BY FS_EmptySet DEF Init, PaidInv, OnlyAnswersBilled
<1>2. TypeOK /\ PaidInv /\ OnlyAnswersBilled /\ [Next]_vars => PaidInv' /\ OnlyAnswersBilled'
  BY BillStep
<1> QED BY <1>1, <1>2, TypeCorrect, PTL DEF Spec

\* Nothing is paid twice, and nothing without a council's answer and a chat row.
THEOREM BillKept == Spec => []OnlyAnswersBilled
BY BillInv, PTL

-------------------------------------------------------------------------------
(* The fit of the answers *)

\* What a request hands its council, in the state after a step.
GarbledNext(s) == kind'[s] = "ask" /\ attached'[s] \in Images
ContentNext(s) == IF GarbledNext(s) THEN {} ELSE {<<question'[s], attached'[s]>>}

\* Fits in the state after a step.
FitsNext(v, asked) ==
  IF v = Empty THEN \E s \in lost' : <<question'[s], hist'[s], settings'[s]>> = asked
  ELSE hist'[v] = asked[2] /\ (GarbledNext(v) \/ question'[v] = asked[1])

\* A request past its preparation stays there, and asks what it asked.
Settled ==
  \A s \in Requests \ Unprepared :
    /\ s \notin Unprepared' /\ question'[s] = question[s] /\ hist'[s] = hist[s]
    /\ attached'[s] = attached[s] /\ settings'[s] = settings[s] /\ kind'[s] = kind[s]

\* An entry of the memo in the state after a step.
MemoFitsNext(e) ==
  /\ e.verdict \notin Unprepared'
  /\ e.key = <<ContentNext(e.verdict), hist'[e.verdict]>>

\* A request keeps the answer it has or lacks.
Kept(s) ==
  \/ verdict'[s] = Unanswered
  \/ s \notin Unprepared /\ verdict'[s] = verdict[s] /\ source'[s] = source[s]

\* A request has a fitting answer after a step.
AnsweredNext(s) ==
  /\ s \notin Unprepared' /\ verdict'[s] \notin Unprepared'
  /\ FitsNext(verdict'[s], <<question'[s], hist'[s], settings'[s]>>)
  /\ source'[s] # "cache" /\ verdict'[s] # Empty
       => ContentNext(verdict'[s]) = ContentNext(s)

\* What a settled request asks its council is settled with it.
LEMMA ContentStays ==
  ASSUME Settled, NEW s \in Requests \ Unprepared
  PROVE  ContentNext(s) = Content(s) /\ (GarbledNext(s) <=> Garbled(s))
BY DEF Settled, Content, Garbled, ContentNext, GarbledNext

\* The verdict of a request past its preparation goes on fitting.
LEMMA FitStays ==
  ASSUME TypeOK, CacheInv, Settled, lost \subseteq lost',
         NEW v \in Verdicts, v \notin Unprepared, NEW a, Fits(v, a)
  PROVE  FitsNext(v, a) /\ v \notin Unprepared'
<1>1. CASE v = Empty
  <2>1. PICK s \in lost : Asked(s) = a
    BY <1>1 DEF Fits
  <2>2. s \in Requests \ Unprepared /\ s \in lost'
    BY <2>1 DEF CacheInv, TypeOK
  <2>3. <<question'[s], hist'[s], settings'[s]>> = a
    BY <2>1, <2>2 DEF Settled, Asked
  <2>4. v \notin Unprepared'
    BY <1>1, RequestsAssumption DEF Unprepared
  <2> QED BY <1>1, <2>2, <2>3, <2>4 DEF FitsNext
<1>2. CASE v # Empty
  <2>1. /\ v \in Requests \ Unprepared
        /\ hist[v] = a[2] /\ (Garbled(v) \/ question[v] = a[1])
    BY <1>2 DEF Fits, Verdicts
  <2> QED BY <1>2, <2>1, ContentStays DEF Settled, FitsNext
<1> QED BY <1>1, <1>2

\* What a step has to show of the entries and answers it adds.
LEMMA FitsKept ==
  ASSUME TypeOK, CacheInv, AnswersFit, Settled,
         lost \subseteq lost', lost' \cap Unprepared' = {},
         \A e \in redis' \cup postgres' :
           \/ e \in redis \cup postgres
           \/ FitsNext(e.verdict, e.key) /\ e.verdict \notin Unprepared',
         \A e \in memo' : e \in memo \/ MemoFitsNext(e),
         \A s \in Requests : Kept(s) \/ AnsweredNext(s)
  PROVE  CacheInv' /\ AnswersFit'
<1>1. \A e \in redis' \cup postgres' :
        FitsNext(e.verdict, e.key) /\ e.verdict \notin Unprepared'
  <2>1. TAKE e \in redis' \cup postgres'
  <2>2. CASE e \in redis \cup postgres
    <3>1. e.verdict \in Verdicts /\ Fits(e.verdict, e.key) /\ e.verdict \notin Unprepared
      BY <2>2 DEF TypeOK, Entries, CacheInv
    <3> QED BY <3>1, FitStays
  <2> QED BY <2>2
<1>2. \A e \in memo' : MemoFitsNext(e)
  <2>1. TAKE e \in memo'
  <2>2. CASE e \in memo
    <3>1. /\ e.verdict \in Requests \ Unprepared
          /\ e.key = <<Content(e.verdict), hist[e.verdict]>>
      BY <2>2 DEF TypeOK, Memos, CacheInv
    <3> QED BY <3>1, ContentStays DEF Settled, MemoFitsNext
  <2> QED BY <2>2
<1>3. \A s \in Requests :
        /\ verdict'[s] \notin Unprepared'
        /\ s \in Unprepared' => verdict'[s] = Unanswered
        /\ verdict'[s] # Unanswered => AnsweredNext(s)
  <2>1. TAKE s \in Requests
  <2>2. CASE verdict'[s] = Unanswered
    BY <2>2, RequestsAssumption DEF Unprepared
  <2>3. CASE /\ s \notin Unprepared /\ verdict[s] # Unanswered
             /\ verdict'[s] = verdict[s] /\ source'[s] = source[s]
    <3>1. verdict[s] \in Verdicts /\ verdict[s] \notin Unprepared /\ Fits(verdict[s], Asked(s))
      BY <2>3 DEF TypeOK, CacheInv, AnswersFit
    <3>2. FitsNext(verdict[s], Asked(s)) /\ verdict[s] \notin Unprepared'
      BY <3>1, FitStays
    <3>3. s \notin Unprepared' /\ Asked(s) = <<question'[s], hist'[s], settings'[s]>>
      BY <2>3 DEF Settled, Asked
    <3>4. source[s] # "cache" /\ verdict[s] # Empty
            => ContentNext(verdict[s]) = ContentNext(s)
      BY <2>3, <3>1, ContentStays DEF AnswersFit, Verdicts
    <3> QED BY <2>3, <3>2, <3>3, <3>4 DEF AnsweredNext
  <2>4. CASE AnsweredNext(s)
    BY <2>4 DEF AnsweredNext
  <2> QED BY <2>2, <2>3, <2>4 DEF Kept
<1>4. CacheInv'
  <2>1. \A e \in redis' \cup postgres' : Fits(e.verdict, e.key)'
    BY <1>1 DEF Fits, FitsNext, Asked, Garbled, GarbledNext
  <2>2. \A e \in memo' : (e.key = <<Content(e.verdict), hist[e.verdict]>>)'
    BY <1>2 DEF MemoFitsNext, Content, Garbled, ContentNext, GarbledNext
  <2>3. \A e \in redis' \cup postgres' \cup memo' : e.verdict \notin Unprepared'
    BY <1>1, <1>2 DEF MemoFitsNext
  <2> QED BY <1>3, <2>1, <2>2, <2>3 DEF CacheInv
<1>5. AnswersFit'
  BY <1>3 DEF AnswersFit, AnsweredNext, Fits, FitsNext, Asked, Content, Garbled,
              ContentNext, GarbledNext
<1> QED BY <1>4, <1>5

\* A step of r past its preparation that asks nothing new.
LEMMA SettledStep ==
  ASSUME TypeOK, NEW r \in Requests, question' = question, hist' = hist,
         attached' = attached, settings' = settings, kind' = kind, NEW step \in Steps \ {"new", "rollback", "admitted"},
         pc' = [pc EXCEPT ![r] = step]
  PROVE  Settled /\ Unprepared' \subseteq Unprepared /\ r \notin Unprepared'
BY DEF TypeOK, Settled, Unprepared

\* An entry that answers r in a cache layer fits r, after a step that asks nothing new.
LEMMA HitFits ==
  ASSUME TypeOK, CacheInv, Settled, NEW r \in Requests, question' = question,
         hist' = hist, settings' = settings, lost' = lost,
         NEW store, store \subseteq redis \cup postgres, NEW e \in Hits(store, Key(r))
  PROVE  /\ FitsNext(e.verdict, Key(r)) /\ e.verdict \notin Unprepared'
         /\ Key(r) = <<question'[r], hist'[r], settings'[r]>>
<1>1. /\ e \in redis \cup postgres /\ e.key = Key(r)
      /\ Key(r) = <<question'[r], hist'[r], settings'[r]>>
  BY DEF Hits, Key
<1>2. e.verdict \in Verdicts /\ e.verdict \notin Unprepared /\ Fits(e.verdict, e.key)
  BY <1>1 DEF CacheInv, TypeOK, Entries
<1> QED BY <1>1, <1>2, FitStays

\* Steps that bring no answer and store none.
LEMMA QuietKeepsFit ==
  ASSUME TypeOK, CacheInv, AnswersFit, NEW r \in Requests,
         \/ RollBack(r) \/ Refuse(r) \/ MissCaches(r) \/ OpenConversation(r)
         \/ SaveChat(r) \/ Bill(r) \/ Fail(r)
  PROVE  CacheInv' /\ AnswersFit'
<1> USE DEF caches, body, answer
<1>1. /\ UNCHANGED <<body, hist, lost, verdict, source, redis, postgres, memo>>
      /\ \E step \in Steps \ {"new", "rollback", "admitted"} : pc' = [pc EXCEPT ![r] = step]
  BY DEF RollBack, Refuse, MissCaches, OpenConversation, SaveChat, Bill, Fail, Goto, Steps
<1>2. Settled /\ Unprepared' \subseteq Unprepared
  BY <1>1, SettledStep
<1>3. lost \subseteq lost' /\ lost' \cap Unprepared' = {}
  BY <1>1, <1>2 DEF CacheInv
<1>4. redis' \cup postgres' \subseteq redis \cup postgres /\ memo' \subseteq memo
  BY <1>1
<1>5. \A s \in Requests : Kept(s)
  BY <1>1 DEF CacheInv, Kept
<1> QED BY <1>2, <1>3, <1>4, <1>5, FitsKept

LEMMA CountKeepsFit ==
  ASSUME TypeOK, CacheInv, AnswersFit, NEW r \in Requests, NEW c \in convs \cup {NoConversation}, Count(r, c)
  PROVE  CacheInv' /\ AnswersFit'
<1> USE DEF caches, body, answer
<1>1. /\ pc[r] = "new" /\ UNCHANGED <<body, hist, lost>>
      /\ UNCHANGED <<verdict, source, redis, postgres, memo>>
      /\ \E step \in {"rollback", "admitted"} : pc' = [pc EXCEPT ![r] = step]
  BY DEF Count, Goto
<1>2. Settled /\ Unprepared' = Unprepared
  BY <1>1 DEF TypeOK, Settled, Unprepared
<1>3. lost \subseteq lost' /\ lost' \cap Unprepared' = {}
  BY <1>1, <1>2 DEF CacheInv
<1>4. redis' \cup postgres' \subseteq redis \cup postgres /\ memo' \subseteq memo
  BY <1>1
<1>5. \A s \in Requests : Kept(s)
  BY <1>1 DEF CacheInv, Kept
<1> QED BY <1>2, <1>3, <1>4, <1>5, FitsKept

LEMMA PrepareKeepsFit ==
  ASSUME TypeOK, CacheInv, AnswersFit, NEW r \in Requests, NEW k \in Kinds,
         NEW b \in Bodies, Prepare(r, k, b)
  PROVE  CacheInv' /\ AnswersFit'
<1> USE DEF caches, body, answer
<1>1. /\ pc[r] = "admitted" /\ pc' = [pc EXCEPT ![r] = "lookup"]
      /\ UNCHANGED <<lost, verdict, source, redis, postgres, memo>>
      /\ kind' = [kind EXCEPT ![r] = k] /\ question' = [question EXCEPT ![r] = b.question]
      /\ attached' = [attached EXCEPT ![r] = b.attached]
      /\ settings' = [settings EXCEPT ![r] = b.settings]
      /\ \/ hist' = hist
         \/ hist' = [hist EXCEPT ![r] = RecentHistory(conv[r])]
  BY DEF Prepare, Goto
<1>2. Settled /\ Unprepared' \subseteq Unprepared
  BY <1>1 DEF TypeOK, Settled, Unprepared
<1>3. lost \subseteq lost' /\ lost' \cap Unprepared' = {}
  BY <1>1, <1>2 DEF CacheInv
<1>4. redis' \cup postgres' \subseteq redis \cup postgres /\ memo' \subseteq memo
  BY <1>1
<1>5. \A s \in Requests : Kept(s)
  BY <1>1 DEF CacheInv, Kept
<1> QED BY <1>2, <1>3, <1>4, <1>5, FitsKept

\* The answer of a cache was given to what the request asks.
LEMMA CacheKeepsFit ==
  ASSUME TypeOK, CacheInv, AnswersFit, NEW r \in Requests, ServeCached(r)
  PROVE  CacheInv' /\ AnswersFit'
<1> USE DEF caches, body, answer
<1>1. /\ UNCHANGED <<body, hist, lost, postgres, memo>>
      /\ \E step \in {"ended", "open", "save"} : pc' = [pc EXCEPT ![r] = step]
  BY DEF ServeCached, Goto, AfterAnswer
<1>2. Settled /\ Unprepared' \subseteq Unprepared /\ r \notin Unprepared'
  BY <1>1, SettledStep DEF Steps
<1>3. lost \subseteq lost' /\ lost' \cap Unprepared' = {}
  BY <1>1, <1>2 DEF CacheInv
<1>4. PICK e \in Hits(redis, Key(r)) \cup Hits(postgres, Key(r)) :
        /\ verdict' = [verdict EXCEPT ![r] = e.verdict]
        /\ source' = [source EXCEPT ![r] = "cache"]
        /\ redis' = redis \/ redis' = Put(redis, Key(r), e.verdict)
  BY DEF ServeCached, Take
<1>5. /\ FitsNext(e.verdict, Key(r)) /\ e.verdict \notin Unprepared'
      /\ Key(r) = <<question'[r], hist'[r], settings'[r]>>
  <2>1. e \in Hits(redis, Key(r)) \/ e \in Hits(postgres, Key(r))
    BY <1>4
  <2>2. redis \subseteq redis \cup postgres /\ postgres \subseteq redis \cup postgres
    OBVIOUS
  <2>3. question' = question /\ hist' = hist /\ settings' = settings /\ lost' = lost
    BY <1>1
  <2> QED BY <1>2, <2>1, <2>2, <2>3, HitFits
<1>6. \A f \in redis' \cup postgres' :
        \/ f \in redis \cup postgres
        \/ FitsNext(f.verdict, f.key) /\ f.verdict \notin Unprepared'
  BY <1>1, <1>4, <1>5 DEF Put
<1>7. \A s \in Requests : Kept(s) \/ AnsweredNext(s)
  <2>1. \A s \in Requests \ {r} : Kept(s)
    BY <1>4 DEF CacheInv, Kept
  <2>2. AnsweredNext(r)
    BY <1>2, <1>4, <1>5 DEF TypeOK, AnsweredNext
  <2> QED BY <2>1, <2>2
<1>8. \A f \in memo' : f \in memo
  BY <1>1
<1> QED BY <1>2, <1>3, <1>6, <1>7, <1>8, FitsKept

\* Two requests that hand the same on ask the same question, or both are garbled.
LEMMA SameQuestion ==
  ASSUME NEW r, NEW s, Content(s) = Content(r)
  PROVE  Garbled(s) \/ question[s] = question[r]
<1>1. CASE ~Garbled(s)
  <2>1. <<question[s], attached[s]>> \in Content(r)
    BY <1>1 DEF Content
  <2>2. <<question[s], attached[s]>> = <<question[r], attached[r]>>
    BY <2>1 DEF Content
  <2> QED BY <2>2
<1> QED BY <1>1

\* The memo's, too, and it was given to the same messages.
LEMMA CallKeepsFit ==
  ASSUME TypeOK, CacheInv, AnswersFit, NEW r \in Requests, CallCouncil(r)
  PROVE  CacheInv' /\ AnswersFit'
<1> USE DEF caches, body, answer
<1>1. /\ UNCHANGED <<body, hist, lost, redis, postgres, memo>>
      /\ \E step \in {"store", "deliberating"} : pc' = [pc EXCEPT ![r] = step]
  BY DEF CallCouncil, Goto
<1>2. Settled /\ Unprepared' \subseteq Unprepared /\ r \notin Unprepared'
  BY <1>1, SettledStep DEF Steps
<1>3. lost \subseteq lost' /\ lost' \cap Unprepared' = {}
  BY <1>1, <1>2 DEF CacheInv
<1>4. redis' \cup postgres' \subseteq redis \cup postgres /\ memo' \subseteq memo
  BY <1>1
<1>5. CASE verdict' = verdict /\ source' = source
  <2>1. \A s \in Requests : Kept(s)
    BY <1>5 DEF CacheInv, Kept
  <2> QED BY <1>2, <1>3, <1>4, <2>1, FitsKept
<1>6. CASE \E e \in Hits(memo, MemoKey(r)) : Take(r, e, "memo")
  <2>1. PICK e \in Hits(memo, MemoKey(r)) : Take(r, e, "memo")
    BY <1>6
  <2>2. /\ e \in memo /\ e.key = MemoKey(r) /\ e.verdict \in Requests \ Unprepared
        /\ e.key = <<Content(e.verdict), hist[e.verdict]>>
    BY <2>1 DEF Hits, TypeOK, Memos, CacheInv
  <2>3. Content(e.verdict) = Content(r) /\ hist[e.verdict] = hist[r]
    BY <2>2 DEF MemoKey
  <2>4. Garbled(e.verdict) \/ question[e.verdict] = question[r]
    BY <2>3, SameQuestion
  <2>5. e.verdict \notin Unprepared' /\ e.verdict # Empty
    BY <1>2, <2>2, RequestsAssumption
  <2>6. /\ hist'[e.verdict] = hist'[r] /\ ContentNext(e.verdict) = ContentNext(r)
        /\ GarbledNext(e.verdict) \/ question'[e.verdict] = question'[r]
    BY <1>1, <2>3, <2>4 DEF Content, Garbled, ContentNext, GarbledNext
  <2>7. AnsweredNext(r)
    <3>1. verdict'[r] = e.verdict
      BY <2>1 DEF Take, TypeOK
    <3> QED BY <1>2, <2>5, <2>6, <3>1 DEF AnsweredNext, FitsNext
  <2>8. \A s \in Requests \ {r} : Kept(s)
    BY <2>1 DEF Take, CacheInv, Kept
  <2> QED BY <1>2, <1>3, <1>4, <2>7, <2>8, FitsKept
<1> QED BY <1>5, <1>6 DEF CallCouncil

\* The verdict of a council fits the request that called it.
LEMMA CouncilKeepsFit ==
  ASSUME TypeOK, CacheInv, AnswersFit, NEW r \in Requests, CouncilAnswers(r)
  PROVE  CacheInv' /\ AnswersFit'
<1> USE DEF caches, body, answer
<1>1. /\ UNCHANGED <<body, hist, lost, redis, postgres>>
      /\ pc' = [pc EXCEPT ![r] = "store"] /\ verdict' = [verdict EXCEPT ![r] = r]
      /\ source' = [source EXCEPT ![r] = "council"]
      /\ memo' = memo \/ memo' = Put(memo, MemoKey(r), r)
  BY DEF CouncilAnswers, Goto
<1>2. Settled /\ Unprepared' \subseteq Unprepared /\ r \notin Unprepared'
  BY <1>1, SettledStep DEF Steps
<1>3. lost \subseteq lost' /\ lost' \cap Unprepared' = {}
  BY <1>1, <1>2 DEF CacheInv
<1>4. redis' \cup postgres' \subseteq redis \cup postgres
  BY <1>1
<1>5. \A f \in memo' : f \in memo \/ MemoFitsNext(f)
  <2>1. MemoKey(r) = <<ContentNext(r), hist'[r]>>
    BY <1>1 DEF MemoKey, Content, Garbled, ContentNext, GarbledNext
  <2> QED BY <1>1, <1>2, <2>1 DEF Put, MemoFitsNext
<1>6. AnsweredNext(r)
  BY <1>1, <1>2, RequestsAssumption DEF TypeOK, AnsweredNext, FitsNext
<1>7. \A s \in Requests \ {r} : Kept(s)
  BY <1>1 DEF CacheInv, Kept
<1> QED BY <1>2, <1>3, <1>4, <1>5, <1>6, <1>7, FitsKept

\* The empty verdict of a lost stream fits it, because it is recorded as lost.
LEMMA LossKeepsFit ==
  ASSUME TypeOK, CacheInv, AnswersFit, NEW r \in Requests, LoseStream(r)
  PROVE  CacheInv' /\ AnswersFit'
<1> USE DEF caches, body, answer
<1>1. /\ UNCHANGED <<body, hist, redis, postgres, memo>> /\ lost' = lost \cup {r}
      /\ pc' = [pc EXCEPT ![r] = "store"] /\ verdict' = [verdict EXCEPT ![r] = Empty]
      /\ source' = [source EXCEPT ![r] = "council"]
  BY DEF LoseStream, Goto
<1>2. Settled /\ Unprepared' \subseteq Unprepared /\ r \notin Unprepared'
  BY <1>1, SettledStep DEF Steps
<1>3. lost \subseteq lost' /\ lost' \cap Unprepared' = {}
  BY <1>1, <1>2 DEF CacheInv
<1>4. redis' \cup postgres' \subseteq redis \cup postgres /\ memo' \subseteq memo
  BY <1>1
<1>5. AnsweredNext(r)
  BY <1>1, <1>2, RequestsAssumption DEF TypeOK, AnsweredNext, FitsNext, Unprepared
<1>6. \A s \in Requests \ {r} : Kept(s)
  BY <1>1 DEF CacheInv, Kept
<1> QED BY <1>2, <1>3, <1>4, <1>5, <1>6, FitsKept

\* What is stored under the key of a request is the answer it got.
LEMMA StoreKeepsFit ==
  ASSUME TypeOK, CacheInv, AnswersFit, NEW r \in Requests, Store(r)
  PROVE  CacheInv' /\ AnswersFit'
<1> USE DEF caches, body, answer
<1>1. /\ UNCHANGED <<body, hist, lost, verdict, source, memo>> /\ pc[r] = "store"
      /\ redis' = redis \/ redis' = Put(redis, Key(r), verdict[r])
      /\ postgres' = postgres \/ postgres' = Put(postgres, Key(r), verdict[r])
  BY DEF Store
<1>2. \E step \in {"bill", "open", "save"} : pc' = [pc EXCEPT ![r] = step]
  BY DEF Store, Goto, AfterAnswer
<1>3. Settled /\ Unprepared' \subseteq Unprepared
  BY <1>1, <1>2, SettledStep DEF Steps
<1>4. lost \subseteq lost' /\ lost' \cap Unprepared' = {}
  BY <1>1, <1>3 DEF CacheInv
<1>5. /\ verdict[r] \in Verdicts /\ verdict[r] # Unanswered /\ verdict[r] \notin Unprepared
  BY <1>1, RequestsAssumption DEF TypeOK, CacheInv, Verdicts
<1>6. Fits(verdict[r], Key(r))
  BY <1>5 DEF AnswersFit, Key, Asked
<1>7. FitsNext(verdict[r], Key(r)) /\ verdict[r] \notin Unprepared'
  BY <1>3, <1>4, <1>5, <1>6, FitStays
<1>8. \A f \in redis' \cup postgres' :
        \/ f \in redis \cup postgres
        \/ FitsNext(f.verdict, f.key) /\ f.verdict \notin Unprepared'
  BY <1>1, <1>7 DEF Put
<1>9. \A s \in Requests : Kept(s)
  BY <1>1 DEF CacheInv, Kept
<1>10. \A f \in memo' : f \in memo
  BY <1>1
<1> QED BY <1>3, <1>4, <1>8, <1>9, <1>10, FitsKept

LEMMA FitStep ==
  ASSUME TypeOK, CacheInv, AnswersFit, [Next]_vars
  PROVE  CacheInv' /\ AnswersFit'
<1>1. ASSUME \/ UNCHANGED vars
             \/ \E e \in redis \cup postgres \cup memo : Expire(e)
      PROVE  CacheInv' /\ AnswersFit'
  <2>1. /\ UNCHANGED <<body, hist, lost, verdict, source, pc>>
        /\ redis' \cup postgres' \subseteq redis \cup postgres /\ memo' \subseteq memo
    BY <1>1 DEF vars, caches, body, answer, Expire
  <2>2. Settled /\ Unprepared' = Unprepared
    BY <2>1 DEF body, Settled, Unprepared
  <2>3. lost \subseteq lost' /\ lost' \cap Unprepared' = {}
    BY <2>1, <2>2 DEF CacheInv
  <2>4. \A s \in Requests : Kept(s)
    BY <2>1 DEF CacheInv, Kept
  <2> QED BY <2>1, <2>2, <2>3, <2>4, FitsKept
<1>2. ASSUME NEW r \in Requests,
             \/ RollBack(r) \/ Refuse(r) \/ MissCaches(r) \/ OpenConversation(r)
             \/ SaveChat(r) \/ Bill(r) \/ Fail(r)
      PROVE  CacheInv' /\ AnswersFit'
  BY <1>2, QuietKeepsFit
<1>3. ASSUME NEW r \in Requests, NEW c \in convs \cup {NoConversation}, Count(r, c)
      PROVE  CacheInv' /\ AnswersFit'
  BY <1>3, CountKeepsFit
<1>4. ASSUME NEW r \in Requests,
             \/ \E k \in Kinds, b \in Bodies : Prepare(r, k, b)
             \/ ServeCached(r) \/ CallCouncil(r) \/ CouncilAnswers(r)
             \/ LoseStream(r) \/ Store(r)
      PROVE  CacheInv' /\ AnswersFit'
  BY <1>4, PrepareKeepsFit, CacheKeepsFit, CallKeepsFit, CouncilKeepsFit, LossKeepsFit,
     StoreKeepsFit
<1> QED BY <1>1, <1>2, <1>3, <1>4 DEF Next

LEMMA FitInv == Spec => [](CacheInv /\ AnswersFit)
<1>1. Init => CacheInv /\ AnswersFit
  BY RequestsAssumption DEF Init, CacheInv, AnswersFit, Unprepared
<1>2. TypeOK /\ CacheInv /\ AnswersFit /\ [Next]_vars => CacheInv' /\ AnswersFit'
  BY FitStep
<1> QED BY <1>1, <1>2, TypeCorrect, PTL DEF Spec

\* Every answer was given with the history of the request it went to, and to its
\* question or to the one text that is left of questions with images.
THEOREM AnswersFitKept == Spec => []AnswersFit
BY FitInv, PTL

-------------------------------------------------------------------------------
(* The conversations *)

LEMMA ConvStep ==
  ASSUME TypeOK, ConvInv, [Next]_vars
  PROVE  ConvInv'
<1> USE DEF usage, caches, rows, body, answer, Goto
<1>1. ASSUME \/ UNCHANGED vars
             \/ \E e \in redis \cup postgres \cup memo : Expire(e)
      PROVE  ConvInv'
  BY <1>1 DEF vars, Expire, ConvInv
<1>2. ASSUME NEW r \in Requests, NEW c \in convs \cup {NoConversation}, Count(r, c)
      PROVE  ConvInv'
  BY <1>2 DEF Count, TypeOK, ConvInv
<1>3. ASSUME NEW r \in Requests,
             \/ RollBack(r) \/ Refuse(r) \/ MissCaches(r) \/ CallCouncil(r) \/ CouncilAnswers(r)
             \/ LoseStream(r) \/ SaveChat(r) \/ Bill(r) \/ Fail(r)
      PROVE  ConvInv'
  <2>1. /\ UNCHANGED <<conv, convs, kind>> /\ pc[r] # "new"
        /\ \/ pc' = [pc EXCEPT ![r] = "ended"]
           \/ /\ pc[r] \notin {"rollback", "admitted", "ended"}
              /\ \E s \in Steps \ {"save"} : pc' = [pc EXCEPT ![r] = s]
    BY <1>3 DEF RollBack, Refuse, MissCaches, CallCouncil, CouncilAnswers, LoseStream,
                SaveChat, Bill, Fail, Steps
  <2> QED BY <2>1 DEF TypeOK, ConvInv
<1>4. ASSUME NEW r \in Requests, NEW k \in Kinds, NEW b \in Bodies, Prepare(r, k, b)
      PROVE  ConvInv'
  BY <1>4, RequestsAssumption DEF Prepare, TypeOK, ConvInv
<1>5. ASSUME NEW r \in Requests, ServeCached(r) \/ Store(r)
      PROVE  ConvInv'
  <2>1. UNCHANGED <<conv, convs, kind>> /\ pc[r] \in {"lookup", "store"}
    BY <1>5 DEF ServeCached, Store
  <2>2. \E s \in {"open", "ended", "bill", "save"} :
          /\ pc' = [pc EXCEPT ![r] = s]
          /\ s = "save" /\ kind[r] = "ask" => conv[r] # NoConversation
    BY <1>5 DEF ServeCached, Store, AfterAnswer
  <2> QED BY <2>1, <2>2 DEF TypeOK, ConvInv
<1>6. ASSUME NEW r \in Requests, OpenConversation(r)
      PROVE  ConvInv'
  BY <1>6, RequestsAssumption DEF OpenConversation, TypeOK, ConvInv
<1> QED BY <1>1, <1>2, <1>3, <1>4, <1>5, <1>6 DEF Next

\* The whole inductive invariant: with the rest, a chat row is only ever written
\* into a conversation that is there.
THEOREM AskInvariant == Spec => []IInv
<1>1. Init => ConvInv
  BY DEF Init, ConvInv
<1>2. TypeOK /\ ConvInv /\ [Next]_vars => ConvInv'
  BY ConvStep
<1>3. Spec => []ConvInv
  BY <1>1, <1>2, TypeCorrect, PTL DEF Spec
<1> QED BY <1>3, TypeCorrect, QuotaInv, BillInv, FitInv, PTL DEF IInv
===============================================================================
