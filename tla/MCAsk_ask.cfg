SPECIFICATION Spec
CHECK_DEADLOCK FALSE
CONSTANTS
  r1 = r1
  r2 = r2
  r3 = r3
  r4 = r4
  q1 = q1
  q2 = q2
  a1 = a1
  i1 = i1
  s1 = s1
  s2 = s2
  NoConversation = NoConversation
  Empty = Empty
  Unanswered = Unanswered
  Requests = {r1, r2, r3, r4}
  Questions = {q1, q2}
  Attachments = {a1, i1}
  Images = {i1}
  Settings = {s1, s2}
  Bodies <- SomeBodies
  Kinds = {"ask", "stream"}
  MaxDailyRequests = 2
  MaxDailyTokens = 1
  HistoryLimit = 1
SYMMETRY RequestSymmetry
INVARIANTS QuotaExact OnlyAnswersBilled 
