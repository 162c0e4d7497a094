SPECIFICATION Spec
CONSTANTS
  m1 = m1
  m2 = m2
  c1 = c1
  c2 = c2
  Msgs = {m1, m2}
  Chats = {c1, c2}
  ChatOf <- EachInItsChat
  Requests = {r1, r2}
  None = None
INVARIANTS
  TypeOK
  EventKeepsInfo
  PlainRequestAsksLast
  AnswerNamesRequest
SYMMETRY Symmetry
VIEW HistoryView
CHECK_DEADLOCK FALSE
