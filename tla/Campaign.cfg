SPECIFICATION FairSpec
CONSTANTS
  Members = {m1}
  Calls = {c1, c2}
  Workers = {w1, w2}
  BatchSize = 2
  MaxAttempts = 2
  NoMessage = NoMessage
  MaxFaults = 1
INVARIANTS TypeOK SentIsDelivered
PROPERTIES ResendExcused MessagesSettle
CHECK_DEADLOCK FALSE
