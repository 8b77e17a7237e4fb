SPECIFICATION ApiSpec
CONSTANTS
  Events = {e1, e2}
  Relays = {r1, r2}
  BatchSize = 2
  MaxAttempts = 2
  NoRow = NoRow
  MaxOutboxFaults = 2
  Requests = {q1, q2}
  SessionIds = {s1, s2}
  Tokens = {t1, t2, t3}
  None = None
  MaxFaults = 1
INVARIANTS
  OutboxTypeOK ClaimExclusive
  TypeOK SingleLineage
PROPERTIES
  NoSpuriousDuplicate ImplementsEventDelivery Settles
  ImplementsSessionChain RequestsEnd
CHECK_DEADLOCK FALSE
