SPECIFICATION OutboxSpec
CONSTANTS
  Events = {e1}
  Relays = {r1}
  BatchSize = 1
  MaxAttempts = 2
  NoRow = NoRow
  MaxOutboxFaults = 0
PROPERTY ExhaustedIsParked
CHECK_DEADLOCK FALSE
