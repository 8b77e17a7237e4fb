SPECIFICATION PeopleSpec
CONSTANTS
  Calls = {c1, c2, c3}
  RowCount = 5
  WithEmail = {2, 3, 5}
  WithPhone = {4}
  ChunkSize = 2
  MaxFaults = 3
  Admins = {c1, c2, c3}
  Bearers = {b1, b2}
  Roles = {r1, r2}
  None = None
  MaxTokens = 2
  Churches = {h1, h2}
  NoChurch = NoChurch
  MaxWrites = 2
  MaxCopies = 2
SYMMETRY Symmetry
INVARIANTS
  TypeOK ResumesWhereItStopped
  InviteTypeOK MemberIsAccepted ShutKeepsOut
  SyncTypeOK SentOnce ReorderedByWaiting
CHECK_DEADLOCK FALSE
