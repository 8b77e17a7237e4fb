SPECIFICATION LedgerSpec
CONSTANTS
  Docs = {d1}
  Periods = {p1}
  Requests = {r1, r2}
  NoEntry = NoEntry
  MaxNumber = 2
INVARIANTS LedgerTypeOK GaplessNumbers EntriesMatch
PROPERTY JournalsKept
