CONSTANTS
  marker = marker
  book = book
  other = other
  NoKey = NoKey
  CoalesceKeys = {marker}
  ScopeOf <- InBook
  WriteScopes = {book}
  OtherRanks = {0, 2}
  MaxWrites = 4
SPECIFICATION FairSpec
INVARIANTS NewestIsNeverDropped RunsHoldTheRepo
PROPERTIES OnlyNewestStarts RequestOrder EverybodyWakes EveryOperationFinishes
