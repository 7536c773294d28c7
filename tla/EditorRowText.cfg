CONSTANTS
  book = book
  rowText = rowText
  NoKey = NoKey
  CoalesceKeys = {rowText}
  ScopeOf <- OneRow
  WriteScopes = {book}
  Repo = book
  OtherRanks = {0}
  MaxWrites = 3
  Columns = {source, target}
  UserTexts = {mine, again}
  OtherTexts = {theirs}
  Blank = Blank
  None = None
  Unread = Unread
SPECIFICATION TextSpec
SYMMETRY Alike
INVARIANTS TextTypeOK DraftsAreTracked
PROPERTY OnlyReloadsDropDrafts
