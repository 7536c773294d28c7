CONSTANTS
  paragraph = paragraph
  heading = heading
  book = book
  reviewed = reviewed
  pleaseCheck = pleaseCheck
  textStyle = textStyle
  NoKey = NoKey
  Idle = Idle
  CoalesceKeys = {reviewed, pleaseCheck, textStyle}
  ScopeOf <- OneRow
  WriteScopes = {book}
  Repo = book
  Styles = {paragraph, heading}
  OtherRanks = {0}
  MaxWrites = 4
  MaxLanded = 1
SPECIFICATION RowSpecUnmarked
SYMMETRY StylesAlike
INVARIANTS StyleShowsTheWish FileHasNewestMarkers SavedMarkersAreShown
