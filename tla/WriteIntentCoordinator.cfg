CONSTANTS
  title = title
  sync = sync
  loose = loose
  here = here
  there = there
  Keys = {title, sync, loose}
  Scopes = {here, there}
  Targets <- MovingScope
  OneShot = {sync}
  Forgettable = {loose}
  MaxRequests = 4
SPECIFICATION FairSpec
INVARIANTS NoRequestLost ConfirmedWasStored
PROPERTIES OnlyNewestRuns EveryIntentSettles
