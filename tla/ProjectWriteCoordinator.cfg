SPECIFICATION ProjectSpec
CONSTANTS
  title = title
  status = status
  sync = sync
  repo = repo
  a = a
  b = b
  Keys = {title, status, sync}
  Scopes = {repo}
  Targets <- MCTargets
  OneShot = {sync}
  Forgettable = {}
  Titles = {title}
  Metadata = {status}
  Values = {a, b}
  Original = a
  MaxWishes = 2
  MaxRequests = 4
  MaxPulls = 1
VIEW WhatIsRead
INVARIANTS WishIsShown ConfirmedWasWritten SyncIsOnItsWay
