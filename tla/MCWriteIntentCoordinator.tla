---------------------- MODULE MCWriteIntentCoordinator ----------------------
(* Instances of WriteIntentCoordinator for TLC.                            *)
EXTENDS WriteIntentCoordinator, TLC

CONSTANTS
  title, sync,       \* a chapter's title, the repo sync its success requests
  loose,             \* a key whose callers do all that weakens it
  here, there        \* scopes

(* Every key has the one scope.                                            *)
SharedScope == {<<k, here>> : k \in Keys}

(* The loose key is requested before and after its repository gets its     *)
(* full name, and so under two scopes.                                     *)
MovingScope == SharedScope \cup {<<loose, there>>}
=============================================================================
