---------------------- MODULE MCProjectWriteCoordinator ----------------------
(* Instances of ProjectWriteCoordinator for TLC.                           *)
EXTENDS ProjectWriteCoordinator, TLC

CONSTANTS title, status, a, b

MCTargets == Keys \X {repo}

(* Requests are told apart by what is still read of them, not by their     *)
(* numbers: of a field's newest one its version, its wish and whether the  *)
(* file is from it, of the one that runs its wish. What was wished before, *)
(* what came of each run and how many syncs there were is not read again,  *)
(* so that states that differ in these only have the same future.          *)
ReadOf(k) ==
  IF intents[k] = NoIntent THEN <<writer[k] = Somebody>>
  ELSE <<intents[k].status, intents[k].version, WishOf(intents[k]),
         IF intents[k].status \in {"pending", "running"}
         THEN wishes[intents[k].request].before ELSE Original,
         writer[k] = Somebody, writer[k] = intents[k].request>>

ReadOfRun ==
  IF TheRun = NoRun THEN <<>>
  ELSE IF TheRun.key = sync THEN <<IsNewest>>
  ELSE <<TheRun.key, TheRun.version, TheWish.value,
         TheRun.request = intents[TheRun.key].request>>

WhatIsRead ==
  <<[k \in Fields |-> ReadOf(k)], intents[sync].status, items, ReadOfRun,
    Cardinality(Wishes), step, due, file, pulls, list, listing, discovery,
    query, owed>>
=============================================================================
