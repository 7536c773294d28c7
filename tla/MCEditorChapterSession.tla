------------------------ MODULE MCEditorChapterSession ------------------------
EXTENDS EditorChapterSession, TLC

CONSTANTS chapter, other, inserted, conflicted, f1, f2, s1, s2

MCChapterOf == [x \in Changes |-> chapter]
MCKindOf == [x \in Changes |-> IF x = inserted THEN "structure" ELSE "conflict"]

(* The slots of the syncs are interchangeable.                             *)
SyncSymmetry == Permutations(Syncs)
=============================================================================
