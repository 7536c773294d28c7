-------------------------- MODULE MCProjectRepoSync --------------------------
(* Two edits of the user and two of teammates: one pair in a row, one in a *)
(* file the code does not resolve, and a deletion of the row.              *)
EXTENDS ProjectRepoSync

CONSTANTS m1, m2, t1, t2, t3, row, other

MCFileOf == [e \in Edits |-> IF e \in {m1, t1, t3} THEN row ELSE other]
=============================================================================
