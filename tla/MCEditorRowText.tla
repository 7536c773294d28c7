--------------------------- MODULE MCEditorRowText ---------------------------
(* Instances of EditorRowText for TLC.                                     *)
EXTENDS EditorRowText, TLC

CONSTANT book

OneRow == [k \in CoalesceKeys |-> book]

(* No property tells one column, or one of the user's texts, from another. *)
Alike == Permutations(Columns) \cup Permutations(UserTexts)
=============================================================================
