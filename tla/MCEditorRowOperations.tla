----------------------- MODULE MCEditorRowOperations -----------------------
(* Instances of EditorRowOperations for TLC.                               *)
EXTENDS EditorRowOperations, TLC

CONSTANTS paragraph, heading, book

OneRow == [k \in CoalesceKeys |-> book]

(* "Please check" is only ever toggled and copied, so that negating it     *)
(* everywhere maps behaviours to behaviours: one of its values at the      *)
(* start stands for both.                                                  *)
RowInitUnmarked == RowInit /\ ~ stored.fieldStates[pleaseCheck]
RowSpecUnmarked == RowInitUnmarked /\ [][RowNext]_rowVars

(* No property tells one style from another.                               *)
StylesAlike == Permutations(Styles)
=============================================================================
