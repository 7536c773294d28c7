----------------------- MODULE MCEditorOperationQueue -----------------------
(* Instances of EditorOperationQueue for TLC.                              *)
EXTENDS EditorOperationQueue

CONSTANTS
  marker,        \* a marker of one row
  book, other    \* two project repositories

InBook == [k \in CoalesceKeys |-> book]
=============================================================================
