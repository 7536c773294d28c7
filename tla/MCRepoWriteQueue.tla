-------------------------- MODULE MCRepoWriteQueue --------------------------
(* The requests the callers of enqueueRepoWrite submit: an editor save     *)
(* (editor-operation-queue.js, whatever its priority says), the background *)
(* sync of the editor, a metadata write (project-book-settings-sync.js),   *)
(* the blocking one of editor-persistence-flow.js, and a project sync.     *)
EXTENDS RepoWriteQueue

R(type, priority, check, record) ==
  [operationType |-> type, priority |-> priority,
   checkPermission |-> check, recordFailure |-> record]

EditorSave    == R("localEditorWrite", "unset", FALSE, TRUE)
CheckedSave   == R("localEditorWrite", "durableLocal", TRUE, TRUE)
RemoteSync    == R("remoteSync", "unset", FALSE, TRUE)
MetadataWrite == R("localMetadataWrite", "unset", FALSE, FALSE)
BlockingWrite == R("localMetadataWrite", "blockingLocal", FALSE, TRUE)
CheckedSync   == R("repoMaintenance", "unset", TRUE, TRUE)

CallerRequests == {EditorSave, CheckedSync, BlockingWrite}
FewRequests    == {CheckedSave, MetadataWrite}
OneRequest     == {RemoteSync}
AnyOrEditor    == {OperationTypes, {"localEditorWrite"}}
AnyType        == {OperationTypes}
=============================================================================
