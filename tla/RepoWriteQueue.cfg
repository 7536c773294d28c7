SPECIFICATION FairSpec
CONSTANTS
  Scopes = {s1}
  Requests <- CallerRequests
  WaitFilters <- AnyOrEditor
  MaxOperations = 4
  Siblings = FALSE
INVARIANTS TypeOK QueueIntegrity OneWriterAtATime
PROPERTIES WaitersSeeDrainedScope WaitersResolve ImplementsFairWriter
