SPECIFICATION FairSpec
CONSTANTS
    Workers = {w1, w2}
    MaxQueued = 2
    None = None
INVARIANTS
    SubmitNeverWaits
    AbandonedWorkIsCancelled
PROPERTIES
    InputEndsWorkers
    SlotsComeBack
