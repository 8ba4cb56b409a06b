SPECIFICATION Safety
CONSTANTS
    Clients = {c1, c2}
    PackageKeys = {"p", "q"}
    Requests <- MixedRequests
    MaxPending = 1
    HistoryLimit = 1
    MaxJobs = 2
INVARIANTS NoConflictingJobs RunnerIsUnique QueuedIsServed QueueIsSound NoWorkAfterWait RunningHasRunner SchedulerIsBounded
PROPERTIES OutcomeIsFinal StreamSeesEveryChange PruningKeepsLatest CancelledUpdateNeverSucceeds
SYMMETRY ClientSymmetry
