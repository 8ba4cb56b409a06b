SPECIFICATION Spec
CONSTANTS
    Clients = {c1, c2}
    PackageKeys = {"p"}
    Requests <- InstallRequests
    MaxPending = 1
    HistoryLimit = 1
    MaxJobs = 3
PROPERTIES EveryJobEnds ShutdownEnds
