SPECIFICATION Safety
CONSTANTS
    Clients = {c1}
    PackageKeys = {"p"}
    Requests <- RepeatableRequests
    MaxPending = 2
    HistoryLimit = 2
    MaxJobs = 5
PROPERTIES FinalResultIsReadable
