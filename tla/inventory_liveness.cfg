SPECIFICATION Spec
CONSTANTS
    Jobs = {j1}
    NoJob = NoJob
    MaxGeneration = 3
INVARIANTS JobRefreshIsAuthoritative WaitSeesFreshScan
PROPERTIES ForcedRefreshHappens ScanKeepsItsPromise
