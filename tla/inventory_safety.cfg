SPECIFICATION Safety
CONSTANTS
    Jobs = {j1, j2}
    NoJob = NoJob
    MaxGeneration = 3
SYMMETRY JobSymmetry
INVARIANTS LoadingIsOwned ScanIsUnique ForcedRefreshIsServed
PROPERTIES PublicationsAdvance
