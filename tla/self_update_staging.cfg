SPECIFICATION Spec
CONSTANTS
    a = a
    b = b
    c = c
    r1 = r1
    r2 = r2
    PatchBoard = PatchBoard
    Scheduled = Scheduled
    Nobody = Nobody
    Parts = {"update"}
    Savers = {a}
    SaverHome <- Homes
    MaxUpdates = 2
    MaxFaults = 2
    SettingRequests = {r1, r2}
    MaxRefreshes = 3
    MaxInstalls = 1
    MaxRounds = 5
    MaxHelperDeaths = 0
    StagingLimit = 8
PROPERTIES HealthyStartIsAcknowledged
CHECK_DEADLOCK FALSE
