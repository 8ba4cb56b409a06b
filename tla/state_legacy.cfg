SPECIFICATION Spec
CONSTANTS
    a = a
    b = b
    c = c
    r1 = r1
    r2 = r2
    PatchBoard = PatchBoard
    Scheduled = Scheduled
    Nobody = Nobody
    Parts = {"state"}
    Savers = {a, b}
    SaverHome <- Homes
    MaxUpdates = 3
    MaxFaults = 1
    SettingRequests = {r1, r2}
    MaxRefreshes = 3
    MaxInstalls = 1
    MaxRounds = 2
    MaxHelperDeaths = 1
    StagingLimit = 8
PROPERTIES MissingStateIsRecovered
CHECK_DEADLOCK FALSE
