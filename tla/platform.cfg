SPECIFICATION Spec
CONSTANTS
    a = a
    b = b
    c = c
    r1 = r1
    r2 = r2
    PatchBoard = PatchBoard
    Scheduled = Scheduled
    Nobody = Nobody
    Parts = {"state", "settings", "update"}
    Savers = {a, b}
    SaverHome <- Homes
    MaxUpdates = 3
    MaxFaults = 2
    SettingRequests = {r1, r2}
    MaxRefreshes = 3
    MaxInstalls = 1
    MaxRounds = 2
    MaxHelperDeaths = 1
    StagingLimit = 8
INVARIANTS AcknowledgedSurvives StatusIsCurrent TaskFollowsSetting KeepsWorkingVersion UpdateIsDecided
PROPERTIES PatchBoardComesBack
CHECK_DEADLOCK FALSE
