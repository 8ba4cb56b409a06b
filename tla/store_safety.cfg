SPECIFICATION StoreSafety
CONSTANTS
    f = f
    p = p
    q = q
    s1 = s1
    s2 = s2
    s3 = s3
    u1 = u1
    A = A
    B = B
    NoProduct = NoProduct
    NoScanner = NoScanner
    Families <- OneFamily
    Products <- TwoProducts
    Offers <- AllOffers
    Scanners = {s1, s2, s3}
    Updaters = {u1}
    Home <- HomeOf
    Machines <- AllMachines
    Retention = 1
INVARIANTS StoreTypeOK CommittedIsRead CurrentIsEarned PositiveSurvivesIncompleteScan CommandIsProven VerifiedIsInstalled
PROPERTIES HysteresisBaseIsCurrent
CHECK_DEADLOCK FALSE
