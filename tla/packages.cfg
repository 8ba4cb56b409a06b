SPECIFICATION Spec
CONSTANTS
    w1 = w1
    w2 = w2
    c1 = c1
    s1 = s1
    Body = Body
    Task = Task
    Worker = Worker
    PatchBoard = PatchBoard
    Elevated = Elevated
    Scheduled = Scheduled
    NoThread = NoThread
    NoResult = NoResult
    Threads = {Body, Task, Worker}
    Packages = {w1, w2, c1, s1}
    Home <- HomeOf
    Kind <- KindOf
    Consent <- ConsentTo
    Candidates <- TargetsOf
    HasName <- Named
    MaxAttempts = 2
    Machines <- AllMachines
INVARIANTS OneMutation NothingRunsBehind ResultsAreComplete SuccessIsEarned RefusalIsFinal
PROPERTIES UpdatesEnd
CHECK_DEADLOCK FALSE
