SPECIFICATION FairSpec
CONSTANTS
    NULL = NULL
    MAX_CPUS = 3
    Machines <- MCMachines
    MAX_ARGS = 3
    SELFTEST_MAX_KV = 2
    MAX_TEST_MODULES = 4
    BootTests <- MCBootTests
    Builtin = 1
    Workers <- MCWorkers
INVARIANTS
    BootBarrier
    TasksLaunchedOnce
    SelftestsInTurn
PROPERTIES
    BootCompletes
CHECK_DEADLOCK FALSE
