\* Two CPUs, three threads (one user): readers and remote kicks; priority
\* changes with wakeups; priority changes with exits.
CONSTANTS
    m = m
    u = u
    w = w
    Cpus = {0, 1}
    Bsp = 0
    Threads = {m, u, w}
    Main = m
    UserThreads = {u}
    target_cpu <- MCTargetCpu
    PrioCount = 2
    InitPrio <- MCPrio
    OpSets = {{"yield", "block", "exit", "read", "preempt"}, {"block", "prio"}, {"exit", "prio"}}
    MaxTicks = 0
SPECIFICATION Spec
INVARIANTS
    TypeOK
    QueuesConsistent
    FreedIsUnused
    RunningWithoutReaders
PROPERTIES
    PicksHighestPriority
