\* Two threads of CPU 0 block, sleep or exit under the timer; the idle CPU 1
\* takes interrupts that wake them.
CONSTANTS
    m = m
    u = u
    w = w
    Cpus = {0, 1}
    Bsp = 0
    Threads = {m, u}
    Main = m
    UserThreads = {u}
    target_cpu <- MCTargetCpu
    PrioCount = 1
    InitPrio <- MCPrio
    OpSets = {{"block", "preempt"}, {"sleep", "block"}, {"exit", "block"}}
    MaxTicks = 1
SPECIFICATION FairSpec
PROPERTIES
    SleepersWake
    RunnableRuns
