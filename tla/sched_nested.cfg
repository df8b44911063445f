\* A reader is preempted while another CPU kicks its CPU.
CONSTANTS
    m = m
    u = u
    w = w
    Cpus = {0, 1}
    Bsp = 0
    Threads = {m, u, w}
    Main = m
    UserThreads = {u}
    target_cpu <- MCTargetCpu
    PrioCount = 1
    InitPrio <- MCPrio
    OpSets = {{"read", "yield"}}
    MaxTicks = 0
SPECIFICATION Spec
INVARIANTS
    RunningIsCurrent
