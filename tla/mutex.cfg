\* Both builds: two mutexes, three threads, ranked or equal.
CONSTANTS
    high = high
    mid = mid
    low = low
    Threads = {high, mid, low}
    None = None
    NMutexes = 2
    PrioCount = 3
    Instances <- MCInstances
SPECIFICATION FairSpec
INVARIANTS
    TypeOK
    MutualExclusion
    DonationAccounting
    NoPriorityInversion
    NoLostWakeup
PROPERTIES
    LockGranted
