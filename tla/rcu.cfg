\* Two threads share CPU 1, one is alone on CPU 0; or CPU 0 only idles.
CONSTANTS
    t0 = t0
    t1 = t1
    t2 = t2
    NCpus = 2
    Threads = {t0, t1, t2}
    Users <- MCUsers
    target_cpu <- MCTargetCpu
    MaxNesting = 2
    MaxGp = 2
SPECIFICATION FairSpec
INVARIANTS
    TypeOK
    GracePeriodSafe
    ReadersListed
PROPERTIES
    ImplementsGracePeriod
    PhaseOneEnds
