SPECIFICATION Spec
SYMMETRY Symm
CONSTANTS
    p1 = p1
    p2 = p2
    Procs <- MCProcs
    Instances <- MCInstances
    OldRoot = 2
    Secret = 3
    Alias = 5
    Image <- MCImage
    StackPage = 7
    USER_MMAP_BASE = 2
    USER_MMAP_END = 6
    Lengths = {1, 2}
    Prots <- MCProts
    ArgvUnits = 1
    ElfUnits = 2
    TcbUnits = 1
    StackUnits = 3
    ArgUnits = 1
    VmaUnits = 1
    PMM_LOWMEM_PAGES = 2
    PagesPerBitmapPage = 16
    Levels = 4
    Entries = 2
    KHEAP_VBASE = 8
    HeapMaxPages = 3
    UnitsPerPage = 8
    HEADER = 1
INVARIANTS
    TypeOK
    FramesAccounted
    HeapAccounted
    AddressSpaceConsistent
CHECK_DEADLOCK FALSE
