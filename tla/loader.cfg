SPECIFICATION Spec
CONSTANTS
    Cpus = {0, 1, 2}
    Bsp = 0
    NoCpu = NoCpu
    Instances <- MCInstances
    OldRoot = 2
    Secret = 3
    Alias = 5
    MODULE_VBASE = 12
    ModulePages = 4
    MODULE_REGISTRY_CAPACITY = 3
    MODULE_MAX_BSS_SECTIONS = 1
    ExecImage <- MCExecImage
    ElfUnits = 3
    TcbUnits = 2
    StackUnits = 3
    ArgvUnits = 1
    NameUnits = 1
    TestUnits = 1
    PMM_LOWMEM_PAGES = 2
    PagesPerBitmapPage = 16
    Levels = 4
    Entries = 2
    KHEAP_VBASE = 8
    HeapMaxPages = 4
    UnitsPerPage = 8
    HEADER = 1
INVARIANTS
    TypeOK
    ModulesIntact
    RegistryConsistent
    LoaderMemoryAccounted
