CONSTANTS
    None = None
    NoExc = NoExc
    NotBDF = NotBDF
    vm1 = vm1
    u1 = u1
    in1 = in1
    con1 = con1
    tap0 = tap0
    macOpt = macOpt
    sda3 = sda3
    mapperSda3 = mapperSda3
    img1 = img1
    img2 = img2
    absImg = absImg
    raw1 = raw1
    Board <- VfBoard
    Scenarios <- VfScenarios
    DefaultVmName = "ACRN Post-Launched VM"
    Scheduler = "SCHED_BVT"
    CpuApic <- MCCpuApic
    IvshmemRegions <- MCIvshmemRegions
    VuartConnections <- MCVuartConnections
    Basename <- MCBasename
    AbsoluteImages = {}

SPECIFICATION Spec

\* generate_for_one_vm returns or raises; the program then stops with this VM.
CHECK_DEADLOCK FALSE

INVARIANTS
    IgdVfForGpuWithoutMemory
