CONSTANTS
    None = None
    NoExc = NoExc
    NotBDF = NotBDF
    vm1 = vm1
    vm2 = vm2
    u1 = u1
    in1 = in1
    con1 = con1
    tap0 = tap0
    macOpt = macOpt
    sda3 = sda3
    mapperSda3 = mapperSda3
    img1 = img1
    img2 = img2
    absImg = absImg
    raw1 = raw1
    Board <- MCBoard
    Scenarios <- MCDriverScenarios
    DefaultVmName = "ACRN Post-Launched VM"
    Scheduler = "SCHED_BVT"
    CpuApic <- MCCpuApic
    IvshmemRegions <- NoIvshmemRegions
    VuartConnections <- NoIvshmemRegions
    Basename <- MCBasename
    AbsoluteImages = {}

    PostVmLists <- NoPostVms
    ServiceVmIds = {None, 0}
    UserVmIds = {0}
    OutDirs = {"absent", "dir"}

SPECIFICATION DriverSpec

\* main returns or the process ends with an exception.
CHECK_DEADLOCK FALSE

INVARIANT NoPostVmsNeedNoServiceVm
