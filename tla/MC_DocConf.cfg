CONSTANTS
    None = None
    NoExc = NoExc
    Missing = Missing
    VersionFiles <- MCVersionFiles
    ReleaseEnvs <- MCReleaseEnvs
    RtdInstalled = {TRUE, FALSE}

SPECIFICATION ConfSpec

INVARIANTS
    ConfTypeOK
    VersionFromVersionFile

CHECK_DEADLOCK FALSE
