CONSTANTS
    p1 = p1
    p2 = p2
    h1 = h1
    h2 = h2
    h3 = h3
    local = local
    bin = bin
    usr = usr
    Procs = {p1, p2}
    Hosts = {h1, h2, h3}
    None = None
    Old = Old
    GitHub = GitHub
    Cellar = Cellar
    Local = local
    HomeDirs = {local, bin}
    SysDirs = {usr}
    OtherOps <- InstallOps
    OtherPlaces <- InstallPlaces
    MaxFaults = 1
    MaxCrashes = 1
    MaxUser = 1
SPECIFICATION MCSpec
INVARIANTS BystandersKept
PROPERTIES DoesWhatItSays WrapperWorks UninstallUndoes UserFilesStay
CHECK_DEADLOCK FALSE
