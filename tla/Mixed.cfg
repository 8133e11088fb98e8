SPECIFICATION Spec
CONSTANTS
    p1 = p1
    p2 = p2
    app = app
    lib = lib
    marker = marker
    Old = Old
    NoFile = NoFile
    Packages = {p1, p2}
    Files <- MCFiles
    OldFiles <- MCOldFiles
    PkgFiles <- MCPkgFiles
    Faults <- AllButRemove
INVARIANTS TypeOK NoMixedInstall CleanExit
