SPECIFICATION KFairSpec
CONSTANTS
    p1 = p1
    p2 = p2
    app = app
    lib = lib
    marker = marker
    Old = Old
    NoFile = NoFile
    Packages = {p1}
    Files <- MCFiles
    OldFiles <- MCOldFiles
    PkgFiles <- MCPkgFiles
    Faults = {"crash"}
    MaxKills = 3
INVARIANT InstallsUnlessKilled
PROPERTY RecoversAndInstalls
