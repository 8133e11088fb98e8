SPECIFICATION Spec
CONSTANTS
    p1 = p1
    app = app
    Old = Old
    NoFile = NoFile
    Packages = {p1}
    Files = {app}
    OldFiles = {app}
    PkgFiles <- MCPkgFiles
    Faults = {}
INVARIANT AlwaysACopy
