SPECIFICATION LibrarySpec
CONSTANTS
    None = None
    Pages <- MCPages
    Extensions <- MCExtensions
    BufCap = 2
    LineCap = 3
    MaxFetch = 3
    MaxAhead = 1
    NoteTags = {"a", "b"}
    Dangerous = {"script", "img"}
    MaxDepth = 2
    MaxOut = 6
    MaxTokens = 4
    Attributes <- MCReadable
    MaxAttrs = 3
    HrefCap = 5
    Leaves <- MCLeaves
    Layouts <- MCLayouts
    FileTries = 2
    TreeTries = 2
    TreeFaults = {"open", "write", "scan", "flush", "remove"}
    Callers = {c1, c2}
    Lingers = FALSE
    Members <- MCMembers
    MaxMembers = 4
    Locals = {"1.1.3", "2"}
    Numbers <- MCNumbers
    Overlong = {"long"}
    UintValues = 4
    Pieces <- MCPieces
    Installs <- MCInstalls
    Entries <- MCEntries
    MaxEntries = 2
    MaxCalls = 2
    FileSeps = {"/"}
    MaxValue = 3
    MaxRaw = 4
    Caps = {1, 3, 4}
    Limits = {0, 2, 4}
    MaxPlain = 4
    FirstCap = 2
    Totals = {1, 2, 5, 6, 7, 9, 12}
INVARIANTS
    HttpTypeOK InSync NoPartLeft FetchBounded
    ShownBalanced CleanUnchanged TextKept
    FirstSafe
    NoTornFile CopyResult
    SpawnTruth
    ReadsMembers OffersNewer
    NoPartialFile WholeArchive
    RoundTrip SecondPassFits
    BufferFits
PROPERTIES
    ImplementsTransfer CallReturns
    AnchorEnds
    OnlyNamed UpdaterSpared
    SpawnReturned
    StaysInside
CHECK_DEADLOCK FALSE
