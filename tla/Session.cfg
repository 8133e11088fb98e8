SPECIFICATION Spec
CONSTANTS
    pinned = pinned
    unpinned = unpinned
    good = good
    other = other
    None = None
    Threads = {t1, t2}
    Apps = {pinned, unpinned}
    Contents = {good, other}
    Pin <- MCPin
    Verifiers = {v}
    Approves <- MCApproves
    Workdirs = {w1, w2}
    Dests = {d}
    Habits = {}
INVARIANTS TypeOK PackageKept ApprovedFirst NothingLeft
PROPERTY PinHolds
CHECK_DEADLOCK FALSE
