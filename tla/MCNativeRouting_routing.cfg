CONSTANTS
    plain = plain
    fable = fable
    opus = opus
    python3 = python3
    python = python
    m1 = m1
    m2 = m2
    t = t
    Proc = {p1, p2}
    Seats = {plain, fable, opus}
    Mode <- MCMode
    Usage <- MCUsage
    Claude <- MCClaude
    Launcher = {python3, python}
    Marked = {m1, m2}
    Text = {t}
    Typed = {t, m2}
    First <- MCFirst
    Faults = {"kill", "silence", "disk"}
    Counts <- MCCounts
SPECIFICATION Spec
SYMMETRY Processes
INVARIANTS
    TypeOK
    PolicyIsNeverRestored
    OriginalsAreSaved
    LayerAndStateAgree
PROPERTIES
    UserTextIsKept
    RepairIsNarrow
    OnlyReinstatedIsRefused
