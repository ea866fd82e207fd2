CONSTANTS
    plain = plain
    fable = fable
    opus = opus
    python3 = python3
    python = python
    m1 = m1
    m2 = m2
    t = t
    Proc = {p1}
    Seats = {plain, fable, opus}
    Mode <- MCMode
    Usage <- MCUsage
    Claude <- MCClaude
    Launcher = {python3, python}
    Marked = {m1, m2}
    Text = {t}
    Typed = {t, m2}
    First <- MCFirst
    Faults = {}
    Counts <- MCCounts
SPECIFICATION Spec
INVARIANT EverySavedStateIsRead
