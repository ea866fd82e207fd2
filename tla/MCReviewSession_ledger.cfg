CONSTANTS
    Session = {s1, s2}
    Scope = {w1, w2}
    Finding = {f1, f2, f3}
    Size = {4, 6}
    MaxRaise = 1
    MaxIssued = 4
    MaxSessions = 1
    MaxRounds = 4
    MaxAttempts = 4
    MaxFindingIds = 2
    MaxInput = 16
    ScopeLength = 10
    EntryLength = 2
SPECIFICATION Spec
CHECK_DEADLOCK FALSE
INVARIANTS
    NeverStuck
