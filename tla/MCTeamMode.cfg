SPECIFICATION Spec
CONSTANTS
    Lead = lead
    m1 = m1
    m2 = m2
    s1 = s1
    s2 = s2
    Member = {m1, m2}
    Slot = {s1, s2}
    Fires = 2
    LockTTL = 2
    Rounds = 2
    MaxTime = 4
SYMMETRY Symmetry
CHECK_DEADLOCK FALSE
INVARIANTS TypeOK RoundSettled
PROPERTIES ImplementsPromise
