SPECIFICATION Spec
CONSTANTS
    h1 = h1
    h2 = h2
    h3 = h3
    k1 = k1
    Call = {h1, h2, h3}
    Cleaner = {k1}
    TTL = 2
    MaxAge = 3
    Kinds = {"event", "content"}
    MaxTime = 5
SYMMETRY Symmetry
INVARIANTS TypeOK RefusedHasWinner DuplicateHasWinner ExclusiveUntilTakeover
PROPERTY FirstBurstExclusive
