SPECIFICATION Spec
CONSTANTS
    h1 = h1
    h2 = h2
    h3 = h3

    Call = {h1, h2, h3}
    Cleaner = {}
    TTL = 5
    MaxAge = 60
    Kinds = {"content"}
    MaxTime = 1
SYMMETRY Symmetry
INVARIANT Exclusive
