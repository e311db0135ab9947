\* every command may have ended
CHECK_DEADLOCK FALSE
SPECIFICATION SetupSpec
CONSTANTS
    p1 = p1 p2 = p2 p3 = p3 a1 = a1 a2 = a2 a3 = a3 u1 = u1 None = None Missing = Missing Torn = Torn
    Procs = {p1, p2, p3}
    Apps = {a1, a2, a3}
    Users = {u1}
    MaxPolls = 2
    GivenId <- MCGivenId
    GivenTypes <- MCGivenTypes
    Casts <- MCBinderAlone
    Renamed = {p3}
    Created <- MCCreated
    FilesInit <- MCUnbound
INVARIANT BoundConfigSends
