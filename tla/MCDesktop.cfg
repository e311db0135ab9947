SPECIFICATION DesktopSpec
CONSTANTS
    h1 = h1 d1 = d1 d2 = d2 None = None
    Hooks = {h1}
    Daemons = {d1, d2}
    Early = {d1}
    MaxPolls = 1
    MaxKills = 1
INVARIANTS DesktopTypeOK NeverSilent TwiceOnlyIfLost ClosedOnce ClickHandled
PROPERTIES HooksEnd DaemonsEnd
