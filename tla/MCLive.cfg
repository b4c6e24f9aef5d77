\* One region, through navigation, restart, loss and reconnection.
SPECIFICATION Spec
CONSTANTS
    outer = outer  inner = inner  home = home  sibling = sibling  other = other
    l1 = l1  l2 = l2  l3 = l3  r1 = r1  r2 = r2  r3 = r3
    Boundaries = {outer}
    Outer <- Flat
    Pages = {home, sibling, other}
    FirstPage = home
    Home <- Layouts
    None = None
    Loops = {l1, l2}
    Responses = {r1, r2}
    MaxResponses = 1
    MaxChanges = 2
    MaxNavigations = 1
    MaxRestarts = 1
    MaxFaults = 1
CHECK_DEADLOCK FALSE
INVARIANTS
    TypeOK
    SuppressionSound
    OldPageStaysOut
PROPERTIES
    ScreenConverges
