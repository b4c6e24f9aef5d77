SPECIFICATION Spec
CONSTANTS
    outer = outer  inner = inner  home = home  sibling = sibling  other = other
    l1 = l1  l2 = l2  l3 = l3  r1 = r1  r2 = r2  r3 = r3
    Boundaries = {outer, inner}
    Outer <- Nested
    Pages = {home, sibling, other}
    FirstPage = home
    Home <- Layouts
    None = None
    Loops = {l1}
    Responses = {r1}
    MaxResponses = 1
    MaxChanges = 1
    MaxNavigations = 0
    MaxRestarts = 0
    MaxFaults = 0
CHECK_DEADLOCK FALSE
INVARIANTS
    SuppressionSound
