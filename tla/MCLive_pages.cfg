\* Two navigations of a screen whose loop slept during the first.
SPECIFICATION Spec
CONSTANTS
    outer = outer  inner = inner  home = home  sibling = sibling  other = other
    l1 = l1  l2 = l2  l3 = l3  r1 = r1  r2 = r2  r3 = r3
    Boundaries = {outer}
    Outer <- Flat
    Pages = {home, sibling, other}
    FirstPage = home
    Home <- Layouts
    None = None
    Loops = {l1, l2, l3}
    Responses = {r1, r2, r3}
    MaxResponses = 2
    MaxChanges = 0
    MaxNavigations = 2
    MaxRestarts = 0
    MaxFaults = 1
CHECK_DEADLOCK FALSE
INVARIANTS
    OldPageStaysOut
