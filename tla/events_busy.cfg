SPECIFICATION Spec
CONSTANTS
    c1 = c1
    c2 = c2
    c3 = c3
    Containers = {c1, c2}
    Handlers = {h1, h2}
    NoEvent = NoEvent
    Events <- Undisciplined
    MayFail = {}
    MaxErrors = 0
    MaxExits = 0
INVARIANT EventsExclusive
