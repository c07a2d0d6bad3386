SPECIFICATION FairSpec
CONSTANTS
    c1 = c1
    c2 = c2
    c3 = c3
    Containers = {c1, c2, c3}
    Handlers = {h1, h2}
    NoEvent = NoEvent
    Events <- Larger
    MayFail = {"thaw", "kill", "delete", "paths", "config", "start", "net", "freeze", "scale", "conf", "code"}
    MaxErrors = 1
    MaxExits = 1
INVARIANT LiveIsEquipped
PROPERTY ImplementsMutex
PROPERTY WarmUpUndisturbed
PROPERTY HandlersReturn
