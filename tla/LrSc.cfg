SPECIFICATION Spec
CONSTANTS
    Harts = {h1, h2}
    Addrs = {x, y}
    Window = 4
INVARIANTS
    WaitsOnlyForEbreak
PROPERTIES
    ScIsAtomic
    ConstrainedScSucceeds
    LockIsReleased
