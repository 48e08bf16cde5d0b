SPECIFICATION LoopSpec
CONSTANTS
    Harts = {h1, h2}
    Addrs = {x, y}
    Window = 17
    Recomputes = TRUE
PROPERTIES
    ForwardProgress
