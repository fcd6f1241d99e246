CONSTANTS
    Workers = {w1, w2, w3}
    Window = 2
    MaxPoints = 5
    Numeric = {3, 4, 5}
    Garbage = Garbage
SPECIFICATION Spec
INVARIANTS TypeOK BufferBound  ResultIsWindow
CHECK_DEADLOCK FALSE
