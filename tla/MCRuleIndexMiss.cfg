CONSTANTS
    Ids = {r1, r2}
    Conditions <- Negative
    Points <- MCPoints
    MaxObjects = 3
SYMMETRY Symm
SPECIFICATION Spec
INVARIANT MatchComplete
