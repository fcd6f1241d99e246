CONSTANTS
    Ids = {r1, r2}
    Conditions <- Positive
    Points <- MCPoints
    MaxObjects = 3
SYMMETRY Symm
SPECIFICATION Spec
INVARIANTS TypeOK MatchComplete NoGhosts IncrementalIsRebuilt
