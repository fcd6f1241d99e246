CONSTANTS
    Adapters = {a1}
    Sinks = {console, mqtt}
    Ungated = {console}
    ChanCap = 1
    BatchSize = 2
    InboxCap = 1
    NotANumber = {2}
    MaxPoints = 3
SPECIFICATION Spec
INVARIANTS TypeOK NothingLostInOrder LossBound SinksInStep EngineAccounted
PROPERTIES EveryPointPublished Terminates
CHECK_DEADLOCK FALSE
