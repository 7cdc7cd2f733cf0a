SPECIFICATION FairSpec
CONSTANTS
    PoolSize = 6
    PromptEnd <- Prompts
    End <- Responses
    Continues = {2, 5}
    Unresolved = {2}
    Cancellable = {2, 3}
    MaxResets = 1
CHECK_DEADLOCK FALSE
INVARIANTS
    RefsAccounted
    DataExact
PROPERTIES
    EveryTurnEnds
