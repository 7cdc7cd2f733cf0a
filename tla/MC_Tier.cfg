SPECIFICATION FairSpec
CONSTANTS
    None = None
    Chat = {"a", "b"}
    Gen = {"a1", "a2", "b1"}
    GenChat <- ChatOfGen
    GenOf <- TwoTurns
    Rewriting = {2}
    DueReq = {3}
    Troubled = {2}
    AskingChats = {"a"}
    MaxTailChats = 1
CHECK_DEADLOCK FALSE
INVARIANTS
    HeadOnDisk
    TailRestorable
PROPERTIES
    HeadNeverRegresses
    FlushAnswerTrue
    EveryFlushAnswered
    EveryDueTailFlushed
