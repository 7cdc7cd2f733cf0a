SPECIFICATION Spec
CONSTANTS
    None = None
    Key <- ThreeKeys
    Chat = {"a", "b", "c"}
    ChatOf <- ThreeChatOf
    Req <- ThreeReq
    KeyOf <- ThreeKeyOf
    MaxBanks = 2
    RunnerStateSlots = 2
    Priorities <- NoPriorities
    ToolChats = {}
    LocalEndpoint = {}
    Cancellable <- ThreeReq
    MaxOverdue = 0
INVARIANTS
    LiveGenerationNeverReplaced
