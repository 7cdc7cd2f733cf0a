SPECIFICATION FairSpec
CONSTANTS
    None = None
    Key <- PairKeys
    Chat = {"a", "b"}
    ChatOf <- PairChatOf
    Req <- PairReq
    KeyOf <- PairKeyOf
    MaxBanks = 2
    RunnerStateSlots = 2
    Priorities <- PairPriorities
    ToolChats = {"a", "b"}
    LocalEndpoint = {}
    Cancellable = {}
    MaxOverdue = 2
PROPERTIES
    EveryRequestServed
    EveryFinishDelivered
