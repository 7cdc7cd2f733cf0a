SPECIFICATION Spec
CONSTANTS
    None = None
    Key <- ThreeKeys
    Chat = {"a", "b", "c"}
    ChatOf <- ThreeChatOf
    Req <- ThreeReq
    KeyOf <- ThreeKeyOf
    MaxBanks = 3
    RunnerStateSlots = 2
    Priorities <- UrgentC
    ToolChats = {}
    LocalEndpoint = {"ra"}
    Cancellable = {"ra", "rc"}
    MaxOverdue = 0
INVARIANTS
    OwnershipNeverBroken
    SlotsSuffice
    ParkedCanResume
PROPERTIES
    SelectedResponseKeepsGpu
