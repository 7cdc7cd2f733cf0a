SPECIFICATION Spec
CONSTANTS
    None = None
    Key <- GenKeys
    Chat = {"a", "b", "c"}
    ChatOf <- GenChatOf
    Req <- GenReq
    KeyOf <- GenKeyOf
    MaxBanks = 2
    RunnerStateSlots = 2
    Priorities <- HeldA
    ToolChats = {"a"}
    LocalEndpoint = {}
    Cancellable = {"ra", "ra2"}
    MaxOverdue = 0
INVARIANTS
    TypeOK
    WorkerNeverRefuses
    BuffersConserved
    HandoverDrained
    BanksAgree
    OneGenerationPerChat
    LiveRequestKeepsBank
PROPERTIES
    BusyBankNeverRetired
