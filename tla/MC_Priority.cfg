SPECIFICATION Spec
CONSTANTS
    None = None
    Chat = {"a", "b"}
    Client = {"w1", "w2", "w3"}
    ChatOf <- TwoChats
    RegistryLimit = 1
    Bounds <- OneOrTwoWindows
INVARIANTS
    ReleasedStaysReleased
    ConfirmedInForce
PROPERTIES
    ReservationsEnd
CHECK_DEADLOCK FALSE
