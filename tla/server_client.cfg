SPECIFICATION Spec
CONSTANTS
    H1 = H1
    H2 = H2
    Host = {H1, H2}
    BadHost = BadHost
    NoHost = NoHost
    Locator = H1
    Call = {c1, c2}
    Announcement <- MCAnnouncement
    MaxMessages = 3
INVARIANTS
    WaitIsTimed
    RejectedLeavesNoSocket
    PricesInOrder
PROPERTIES
    ConsiderGoesToSenderServer
    ForSettles
CHECK_DEADLOCK FALSE
