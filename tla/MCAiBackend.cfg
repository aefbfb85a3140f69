SPECIFICATION ChatFairSpec
CONSTANTS
    Tasks = {1, 2, 3}
    Models = {"fast", "big"}
    Bounds <- MCBounds
    ChatBounds <- MCChatBounds
INVARIANTS
    ChatTypeOK
    ServersAreHeld
    ServesTheModel
    ChatsStayWithTheirCards
PROPERTIES
    StartingEnds
    CardsSettle
CHECK_DEADLOCK FALSE
