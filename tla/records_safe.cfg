SPECIFICATION Spec
CONSTANTS
    Chats = {c1, c2}
    Past = Past
    NoChat = NoChat
    Tuner = Tuner
    KeepRecent = 2
    KeepTight = 1
    Trigger = 4
    KeepTurns = 4
    MaxCalls = 1
    MaxEvents = 2
SYMMETRY Symmetry
INVARIANTS
    TypeOK
    TurnsFollowRows
    UndisturbedIsSaved
    BasesHold
    MemoryIsOfRecord
    ViewsAreSendable
    ViewsAreHonest
CHECK_DEADLOCK FALSE
