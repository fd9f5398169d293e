\* Two streams, a turn of three events and a DELETE at any point; or two chats and two
\* runs in the terminal, each run with one question, one of them with an event.
SPECIFICATION WatchSpec
CONSTANTS
    Streams = {s1, s2}
    Frames = 3
    Buffer = 2
    NoRoom = NoRoom
    Talks = {c1, c2}
    Turns = {r1, r2}
    Policies = {"approve", "full"}
    Questions = 1
    Events = 1
    NoTurn = NoTurn
    NoTalk = NoTalk
SYMMETRY TerminalSymmetry
INVARIANTS
    NothingMissed
    QuestionsReachTheUser
    RightsWithinCeiling
    ScreenTellsTheChat
PROPERTIES
    DeletedStreamsEnd
\* Everybody may be done.
CHECK_DEADLOCK FALSE
