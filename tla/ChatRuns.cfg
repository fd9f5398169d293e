\* Two overlapping turns of one chat under both policies that let a call through.
SPECIFICATION FairSpec
CONSTANTS
    Chats = {c1}
    Runs = {r1, r2}
    Rights <- Letting
    Answers = {"yes", "no"}
    MaxCalls = 1
    NoRun = NoRun
    NoGate = NoGate
    NoChat = NoChat
INVARIANTS
    NoMessageUnheard
    OnlyApprovedCallsRun
PROPERTIES
    ImplementsConversation
    StoppedRunsEnd
\* The server may be quiet: every message the instance has was posted.
CHECK_DEADLOCK FALSE
