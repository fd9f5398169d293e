\* One turn that tries two mutating calls; the user answers "quit".
SPECIFICATION Spec
CONSTANTS
    Chats = {c1}
    Runs = {r1}
    Rights = {"approve"}
    Answers = {"quit"}
    MaxCalls = 2
    NoRun = NoRun
    NoGate = NoGate
    NoChat = NoChat
PROPERTIES
    QuitEndsRun
CHECK_DEADLOCK FALSE
