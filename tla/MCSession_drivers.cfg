CONSTANTS
    PythonClients = {"p"}
    JSClients = {"j"}
    SendBuffer <- Room
    MaxCommands = 2
    MaxConns = 2
SPECIFICATION FairSpec
INVARIANTS
    AnswersMatch
    LostIsNotExecuted
PROPERTIES
    CallsReturn
    LockIsReleased
CHECK_DEADLOCK FALSE
