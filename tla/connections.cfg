SPECIFICATION Spec
CONSTANTS
    Keys = 2
    Outputs = 2
    Failures = 2
    Blocks = 5
    Width = 4
    MaxRetries = 1
    Faults = 2
    Requests = 2
    Texts = 1
    Options = {"NAWS", "TTYPE"}
    Resizes = 1
    TextBytes = {"SE", "IAC"}
    Clients = {c1}
    Units = 2
    Window = 1
INVARIANTS
    TerminalText
    CorrectTransfer
    TextIntact
    RelayInOrder
PROPERTIES
    WantedRetry
    Progress
CHECK_DEADLOCK FALSE
