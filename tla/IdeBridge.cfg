CONSTANTS
    Files = {"main.py", ".env"}
    Secret = {".env"}
    Languages = {"python", "properties"}
    LanguageOf <- LanguageOfFile
    None = None
    MaxEvents = 2
    MaxMoves = 3
    MaxCommands = 2
    MaxLost = 1
SPECIFICATION Spec
INVARIANTS TypeOK StateCaughtUp ContextCaughtUp PageFollows AtMostOnce
PROPERTIES ImplementsMirror
CHECK_DEADLOCK FALSE
