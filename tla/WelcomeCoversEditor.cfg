CONSTANTS
    Files = {"main.py", ".env"}
    Secret = {".env"}
    Languages = {"python", "properties"}
    LanguageOf <- LanguageOfFile
    None = None
    MaxEvents = 2
    MaxMoves = 3
    MaxCommands = 0
    MaxLost = 0
SPECIFICATION Spec
INVARIANTS WelcomeCoversNoEditor
CHECK_DEADLOCK FALSE
