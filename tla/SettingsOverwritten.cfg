CONSTANTS
    Jobs = {j1, j2}
    Tabs = {"tab1", "tab2"}
    Pages = {"lofi", "login"}
    UrlOf <- Addresses
    Opened <- OneOpen
    Rules = {"youtube_site"}
    Ports = {17777}
    Tokens = {""}
    IrisPort = 17777
    IrisToken = ""
    DefaultPort = 17777
    NoPort = 0
    NoToken = ""
    None = None
    MaxVisits = 1
    MaxSaves = 1
    MaxStops = 0
SPECIFICATION Spec
INVARIANTS SavedSettingsHold
SYMMETRY Symmetry
CHECK_DEADLOCK FALSE
