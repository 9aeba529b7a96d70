CONSTANTS
    Jobs = {j1, j2}
    Tabs = {"tab1"}
    Pages = {"lofi", "video", "fake"}
    UrlOf <- Addresses
    Opened <- OneOpen
    Rules = {"youtube_site"}
    Ports = {17777}
    Tokens = {""}
    IrisPort = 17777
    IrisToken = ""
    DefaultPort = 17777
    NoPort = 0
    NoToken = ""
    None = None
    MaxVisits = 1
    MaxSaves = 1
    MaxStops = 1
SPECIFICATION FairSpec

PROPERTIES FeedSettles
CHECK_DEADLOCK FALSE
