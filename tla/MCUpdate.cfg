CONSTANTS
    Loopback = {"localhost"}
    Own <- Site
    MaxRedirects = 1
    Attempts = 2
    NoReply = NoReply
    Releases = {1, 2}
    NTools = 2
    Pinned <- MCPinned
    Overrides <- MCOverrides
    Pubkeys <- MCPubkeys
    Locations <- MCLocations
    SumsFiles <- MCSumsFiles
    SigFiles <- MCSigFiles
    Bundles <- MCBundles
    MaxUnpacked = 4
    MaxFiles = 3
    None = None
SPECIFICATION FairSpec
INVARIANTS RequestsStayOnSide ShimsAgree
PROPERTIES InstalledIsSigned NoDowngrade EveryCommandEnds
