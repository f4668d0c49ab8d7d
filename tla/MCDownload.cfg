CONSTANTS
    Blocks <- MCBlocks
    Archives <- MCArchives
    Vendors <- MCVendors
    Cap <- MCCap
SPECIFICATION FairDownloads
INVARIANTS VerifiedOnly
PROPERTIES RetriesSucceed
