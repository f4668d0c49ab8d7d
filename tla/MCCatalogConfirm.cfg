CONSTANTS
    Procs = {p1, p2}
    Nobody = Nobody
    MaxGen = 1
    MaxTime = 1
    TTL = 1
SPECIFICATION FairSpec
PROPERTIES ConfirmedIsFresh
