CONSTANTS
    t1 = t1
    t2 = t2
    c1 = c1
    c2 = c2
    Tokens = {t1, t2}
    Clients = {c1, c2}
    NoToken = NoToken
    MaxAge = 2
    MaxStall = 2
    MaxCrashes = 1
SPECIFICATION FairSpec
INVARIANTS TypeOK StreamedOnce OfferedIsWhole
PROPERTIES NoFileForEver
