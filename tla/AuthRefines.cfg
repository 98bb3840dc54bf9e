SPECIFICATION FairSpec
CONSTANTS
    n1 = n1
    n2 = n2
    ann = ann
    AnnInCapitals = AnnInCapitals
    bob = bob
    good = good
    wrong = wrong
    short = short
    Conns = {n1, n2}
    Emails = {ann}
    Key <- CaseInsensitive
    Passwords = {good, wrong}
    ShortPasswords = {}
    InitialRows <- NoRows
    InitialMaxId = 65535
    IdModulus = 65536
    NoAccount = NoAccount
    NoJob = NoJob
    MaxBurst = 1
    MaxRequests = 2
    MaxCrashes = 1
PROPERTIES
    ImplementsAccountStore
    RequestsAreAnswered
CHECK_DEADLOCK FALSE
