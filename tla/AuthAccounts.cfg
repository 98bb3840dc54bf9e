SPECIFICATION Spec
CONSTANTS
    n1 = n1
    n2 = n2
    ann = ann
    AnnInCapitals = AnnInCapitals
    bob = bob
    good = good
    wrong = wrong
    short = short
    Conns = {n1, n2}
    Emails = {ann, AnnInCapitals, bob}
    Key <- CaseInsensitive
    Passwords = {good, short}
    ShortPasswords = {short}
    InitialRows <- BobLast
    InitialMaxId = 65533
    IdModulus = 65536
    NoAccount = NoAccount
    NoJob = NoJob
    MaxBurst = 2
    MaxRequests = 2
    MaxCrashes = 1
INVARIANTS
    TypeOK
    EmailsUnique
    UserRowsExist
    UserIdsUnique
    ReportedIdsAreStored
    
CHECK_DEADLOCK FALSE
