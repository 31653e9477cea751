SPECIFICATION FairSpec
CONSTANTS
    w1 = w1  w2 = w2  t1 = t1  t2 = t2
    f1 = f1  f2 = f2  f3 = f3  n1 = n1  n2 = n2
    Nobody = Nobody  NoName = NoName
    Workers = {w1}
    Tenants = {t1, t2}
    Files = {f1, f2, f3}
    Owner <- MCOwner
    Names = {n1}
    MaxId = 2
    Faults = {"save", "commit", "import"}
INVARIANTS
    StartupRecoverySucceeds
    OnlyOwnFiles
PROPERTIES
    ComesBackUp
    LockReleased
    DeletedFilesErased
