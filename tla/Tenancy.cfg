\* Three days, three rows and archives of three: contracts that touch, nest and follow
\* each other.
SPECIFICATION Spec
CONSTANTS
    Tenants = {t1, t2, t3}
    Names = {ann, bob}
    Days = {1, 2, 3}
    Open = Open
    MaxArchive = 3
SYMMETRY Symmetry
INVARIANTS
    ContractsDisjoint
PROPERTIES
    RestoreSettles
