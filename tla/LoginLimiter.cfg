\* Two addresses, three threads: more attempts at once than the limit allows.
SPECIFICATION Spec
CONSTANTS
    Clients = {c1, c2}
    Threads = {t1, t2, t3}
    Limit = 2
    Window = 2
    MaxWait = 1
SYMMETRY Symmetry
INVARIANTS
    GuessesBounded
PROPERTIES
    DenialsJustified
