CONSTANTS
    p1 = p1
    p2 = p2
    p3 = p3
    a = a
    b = b
    c = c
    d = d
    Procs = {p1, p2, p3}
    Checksums = {a, b, c, d}
    Catalog <- MCCatalog
    Free = Free
    Orphan = Orphan
    MaxFaults = 3
SPECIFICATION MCSpec
INVARIANTS
    MigrateIsSound
PROPERTIES
    OnlyForward
    MigrationCompletes
