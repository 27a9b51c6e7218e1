CONSTANTS
    b1 = b1
    b2 = b2
    Blocks = {b1, b2}
    None = None
    NoSalt = NoSalt
    Junk = Junk
    Missing = Missing
    Damaged = Damaged
    Procs = {p1, p2}
    Inodes = {i1, i2}
    Salts = {s1, s2, s3}
    Contents <- EmptyAndTwo
    Kinds = {"encrypt", "shred", "decrypt"}
    Faults = {}
SPECIFICATION SharedSpec
INVARIANTS
    SealedIsSource
    FlushedVaultIsComplete
PROPERTIES
    CallsAreAtomic
    EveryCallReturns
