CONSTANTS
    b1 = b1
    b2 = b2
    Blocks = {b1, b2}
    None = None
    NoSalt = NoSalt
    Junk = Junk
    Procs = {p1, p2}
    Inodes = {i1, i2}
    Salts = {s1, s2, s3}
    Contents <- TwoBlocks
    Kinds = {"encrypt", "shred", "decrypt"}
    Faults = {"io", "kill", "rot"}
SPECIFICATION Spec
SYMMETRY Symmetry
INVARIANTS
    TypeOK
    OpenedIsSealed
