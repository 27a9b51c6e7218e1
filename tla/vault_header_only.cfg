CONSTANTS
    b1 = b1
    b2 = b2
    Blocks = {b1, b2}
    None = None
    NoSalt = NoSalt
    Junk = Junk
    Procs = {p1}
    Inodes = {i1}
    Salts = {s1}
    Contents <- TwoBlocks
    Kinds = {"encrypt", "decrypt"}
    Faults = {"kill"}
SPECIFICATION Spec
INVARIANT OkMeansSealed
