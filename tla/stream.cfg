CONSTANTS
    a = a
    b = b
    Values = {a, b}
    Contents <- EmptyOrOneBlock
    Edits <- BlockAndAHalf
    BUFFER_SIZE = 2
    Passes = 3
    Tag = Tag
    Junk = Junk
    Gone = Gone
    MaxRuns = 2
    Hazards = {"short", "power", "cut", "save"}
SPECIFICATION Spec
INVARIANTS
    TypeOK
    OpenedIsWhole
    FullReadsSealWhole
    RecordNamesSealed
    EveryPassReachesDisk
PROPERTIES
    WholeVaultsOpen
    OnlyTheseLoseData
