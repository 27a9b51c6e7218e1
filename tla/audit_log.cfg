CONSTANTS
    Writers = {w1, w2}
    Keys <- AllKeys
    EnvKey <- GoodKey
    EOL = EOL
    Cut = Cut
    WriteFaults = {"io", "kill"}
    MaxRecords = 2
    MaxClock = 4
    Readers = {r1}
    EnvTexts <- Texts
    NotHex = NotHex
    Unset = Unset
    KeyBytes = 2
    NoKey = NoKey
    VaultKeys <- OneVaultKey
    Names = {n1, n2}
    DevMode = TRUE
    Day = 2
    Limit = 1
CHECK_DEADLOCK FALSE
SPECIFICATION ReadersSpec
SYMMETRY Symmetry
INVARIANTS
    ReadersTypeOK
    LossIsBounded
    TodayIsToday
    RecentAreNewest
    ListsAddUp
PROPERTY SettledStays
