CONSTANTS
    Writers = {w1, w2}
    Keys = {env}
    EnvKey = env
    EOL = EOL
    Cut = Cut
    Unparsable = Unparsable
    Syncs = {s1, s2}
    WriteFaults = {}
    SyncFaults = {"portal", "io", "kill"}
    MaxRecords = 2
    MaxClock = 2
SPECIFICATION FairSpec
INVARIANTS
    TypeOK
    RepeatsOnlyAfterTrouble
    SkipsOnlyOvertaken
PROPERTY SettledIsPushed
