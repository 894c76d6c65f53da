SPECIFICATION FairSpec
CONSTANTS
    r1 = r1
    r2 = r2
    job = job
    script = script
    poller = poller
    Requests = {r1}
    Job = job
    Script = script
    Poller = poller
    KeepLast = 2
    MaxChanges = 1
    MaxFaults = 2
INVARIANTS
    TypeOK
    BackupsInOrder
    GoodBackupSurvives
    AnswerIsCurrent
    CleanIsTrue
PROPERTIES
    BackupCatchesUp
