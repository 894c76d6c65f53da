SPECIFICATION FairSpec
CONSTANTS
    dashboard = dashboard
    watcher = watcher
    Clients = {dashboard, watcher}
    StoreSize = 3
    ReplayLimit = 2
    ViewSize = 3
    MaxEvents = 4
    MaxConnects = 3
INVARIANTS
    TypeOK
    SettledView
PROPERTY QueueDrains
CHECK_DEADLOCK FALSE
