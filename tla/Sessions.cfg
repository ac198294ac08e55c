SPECIFICATION FairSpec
CONSTANTS
    Users = {u}
    Sockets = {s}
    Topics = {lab}
    Strategies = {lab}
    NoUser = NoUser
    AccessLife = 1
    RefreshLife = 3
    MaxWait = 1
    MaxTime = 3
    MaxChanges = 1
INVARIANTS TypeOK RoleLag
PROPERTIES GoneIsNoticed
CHECK_DEADLOCK FALSE
