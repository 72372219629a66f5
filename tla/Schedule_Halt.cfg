SPECIFICATION Spec
CONSTANTS
    Handlers = {accrue, orphan}
    Hooks = {accrue}
    Data = {alice}
    MinDelay = 1
    MaxGap = 2
    MaxNow = 4
    MaxTime = 5
    MaxTasks = 3
    GenesisTasks = 1
INVARIANT NoTaskLost
CHECK_DEADLOCK FALSE
