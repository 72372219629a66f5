SPECIFICATION Spec
CONSTANTS
    Handlers = {accrue, orphan}
    Hooks = {accrue}
    Data = {alice}
    MinDelay = 2
    MaxGap = 2
    MaxNow = 4
    MaxTime = 5
    MaxTasks = 3
    GenesisTasks = 1
INVARIANTS NoTaskLost AtMostOnce NothingOverdue InOrder
PROPERTIES ImplementsTimer EventuallyPerformed
CHECK_DEADLOCK FALSE
