\* Any command: it may fill, close or bequeath its pipes, exit or be killed.
CONSTANTS
    Capacity = 2
    MaxInterrupts = 1
SPECIFICATION FairSpec
INVARIANT OutputComplete
INVARIANT NothingLeft
PROPERTY ImplementsExecutor
PROPERTY NoPipeDeadlock
PROPERTY ReturnsWhenOver
PROPERTY ReturnsUnlessDetached
