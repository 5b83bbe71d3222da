\* A command that closes its pipes and goes on: the deadline is not enforced.
CONSTANTS
    Capacity = 1
    MaxInterrupts = 0
SPECIFICATION FairSpec
PROPERTY ReturnsOnTime
