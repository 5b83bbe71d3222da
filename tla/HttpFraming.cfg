\* Three requests back to back, heads on both sides of the limit, bodies that look like heads' ends.
CONSTANTS
    Lines = {1, 7}
    Lengths <- MCLengths
    MaxSent = 3
    Limit = 12
    Chunk = 6
    Wrap = 64
SPECIFICATION FramingSpec
INVARIANT FramingTypeOK
INVARIANT RequestsIntact
INVARIANT RefusedWithCause
PROPERTY ResidueBounded
