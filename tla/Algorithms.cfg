\* Every algorithm, its bounds and boundaries.
CONSTANTS
    ByteBits = 2
    LimbBytes = 2
    MinPad = 1
    DigestInfo <- MCDigestInfo
    BlockSize = 8
    LengthSize = 2
    DigestSize = 4
    Values <- MCValues
    Depth <- MCDepth
    Jobs <- MCJobs
SPECIFICATION Spec
INVARIANT BigAgrees
INVARIANT SignatureExact
INVARIANT SpkiRoundTrips
INVARIANT DigestWhole
INVARIANT Base64RoundTrips
INVARIANT JsonRoundTrips
INVARIANT ShellWordIsText
