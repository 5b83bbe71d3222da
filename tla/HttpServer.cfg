\* One connection, pipelined requests, a stop and a restart at any moment.
CONSTANTS
    Conns = {c1}
    MaxRequests = 3
    MaxPipelined = 2
    MaxStarts = 2
SPECIFICATION FairSpec
INVARIANT TypeOK
INVARIANT StopIsComplete
INVARIANT NothingSwallowed
INVARIANT OneMoreAfterStop
PROPERTY StopReturns
PROPERTY ConnectionsEnd
