\* Two connections with distinct ids, two posts, fair threads.
CONSTANTS
    c1 = c1
    c2 = c2
    p1 = p1
    p2 = p2
    None = None
    Conns <- MCConns
    Posts <- MCPosts
    Ids <- MCIds
    Overlap = FALSE
SPECIFICATION FairSpec
INVARIANT NoSessionLeak
INVARIANT NoLostWakeup
INVARIANT AdvertisedIdResolves
INVARIANT OwnStreamOnly
PROPERTY ImplementsChannel
PROPERTY AcceptedIsSent
PROPERTY DeadPeerReclaimed
