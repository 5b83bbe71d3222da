\* Two connects that race in randomSessionId: the advertised id may be shared.
CONSTANTS
    c1 = c1
    c2 = c2
    p1 = p1
    p2 = p2
    None = None
    Conns <- MCConns
    Posts <- MCPosts
    Ids <- MCIds
    Overlap = TRUE
SPECIFICATION Spec
INVARIANT AdvertisedIdResolves
