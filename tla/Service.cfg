\* Every command line of MCService, one request, a clock of three values.
CONSTANTS
    c1 = c1
    Conns = {c1}
    Tools = {"tap"}
    KeyTexts <- MCKeyTexts
    Bodies <- MCBodies
    Paths <- MCPaths
    Jwts <- MCJwts
    CommandLines <- MCCommandLines
    Environments <- MCEnvironments
    Inputs <- MCInputs
    Credentials <- MCCredentials
    Messages <- MCMessages
    MaxTime = 2
SPECIFICATION Spec
INVARIANT AuthNotLost
INVARIANT ValidAtSomeMoment
 
