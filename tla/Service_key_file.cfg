\* A key file named on the command line, which auth.hpp:16 says is read.
CONSTANTS
    c1 = c1
    Conns = {c1}
    Tools = {"tap"}
    KeyTexts <- MCKeyTexts
    Bodies <- MCBodies
    Paths <- MCPaths
    Jwts <- MCJwts
    CommandLines <- MCCommandLines
    Environments <- MCEnvironments
    Inputs <- MCInputs
    Credentials <- MCCredentials
    Messages <- MCMessages
    MaxTime = 2
SPECIFICATION Spec
PROPERTY KeyFileLoads
