SPECIFICATION Spec
CONSTANTS
    Versions <- MCVersions
    Bad <- MCBad
    WithExtension <- MCWithExtension
    Ports = {p1}
    SessionsInside = TRUE
    MaxEvents = 2
    MaxBackups = 1
    MaxGen = 2
    None = None
INVARIANTS  ExactlyOneReset 
 
