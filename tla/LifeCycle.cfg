SPECIFICATION Spec
CONSTANTS
    Host = {h1, h2}
    Dev = {d1, d2}
    Portal = {t1, t2}
    PortalFile = {f1, f2}
    Adm = {a1}
    None = None
    MaxMajors = 2
    MaxIndexes = 3
    Servers <- MCServers
    TextOf <- MCTextOf
    Faults = {"alloc", "conns", "queues", "mq", "disk"}
INVARIANTS
    IniMatches
    
    
    
PROPERTY TriggerStarts
