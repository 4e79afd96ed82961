SPECIFICATION Spec
CONSTANTS
    m1 = m1
    m2 = m2
    out = out
    Mails = {m1, m2}
    Subjects = {m1}
    LocalIds = {}
    StoredAt <- At
    Outgoing = out
    Ops <- Operations
    Servers <- SomeServers
    Marked = {m2}
    MaxCalls = 2
    MaxFaults = 1
INVARIANTS NothingIsLost DoneIsDone ServesItsMail
PROPERTIES ActsOnItsMail CallsEnd
CHECK_DEADLOCK FALSE
