SPECIFICATION Spec
CONSTANTS
    m1 = m1
    m2 = m2
    out = out
    Mails = {m1, m2}
    Subjects = {m1}
    LocalIds = {m1}
    StoredAt <- At
    Outgoing = out
    Ops <- Filing
    Servers <- KnownServers
    Marked = {m2}
    MaxCalls = 2
    MaxFaults = 0

PROPERTIES ActsOnItsMail
CHECK_DEADLOCK FALSE
