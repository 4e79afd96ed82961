SPECIFICATION Spec
CONSTANTS
    b1 = b1
    b2 = b2
    b3 = b3
    tool = tool
    r1 = r1
    r2 = r2
    q1 = q1
    q2 = q2
    m1 = m1
    Backends = {b1, b2, b3}
    Tools = {}
    Ports = {q1, q2}
    Mails = {m1}
    Stores <- FreshOnly
    Restarts = {r1, r2}
    MaxLaunches = 2
    MaxEvents = 2
PROPERTY RestartsReport
CHECK_DEADLOCK FALSE
