SPECIFICATION Spec
CONSTANTS
    b1 = b1
    b2 = b2
    b3 = b3
    tool = tool
    r1 = r1
    r2 = r2
    q1 = q1
    q2 = q2
    m1 = m1
    Backends = {b1, b2, b3}
    Tools = {tool}
    Ports = {q1, q2}
    Mails = {m1}
    Stores <- FreshOnly
    Restarts = {r1}
    MaxLaunches = 2
    MaxEvents = 2
INVARIANT OwnStoreIsServed
CHECK_DEADLOCK FALSE
