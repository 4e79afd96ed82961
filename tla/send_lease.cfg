SPECIFICATION Spec
CONSTANTS
    c1 = c1
    c2 = c2
    mailA = mailA
    mailB = mailB
    Calls <- TwoCalls
    Mails <- OneMail
    Lease = 1
    MaxIds = 1
    VerdictLost = FALSE
    Budget <- LostBudget
INVARIANTS OneDelivery
CHECK_DEADLOCK FALSE
