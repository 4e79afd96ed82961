SPECIFICATION Spec
CONSTANTS
    c1 = c1
    c2 = c2
    mailA = mailA
    mailB = mailB
    Calls <- TwoCalls
    Mails <- TwoMails
    Lease = 1
    MaxIds = 3
    VerdictLost = FALSE
    Budget <- TwinBudget
INVARIANTS NoUnwarnedTwin
CHECK_DEADLOCK FALSE
