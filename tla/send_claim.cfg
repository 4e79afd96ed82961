SPECIFICATION FairSpec
CONSTANTS
    c1 = c1
    c2 = c2
    mailA = mailA
    mailB = mailB
    Calls <- TwoCalls
    Mails <- TwoMails
    Lease = 1
    MaxIds = 2
    VerdictLost = TRUE
    Budget <- ClaimBudget
INVARIANTS TypeOK OneCopyPerClaim SentMeansTaken
PROPERTIES FirstResultStays RetrySettles ImplementsOutbox
CHECK_DEADLOCK FALSE
