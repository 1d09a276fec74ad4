\* Two requests; a login and a reload come in between, one reply or save is lost.
CONSTANTS
    Workers = {w1, w2}
    w1 = w1  w2 = w2
    Managers = 2
    MaxGrant = 2
    MaxIssue = 1
    MaxLoss = 1
    None = None
SPECIFICATION FairSpec
INVARIANTS TypeOK CredentialSurvives DeadIsNotPosted
PROPERTY EveryRequestEnds
