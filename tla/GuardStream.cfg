\* A guarded stream with a refresh, with and without a budget, everything late or in time.
CONSTANTS
    Kind = "oauth"
    Idle = 4
    Budgets = {0,6}
    MaxCalls = 2
SPECIFICATION FairSpec
INVARIANT NoStallIsMissed
PROPERTIES GuardIsPatient OneCause NotKilledMidFlight EveryGenerationEnds
