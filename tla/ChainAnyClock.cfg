CONSTANTS
    alice = alice
    bob = bob
    Accounts = {alice, bob}
    Coinbase = none
    NoSig = NoSig
    NoBlock = NoBlock
    MaxInt64 = 31
    LeadingZeros <- MCLeadingZeros
    GenesisTimestamp = 1
    Configs <- MCTwoRewards
    Nonces = {0, 2}
    TicksPerSecond = 1
    ClockStepsBack = TRUE
    Amounts = {2}
    MaxHeight = 3
    MaxClock = 1
SPECIFICATION FairSpec
INVARIANTS
    BalancesAreReplay
    EditsAreReported
    TipHashCommits
PROPERTIES
    EveryAcceptedIsSettled
CHECK_DEADLOCK FALSE
