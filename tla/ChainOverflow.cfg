CONSTANTS
    alice = alice
    bob = bob
    Accounts = {alice, bob}
    Coinbase = none
    NoSig = NoSig
    NoBlock = NoBlock
    MaxInt64 = 7
    LeadingZeros <- MCLeadingZeros
    GenesisTimestamp = 1
    Configs <- MCFixed
    Nonces = {0, 2}
    TicksPerSecond = 1
    ClockStepsBack = FALSE
    Amounts = {2, 4}
    MaxHeight = 3
    MaxClock = 1
SPECIFICATION Spec
INVARIANTS
    PoolNeverStale
CHECK_DEADLOCK FALSE
