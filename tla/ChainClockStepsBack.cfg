CONSTANTS
    alice = alice
    bob = bob
    Accounts = {alice, bob}
    Coinbase = none
    NoSig = NoSig
    NoBlock = NoBlock
    MaxInt64 = 31
    LeadingZeros <- MCLeadingZeros
    GenesisTimestamp = 1
    Configs <- MCFixed
    Nonces = {0, 2}
    TicksPerSecond = 1
    ClockStepsBack = TRUE
    Amounts = {2}
    MaxHeight = 2
    MaxClock = 2
SPECIFICATION Spec
INVARIANTS
    ChainAlwaysValid
CHECK_DEADLOCK FALSE
