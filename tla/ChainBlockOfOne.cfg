CONSTANTS
    alice = alice
    bob = bob
    Accounts = {alice, bob}
    Coinbase = none
    NoSig = NoSig
    NoBlock = NoBlock
    MaxInt64 = 31
    LeadingZeros <- MCLeadingZeros
    GenesisTimestamp = 1
    Configs <- MCBlockOfOne
    Nonces = {0, 2}
    TicksPerSecond = 1
    ClockStepsBack = FALSE
    Amounts = {2}
    MaxHeight = 2
    MaxClock = 2
SPECIFICATION Spec
PROPERTIES
    MiningDrainsPool
CHECK_DEADLOCK FALSE
