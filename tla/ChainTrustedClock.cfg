CONSTANTS
    alice = alice
    bob = bob
    Accounts = {alice, bob}
    Coinbase = none
    NoSig = NoSig
    NoBlock = NoBlock
    MaxInt64 = 63
    LeadingZeros <- MCLeadingZeros
    GenesisTimestamp = 1
    Configs <- MCChanging
    Nonces = {0, 2}
    TicksPerSecond = 2
    ClockStepsBack = FALSE
    Amounts = {2}
    MaxHeight = 3
    MaxClock = 3
SPECIFICATION Spec
INVARIANTS
    TypeOK
    ChainAlwaysValid
    AcceptedInOrder
    PoolNeverStale
    SupplyIsMinted
    CandidateStaysGood
    RootMissesOnlyARepeatedTail
PROPERTIES
    MiningDrainsPool
    ReloadChangesNothing
    ImplementsPayments
CHECK_DEADLOCK FALSE
