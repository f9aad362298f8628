CONSTANTS
    Procs = {p}
    Exclusive = TRUE
    KeyFiles = {keysJson, otherJson}
    Labels = {alice, bob}
    Keys = {k1, k2}
    NoFile = NoFile
    NoLabel = NoLabel
    Default <- MCDefault
    EmptyText = EmptyText
    Typo = Typo
    Comment = Comment
    Malformed = Malformed
    Refused = Refused
    DataFiles = {chainJson}
    Names = {alice, bob}
    Environments <- MCEnvironments
    DotEnvs <- MCDotEnvs
    FlagSets <- MCFlagSets
    NoConfig = NoConfig
    alice = alice
    bob = bob
    chainJson = chainJson
    keysJson = keysJson
    otherJson = otherJson
    addr = addr
SPECIFICATION Spec
SYMMETRY Symmetry
INVARIANTS
    TypeOK
    ReportedIsKept
    PaidIsSpendable
    ResolutionOrder
