SPECIFICATION Spec
CONSTANTS
    system = system
    tables = tables
    stakes = stakes
    votes = votes
    configs = configs
    alice = alice
    bob = bob
    table = table
    stake = stake
    vote = vote
    config = config
    none = none
    Addr <- MCAddr
    SystemId = system
    U64Max = 6
    NoKey = none
    Lengths = {0, 112, 200}
    TableId = tables
    StakeId = stakes
    VoteId = votes
    ConfigId = configs
    MaxAddresses = 2
    Cooldown = 2
    TableRent = 2
    Derivations <- MCDerivations
    InitSlices <- EpochSlices
    Instructions <- EpochIxs
    PolicyChoices = {"Strict", "Lax"}
    Home <- MCHome
    Slots <- MCSlots
    Timestamps <- MCTimestamps
    Clocks <- MCClocks
    Schedules <- MCSchedules
    Rents <- MCRents
    MaxTime = 1
INVARIANTS TypeOK StakeBacked WarpsAgree
PROPERTIES TablesNeedAuthority LookupsAreStable StakesNeedAuthority VotesNeedAuthority LamportsAddUp
CHECK_DEADLOCK FALSE
