SPECIFICATION Spec
CONSTANTS
    system = system
    token = token
    token22 = token22
    atas = atas
    alice = alice
    bob = bob
    mint = mint
    purse = purse
    bobs = bobs
    none = none
    Addr <- MCAddr
    SystemId = system
    U64Max = 2
    TokenIds = {token, token22}
    NoKey = none
    Lengths = {0, 82, 165}
    AtaId = atas
    AtaLamports = 1
    Ata <- MCAta
    InitSlices <- FreshSlices
    Instructions <- TokenIxs
    PolicyChoices = {"Lax"}
PROPERTIES ValueKept
CHECK_DEADLOCK FALSE
