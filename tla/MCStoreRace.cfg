SPECIFICATION Spec
CONSTANTS
    system = system
    budget = budget
    alice = alice
    bob = bob
    s1 = s1
    none = none
    t1 = t1
    t2 = t2
    t3 = t3
    t4 = t4
    Addr <- MCAddr
    SystemId = system
    BudgetId = budget
    CustomIds = {}
    CustomAccounts = {}
    CustomCosts = {150}
    Registered = {system, budget}
    U64Max = 2
    Sizes <- MCSizes
    Slots = {1}
    Seeds = {s1}
    NoAddr = none
    Derive <- MCDerive
    Limit = 200000
    Policy = "Lax"
    Slot = 1
    MinimumBalance <- MCRent
    Seeded <- MCSeeded
    Gifts = {1}
    Threads = {t1, t2, t3, t4}
    Crews <- RaceCrews
    StoreChains <- RaceChains
    Mine <- RaceMine
    StoreVerbs <- RaceVerbs
PROPERTIES Serialised
CHECK_DEADLOCK FALSE
