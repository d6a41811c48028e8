SPECIFICATION Spec
CONSTANTS
    system = system
    budget = budget
    alice = alice
    bob = bob
    s1 = s1
    none = none
    t1 = t1
    t2 = t2
    Nobody = nobody
    Addr <- MCAddr
    SystemId = system
    BudgetId = budget
    CustomIds = {}
    CustomAccounts = {}
    CustomCosts = {150}
    Registered = {system, budget}
    U64Max = 2
    Sizes = {0}
    Slots = {1}
    Seeds = {s1}
    NoAddr = none
    Derive <- MCDerive
    Threads = {t1, t2}
    Slot = 1
    Policy = "Strict"
    StartLimit = 200000
    Requests <- MCRequests
INVARIANTS TypeOK OneEntryPerAddress
PROPERTIES Linearizable GuardComesBack
CHECK_DEADLOCK FALSE
