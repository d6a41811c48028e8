SPECIFICATION Spec
CONSTANTS
    system = system
    budget = budget
    custom = custom
    alice = alice
    vault = vault
    nonce = nonce
    carol = carol
    dave = dave
    s1 = s1
    none = none
    Addr <- MCAddr
    SystemId = system
    BudgetId = budget
    CustomIds = {custom}
    CustomAccounts = {}
    CustomCosts = {150}
    Registered = {system, budget}
    U64Max = 3
    Sizes <- MCSizes
    Slots = {1, 2}
    Seeds = {s1}
    NoAddr = none
    Derive <- MCDerive
    InitSlices <- AuthoritySlices
    Singles <- AuthorityIxs
    Chains <- NoIxs
    Payers <- NoIxs
    Limits = {200000}
    Prices = {0}
    SigFees = {0}
    PolicyChoices = {"Strict"}
    Verbs = {"process"}
PROPERTIES CreationWorks
CHECK_DEADLOCK FALSE
