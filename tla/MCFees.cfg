SPECIFICATION Spec
CONSTANTS
    system = system
    budget = budget
    custom = custom
    alice = alice
    vault = vault
    nonce = nonce
    carol = carol
    dave = dave
    s1 = s1
    none = none
    Addr <- MCAddr
    SystemId = system
    BudgetId = budget
    CustomIds = {custom}
    CustomAccounts = {}
    CustomCosts = {150}
    Registered = {system, budget}
    U64Max = 6000000
    Sizes <- MCSizes
    Slots = {1}
    Seeds = {s1}
    NoAddr = none
    Derive <- MCDerive
    InitSlices <- FeeSlices
    Singles <- BudgetIxs
    Chains <- FeeChains
    Payers <- FeePayers
    Limits = {100, 200000}
    Prices = {0, 5}
    SigFees = {0, 1}
    PolicyChoices = {"Strict"}
    Verbs = {"process"}
INVARIANTS FeeBalances
PROPERTIES QuotesMonotone
CHECK_DEADLOCK FALSE
