SPECIFICATION Spec
CONSTANTS
    system = system
    token = token
    t1 = t1
    t2 = t2
    Threads = {t1, t2}
    Ids = {system, token}
    SystemId = system
    Functions = {vm, sim}
    SystemVm = vm
    SystemSim = sim
    good = good
    bad = bad
    Elfs = {good, bad}
    Offers <- MCOffers
    Broken = {bad}
    Engines = {e1, e2}
    Inner = inner
    Mine <- MCMine
    NoEngine = noengine
    NoProgram = noprogram
SYMMETRY Symmetry
INVARIANTS RegisteredIsCached
PROPERTIES LastRegistrationRuns KnownIsAnswered
CHECK_DEADLOCK FALSE
