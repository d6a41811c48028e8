------------------------------- MODULE Engine -------------------------------
(***************************************************************************)
(* One instruction, from the account list the caller passes to the account *)
(* list it gets back: dispatch_one_inner (lib.rs) with the system program, *)
(* programs a user wrote and the compute-budget program                    *)
(* (compute_budget_program.rs).                                            *)
(***************************************************************************)
EXTENDS SystemProgram, Invocation

CONSTANTS
    BudgetId,       \* the compute-budget program's id
    CustomIds,      \* ids of programs the harness's user wrote
    CustomAccounts, \* what those programs leave in an account
    CustomCosts,    \* compute units those programs declare
    Registered      \* ids in the built-in registry

ASSUME EngineAssumption ==
    /\ BudgetId \in Addr \ {SystemId}
    /\ CustomIds \subseteq Addr \ {SystemId, BudgetId}
    /\ CustomAccounts \subseteq Account
    /\ CustomCosts \subseteq Nat
    /\ Registered \subseteq {SystemId, BudgetId} \cup CustomIds

\* SYSTEM_PROGRAM_COST and COMPUTE_BUDGET_CU agree.
BuiltinCost == 150

\* What cost() may answer; a user's program says what it likes.
Costs(program) == IF program \in CustomIds THEN CustomCosts ELSE {BuiltinCost}

MaxComputeUnitLimit == 1400000

Errors == {"None", "UnknownProgram", "OutOfComputeUnits", "UnknownAccount",
           "ProgramError", "AccountValidationFailed", "InsufficientFunds",
           "EmptyChain"}

Instruction ==
    [program : Addr, op : STRING, metas : Seq(Meta), amount : U64,
     space : Sizes, key : Addr, base : Addr, seed : Seeds]

-----------------------------------------------------------------------------
(* The compute-budget program: its checks, and the two cells it writes.    *)

SetsLimit(ix) == ix.op \in {"RequestUnits", "SetComputeUnitLimit"}

BudgetOk(ix) ==
    \/ SetsLimit(ix) /\ ix.amount <= MaxComputeUnitLimit
    \/ ix.op \in {"RequestHeapFrame", "SetComputeUnitPrice",
                  "SetLoadedAccountsDataSizeLimit"}

-----------------------------------------------------------------------------
\* What invoke may return: success and the copies as the program left them.
\* A user's program does as it likes with the copies, or fails.
Invocations(ix, w, slot) ==
    IF ix.program = SystemId THEN
        {[ok |-> SystemOk(ix, w),
          w |-> IF SystemOk(ix, w) THEN SystemPost(ix, w, slot) ELSE w]}
    ELSE IF ix.program = BudgetId THEN
        {[ok |-> BudgetOk(ix), w |-> w]}
    ELSE
        {[ok |-> FALSE, w |-> w]} \cup
        {[ok |-> TRUE, w |-> v] : v \in [DOMAIN w -> CustomAccounts]}

\* A built-in program's run: its cost is charged before the metas are looked up.
Executed(ix, slice, slot, limit, policy, cost) ==
    IF cost > limit THEN {Failed(slice, "OutOfComputeUnits")}
    ELSE IF Keys(ix.metas) \subseteq DOMAIN slice
    THEN {Concluded(ix, slice, r, policy) :
              r \in Invocations(ix, Resolve(ix.metas, slice), slot)}
    ELSE {Failed(slice, "UnknownAccount")}

\* What may come back from dispatch.
Outcomes(ix, slice, slot, limit, policy) ==
    IF ix.program \in Registered
    THEN UNION {Executed(ix, slice, slot, limit, policy, c) : c \in Costs(ix.program)}
    ELSE {Failed(slice, "UnknownProgram")}
=============================================================================
