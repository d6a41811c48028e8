---------------------------- MODULE ForeignCalls ----------------------------
(***************************************************************************)
(* What the calls of the C interface compute (hopper-svm-ffi/src/lib.rs),  *)
(* without the lock around them.  A handle holds a harness and the         *)
(* accounts its host has seeded, a list in the order of their seeding.     *)
(***************************************************************************)
EXTENDS Engine

CONSTANTS
    Threads,    \* threads of the host
    Slot,       \* where the harness's clock stands; no call moves it
    Policy,     \* its validation policy, which no call sets either
    StartLimit  \* the compute budget of a fresh harness

ASSUME ForeignAssumption ==
    /\ Slot \in Slots
    /\ Policy \in Policies
    /\ StartLimit \in Nat

\* pending_cu_limit = None
NoLimit == -1

\* The parts of a HopperSvm that calls through the interface can change.
Svm == [registered : SUBSET Addr, limit : Nat, pending : Nat \cup {NoLimit}]

FreshSvm == [registered |-> {SystemId}, limit |-> StartLimit, pending |-> NoLimit]

\* with_solana_runtime adds programs and keeps everything else.
WithRuntime(svm) == [svm EXCEPT !.registered = @ \cup Registered]

-----------------------------------------------------------------------------
(* The cached accounts.                                                    *)

Entry == [addr : Addr, acct : Account]

Places(list, a) == {i \in DOMAIN list : list[i].addr = a}

\* iter().find(...)
Found(list, a) == list[Min(Places(list, a))].acct

\* Mutant of Seeded: the account is pushed whether it is there or not.
SeededTwice(list, a, acct) == Append(list, [addr |-> a, acct |-> acct])

\* hopper_svm_set_account replaces the account in its place or appends it.
Seeded(list, a, acct) ==
    IF Places(list, a) = {}
    THEN Append(list, [addr |-> a, acct |-> acct])
    ELSE [list EXCEPT ![Min(Places(list, a))].acct = acct]

\* The list as the engine takes it, and the list with what came of it.
AsSlice(list) ==
    [a \in {list[i].addr : i \in DOMAIN list} |-> Found(list, a)]

Refilled(list, accts) ==
    [i \in DOMAIN list |-> [list[i] EXCEPT !.acct = accts[list[i].addr]]]

-----------------------------------------------------------------------------
(* Answers: a number, and for a dispatch its error and the accounts.       *)

Unknown == -1

Answer == [n : Int, error : Errors, list : Seq(Entry)]

Number(n) == [n |-> n, error |-> "None", list |-> <<>>]
Dispatched(error, list) == [n |-> 0, error |-> error, list |-> list]

\* hopper_svm_get_lamports answers u64::MAX for an account that is not there,
\* and the bindings take every u64::MAX for that.
LamportsOf(list, a) ==
    IF Places(list, a) = {} THEN U64Max ELSE Found(list, a).lamports

Balance(list, a) ==
    IF LamportsOf(list, a) = U64Max THEN Unknown ELSE LamportsOf(list, a)

\* hopper_svm_get_account_data: how much was copied, usize::MAX for nothing.
Copied(list, a, room) ==
    IF Places(list, a) = {} THEN Unknown ELSE Min({Found(list, a).data.len, room})

-----------------------------------------------------------------------------
(* hopper_svm_dispatch: process_instruction on the cached accounts.        *)

EffectiveLimit(svm) == IF svm.pending = NoLimit THEN svm.limit ELSE svm.pending

\* The override the compute-budget program leaves in the harness.
Budgeted(svm, ix, error) ==
    IF ix.program = BudgetId /\ SetsLimit(ix)
       /\ error \in {"None", "AccountValidationFailed"}
    THEN [svm EXCEPT !.pending = ix.amount] ELSE svm

Runs(svm, ix, list) ==
    {[svm |-> Budgeted(svm, ix, out.error), error |-> out.error,
      list |-> Refilled(list, out.accts)] :
        out \in IF ix.program \in svm.registered
                THEN Outcomes(ix, AsSlice(list), Slot, EffectiveLimit(svm), Policy)
                ELSE {Failed(AsSlice(list), "UnknownProgram")}}

-----------------------------------------------------------------------------
(* What a host asks for.                                                   *)

Verbs == {"set_account", "get_lamports", "get_account_data", "dispatch",
          "with_solana_runtime", "set_compute_budget"}

\* The fields a verb does not use are whatever they are.
Request == [verb : Verbs, addr : Addr, acct : Account, n : Nat, ix : Instruction]

CONSTANT Requests   \* the calls the host's threads make

ASSUME RequestAssumption == Requests \subseteq Request /\ Requests # {}
=============================================================================
