-------------------------- MODULE AtomicInterface --------------------------
(***************************************************************************)
(* What the C interface promises the threads that share a handle: every    *)
(* call happens at once, and what a thread gets is what the handle held at *)
(* that moment, however long the host takes to read it.                    *)
(***************************************************************************)
EXTENDS Sequences

CONSTANTS
    Threads, Requests,          \* who calls, and for what
    FreshSvm,                   \* the harness of a fresh handle
    Seeded(_, _, _), Balance(_, _), Copied(_, _, _),
    Runs(_, _, _), WithRuntime(_),      \* what the calls compute
    Number(_), Dispatched(_, _)         \* their answers

VARIABLES
    svm,    \* the harness
    cache,  \* the cached accounts
    open,   \* has the handle not been freed?
    got     \* the last answer each thread got

vars == <<svm, cache, open, got>>

Init ==
    /\ svm = FreshSvm /\ cache = <<>>
    /\ open = TRUE
    /\ got = [t \in Threads |-> Number(0)]

\* A call of t in one step.
Takes(t, s, list, answer) ==
    /\ open
    /\ svm' = s /\ cache' = list
    /\ got' = [got EXCEPT ![t] = answer]
    /\ UNCHANGED open

SetAccount(t, q) == Takes(t, svm, Seeded(cache, q.addr, q.acct), Number(1))

GetLamports(t, q) == Takes(t, svm, cache, Number(Balance(cache, q.addr)))

GetAccountData(t, q) == Takes(t, svm, cache, Number(Copied(cache, q.addr, q.n)))

Dispatch(t, q) ==
    \E r \in Runs(svm, q.ix, cache) :
        Takes(t, r.svm, r.list, Dispatched(r.error, r.list))

WithSolanaRuntime(t) == Takes(t, WithRuntime(svm), cache, Number(0))

SetComputeBudget(t, q) == Takes(t, [svm EXCEPT !.limit = q.n], cache, Number(0))

\* A thread that calls again drops what it got before.
Ask(t) == open /\ got' = [got EXCEPT ![t] = Number(0)] /\ UNCHANGED <<svm, cache, open>>

Free == open' = FALSE /\ UNCHANGED <<svm, cache, got>>

Serve(t, q) ==
    \/ q.verb = "set_account" /\ SetAccount(t, q)
    \/ q.verb = "get_lamports" /\ GetLamports(t, q)
    \/ q.verb = "get_account_data" /\ GetAccountData(t, q)
    \/ q.verb = "dispatch" /\ Dispatch(t, q)
    \/ q.verb = "with_solana_runtime" /\ WithSolanaRuntime(t)
    \/ q.verb = "set_compute_budget" /\ SetComputeBudget(t, q)

Next ==
    \/ \E t \in Threads : Ask(t)
    \/ \E t \in Threads, q \in Requests : Serve(t, q)
    \/ Free

Spec == Init /\ [][Next]_vars
=============================================================================
