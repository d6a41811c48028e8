-------------------------- MODULE ForeignInterface --------------------------
(***************************************************************************)
(* The C interface as its host's threads really run through it             *)
(* (hopper-svm-ffi/src/lib.rs), and the reading of an outcome as the       *)
(* Python and TypeScript bindings do it.  A call copies its arguments,     *)
(* takes the handle's mutex, works on the harness and on the cached        *)
(* accounts in one or two steps, lets go and returns.                      *)
(*                                                                         *)
(* Pointers keep their contracts: a handle is freed once, when no call is  *)
(* under way, and an outcome by the thread that got it.  A panic in an     *)
(* extern "C" function aborts the host, so nobody sees the poisoned mutex. *)
(***************************************************************************)
EXTENDS ForeignCalls

CONSTANT Nobody

ASSUME NobodyAssumption == Nobody \notin Threads

VARIABLES
    svm,        \* FfiHarness.svm
    cache,      \* FfiHarness.accounts
    open,       \* has the handle not been freed?
    guard,      \* who holds the mutex
    call,       \* what each thread is doing
    outcome,    \* the FfiOutcome each thread was handed
    got         \* the answer of each thread's last call, until its next

vars == <<svm, cache, open, guard, call, outcome, got>>

NoOutcome == [error |-> "EmptyChain", list |-> <<>>]

\* A call: where it is, what it was asked, the harness it has taken out of
\* the handle, what its run came to, its answer, the accounts read so far.
Idle == [at |-> "idle", req |-> CHOOSE q \in Requests : TRUE, owned |-> FreshSvm,
         post |-> NoOutcome, answer |-> Number(0), read |-> <<>>]

Init ==
    /\ svm = FreshSvm /\ cache = <<>>
    /\ open = TRUE /\ guard = Nobody
    /\ call = [t \in Threads |-> Idle]
    /\ outcome = [t \in Threads |-> NoOutcome]
    /\ got = [t \in Threads |-> Number(0)]

At(t, where) == call[t].at = where

Asked(t, verb) == At(t, "inside") /\ call[t].req.verb = verb

\* The arguments are read through their pointers before the mutex is taken.
Call(t, q) ==
    /\ At(t, "idle") /\ open
    /\ call' = [call EXCEPT ![t] = [Idle EXCEPT !.at = "waiting", !.req = q]]
    /\ got' = [got EXCEPT ![t] = Number(0)]
    /\ UNCHANGED <<svm, cache, open, guard, outcome>>

\* Mutant of Acquire: nobody waits for the mutex.
AcquireAnyway(t) ==
    /\ At(t, "waiting")
    /\ guard' = t /\ call' = [call EXCEPT ![t].at = "inside"]
    /\ UNCHANGED <<svm, cache, open, outcome, got>>

Acquire(t) ==
    /\ At(t, "waiting") /\ guard = Nobody
    /\ guard' = t /\ call' = [call EXCEPT ![t].at = "inside"]
    /\ UNCHANGED <<svm, cache, open, outcome, got>>

-----------------------------------------------------------------------------
(* With the mutex held.                                                    *)

\* The work of a verb that takes one step, with its answer.
Works(t, s, list, answer) ==
    /\ svm' = s /\ cache' = list
    /\ call' = [call EXCEPT ![t].at = "leaving", ![t].answer = answer]
    /\ UNCHANGED <<open, guard, outcome, got>>

SetAccount(t) ==
    /\ Asked(t, "set_account")
    /\ Works(t, svm, Seeded(cache, call[t].req.addr, call[t].req.acct), Number(1))

GetLamports(t) ==
    /\ Asked(t, "get_lamports")
    /\ Works(t, svm, cache, Number(Balance(cache, call[t].req.addr)))

GetAccountData(t) ==
    /\ Asked(t, "get_account_data")
    /\ Works(t, svm, cache, Number(Copied(cache, call[t].req.addr, call[t].req.n)))

SetComputeBudget(t) ==
    /\ Asked(t, "set_compute_budget")
    /\ Works(t, [svm EXCEPT !.limit = call[t].req.n], cache, Number(0))

\* with_solana_runtime takes the harness out of the handle, leaves a fresh
\* one in its place, and puts it back with the programs added.
TakeHarness(t) ==
    /\ Asked(t, "with_solana_runtime")
    /\ svm' = FreshSvm
    /\ call' = [call EXCEPT ![t].at = "halfway", ![t].owned = svm]
    /\ UNCHANGED <<cache, open, guard, outcome, got>>

PutHarness(t) ==
    /\ At(t, "halfway")
    /\ Works(t, WithRuntime(call[t].owned), cache, Number(0))

\* process_instruction, and then the cache and the outcome from its result.
Run(t) ==
    /\ Asked(t, "dispatch")
    /\ \E r \in Runs(svm, call[t].req.ix, cache) :
        /\ svm' = r.svm
        /\ call' = [call EXCEPT ![t].at = "ran",
                        ![t].post = [error |-> r.error, list |-> r.list]]
    /\ UNCHANGED <<cache, open, guard, outcome, got>>

Publish(t) ==
    /\ At(t, "ran")
    /\ cache' = call[t].post.list
    /\ outcome' = [outcome EXCEPT ![t] = call[t].post]
    /\ call' = [call EXCEPT ![t].at = "leaving"]
    /\ UNCHANGED <<svm, open, guard, got>>

\* Mutant of Release: the guard outlives an early return.
ReleaseUnlessMissing(t) ==
    /\ At(t, "leaving")
    /\ guard' = IF call[t].answer.n = Unknown THEN guard ELSE Nobody
    /\ IF call[t].req.verb = "dispatch"
       THEN call' = [call EXCEPT ![t].at = "reading"] /\ UNCHANGED got
       ELSE call' = [call EXCEPT ![t] = Idle] /\ got' = [got EXCEPT ![t] = call[t].answer]
    /\ UNCHANGED <<svm, cache, open, outcome>>

\* The guard goes, the call returns: a dispatch with an outcome to be read.
Release(t) ==
    /\ At(t, "leaving")
    /\ guard' = Nobody
    /\ IF call[t].req.verb = "dispatch"
       THEN call' = [call EXCEPT ![t].at = "reading"] /\ UNCHANGED got
       ELSE call' = [call EXCEPT ![t] = Idle] /\ got' = [got EXCEPT ![t] = call[t].answer]
    /\ UNCHANGED <<svm, cache, open, outcome>>

-----------------------------------------------------------------------------
(* With an outcome in hand, and no mutex.                                  *)

\* hopper_svm_outcome_account_count and its use as a bound.
AccountCount(t) == Len(outcome[t].list)

\* Mutant of AccountAt: the outcome borrows the cached accounts.
AccountAtLive(t, i) == IF i \in DOMAIN cache THEN cache[i] ELSE outcome[t].list[i]

AccountAt(t, i) == outcome[t].list[i]

\* The bindings read the accounts one call after the other.
ReadAccount(t) ==
    /\ At(t, "reading") /\ Len(call[t].read) < AccountCount(t)
    /\ call' = [call EXCEPT ![t].read = Append(@, AccountAt(t, Len(@) + 1))]
    /\ UNCHANGED <<svm, cache, open, guard, outcome, got>>

\* ExecutionResult.close, once the host has what it wants.
CloseOutcome(t) ==
    /\ At(t, "reading") /\ Len(call[t].read) = AccountCount(t)
    /\ got' = [got EXCEPT ![t] = Dispatched(outcome[t].error, call[t].read)]
    /\ outcome' = [outcome EXCEPT ![t] = NoOutcome]
    /\ call' = [call EXCEPT ![t] = Idle]
    /\ UNCHANGED <<svm, cache, open, guard>>

\* HopperSvm.close; the calls made after it raise and go no further.
Free ==
    /\ open /\ \A t \in Threads : At(t, "idle")
    /\ open' = FALSE
    /\ UNCHANGED <<svm, cache, guard, call, outcome, got>>

-----------------------------------------------------------------------------

\* The steps of a call that has the mutex or is past it.
Proceed(t) ==
    \/ SetAccount(t) \/ GetLamports(t) \/ GetAccountData(t) \/ SetComputeBudget(t)
    \/ TakeHarness(t) \/ PutHarness(t)
    \/ Run(t) \/ Publish(t)
    \/ Release(t)
    \/ ReadAccount(t) \/ CloseOutcome(t)

Next ==
    \/ \E t \in Threads, q \in Requests : Call(t, q)
    \/ \E t \in Threads : Acquire(t)
    \/ \E t \in Threads : Proceed(t)
    \/ Free

\* A thread in the middle of a call runs on, and a free mutex is taken by
\* somebody who waits for it.  Which one is not said: std::sync::Mutex is not
\* fair, and a thread that calls again and again may starve another.
Fairness ==
    /\ \A t \in Threads : WF_vars(Proceed(t))
    /\ WF_vars(\E t \in Threads : Acquire(t))

Spec == Init /\ [][Next]_vars /\ Fairness
-----------------------------------------------------------------------------
(* Properties.                                                             *)

Stages == {"idle", "waiting", "inside", "halfway", "ran", "leaving", "reading"}

Outcome == [error : Errors, list : Seq(Entry)]

CallRecord == [at : Stages, req : Requests, owned : Svm, post : Outcome,
               answer : Answer, read : Seq(Entry)]

\* Every variable keeps its type: in particular no dispatch leaves an account
\* in the cache, or in an outcome, with lamports that are no u64.
TypeOK ==
    /\ svm \in Svm /\ cache \in Seq(Entry)
    /\ open \in BOOLEAN /\ guard \in Threads \cup {Nobody}
    /\ call \in [Threads -> CallRecord]
    /\ outcome \in [Threads -> Outcome]
    /\ got \in [Threads -> Answer]

\* The cache has one entry for an address (lib.rs:229-230: seeding replaces
\* the account at the same address), whoever seeds and dispatches meanwhile:
\* that is what resolve_accounts and merge_accounts rely on.
OneEntryPerAddress ==
    \A i, j \in DOMAIN cache : cache[i].addr = cache[j].addr => i = j

\* What the others would find if the holder of the mutex let go now.
SeenSvm ==
    IF \E t \in Threads : At(t, "halfway")
    THEN call[CHOOSE t \in Threads : At(t, "halfway")].owned ELSE svm

SeenCache ==
    IF \E t \in Threads : At(t, "ran")
    THEN call[CHOOSE t \in Threads : At(t, "ran")].post.list ELSE cache

\* The answer of a call that has done its work, wherever it is kept.
Due(t) ==
    IF At(t, "ran") THEN Dispatched(call[t].post.error, call[t].post.list)
    ELSE IF At(t, "leaving") /\ call[t].req.verb # "dispatch" THEN call[t].answer
    ELSE IF At(t, "leaving") \/ At(t, "reading")
         THEN Dispatched(outcome[t].error, outcome[t].list)
    ELSE got[t]

Atomic == INSTANCE AtomicInterface
    WITH svm <- SeenSvm, cache <- SeenCache, got <- [t \in Threads |-> Due(t)]

\* The calls of all threads on a handle are linearizable: each looks as if it
\* had happened at one moment between its call and its return.  The accounts
\* a host reads from an outcome, one by one and after any number of later
\* calls, are the cache as its dispatch left it (lib.rs:363-368), and nobody
\* meets the empty harness with_solana_runtime leaves for a moment.
Linearizable == Atomic!Init /\ [][Atomic!Next]_(Atomic!vars)

\* Whatever a call returns and by whichever path, the mutex comes free again.
GuardComesBack == []<>(guard = Nobody)
=============================================================================
