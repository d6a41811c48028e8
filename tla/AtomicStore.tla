---------------------------- MODULE AtomicStore ----------------------------
(***************************************************************************)
(* What the overlay promises: every verb happens at once.  A call that     *)
(* succeeds runs its whole chain on the accounts in the store and writes   *)
(* them back in the same step; a call that fails and a dry run leave no    *)
(* trace.  A test also keeps the last snapshot it took, and a bit of each  *)
(* thread's flips with every verb of its that takes effect.                *)
(*                                                                         *)
(* What a verb computes from a store is Overlay's; here it is a parameter. *)
(***************************************************************************)
EXTENDS Naturals, Sequences

CONSTANTS
    Sizes, Seeded, Gifts, Threads, StoreChains, StoreVerbs, Mine,
    Inputs(_, _), Dispatched(_, _),             \* a call
    Committed(_, _), Stored(_, _, _), Removed(_, _),
    Airdropped(_, _, _), Rented(_, _, _, _),    \* the verbs that edit
    FitsToken(_, _), TokenWrites(_, _), FitsMint(_, _), MintWrites(_, _)

VARIABLES acks, store, saved, poisoned

vars == <<acks, store, saved, poisoned>>

Init ==
    /\ acks = [t \in Threads |-> FALSE]
    /\ store = <<>> /\ saved = <<>>
    /\ poisoned = FALSE

GoesOn(r) == r.error \in {"EmptyChain", "None"}

\* What a result comes to when one more instruction of its chain is due.
Then(ix, r) == IF GoesOn(r) THEN Dispatched(ix, r.accts) ELSE {r}

\* process_instruction_chain, all of it, by the number of instructions.
Course(ixs, accts) ==
    LET after[n \in 0..Len(ixs)] ==
            IF n = 0 THEN {[accts |-> accts, error |-> "EmptyChain"]}
            ELSE UNION {Then(ixs[n], r) : r \in after[n - 1]}
    IN  after

ChainOutcomes(ixs, accts) == Course(ixs, accts)[Len(ixs)]

Becomes(s) == ~poisoned /\ store' = s /\ UNCHANGED <<saved, poisoned>>

Process(ixs) ==
    \E r \in ChainOutcomes(ixs, Inputs(store, ixs)) :
        r.error = "None" /\ Becomes(Committed(store, r.accts))

SetAccount(a, acct) == Becomes(Stored(store, a, acct))
RemoveAccount(a) == Becomes(Removed(store, a))
ClearAccounts == Becomes(<<>>)
Airdrop(a, n) == Becomes(Airdropped(store, a, n))
CreateAccount(a, size, owner) == Becomes(Rented(store, a, size, owner))
RestoreAccounts == Becomes(saved)

SnapshotAccounts ==
    ~poisoned /\ saved' = store /\ UNCHANGED <<store, poisoned>>

SetTokenBalance(a) ==
    FitsToken(store, a) /\ \E s \in TokenWrites(store, a) : Becomes(s)
SetMintSupply(a) ==
    FitsMint(store, a) /\ \E s \in MintWrites(store, a) : Becomes(s)

Poison(a) ==
    /\ ~FitsToken(store, a)
    /\ ~poisoned /\ poisoned' = TRUE /\ UNCHANGED <<acks, store, saved>>

Told(t) == acks' = [acks EXCEPT ![t] = ~@]

\* A verb of t's takes effect.
Verb(t) ==
    \/ "process" \in StoreVerbs[t] /\ \E ixs \in StoreChains[t] : Process(ixs)
    \/ "set" \in StoreVerbs[t] /\ \E a \in Mine[t], acct \in Seeded : SetAccount(a, acct)
    \/ "remove" \in StoreVerbs[t] /\ \E a \in Mine[t] : RemoveAccount(a)
    \/ "clear" \in StoreVerbs[t] /\ ClearAccounts
    \/ "snapshot" \in StoreVerbs[t] /\ SnapshotAccounts
    \/ "restore" \in StoreVerbs[t] /\ RestoreAccounts
    \/ "airdrop" \in StoreVerbs[t] /\ \E a \in Mine[t], n \in Gifts : Airdrop(a, n)
    \/ /\ "create" \in StoreVerbs[t]
       /\ \E a \in Mine[t], size \in Sizes, owner \in Mine[t] : CreateAccount(a, size, owner)
    \/ "token" \in StoreVerbs[t] /\ \E a \in Mine[t] : SetTokenBalance(a)
    \/ "mint" \in StoreVerbs[t] /\ \E a \in Mine[t] : SetMintSupply(a)

Next == \E t \in Threads :
    \/ Told(t) /\ Verb(t)
    \/ StoreVerbs[t] \cap {"token", "mint"} # {} /\ \E a \in Mine[t] : Poison(a)

Spec == Init /\ [][Next]_vars
=============================================================================
