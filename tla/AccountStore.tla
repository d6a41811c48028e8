---------------------------- MODULE AccountStore ----------------------------
(***************************************************************************)
(* The overlay as its verbs really use it (lib.rs).  Every critical        *)
(* section of the account_store mutex is one step.  The verbs that run     *)
(* instructions hold it while they read the accounts and again while they  *)
(* write them back, and not in between; a dry run also while it takes its  *)
(* snapshot and while it puts it back.                                     *)
(***************************************************************************)
EXTENDS Overlay

VARIABLES
    crew,       \* the threads that hold a clone
    acks,       \* a bit per thread, which flips when it is told of an edit
    store,      \* the overlay
    saved,      \* the last snapshot a test took
    poisoned,   \* is the mutex poisoned?
    call        \* what each thread is doing

vars == <<crew, acks, store, saved, poisoned, call>>

\* A call: the step it is at, whether it is a dry run and from which
\* snapshot, and the chain it runs, as in Harness.
Idle == [phase |-> "idle", dry |-> FALSE, snap |-> <<>>,
         todo |-> <<>>, st |-> <<>>, err |-> "EmptyChain"]

Init ==
    /\ crew \in Crews /\ acks = [t \in Threads |-> FALSE]
    /\ store = <<>> /\ saved = <<>>
    /\ poisoned = FALSE
    /\ call = [t \in Threads |-> Idle]

At(t, phase) == call[t].phase = phase

\* Mutant of Locked: the guard of a poisoned mutex is used all the same.
LockedAnyway(s) == store' = s /\ UNCHANGED <<saved, poisoned>>

\* A critical section that ends with store s, and a verb that is just that.
Locked(s) == ~poisoned /\ store' = s /\ UNCHANGED <<saved, poisoned>>

\* An edit of t's is made for good: the verb returns success.
Told(t) == acks' = [acks EXCEPT ![t] = ~@]

Edit(t, verb, s) ==
    At(t, "idle") /\ verb \in StoreVerbs[t] /\ Locked(s) /\ Told(t) /\ UNCHANGED call

-----------------------------------------------------------------------------
(* The verbs that run instructions.                                        *)

Collected(c, ixs) == [c EXCEPT !.phase = "run", !.todo = ixs, !.st = Inputs(store, ixs)]

\* process_instruction_with_store and its chain sibling begin.
Process(t, ixs) ==
    /\ At(t, "idle") /\ "process" \in StoreVerbs[t] /\ Locked(store) /\ UNCHANGED acks
    /\ call' = [call EXCEPT ![t] = Collected(@, ixs)]

\* simulate_instruction_with_store and its chain sibling begin.
Simulate(t, ixs) ==
    /\ At(t, "idle") /\ "simulate" \in StoreVerbs[t] /\ Locked(store) /\ UNCHANGED acks
    /\ call' = [call EXCEPT ![t] =
                   [@ EXCEPT !.phase = "collect", !.dry = TRUE, !.snap = store, !.todo = ixs]]

Collect(t) ==
    /\ At(t, "collect") /\ Locked(store) /\ UNCHANGED acks
    /\ call' = [call EXCEPT ![t] = Collected(@, @.todo)]

Unfinished(t) ==
    At(t, "run") /\ call[t].todo # <<>> /\ call[t].err \in {"EmptyChain", "None"}

Dispatch(t) ==
    /\ Unfinished(t)
    /\ \E out \in Dispatched(Head(call[t].todo), call[t].st) :
           call' = [call EXCEPT ![t].todo = Tail(@), ![t].st = out.accts, ![t].err = out.error]
    /\ UNCHANGED <<acks, store, saved, poisoned>>

Finished(t) == At(t, "run") /\ ~Unfinished(t)

\* The dry run goes on to put its snapshot back, anything else returns.
Return(t) ==
    call' = [call EXCEPT ![t] = IF @.dry THEN [@ EXCEPT !.phase = "restore"] ELSE Idle]

\* Mutant of Commit: it replaces the overlay instead of merging into it.
CommitOver(t) ==
    /\ Finished(t) /\ call[t].err = "None"
    /\ Locked(call[t].st) /\ Return(t)
    /\ IF call[t].dry THEN UNCHANGED acks ELSE Told(t)

Commit(t) ==
    /\ Finished(t) /\ call[t].err = "None"
    /\ Locked(Committed(store, call[t].st)) /\ Return(t)
    /\ IF call[t].dry THEN UNCHANGED acks ELSE Told(t)

GiveUp(t) ==
    /\ Finished(t) /\ call[t].err # "None"
    /\ Return(t) /\ UNCHANGED <<acks, store, saved, poisoned>>

Restore(t) ==
    /\ At(t, "restore") /\ Locked(call[t].snap) /\ UNCHANGED acks
    /\ call' = [call EXCEPT ![t] = Idle]

\* What a panic leaves of a call: the snapshot of a dry run dies with it, the
\* overlay keeps what the run had written, and no lock lets anybody look.
Panicked(c) == [Idle EXCEPT !.phase = "panicked", !.dry = c.dry, !.snap = c.snap]

\* Mutant of Panic: a dry run tries again until the mutex is sound.
PanicOnCommit(t) ==
    /\ poisoned
    /\ Finished(t) /\ call[t].err = "None"
    /\ call' = [call EXCEPT ![t] = Panicked(@)]
    /\ UNCHANGED <<acks, store, saved, poisoned>>

\* The next lock a call takes is poisoned: expect() panics.
Panic(t) ==
    /\ poisoned
    /\ At(t, "collect") \/ At(t, "restore") \/ (Finished(t) /\ call[t].err = "None")
    /\ call' = [call EXCEPT ![t] = Panicked(@)]
    /\ UNCHANGED <<acks, store, saved, poisoned>>

-----------------------------------------------------------------------------
(* The verbs that edit the overlay.                                        *)

SetAccount(t, a, acct) == Edit(t, "set", Stored(store, a, acct))
RemoveAccount(t, a) == Edit(t, "remove", Removed(store, a))
ClearAccounts(t) == Edit(t, "clear", <<>>)
RestoreAccounts(t) == Edit(t, "restore", saved)
Airdrop(t, a, n) == Edit(t, "airdrop", Airdropped(store, a, n))
CreateAccount(t, a, size, owner) == Edit(t, "create", Rented(store, a, size, owner))

SnapshotAccounts(t) ==
    /\ At(t, "idle") /\ "snapshot" \in StoreVerbs[t] /\ ~poisoned
    /\ saved' = store /\ Told(t) /\ UNCHANGED <<store, poisoned, call>>

\* A panic with the guard alive poisons the mutex.
Poison(t) ==
    /\ At(t, "idle") /\ ~poisoned /\ poisoned' = TRUE
    /\ call' = [call EXCEPT ![t].phase = "panicked"]
    /\ UNCHANGED <<acks, store, saved>>

SetTokenBalance(t, a) ==
    \/ FitsToken(store, a) /\ \E s \in TokenWrites(store, a) : Edit(t, "token", s)
    \/ ~FitsToken(store, a) /\ "token" \in StoreVerbs[t] /\ Poison(t)

SetMintSupply(t, a) ==
    \/ FitsMint(store, a) /\ \E s \in MintWrites(store, a) : Edit(t, "mint", s)
    \/ ~FitsMint(store, a) /\ "mint" \in StoreVerbs[t] /\ Poison(t)

-----------------------------------------------------------------------------

\* The steps of a call that is under way.
Proceed(t) ==
    /\ UNCHANGED crew
    /\ Collect(t) \/ Dispatch(t) \/ Commit(t) \/ GiveUp(t) \/ Restore(t) \/ Panic(t)

\* A verb is called; those that are one critical section are over at once.
Begin(t) ==
    \/ \E ixs \in StoreChains[t] : Process(t, ixs)
    \/ \E ixs \in StoreChains[t] : Simulate(t, ixs)
    \/ \E a \in Mine[t], acct \in Seeded : SetAccount(t, a, acct)
    \/ \E a \in Mine[t] : RemoveAccount(t, a)
    \/ ClearAccounts(t)
    \/ SnapshotAccounts(t)
    \/ RestoreAccounts(t)
    \/ \E a \in Mine[t], n \in Gifts : Airdrop(t, a, n)
    \/ \E a \in Mine[t], size \in Sizes, owner \in Mine[t] : CreateAccount(t, a, size, owner)
    \/ \E a \in Mine[t] : SetTokenBalance(t, a)
    \/ \E a \in Mine[t] : SetMintSupply(t, a)

Next == \E t \in crew : Proceed(t) \/ (Begin(t) /\ UNCHANGED crew)

\* A thread in the middle of a call runs on, and the mutex lets everybody in
\* sooner or later: no critical section waits for anything.
Fairness == \A t \in Threads : WF_vars(Proceed(t))

Spec == Init /\ [][Next]_vars /\ Fairness
-----------------------------------------------------------------------------
(* Properties.                                                             *)

\* Every variable keeps its type.
TypeOK ==
    /\ crew \in Crews /\ acks \in [Threads -> BOOLEAN]
    /\ DOMAIN store \subseteq Addr /\ store \in [DOMAIN store -> Account]
    /\ DOMAIN saved \subseteq Addr /\ saved \in [DOMAIN saved -> Account]
    /\ poisoned \in BOOLEAN
    /\ DOMAIN call = Threads
    /\ \A t \in Threads : LET c == call[t] IN
        /\ c.phase \in {"idle", "collect", "run", "restore", "panicked"}
        /\ c.dry \in BOOLEAN /\ c.err \in Errors /\ c.todo \in Seq(Instruction)
        /\ DOMAIN c.st \subseteq Addr /\ c.st \in [DOMAIN c.st -> Account]
        /\ DOMAIN c.snap \subseteq Addr /\ c.snap \in [DOMAIN c.snap -> Account]

DryRuns == {t \in Threads : call[t].dry}

\* While a dry run is under way the overlay is, for whoever looks at it when
\* the run is over, the snapshot it took; nobody looks at it after a panic.
Visible == IF DryRuns = {} THEN store ELSE call[CHOOSE t \in DryRuns : TRUE].snap

Atomic == INSTANCE AtomicStore WITH store <- Visible

\* lib.rs:157-160 and 1183-1185: the calls on one harness are serialised, a
\* failed call and a dry run leave the overlay alone.  With one thread, or
\* with threads that share no account they write, the verbs look atomic: what
\* a thread is told has happened did happen, at once and while it was called,
\* and nothing else did.
Serialised == Atomic!Init /\ [][Atomic!Next]_(Atomic!vars)

\* After the panic nothing changes the overlay any more, and whoever is in
\* the middle of a call either panics or returns the failure it had.
PoisonFreezes ==
    [][poisoned => poisoned' /\ UNCHANGED <<store, saved>>]_vars

\* Every call ends: nobody waits for a lock whose holder does not go on, not
\* even after the mutex is poisoned.
CallsEnd ==
    \A t \in Threads : ~At(t, "idle") ~> At(t, "idle") \/ At(t, "panicked")
=============================================================================
