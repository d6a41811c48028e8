------------------------------ MODULE Harness ------------------------------
(***************************************************************************)
(* A HopperSvm and one caller that runs instructions, chains and           *)
(* transactions on an account list it keeps (lib.rs, fees.rs).             *)
(*                                                                         *)
(* A call is several steps, one per instruction dispatched, because the    *)
(* harness holds no lock between them: the clones of a HopperSvm share its *)
(* configuration, so that another owner may change it, and the instruction *)
(* itself may, while a chain is under way.                                 *)
(***************************************************************************)
EXTENDS Engine

CONSTANTS
    InitSlices,     \* account lists the caller may start from
    Singles,        \* instructions it runs alone (process_instruction)
    Chains,         \* instruction lists it runs in a row
    Payers,         \* fee payers it names
    Limits,         \* values of set_compute_budget
    Prices,         \* values of set_priority_fee_micro_lamports_per_cu
    SigFees,        \* values of lamports_per_signature
    PolicyChoices,  \* validation policies it sets
    Verbs           \* "process" and "simulate", the families of verbs it uses

ASSUME HarnessAssumption ==
    /\ \A s \in InitSlices : DOMAIN s \subseteq Addr /\ s \in [DOMAIN s -> Account]
    /\ Singles \subseteq Instruction
    /\ Chains \subseteq Seq(Instruction)
    /\ Payers \subseteq Addr
    /\ Limits \subseteq Nat /\ Prices \subseteq Nat /\ SigFees \subseteq Nat
    /\ PolicyChoices \subseteq Policies
    /\ Verbs \subseteq {"process", "simulate"}

VARIABLES
    slice,      \* the caller's account list
    policy,     \* validation_policy
    limit,      \* the budget's limit
    pending,    \* pending_cu_limit
    price,      \* priority_fee_micro_lamports_per_cu
    sigFee,     \* fee_calculator.lamports_per_signature
    slot,       \* clock.slot
    pc,         \* the verb of the call under way, or "idle"
    todo,       \* its instructions not yet dispatched
    st,         \* its account state, carried from one to the next
    err,        \* its outcome so far, "EmptyChain" before the first
    fee         \* its transaction_fee_paid

config == <<policy, limit, pending, price, sigFee, slot>>
call == <<pc, todo, st, err, fee>>
vars == <<slice, config, call>>

\* pending_cu_limit = None
NoLimit == -1

Init ==
    /\ slice \in InitSlices
    /\ policy \in PolicyChoices
    /\ limit \in Limits /\ price \in Prices /\ sigFee \in SigFees /\ slot \in Slots
    /\ pending = NoLimit
    /\ pc = "idle" /\ todo = <<>> /\ st = slice /\ err = "EmptyChain" /\ fee = 0

EffectiveLimit == IF pending = NoLimit THEN limit ELSE pending

-----------------------------------------------------------------------------
(* Fees, quoted when the transaction comes in.                             *)

UniqueSigners(ixs) ==
    {a \in Addr : \E i \in DOMAIN ixs : \E j \in DOMAIN ixs[i].metas :
        ixs[i].metas[j].key = a /\ ixs[i].metas[j].signer}

BaseFee(f, signers) == SatMul(f, signers)

\* Mutant of PriorityFee: the product wraps.
PriorityFeeWrapped(u, p) == ((u * p) % (U64Max + 1)) \div 1000000

PriorityFee(u, p) == SatMul(u, p) \div 1000000

TotalFee(f, signers, u, p) == SatAdd(BaseFee(f, signers), PriorityFee(u, p))

\* What process_transaction asks for ixs as the harness stands.
Quote(ixs) == TotalFee(sigFee, Cardinality(UniqueSigners(ixs)), EffectiveLimit, price)

-----------------------------------------------------------------------------
(* Calls.                                                                  *)

Begin(verb, ixs, accts, error, paid) ==
    /\ pc = "idle" /\ pc' = verb
    /\ todo' = ixs /\ st' = accts /\ err' = error /\ fee' = paid
    /\ UNCHANGED <<slice, config>>

\* process_instruction and simulate_instruction, which are one function.
BeginInstruction(verb, ix) == Begin(verb, <<ix>>, slice, "EmptyChain", 0)

\* process_instruction_chain and simulate_instruction_chain
BeginChain(verb, ixs) == Begin(verb, ixs, slice, "EmptyChain", 0)

\* Mutant of BeginTransaction: a payer too poor pays what it has.
BeginTransactionAnyway(ixs, payer) ==
    \/ /\ payer \notin DOMAIN slice
       /\ Begin("transaction", ixs, slice, "UnknownAccount", 0)
    \/ /\ payer \in DOMAIN slice
       /\ Begin("transaction", ixs, [slice EXCEPT ![payer].lamports = SatSub(@, Quote(ixs))],
                "EmptyChain", Quote(ixs))

\* process_transaction takes the fee before the first instruction.
BeginTransaction(ixs, payer) ==
    \/ /\ payer \notin DOMAIN slice
       /\ Begin("transaction", ixs, slice, "UnknownAccount", 0)
    \/ /\ payer \in DOMAIN slice /\ slice[payer].lamports < Quote(ixs)
       /\ Begin("transaction", ixs, slice, "InsufficientFunds", 0)
    \/ /\ payer \in DOMAIN slice /\ slice[payer].lamports >= Quote(ixs)
       /\ Begin("transaction", ixs, [slice EXCEPT ![payer].lamports = @ - Quote(ixs)],
                "EmptyChain", Quote(ixs))

Unfinished == pc # "idle" /\ todo # <<>> /\ err \in {"EmptyChain", "None"}

\* The compute-budget program writes its cells while it runs.
BudgetWrites(ix, error) ==
    LET ran == ix.program = BudgetId /\ error \in {"None", "AccountValidationFailed"}
    IN  /\ pending' = IF ran /\ SetsLimit(ix) THEN ix.amount ELSE pending
        /\ price' = IF ran /\ ix.op = "SetComputeUnitPrice" THEN ix.amount ELSE price

\* dispatch_one for the next instruction of the call.
Dispatch ==
    /\ Unfinished
    /\ \E out \in Outcomes(Head(todo), st, slot, EffectiveLimit, policy) :
        /\ st' = out.accts /\ err' = out.error
        /\ BudgetWrites(Head(todo), out.error)
    /\ todo' = Tail(todo)
    /\ UNCHANGED <<slice, policy, limit, sigFee, slot, pc, fee>>

Finish(accts) ==
    /\ pc # "idle" /\ ~Unfinished
    /\ slice' = accts /\ st' = accts
    /\ pc' = "idle" /\ todo' = <<>> /\ err' = "EmptyChain" /\ fee' = 0
    /\ UNCHANGED config

\* The caller takes resulting_accounts for its account list, or goes on with
\* the list it had, as after a simulation.
Keep == Finish(st)
Drop == Finish(slice)

-----------------------------------------------------------------------------
(* Configuration, by the caller or by the owner of another clone.          *)

SetComputeBudget(u) ==
    limit' = u /\ UNCHANGED <<slice, policy, pending, price, sigFee, slot, call>>

SetPriorityFee(p) ==
    price' = p /\ UNCHANGED <<slice, policy, limit, pending, sigFee, slot, call>>

SetFeeCalculator(f) ==
    sigFee' = f /\ UNCHANGED <<slice, policy, limit, pending, price, slot, call>>

SetValidationPolicy(p) ==
    policy' = p /\ UNCHANGED <<slice, limit, pending, price, sigFee, slot, call>>

\* Of a warp only the slot is read by the programs here.
WarpToSlot(s) ==
    slot' = s /\ UNCHANGED <<slice, policy, limit, pending, price, sigFee, call>>

Next ==
    \/ \E verb \in Verbs, ix \in Singles : BeginInstruction(verb, ix)
    \/ \E verb \in Verbs, ixs \in Chains : BeginChain(verb, ixs)
    \/ \E ixs \in Chains, payer \in Payers : BeginTransaction(ixs, payer)
    \/ Dispatch
    \/ Keep
    \/ Drop
    \/ \E u \in Limits : SetComputeBudget(u)
    \/ \E p \in Prices : SetPriorityFee(p)
    \/ \E f \in SigFees : SetFeeCalculator(f)
    \/ \E p \in PolicyChoices : SetValidationPolicy(p)
    \/ \E s \in Slots : WarpToSlot(s)

Spec == Init /\ [][Next]_vars
-----------------------------------------------------------------------------
(* Properties.                                                             *)

\* Every variable keeps its type: in particular the u64 subtractions of the
\* handlers and of the fee never go below zero, and no call adds an account
\* to the list or drops one.
TypeOK ==
    /\ DOMAIN slice \subseteq Addr /\ slice \in [DOMAIN slice -> Account]
    /\ st \in [DOMAIN slice -> Account]
    /\ policy \in Policies
    /\ limit \in Nat /\ pending \in Nat \cup {NoLimit}
    /\ price \in Nat /\ sigFee \in Nat /\ slot \in Slots
    /\ pc \in {"idle", "transaction"} \cup Verbs /\ todo \in Seq(Instruction)
    /\ err \in Errors /\ fee \in U64

\* An instruction was dispatched, whatever became of it.
Stepping == pc # "idle" /\ pc' = pc /\ todo' # todo

\* The seed addresses of the signers.
SeedSigned(ix, a) ==
    \E b \in Addr, seed \in Seeds, o \in Addr :
        Derive[<<b, seed, o>>] = a /\ Signs(ix.metas, b)

\* Who may take from a nonce account: its authority, and before it has one,
\* whoever signs.
NonceSigned(ix, acct) ==
    /\ HoldsNonce(acct)
    /\ IF acct.data.init THEN Signs(ix.metas, acct.data.auth)
                         ELSE \E b \in Addr : Signs(ix.metas, b)

\* What validation asks of a program a user wrote.
OwnedBy(ix, acct) ==
    ix.program \in CustomIds /\ (policy = "Strict" => acct.owner = ix.program)

\* Nobody loses lamports to an instruction without a signature that stands
\* for the account: its own, that of the base its address derives from in a
\* transfer with seed, or that of its nonce authority in a withdrawal.  A user's program takes only from accounts it
\* owns.  This holds with validation off too, for the system program, however
\* often the metas repeat a key and whichever flags the repetitions carry.
DebitStep ==
    Stepping => \A a \in DOMAIN st :
        st'[a].lamports < st[a].lamports =>
            \/ /\ Head(todo).program = SystemId
               /\ \/ Signs(Head(todo).metas, a)
                  \/ Head(todo).op = "TransferWithSeed" /\ SeedSigned(Head(todo), a)
                  \/ Head(todo).op = "WithdrawNonce" /\ NonceSigned(Head(todo), st[a])
            \/ OwnedBy(Head(todo), st[a])
DebitsAuthorised == [][DebitStep]_vars

\* Under strict validation an account changes hands only with its own
\* signature or that of its seed base, or by the program that owns it.
OwnerStep ==
    Stepping /\ policy = "Strict" => \A a \in DOMAIN st :
        st'[a].owner # st[a].owner =>
            \/ /\ Head(todo).program = SystemId
               /\ Signs(Head(todo).metas, a) \/ SeedSigned(Head(todo), a)
            \/ OwnedBy(Head(todo), st[a])
OwnersAuthorised == [][OwnerStep]_vars

\* An account that no meta, or whose first meta, does not mark writable comes
\* back as it was: the system program sees to it by itself, for everybody
\* else strict validation does.
WriteStep ==
    Stepping /\ (Head(todo).program = SystemId \/ policy = "Strict") =>
        \A a \in DOMAIN st :
            st'[a] # st[a] => Writable(Head(todo).metas, a)
UnwritableUntouched == [][WriteStep]_vars

\* An initialised nonce stays initialised, and its authority and its value
\* change only when the authority in place signs, across InitializeNonce,
\* CreateAccount, Allocate and the rest.
NonceStep ==
    Stepping => \A a \in DOMAIN st :
        /\ HoldsNonce(st[a]) /\ st[a].data.init
        /\ Head(todo).program = SystemId
        => /\ HoldsNonce(st'[a]) /\ st'[a].data.init
           /\ \/ st'[a].data.auth = st[a].data.auth
                 /\ st'[a].data.nonce = st[a].data.nonce
              \/ Signs(Head(todo).metas, st[a].data.auth)
NonceAuthorityHonoured == [][NonceStep]_vars

\* Whatever a call does, fails at or leaves half done, the lamports it hands
\* back and the fee it reports add up to the lamports it was given: the fee
\* is charged once, also when an instruction fails, and not at all when the
\* payer is unknown or too poor.
FeeBalances ==
    pc # "idle" =>
        Lamports(st, DOMAIN st) + fee = Lamports(slice, DOMAIN slice)

\* The numbers of signatures a transaction here may ask for.
SignerCounts == {Cardinality(UniqueSigners(ixs)) : ixs \in Chains}

\* A quote never falls when the limit in force, the price or the fee per
\* signature rises: the u64 products and the sum saturate and never wrap, and
\* the division comes after the product.  Whoever changes them, the setters of
\* another clone or the compute-budget program in a call, a payer who cannot
\* afford a transaction cannot afford it at a higher price either.
QuoteStep ==
    EffectiveLimit' >= EffectiveLimit /\ price' >= price /\ sigFee' >= sigFee
        => \A n \in SignerCounts :
              TotalFee(sigFee', n, EffectiveLimit', price')
                  >= TotalFee(sigFee, n, EffectiveLimit, price)
QuotesMonotone == [][QuoteStep]_vars

\* The empty wallets that an instruction gave an owner or data.
Newborn(pre, post) ==
    {a \in DOMAIN pre :
        /\ pre[a].lamports = 0 /\ pre[a].data.len = 0 /\ pre[a].owner = SystemId
        /\ post[a].owner # SystemId \/ post[a].data.len > 0}

\* Under strict validation new lamports sit in the accounts that the same
\* instruction made out of empty wallets, and none are destroyed: all the other
\* accounts hold together what the whole list held before, whatever a user's
\* program does and however the metas repeat a key.
InflationStep ==
    Stepping /\ policy = "Strict" =>
        Lamports(st', DOMAIN st \ Newborn(st, st')) = Lamports(st, DOMAIN st)
InflationOnlyByCreation == [][InflationStep]_vars
=============================================================================
