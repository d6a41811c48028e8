--------------------------- MODULE HarnessProofs ---------------------------
(***************************************************************************)
(* The safety properties of Harness, for every set of addresses, programs, *)
(* account lists, instructions, chains and settings.                       *)
(*                                                                         *)
(* TypeOK is inductive by itself.  The action properties follow from it    *)
(* and from what EngineProofs says of one instruction: only Dispatch is    *)
(* such a step, and it takes the account list from an outcome.             *)
(*                                                                         *)
(* Sums of lamports follow from the copies of the metas: a program changes *)
(* at most two of them, and what the list then holds differs by what they  *)
(* differ by.  That a call and its fee add up needs an invariant of its    *)
(* own, about the instructions that are still due.                         *)
(***************************************************************************)
EXTENDS Harness, EngineProofs

-----------------------------------------------------------------------------
(* Type correctness.                                                       *)

\* Any fee of a natural limit, price and rate is a u64: its parts saturate.
LEMMA TotalFeeType ==
    ASSUME NEW f \in Nat, NEW n \in Nat, NEW u \in Nat, NEW p \in Nat
    PROVE  /\ BaseFee(f, n) \in Nat /\ PriorityFee(u, p) \in Nat
           /\ TotalFee(f, n, u, p) \in U64
<1>1. BaseFee(f, n) \in U64 /\ SatMul(u, p) \in U64
  BY SatMulType DEF BaseFee
<1>2. PriorityFee(u, p) \in Nat
  BY <1>1, AccountsAssumption DEF PriorityFee, U64
<1>3. BaseFee(f, n) \in Nat
  BY <1>1, AccountsAssumption DEF U64
<1> QED
  BY <1>2, <1>3, SatAddType DEF TotalFee

\* A list of instructions has a natural number of signers.
LEMMA SignersType == \A ixs : Cardinality(UniqueSigners(ixs)) \in Nat
<1>1. ASSUME NEW ixs PROVE IsFiniteSet(UniqueSigners(ixs))
  BY FS_Subset, AccountsAssumption DEF UniqueSigners
<1> QED
  BY <1>1, FS_CardinalityType

\* The fee of any transaction is a u64.
LEMMA QuoteType ==
    ASSUME TypeOK, NEW ixs
    PROVE  Quote(ixs) \in U64
<1>1. EffectiveLimit \in Nat /\ price \in Nat /\ sigFee \in Nat
  BY DEF EffectiveLimit, TypeOK
<1> QED
  BY <1>1, SignersType, TotalFeeType DEF Quote

\* One step of the call under way keeps the types.
LEMMA DispatchType ==
    ASSUME TypeOK, Dispatch
    PROVE  TypeOK'
<1>1. /\ Head(todo) \in Instruction
      /\ Tail(todo) \in Seq(Instruction)
  BY HeadTailProperties DEF Dispatch, Unfinished, TypeOK
<1>2. PICK out \in Outcomes(Head(todo), st, slot, EffectiveLimit, policy) :
        /\ st' = out.accts /\ err' = out.error
        /\ BudgetWrites(Head(todo), out.error)
  BY DEF Dispatch
<1>3. DOMAIN st = DOMAIN slice /\ st \in [DOMAIN st -> Account]
  BY DEF TypeOK
<1>4. st' \in [DOMAIN slice -> Account] /\ err' \in Errors
  BY <1>1, <1>2, <1>3, OutcomeType DEF TypeOK
<1>5. pending' \in Nat \cup {NoLimit} /\ price' \in Nat
  <2>1. Head(todo).amount \in Nat
    BY <1>1, AccountsAssumption DEF Instruction, U64
  <2> QED
    BY <1>2, <2>1 DEF BudgetWrites, TypeOK
<1> QED
  BY <1>1, <1>4, <1>5 DEF Dispatch, TypeOK

\* Starting a call with a typed list and fee keeps the types.
LEMMA BeginType ==
    ASSUME TypeOK, NEW verb \in Verbs \cup {"transaction"}, NEW ixs \in Seq(Instruction),
           NEW accts \in [DOMAIN slice -> Account], NEW error \in Errors,
           NEW paid \in U64, Begin(verb, ixs, accts, error, paid)
    PROVE  TypeOK'
  BY DEF Begin, TypeOK, config

\* Every step keeps the types.
LEMMA TypeStep == TypeOK /\ [Next]_vars => TypeOK'
<1> SUFFICES ASSUME TypeOK, [Next]_vars PROVE TypeOK'
  OBVIOUS
<1>1. /\ slice \in [DOMAIN slice -> Account]
      /\ {"EmptyChain", "UnknownAccount", "InsufficientFunds"} \subseteq Errors
      /\ 0 \in U64
  BY AccountsAssumption DEF TypeOK, Errors, U64
<1>2. ASSUME NEW verb \in Verbs, NEW ix \in Singles, BeginInstruction(verb, ix)
      PROVE  TypeOK'
  <2>1. <<ix>> \in Seq(Instruction)
    BY HarnessAssumption
  <2> QED
    BY <1>1, <1>2, <2>1, BeginType DEF BeginInstruction
<1>3. ASSUME NEW verb \in Verbs, NEW ixs \in Chains, BeginChain(verb, ixs)
      PROVE  TypeOK'
  BY <1>1, <1>3, HarnessAssumption, BeginType DEF BeginChain
<1>4. ASSUME NEW ixs \in Chains, NEW payer \in Payers, BeginTransaction(ixs, payer)
      PROVE  TypeOK'
  <2>1. ixs \in Seq(Instruction) /\ Quote(ixs) \in U64
    BY HarnessAssumption, QuoteType
  <2>2. CASE Begin("transaction", ixs, slice, "UnknownAccount", 0)
    BY <1>1, <2>1, <2>2, BeginType
  <2>3. CASE Begin("transaction", ixs, slice, "InsufficientFunds", 0)
    BY <1>1, <2>1, <2>3, BeginType
  <2>4. CASE /\ payer \in DOMAIN slice /\ slice[payer].lamports >= Quote(ixs)
             /\ Begin("transaction", ixs, [slice EXCEPT ![payer].lamports = @ - Quote(ixs)],
                      "EmptyChain", Quote(ixs))
    <3>1. Debited(slice[payer], Quote(ixs)) \in Account
      BY <1>1, <2>1, <2>4, DebitCreditType
    <3>2. [slice EXCEPT ![payer].lamports = @ - Quote(ixs)] \in [DOMAIN slice -> Account]
      BY <1>1, <3>1 DEF Debited
    <3> QED
      BY <1>1, <2>1, <2>4, <3>2, BeginType
  <2> QED
    BY <1>4, <2>2, <2>3, <2>4 DEF BeginTransaction
<1>5. CASE Dispatch
  BY <1>5, DispatchType
<1>6. ASSUME NEW accts \in [DOMAIN slice -> Account], Finish(accts)
      PROVE  TypeOK'
  BY <1>1, <1>6 DEF Finish, TypeOK, config
<1>7. CASE Keep \/ Drop
  BY <1>1, <1>6, <1>7 DEF Keep, Drop, TypeOK
<1>8. ASSUME NEW u \in Limits, SetComputeBudget(u)
      PROVE  TypeOK'
  BY <1>8, HarnessAssumption DEF SetComputeBudget, TypeOK, call
<1>9. ASSUME NEW p \in Prices, SetPriorityFee(p)
      PROVE  TypeOK'
  BY <1>9, HarnessAssumption DEF SetPriorityFee, TypeOK, call
<1>10. ASSUME NEW f \in SigFees, SetFeeCalculator(f)
       PROVE  TypeOK'
  BY <1>10, HarnessAssumption DEF SetFeeCalculator, TypeOK, call
<1>11. ASSUME NEW p \in PolicyChoices, SetValidationPolicy(p)
       PROVE  TypeOK'
  BY <1>11, HarnessAssumption DEF SetValidationPolicy, TypeOK, call
<1>12. ASSUME NEW s \in Slots, WarpToSlot(s)
       PROVE  TypeOK'
  BY <1>12 DEF WarpToSlot, TypeOK, call
<1>13. CASE UNCHANGED vars
  BY <1>13 DEF vars, config, call, TypeOK
<1> QED
  BY <1>2, <1>3, <1>4, <1>5, <1>7, <1>8, <1>9, <1>10, <1>11, <1>12, <1>13 DEF Next

\* So they are at the start.
LEMMA TypeInit == Init => TypeOK
  BY HarnessAssumption, AccountsAssumption, EmptySeq
     DEF Init, TypeOK, U64, Errors, NoLimit

\* Every variable keeps its type: no handler and no fee subtracts more than
\* there is, and no call adds an account to the caller's list or drops one.
THEOREM TypeCorrect == Spec => []TypeOK
  BY TypeInit, TypeStep, PTL DEF Spec

-----------------------------------------------------------------------------
(* One instruction of a call.                                              *)

\* Only Dispatch takes an instruction off a call's list.
LEMMA SteppingIsDispatch ==
    ASSUME TypeOK, [Next]_vars, Stepping
    PROVE  Dispatch
<1>1. \A verb, ixs, accts, error, paid : ~Begin(verb, ixs, accts, error, paid)
  BY DEF Stepping, Begin
<1>2. \A accts : ~Finish(accts)
  BY DEF Stepping, Finish
<1>3. todo' # todo
  BY DEF Stepping
<1> QED
  BY <1>1, <1>2, <1>3
     DEF Next, vars, call, BeginInstruction, BeginChain, BeginTransaction, Keep, Drop,
         SetComputeBudget, SetPriorityFee, SetFeeCalculator, SetValidationPolicy, WarpToSlot

\* The instruction and its outcome.
LEMMA DispatchOutcome ==
    ASSUME TypeOK, Dispatch
    PROVE  /\ Head(todo) \in Instruction
           /\ st \in [DOMAIN st -> Account]
           /\ st' \in [DOMAIN st -> Account]
           /\ slot \in Slots
           /\ \E out \in Outcomes(Head(todo), st, slot, EffectiveLimit, policy) :
                /\ st' = out.accts /\ err' = out.error
                /\ BudgetWrites(Head(todo), out.error)
<1>1. Head(todo) \in Instruction
  BY HeadTailProperties DEF Dispatch, Unfinished, TypeOK
<1>2. st \in [DOMAIN st -> Account] /\ slot \in Slots
  BY DEF TypeOK
<1> QED
  BY <1>1, <1>2, OutcomeType DEF Dispatch

\* The system program changed copy i of the account, and that is how the
\* account came to change.
SystemChanged(ix, w, i, a) ==
    /\ ix.program = SystemId
    /\ i \in DOMAIN ix.metas /\ ix.metas[i].key = a
    /\ w \in [DOMAIN ix.metas -> Account] /\ w[i] = st[a]
    /\ SystemOk(ix, w) /\ st'[a] = SystemPost(ix, w, slot)[i]

\* An account changes in a step only through a copy of it that the system
\* program or a user's program changed, and only if validation agrees.
LEMMA StepChange ==
    ASSUME TypeOK, Dispatch, NEW a \in DOMAIN st, st'[a] # st[a]
    PROVE  /\ a \in Keys(Head(todo).metas)
           /\ ValidPostState(Head(todo).program, Head(todo).metas, st, st', policy)
           /\ \/ \E w, i : SystemChanged(Head(todo), w, i, a)
              \/ Head(todo).program \in CustomIds
<1> DEFINE ix == Head(todo)
           w == Resolve(ix.metas, st)
<1>1. PICK out \in Outcomes(ix, st, slot, EffectiveLimit, policy) : st' = out.accts
  BY DispatchOutcome
<1>2. /\ ix.program \in Registered
      /\ a \in Keys(ix.metas)
      /\ ValidPostState(ix.program, ix.metas, st, st', policy)
      /\ w \in [DOMAIN ix.metas -> Account]
      /\ \E r \in Invocations(ix, w, slot), i \in DOMAIN ix.metas :
            /\ r.ok
            /\ ix.metas[i].key = a
            /\ w[i] = st[a] /\ r.w[i] = st'[a]
  BY <1>1, DispatchOutcome, OutcomeChange
<1>3. PICK r \in Invocations(ix, w, slot), i \in DOMAIN ix.metas :
            /\ r.ok
            /\ ix.metas[i].key = a
            /\ w[i] = st[a] /\ r.w[i] = st'[a]
  BY <1>2
<1>4. CASE ix.program = SystemId
  <2>1. SystemOk(ix, w) /\ r.w = SystemPost(ix, w, slot)
    BY <1>3, <1>4 DEF Invocations
  <2>2. SystemChanged(ix, w, i, a)
    BY <1>2, <1>3, <1>4, <2>1 DEF SystemChanged
  <2> QED
    BY <1>2, <2>2
<1>5. CASE ix.program = BudgetId
  <2>1. r.w = w
    BY <1>3, <1>5, EngineAssumption DEF Invocations
  <2> QED
    BY <1>3, <2>1
<1>6. CASE ix.program \in CustomIds
  BY <1>2, <1>6
<1> QED
  BY <1>2, <1>4, <1>5, <1>6, EngineAssumption

\* What validation lets a program do to an account.
LEMMA StepRules ==
    ASSUME TypeOK, Dispatch, NEW a \in DOMAIN st, st'[a] # st[a], policy = "Strict"
    PROVE  /\ Writable(Head(todo).metas, a)
           /\ DebitAllowed(Head(todo).program, st[a], st'[a])
           /\ OwnerChangeAllowed(Head(todo).program, st[a], st'[a])
  BY StepChange DEF ValidPostState, AccountRules, ReadOnlyKept

\* The nine ways in which the system program changes an account, with what
\* each leaves of it.
LEMMA SystemChange ==
    ASSUME TypeOK, Dispatch, NEW a \in DOMAIN st, NEW w, NEW i,
           SystemChanged(Head(todo), w, i, a), st'[a] # st[a]
    PROVE  /\ Key(Head(todo), i) = a
           /\ st[a] \in Account
           /\ Head(todo).amount \in U64
           /\ \/ Paid(Head(todo), i, st[a], st'[a])
              \/ Made(Head(todo), i, st[a], st'[a])
              \/ Received(Head(todo), i, st[a], st'[a])
              \/ Reassigned(Head(todo), i, st[a], st'[a])
              \/ Resized(Head(todo), i, st[a], st'[a])
              \/ Initialized(Head(todo), i, st[a], st'[a], slot)
              \/ Advanced(Head(todo), i, st[a], st'[a], slot)
              \/ Authorized(Head(todo), i, st[a], st'[a])
              \/ Upgraded(Head(todo), i, st[a], st'[a])
<1>1. Head(todo) \in Instruction /\ slot \in Slots /\ st \in [DOMAIN st -> Account]
  BY DispatchOutcome
<1> QED
  BY <1>1, CopyAfter DEF SystemChanged, Key, Instruction

-----------------------------------------------------------------------------
(* Who may take lamports.                                                  *)

\* The system program takes them on the strength of a signature.
LEMMA SystemDebits ==
    ASSUME TypeOK, Dispatch, NEW a \in DOMAIN st, NEW w, NEW i,
           SystemChanged(Head(todo), w, i, a), st'[a].lamports < st[a].lamports
    PROVE  \/ Signs(Head(todo).metas, a)
           \/ Head(todo).op = "TransferWithSeed" /\ SeedSigned(Head(todo), a)
           \/ Head(todo).op = "WithdrawNonce" /\ NonceSigned(Head(todo), st[a])
<1> DEFINE ix == Head(todo)
<1>1. /\ ix \in Instruction /\ st[a] \in Account /\ st'[a] \in Account
      /\ ix.amount \in U64
  BY DispatchOutcome DEF Instruction
<1>2. /\ st[a].lamports \in Nat /\ st'[a].lamports \in Nat /\ ix.amount \in Nat
      /\ st'[a] # st[a]
  BY <1>1, AccountsAssumption DEF Account, AccountOver, U64
<1>3. /\ Key(ix, i) = a
      /\ w[i] = st[a] /\ SystemOk(ix, w)
  BY <1>2, SystemChange DEF SystemChanged
<1>4. SatAdd(st[a].lamports, ix.amount) >= st[a].lamports
  BY <1>1, <1>2, SatAddType DEF Account, AccountOver
<1>5. CASE Paid(ix, i, st[a], st'[a])
  <2>1. CASE ix.op \in {"CreateAccount", "CreateAccountWithSeed", "Transfer"}
    BY <1>3, <1>5, <2>1
       DEF Paid, SystemOk, CreateAccountOk, CreateAccountWithSeedOk, TransferOk
  <2>2. CASE ix.op = "TransferWithSeed"
    <3>1. /\ Derive[<<Key(ix, 2), ix.seed, ix.key>>] = a
          /\ Signs(ix.metas, Key(ix, 2))
      BY <1>3, <1>5, <2>2 DEF Paid, SystemOk, TransferWithSeedOk
    <3>2. Key(ix, 2) \in Addr /\ ix.seed \in Seeds /\ ix.key \in Addr
      BY <1>1, <3>1, MetasType DEF Signs, Instruction
    <3> QED
      BY <2>2, <3>1, <3>2 DEF SeedSigned
  <2>3. CASE ix.op = "WithdrawNonce"
    <3>1. /\ HoldsNonce(st[a])
          /\ st[a].data.init => st[a].data.auth = Key(ix, 5)
          /\ Signs(ix.metas, Key(ix, 5))
      BY <1>3, <1>5, <2>3 DEF Paid, SystemOk, WithdrawNonceOk
    <3>2. Key(ix, 5) \in Addr
      BY <1>1, <3>1, MetasType DEF Signs
    <3> QED
      BY <2>3, <3>1, <3>2 DEF NonceSigned
  <2> QED
    BY <1>5, <2>1, <2>2, <2>3 DEF Paid
<1>6. ~Made(ix, i, st[a], st'[a])
  BY <1>2, <1>3 DEF Made, Created0, SystemOk, CreateAccountOk, CreateAccountWithSeedOk
<1>7. ~Received(ix, i, st[a], st'[a])
  BY <1>1, <1>2, <1>4, Rewrites DEF Received
<1>8. ~Reassigned(ix, i, st[a], st'[a]) /\ ~Resized(ix, i, st[a], st'[a])
  BY <1>1, <1>2 DEF Reassigned, Resized, Account, AccountOver
<1>9. ~Initialized(ix, i, st[a], st'[a], slot)
  <2> DEFINE d == NonceState(st[a].data, ix.key, slot)
  <2>1. [st[a] EXCEPT !.data = d, !.owner = SystemId].lamports = st[a].lamports
    BY <1>1, Rewrites
  <2>2. Initialized(ix, i, st[a], st'[a], slot) => st'[a].lamports = st[a].lamports
    BY <2>1 DEF Initialized
  <2> QED
    BY <1>2, <2>2
<1>10. ~Advanced(ix, i, st[a], st'[a], slot) /\ ~Authorized(ix, i, st[a], st'[a])
  BY <1>1, <1>2 DEF Advanced, Authorized, Account, AccountOver
<1>11. ~Upgraded(ix, i, st[a], st'[a])
  BY <1>1, <1>2 DEF Upgraded, Account, AccountOver
<1> QED
  BY <1>2, <1>5, <1>6, <1>7, <1>8, <1>9, <1>10, <1>11, SystemChange

\* Every debit is covered by a signature, or made by a user's program on an
\* account that, where validation is strict, is its own.
THEOREM DebitsHold == Spec => DebitsAuthorised
<1>1. TypeOK /\ [Next]_vars => DebitStep
  <2> SUFFICES ASSUME TypeOK, [Next]_vars, Stepping,
                      NEW a \in DOMAIN st, st'[a].lamports < st[a].lamports
               PROVE  \/ /\ Head(todo).program = SystemId
                         /\ \/ Signs(Head(todo).metas, a)
                            \/ Head(todo).op = "TransferWithSeed" /\ SeedSigned(Head(todo), a)
                            \/ Head(todo).op = "WithdrawNonce" /\ NonceSigned(Head(todo), st[a])
                      \/ OwnedBy(Head(todo), st[a])
    BY DEF DebitStep
  <2>1. Dispatch
    BY SteppingIsDispatch
  <2>2. st[a].lamports \in Nat
    BY AccountsAssumption DEF TypeOK, Account, AccountOver, U64
  <2>3. st'[a] # st[a]
    BY <2>2
  <2>4. CASE \E w, i : SystemChanged(Head(todo), w, i, a)
    BY <2>1, <2>4, SystemDebits DEF SystemChanged
  <2>5. CASE Head(todo).program \in CustomIds
    BY <2>1, <2>3, <2>5, StepRules DEF OwnedBy, DebitAllowed
  <2> QED
    BY <2>1, <2>3, <2>4, <2>5, StepChange
<1> QED
  BY <1>1, TypeCorrect, PTL DEF Spec, DebitsAuthorised

-----------------------------------------------------------------------------
(* Who may write at all, and who may change an owner.                      *)

\* The system program writes only where the first meta says it may.
LEMMA SystemWrites ==
    ASSUME TypeOK, Dispatch, NEW a \in DOMAIN st, NEW w, NEW i,
           SystemChanged(Head(todo), w, i, a), st'[a] # st[a]
    PROVE  Writable(Head(todo).metas, a)
<1> DEFINE ix == Head(todo)
<1>1. Key(ix, i) = a /\ SystemOk(ix, w)
  BY SystemChange DEF SystemChanged
<1>2. CASE Paid(ix, i, st[a], st'[a]) \/ Made(ix, i, st[a], st'[a])
                                      \/ Received(ix, i, st[a], st'[a])
  BY <1>1, <1>2
     DEF Paid, Made, Received, SystemOk, CreateAccountOk, CreateAccountWithSeedOk,
         TransferOk, TransferWithSeedOk, WithdrawNonceOk
<1>3. CASE Reassigned(ix, i, st[a], st'[a]) \/ Resized(ix, i, st[a], st'[a])
  BY <1>1, <1>3 DEF Reassigned, Resized, SystemOk, AssignOk, AssignWithSeedOk, AllocateOk
<1>4. CASE \/ Initialized(ix, i, st[a], st'[a], slot)
           \/ Advanced(ix, i, st[a], st'[a], slot)
           \/ Authorized(ix, i, st[a], st'[a])
           \/ Upgraded(ix, i, st[a], st'[a])
  BY <1>1, <1>4
     DEF Initialized, Advanced, Authorized, Upgraded, SystemOk, InitializeNonceOk,
         AdvanceNonceOk, AuthorizeNonceOk, UpgradeNonceOk
<1> QED
  BY <1>2, <1>3, <1>4, SystemChange

\* What no meta marks writable is not written, by the system program under
\* any policy and by every program under strict validation.
THEOREM WritesHold == Spec => UnwritableUntouched
<1>1. TypeOK /\ [Next]_vars => WriteStep
  <2> SUFFICES ASSUME TypeOK, [Next]_vars, Stepping,
                      Head(todo).program = SystemId \/ policy = "Strict",
                      NEW a \in DOMAIN st, st'[a] # st[a]
               PROVE  Writable(Head(todo).metas, a)
    BY DEF WriteStep
  <2>1. Dispatch
    BY SteppingIsDispatch
  <2>2. CASE policy = "Strict"
    BY <2>1, <2>2, StepRules
  <2>3. CASE Head(todo).program = SystemId
    <3>1. Head(todo).program \notin CustomIds
      BY <2>3, EngineAssumption
    <3> QED
      BY <2>1, <3>1, StepChange, SystemWrites
  <2> QED
    BY <2>2, <2>3
<1> QED
  BY <1>1, TypeCorrect, PTL DEF Spec, UnwritableUntouched

\* The system program changes an owner with the account's signature or its
\* seed base's; InitializeNonce, which asks for neither, is stopped by rule 4.
LEMMA SystemReassigns ==
    ASSUME TypeOK, Dispatch, policy = "Strict", NEW a \in DOMAIN st, NEW w, NEW i,
           SystemChanged(Head(todo), w, i, a), st'[a].owner # st[a].owner
    PROVE  Signs(Head(todo).metas, a) \/ SeedSigned(Head(todo), a)
<1> DEFINE ix == Head(todo)
<1>1. /\ ix \in Instruction /\ st[a] \in Account /\ ix.program = SystemId
      /\ ix.key \in Addr /\ ix.base \in Addr /\ ix.seed \in Seeds
  BY DispatchOutcome DEF Instruction, SystemChanged
<1>2. /\ st'[a] # st[a] /\ Key(ix, i) = a /\ w[i] = st[a] /\ SystemOk(ix, w)
  BY SystemChange DEF SystemChanged
<1>3. CASE Made(ix, i, st[a], st'[a])
  <2>1. CASE ix.op = "CreateAccount"
    BY <1>2, <1>3, <2>1 DEF Made, SystemOk, CreateAccountOk
  <2>2. CASE ix.op = "CreateAccountWithSeed"
    <3>1. /\ Derive[<<ix.base, ix.seed, ix.key>>] = a
          /\ Signs(ix.metas, Key(ix, 1))
          /\ ix.base # Key(ix, 1) => Signs(ix.metas, ix.base)
      BY <1>2, <1>3, <2>2 DEF Made, SystemOk, CreateAccountWithSeedOk
    <3> QED
      BY <1>1, <3>1 DEF SeedSigned
  <2> QED
    BY <1>3, <2>1, <2>2 DEF Made
<1>4. CASE Reassigned(ix, i, st[a], st'[a])
  <2>1. CASE ix.op = "Assign"
    BY <1>2, <1>4, <2>1 DEF Reassigned, SystemOk, AssignOk
  <2>2. CASE ix.op = "AssignWithSeed"
    <3>1. Derive[<<ix.base, ix.seed, ix.key>>] = a /\ Signs(ix.metas, ix.base)
      BY <1>2, <1>4, <2>2 DEF Reassigned, SystemOk, AssignWithSeedOk
    <3> QED
      BY <1>1, <3>1 DEF SeedSigned
  <2> QED
    BY <1>4, <2>1, <2>2 DEF Reassigned
<1>5. ~Initialized(ix, i, st[a], st'[a], slot)
  <2>1. st[a].owner = SystemId \/ (st[a].data.len = 0 /\ st[a].owner = SystemId)
    BY <1>1, <1>2, StepRules DEF OwnerChangeAllowed, EmptySystemOwned
  <2>2. [st[a] EXCEPT !.data = NonceState(st[a].data, ix.key, slot), !.owner = SystemId].owner
           = SystemId
    BY <1>1, Rewrites
  <2> QED
    BY <2>1, <2>2 DEF Initialized
<1>6. ~Paid(ix, i, st[a], st'[a]) /\ ~Received(ix, i, st[a], st'[a])
  BY <1>1, Rewrites DEF Paid, Received
<1>7. ~Resized(ix, i, st[a], st'[a])
  BY <1>1 DEF Resized, Account, AccountOver
<1>8. ~Advanced(ix, i, st[a], st'[a], slot) /\ ~Authorized(ix, i, st[a], st'[a])
  BY <1>1 DEF Advanced, Authorized, Account, AccountOver
<1>9. ~Upgraded(ix, i, st[a], st'[a])
  BY <1>1 DEF Upgraded, Account, AccountOver
<1> QED
  BY <1>2, <1>3, <1>4, <1>5, <1>6, <1>7, <1>8, <1>9, SystemChange

\* Under strict validation no account changes hands behind its back.
THEOREM OwnersHold == Spec => OwnersAuthorised
<1>1. TypeOK /\ [Next]_vars => OwnerStep
  <2> SUFFICES ASSUME TypeOK, [Next]_vars, Stepping, policy = "Strict",
                      NEW a \in DOMAIN st, st'[a].owner # st[a].owner
               PROVE  \/ /\ Head(todo).program = SystemId
                         /\ Signs(Head(todo).metas, a) \/ SeedSigned(Head(todo), a)
                      \/ OwnedBy(Head(todo), st[a])
    BY DEF OwnerStep
  <2>1. Dispatch /\ st'[a] # st[a]
    BY SteppingIsDispatch
  <2>2. CASE \E w, i : SystemChanged(Head(todo), w, i, a)
    BY <2>1, <2>2, SystemReassigns DEF SystemChanged
  <2>3. CASE Head(todo).program \in CustomIds
    BY <2>1, <2>3, StepRules, EngineAssumption DEF OwnedBy, OwnerChangeAllowed
  <2> QED
    BY <2>1, <2>2, <2>3, StepChange
<1> QED
  BY <1>1, TypeCorrect, PTL DEF Spec, OwnersAuthorised

-----------------------------------------------------------------------------
(* Durable nonces.                                                         *)

\* What writing a nonce state, or its version, leaves in a buffer.
LEMMA NonceFields ==
    ASSUME NEW d \in Data, NEW k, NEW n
    PROVE  /\ NonceState(d, k, n).len = d.len /\ NonceState(d, k, n).init
           /\ NonceState(d, k, n).auth = k /\ NonceState(d, k, n).nonce = n
           /\ [d EXCEPT !.version = 1].len = d.len
           /\ [d EXCEPT !.version = 1].init = d.init
           /\ [d EXCEPT !.version = 1].auth = d.auth
           /\ [d EXCEPT !.version = 1].nonce = d.nonce
  BY DEF NonceState, Data

\* The system program keeps an initialised nonce, and asks its authority.
LEMMA SystemNonces ==
    ASSUME TypeOK, Dispatch, NEW a \in DOMAIN st, NEW w, NEW i,
           SystemChanged(Head(todo), w, i, a), st'[a] # st[a],
           HoldsNonce(st[a]), st[a].data.init
    PROVE  /\ HoldsNonce(st'[a]) /\ st'[a].data.init
           /\ \/ st'[a].data.auth = st[a].data.auth
                 /\ st'[a].data.nonce = st[a].data.nonce
              \/ Signs(Head(todo).metas, st[a].data.auth)
<1> DEFINE ix == Head(todo)
           p == st[a]
           n == st'[a]
<1>1. p \in Account /\ w[i] = p /\ SystemOk(ix, w)
  BY SystemChange DEF SystemChanged
<1>2. p.data \in Data /\ p.data.len # 0
  BY <1>1, SystemAssumption DEF Account, AccountOver, Data, HoldsNonce, NonceBytes
<1>3. CASE Paid(ix, i, p, n) \/ Received(ix, i, p, n) \/ Reassigned(ix, i, p, n)
  <2>1. \/ n = Debited(p, ix.amount) \/ n = Credited(p, ix.amount)
        \/ n = [p EXCEPT !.owner = ix.key]
    BY <1>3 DEF Paid, Received, Reassigned
  <2>2. /\ Debited(p, ix.amount).data = p.data /\ Credited(p, ix.amount).data = p.data
        /\ [p EXCEPT !.owner = ix.key].data = p.data
    BY <1>1, Rewrites
  <2>3. n.data = p.data
    BY <2>1, <2>2
  <2> QED
    BY <2>3 DEF HoldsNonce
<1>4. ~Made(ix, i, p, n) /\ ~Resized(ix, i, p, n) /\ ~Initialized(ix, i, p, n, slot)
  <2>1. ~Made(ix, i, p, n)
    BY <1>1, <1>2 DEF Made, SystemOk, CreateAccountOk, CreateAccountWithSeedOk
  <2>2. ~Resized(ix, i, p, n)
    BY <1>1, <1>2 DEF Resized, SystemOk, AllocateOk
  <2>3. ~Initialized(ix, i, p, n, slot)
    BY <1>1 DEF Initialized, SystemOk, InitializeNonceOk
  <2> QED
    BY <2>1, <2>2, <2>3
<1>5. CASE Advanced(ix, i, p, n, slot)
  <2>1. n.data = NonceState(p.data, p.data.auth, slot)
    BY <1>1, <1>5, Rewrites DEF Advanced
  <2>2. Signs(ix.metas, p.data.auth)
    BY <1>1, <1>5 DEF Advanced, SystemOk, AdvanceNonceOk
  <2> QED
    BY <1>2, <2>1, <2>2, NonceFields DEF HoldsNonce
<1>6. CASE Authorized(ix, i, p, n)
  <2>1. n.data = NonceState(p.data, ix.key, p.data.nonce)
    BY <1>1, <1>6, Rewrites DEF Authorized
  <2>2. Signs(ix.metas, p.data.auth)
    BY <1>1, <1>6 DEF Authorized, SystemOk, AuthorizeNonceOk
  <2> QED
    BY <1>2, <2>1, <2>2, NonceFields DEF HoldsNonce
<1>7. CASE Upgraded(ix, i, p, n)
  <2>1. n.data = [p.data EXCEPT !.version = 1]
    BY <1>1, <1>7, Rewrites DEF Upgraded
  <2> QED
    BY <1>2, <2>1, NonceFields DEF HoldsNonce
<1> QED
  BY <1>3, <1>4, <1>5, <1>6, <1>7, SystemChange

\* An initialised nonce survives the system program, and its authority and
\* value are in the hands of the authority, under any validation policy.
THEOREM NoncesHold == Spec => NonceAuthorityHonoured
<1>1. TypeOK /\ [Next]_vars => NonceStep
  <2> SUFFICES ASSUME TypeOK, [Next]_vars, Stepping, NEW a \in DOMAIN st,
                      HoldsNonce(st[a]), st[a].data.init,
                      Head(todo).program = SystemId
               PROVE  /\ HoldsNonce(st'[a]) /\ st'[a].data.init
                      /\ \/ st'[a].data.auth = st[a].data.auth
                            /\ st'[a].data.nonce = st[a].data.nonce
                         \/ Signs(Head(todo).metas, st[a].data.auth)
    BY DEF NonceStep
  <2>1. Dispatch
    BY SteppingIsDispatch
  <2>2. CASE st'[a] = st[a]
    BY <2>2 DEF HoldsNonce
  <2>3. CASE st'[a] # st[a]
    <3>1. PICK w, i : SystemChanged(Head(todo), w, i, a)
      BY <2>1, <2>3, StepChange, EngineAssumption
    <3> QED
      BY <2>1, <2>3, <3>1, SystemNonces
  <2> QED
    BY <2>2, <2>3
<1> QED
  BY <1>1, TypeCorrect, PTL DEF Spec, NonceAuthorityHonoured

-----------------------------------------------------------------------------
(* Quotes.                                                                 *)

\* A product of naturals grows with its factors.
LEMMA ProductMonotone ==
    ASSUME NEW a \in Nat, NEW b \in Nat, NEW c \in Nat, NEW d \in Nat, a <= c, b <= d
    PROVE  a * b <= c * d
<1>1. a * b <= c * b
  <2>1. PICK k \in Nat : c = a + k
    BY c - a \in Nat, c = a + (c - a)
  <2>2. (a + k) * b = a * b + k * b /\ k * b >= 0 /\ a * b \in Int /\ k * b \in Int
    OBVIOUS
  <2> QED
    BY <2>1, <2>2
<1>2. c * b <= c * d
  <2>1. PICK k \in Nat : d = b + k
    BY d - b \in Nat, d = b + (d - b)
  <2>2. c * (b + k) = c * b + c * k /\ c * k >= 0 /\ c * b \in Int /\ c * k \in Int
    OBVIOUS
  <2> QED
    BY <2>1, <2>2
<1> QED
  BY <1>1, <1>2, a * b \in Int, c * b \in Int, c * d \in Int

\* A saturating product does too.
LEMMA SatMulMonotone ==
    ASSUME NEW a \in Nat, NEW b \in Nat, NEW c \in Nat, NEW d \in Nat, a <= c, b <= d
    PROVE  SatMul(a, b) <= SatMul(c, d)
<1> DEFINE m == a * b
           n == c * d
<1>1. m <= n /\ m \in Int /\ n \in Int
  BY ProductMonotone
<1>2. SatMul(a, b) = (IF m > U64Max THEN U64Max ELSE m)
  BY DEF SatMul
<1>3. SatMul(c, d) = (IF n > U64Max THEN U64Max ELSE n)
  BY DEF SatMul
<1> HIDE DEF m, n
<1> QED
  BY <1>1, <1>2, <1>3, AccountsAssumption

\* The fee grows with the rate, the limit and the price.
LEMMA TotalFeeMonotone ==
    ASSUME NEW n \in Nat,
           NEW f \in Nat, NEW g \in Nat, f <= g,
           NEW u \in Nat, NEW v \in Nat, u <= v,
           NEW p \in Nat, NEW q \in Nat, p <= q
    PROVE  TotalFee(f, n, u, p) <= TotalFee(g, n, v, q)
<1>1. BaseFee(f, n) <= BaseFee(g, n)
  BY SatMulMonotone DEF BaseFee
<1>2. PriorityFee(u, p) <= PriorityFee(v, q)
  <2>1. SatMul(u, p) <= SatMul(v, q)
    BY SatMulMonotone
  <2>2. SatMul(u, p) \in U64 /\ SatMul(v, q) \in U64
    BY SatMulType
  <2>3. SatMul(u, p) \in Nat /\ SatMul(v, q) \in Nat
    BY <2>2, AccountsAssumption DEF U64
  <2> QED
    BY <2>1, <2>3 DEF PriorityFee
<1>3. /\ BaseFee(f, n) \in Nat /\ BaseFee(g, n) \in Nat
      /\ PriorityFee(u, p) \in Nat /\ PriorityFee(v, q) \in Nat
  BY TotalFeeType
<1> QED
  BY <1>1, <1>2, <1>3, AccountsAssumption DEF TotalFee, SatAdd

\* Quotes never fall when what they are made of rises.
THEOREM QuotesHold == Spec => QuotesMonotone
<1>1. TypeOK /\ TypeOK' => QuoteStep
  <2> SUFFICES ASSUME TypeOK, TypeOK',
                      EffectiveLimit' >= EffectiveLimit, price' >= price, sigFee' >= sigFee,
                      NEW n \in SignerCounts
               PROVE  TotalFee(sigFee', n, EffectiveLimit', price')
                          >= TotalFee(sigFee, n, EffectiveLimit, price)
    BY DEF QuoteStep
  <2>1. n \in Nat
    BY SignersType DEF SignerCounts
  <2>2. /\ EffectiveLimit \in Nat /\ price \in Nat /\ sigFee \in Nat
        /\ EffectiveLimit' \in Nat /\ price' \in Nat /\ sigFee' \in Nat
    BY DEF EffectiveLimit, TypeOK
  <2>3. /\ EffectiveLimit <= EffectiveLimit' /\ price <= price' /\ sigFee <= sigFee'
    BY <2>2
  <2>4. TotalFee(sigFee, n, EffectiveLimit, price)
            <= TotalFee(sigFee', n, EffectiveLimit', price')
    BY <2>1, <2>2, <2>3, TotalFeeMonotone
  <2>5. /\ TotalFee(sigFee, n, EffectiveLimit, price) \in U64
        /\ TotalFee(sigFee', n, EffectiveLimit', price') \in U64
    BY <2>1, <2>2, TotalFeeType
  <2>6. \A x, y \in U64 : x <= y => y >= x
    BY AccountsAssumption DEF U64
  <2> QED
    BY <2>4, <2>5, <2>6
<1> QED
  BY <1>1, TypeCorrect, PTL DEF Spec, QuotesMonotone

-----------------------------------------------------------------------------
(* Lamports.                                                               *)

\* Account lists are finite, with natural lamports.
LEMMA AccountsLedger ==
    ASSUME NEW S, DOMAIN S \subseteq Addr, S \in [DOMAIN S -> Account]
    PROVE  Ledger(S)
<1>1. IsFiniteSet(DOMAIN S)
  BY FS_Subset, AccountsAssumption
<1>2. \A a \in DOMAIN S : S[a].lamports \in Nat
  BY AccountsAssumption DEF Account, AccountOver, U64
<1> QED
  BY <1>1, <1>2 DEF Ledger

\* The lists before and after a step.
LEMMA StepLedgers ==
    ASSUME TypeOK, Dispatch
    PROVE  Ledger(st) /\ Ledger(st') /\ DOMAIN st' = DOMAIN st
<1>1. DOMAIN st \subseteq Addr
  BY DEF TypeOK
<1> QED
  BY <1>1, DispatchOutcome, AccountsLedger

\* If an account came back changed, the instruction knew all its accounts.
LEMMA StepKeys ==
    ASSUME TypeOK, Dispatch, st' # st
    PROVE  /\ Keys(Head(todo).metas) \subseteq DOMAIN st
           /\ \E a \in DOMAIN st : st'[a] # st[a]
<1> DEFINE ix == Head(todo)
<1>1. PICK out \in Outcomes(ix, st, slot, EffectiveLimit, policy) : st' = out.accts
  BY DispatchOutcome
<1>2. \A e : out # Failed(st, e)
  BY <1>1 DEF Failed
<1>3. Keys(ix.metas) \subseteq DOMAIN st
  BY <1>2, OutcomeKinds
<1>4. \E a \in DOMAIN st : st'[a] # st[a]
  BY DispatchOutcome, StepLedgers
<1> QED
  BY <1>3, <1>4

\* Rule 2 in a step that changes something: what there is more than before is
\* what the accounts just created hold.
LEMMA StepTotal ==
    ASSUME TypeOK, Dispatch, policy = "Strict", st' # st
    PROVE  /\ Lamports(st', DOMAIN st)
                = Lamports(st, DOMAIN st) + Lamports(st', Created(st, st'))
           /\ Lamports(st', Created(st, st')) \in Nat
           /\ Lamports(st, DOMAIN st) \in Nat
<1> DEFINE ms == Head(todo).metas
           prog == Head(todo).program
<1>1. Ledger(st) /\ Ledger(st') /\ DOMAIN st' = DOMAIN st
  BY StepLedgers
<1>2. Keys(ms) \subseteq DOMAIN st /\ \E a \in DOMAIN st : st'[a] # st[a]
  BY StepKeys
<1>3. \A a \in DOMAIN st \ Keys(ms) : st'[a] = st[a]
  BY StepChange
<1>4. ValidPostState(prog, ms, st, st', "Strict")
  BY <1>2, StepChange
<1> HIDE DEF ms, prog
<1> QED
  BY <1>1, <1>2, <1>3, <1>4, StrictTotal

\* The accounts made out of fresh ones are those that rule 2 credits.
LEMMA NewbornIsCreated ==
    ASSUME TypeOK', DOMAIN st' = DOMAIN st
    PROVE  Newborn(st, st') = Created(st, st')
<1>1. \A a \in DOMAIN st : st'[a].data.len \in Nat
  <2>1. DOMAIN st' = DOMAIN slice' /\ st' \in [DOMAIN slice' -> Account]
    BY DEF TypeOK
  <2>2. \A acct \in Account : acct.data.len \in Nat
    BY AccountsAssumption, SystemAssumption DEF Account, AccountOver, Data
  <2> QED
    BY <2>1, <2>2
<1> QED
  BY <1>1 DEF Newborn, Created, EmptySystemOwned

\* Under strict validation the lamports outside the accounts an instruction
\* made are what the whole list held before.
THEOREM InflationHolds == Spec => InflationOnlyByCreation
<1>1. TypeOK /\ TypeOK' /\ [Next]_vars => InflationStep
  <2> SUFFICES ASSUME TypeOK, TypeOK', [Next]_vars, Stepping, policy = "Strict"
               PROVE  Lamports(st', DOMAIN st \ Newborn(st, st')) = Lamports(st, DOMAIN st)
    BY DEF InflationStep
  <2> DEFINE C == Newborn(st, st')
  <2>1. Dispatch
    BY SteppingIsDispatch
  <2>2. Ledger(st) /\ Ledger(st') /\ DOMAIN st' = DOMAIN st
    BY <2>1, StepLedgers
  <2>3. CASE st' = st
    <3>1. C = {}
      <4>1. \A a \in DOMAIN st : st[a].data.len \in Nat
        BY AccountsAssumption, SystemAssumption DEF TypeOK, Account, AccountOver, Data
      <4> QED
        BY <2>3, <4>1 DEF Newborn
    <3> QED
      BY <2>3, <3>1
  <2>4. CASE st' # st
    <3>1. /\ Lamports(st', DOMAIN st) = Lamports(st, DOMAIN st) + Lamports(st', C)
          /\ Lamports(st, DOMAIN st) \in Nat
      BY <2>1, <2>2, <2>4, NewbornIsCreated, StepTotal
    <3>2. C \in SUBSET DOMAIN st'
      BY <2>2 DEF Newborn
    <3>3. /\ Lamports(st', DOMAIN st') = Lamports(st', C) + Lamports(st', DOMAIN st' \ C)
          /\ Lamports(st', C) \in Nat /\ Lamports(st', DOMAIN st' \ C) \in Nat
      BY <2>2, <3>2, LamportsSplit
    <3>4. Lamports(st', DOMAIN st \ C) = Lamports(st, DOMAIN st)
      <4> HIDE DEF C
      <4> QED
        BY <2>2, <3>1, <3>3
    <3> QED
      BY <3>4
  <2> QED
    BY <2>3, <2>4
<1> QED
  BY <1>1, TypeCorrect, PTL DEF Spec, InflationOnlyByCreation

-----------------------------------------------------------------------------
(* Fees.                                                                   *)

NoneTwice(ms) == \A i, j \in DOMAIN ms : ms[i].key = ms[j].key => i = j

\* An instruction of no user's program, that does not pay for an account
\* through metas that repeat a key: the last copy of the payer would come back
\* unpaid, and rule 2 would take what the account got for created lamports.
Gentle(ix) ==
    /\ ix.program \in Registered => ix.program \notin CustomIds
    /\ ix.op \in {"CreateAccount", "CreateAccountWithSeed"} =>
          ix.amount = 0 \/ NoneTwice(ix.metas)

\* Validation stays strict and every instruction is gentle.
Conserving ==
    /\ PolicyChoices \subseteq {"Strict"}
    /\ \A ix \in Singles : Gentle(ix)
    /\ \A ixs \in Chains : \A i \in DOMAIN ixs : Gentle(ixs[i])

\* What a list is emptied from keeps what it had.
LEMMA TailGentle ==
    ASSUME NEW ixs \in Seq(Instruction), ixs # <<>>, \A i \in DOMAIN ixs : Gentle(ixs[i])
    PROVE  Gentle(Head(ixs)) /\ \A i \in DOMAIN Tail(ixs) : Gentle(Tail(ixs)[i])
<1>1. /\ DOMAIN ixs = 1..Len(ixs) /\ Len(ixs) \in Nat /\ 1 \in DOMAIN ixs
      /\ Head(ixs) = ixs[1]
  BY LenProperties, EmptySeq
<1>2. /\ DOMAIN Tail(ixs) = 1..(Len(ixs) - 1)
      /\ \A i \in 1..(Len(ixs) - 1) : Tail(ixs)[i] = ixs[i + 1]
  BY HeadTailProperties, LenProperties
<1> QED
  BY <1>1, <1>2

\* In a step that changes something the system program or a user's program
\* ran, and merged its copies.
LEMMA StepMerges ==
    ASSUME TypeOK, Dispatch, st' # st, Gentle(Head(todo))
    PROVE  LET ix == Head(todo)
               w == Resolve(ix.metas, st)
           IN  /\ ix.program = SystemId
               /\ w \in [DOMAIN ix.metas -> Account] /\ SystemOk(ix, w)
               /\ st' = Merge(ix.metas, st, SystemPost(ix, w, slot))
<1> DEFINE ix == Head(todo)
           w == Resolve(ix.metas, st)
<1>1. PICK a \in DOMAIN st : st'[a] # st[a]
  BY StepKeys
<1>2. PICK out \in Outcomes(ix, st, slot, EffectiveLimit, policy) : st' = out.accts
  BY DispatchOutcome
<1>3. \A e : out # Failed(st, e)
  BY <1>1, <1>2 DEF Failed
<1>4. /\ ix.program \in Registered
      /\ \E r \in Invocations(ix, w, slot) : out = Concluded(ix, st, r, policy)
  BY <1>2, <1>3, OutcomeKinds
<1>5. PICK r \in Invocations(ix, w, slot) : out = Concluded(ix, st, r, policy)
  BY <1>4
<1>6. r.ok /\ st' = Merge(ix.metas, st, r.w)
  BY <1>2, <1>3, <1>5 DEF Concluded, Validated
<1>7. PICK v, i : SystemChanged(ix, v, i, a)
  BY <1>1, <1>4, StepChange DEF Gentle
<1>8. ix.program = SystemId
  BY <1>7 DEF SystemChanged
<1>9. SystemOk(ix, w) /\ r.w = SystemPost(ix, w, slot)
  BY <1>5, <1>6, <1>8 DEF Invocations
<1>10. w \in [DOMAIN ix.metas -> Account]
  BY <1>5, StepKeys, DispatchOutcome, InvocationType
<1> QED
  BY <1>6, <1>8, <1>9, <1>10

\* What the payer of a new account loses the account gets, if no other copy
\* of either comes after.
LEMMA CreationConserves ==
    ASSUME TypeOK, Dispatch, st' # st, Gentle(Head(todo)), NoneTwice(Head(todo).metas),
           Head(todo).op \in {"CreateAccount", "CreateAccountWithSeed"}
    PROVE  Lamports(st', DOMAIN st) = Lamports(st, DOMAIN st)
<1> DEFINE ix == Head(todo)
           ms == ix.metas
           w == Resolve(ms, st)
           v == CreatePost(ix, w)
           n == ix.amount
<1>1. /\ w \in [DOMAIN ms -> Account] /\ SystemOk(ix, w)
      /\ st' = Merge(ms, st, SystemPost(ix, w, slot))
  BY StepMerges
<1>2. SystemPost(ix, w, slot) = v
  BY DEF SystemPost
<1>3. ix \in Instruction /\ n \in Nat /\ ms \in Seq(Meta)
  BY DispatchOutcome, AccountsAssumption DEF Instruction, U64
<1>4. /\ {1, 2} \subseteq DOMAIN ms
      /\ w[2].lamports = 0
  BY <1>1, <1>3, CopiesExist DEF SystemOk, CreateAccountOk, CreateAccountWithSeedOk
<1>5. /\ v[1].lamports = w[1].lamports - n /\ v[2].lamports = n
      /\ \A k \in DOMAIN ms \ {1, 2} : v[k].lamports = w[k].lamports
  <2>1. /\ v[1] = Debited(w[1], n) /\ v[2] = Created0(ix)
        /\ \A k \in DOMAIN ms \ {1, 2} : v[k] = w[k]
    BY <1>1, <1>4 DEF CreatePost
  <2>2. w[1] \in Account
    BY <1>1, <1>4
  <2> QED
    BY <2>1, <2>2, Rewrites DEF Created0
<1>6. Ledger(st) /\ Ledger(st') /\ DOMAIN st' = DOMAIN st /\ Keys(ms) \subseteq DOMAIN st
  BY StepLedgers, StepKeys
<1>7. 1 \in DOMAIN ms /\ 2 \in DOMAIN ms /\ st' = Merge(ms, st, v)
  BY <1>1, <1>2, <1>4
<1>8. \A i, j \in DOMAIN ms : ms[i].key = ms[j].key => i = j
  BY DEF NoneTwice
<1>9. \A k \in DOMAIN ms \ {1, 2} : v[k].lamports = w[k].lamports
  BY <1>5
<1> HIDE DEF ix, ms, v, n
<1>10. /\ Lamports(st', DOMAIN st') + (w[1].lamports + w[2].lamports)
             = Lamports(st, DOMAIN st) + (v[1].lamports + v[2].lamports)
       /\ Lamports(st', DOMAIN st') \in Nat /\ Lamports(st, DOMAIN st) \in Nat
       /\ w[1].lamports \in Nat
  <2>1. PairChanged(ms, st, v, st', 1, 2)
    BY <1>3, <1>6, <1>7, <1>8, <1>9 DEF PairChanged
  <2> QED
    BY <2>1, TwoCopies
<1> HIDE DEF w
<1> QED
  BY <1>3, <1>4, <1>5, <1>6, <1>10

\* Any other instruction leaves an account it makes without lamports.
LEMMA NothingMade ==
    ASSUME TypeOK, Dispatch, st' # st, Gentle(Head(todo)),
           \/ Head(todo).op \notin {"CreateAccount", "CreateAccountWithSeed"}
           \/ Head(todo).amount = 0,
           NEW a \in Created(st, st')
    PROVE  st'[a].lamports = 0
<1> DEFINE ix == Head(todo)
<1>1. /\ a \in DOMAIN st /\ st[a].lamports = 0
      /\ st[a].data.len = 0 /\ st[a].owner = SystemId
      /\ st'[a].owner # st[a].owner \/ st'[a].data.len # 0
  BY DEF Created, EmptySystemOwned
<1>2. st'[a] # st[a]
  BY <1>1
<1>3. ix.program = SystemId
  BY StepMerges
<1>4. PICK w, i : SystemChanged(ix, w, i, a)
  BY <1>1, <1>2, <1>3, StepChange, EngineAssumption
<1>5. st[a] \in Account
  BY <1>1, DispatchOutcome
<1>6. ~Paid(ix, i, st[a], st'[a]) /\ ~Received(ix, i, st[a], st'[a])
  BY <1>1, <1>5, Rewrites DEF Paid, Received
<1>7. Made(ix, i, st[a], st'[a]) => st'[a].lamports = 0
  BY DEF Made, Created0
<1>8. \/ Reassigned(ix, i, st[a], st'[a])
      \/ Resized(ix, i, st[a], st'[a])
      \/ Advanced(ix, i, st[a], st'[a], slot)
      \/ Authorized(ix, i, st[a], st'[a])
      \/ Upgraded(ix, i, st[a], st'[a])
      => st'[a].lamports = st[a].lamports
  BY <1>5 DEF Reassigned, Resized, Advanced, Authorized, Upgraded, Account, AccountOver
<1>9. Initialized(ix, i, st[a], st'[a], slot) => st'[a].lamports = st[a].lamports
  <2> DEFINE d == NonceState(st[a].data, ix.key, slot)
  <2>1. [st[a] EXCEPT !.data = d, !.owner = SystemId].lamports = st[a].lamports
    BY <1>5, Rewrites
  <2> QED
    BY <2>1 DEF Initialized
<1> QED
  BY <1>1, <1>2, <1>4, <1>6, <1>7, <1>8, <1>9, SystemChange

\* So nothing a call does between its fee and its end changes the sum.
LEMMA StepConserves ==
    ASSUME TypeOK, Dispatch, policy = "Strict", Gentle(Head(todo))
    PROVE  Lamports(st', DOMAIN st') = Lamports(st, DOMAIN st)
<1>1. Ledger(st') /\ DOMAIN st' = DOMAIN st
  BY StepLedgers
<1>2. CASE st' = st
  BY <1>2
<1>3. CASE /\ st' # st
           /\ \/ Head(todo).op \notin {"CreateAccount", "CreateAccountWithSeed"}
              \/ Head(todo).amount = 0
  <2>1. Created(st, st') \in SUBSET DOMAIN st'
    BY <1>1 DEF Created
  <2>2. \A a \in Created(st, st') : st'[a].lamports = 0
    BY <1>3, NothingMade
  <2>3. Lamports(st', Created(st, st')) = 0
    BY <1>1, <2>1, <2>2, LamportsZero
  <2> QED
    BY <1>1, <1>3, <2>3, StepTotal
<1>4. CASE /\ st' # st
           /\ Head(todo).op \in {"CreateAccount", "CreateAccountWithSeed"}
           /\ NoneTwice(Head(todo).metas)
  BY <1>1, <1>4, CreationConserves
<1> QED
  BY <1>2, <1>3, <1>4 DEF Gentle

\* A fee is what its payer lacks.
LEMMA FeeTaken ==
    ASSUME NEW s, Ledger(s), NEW p \in DOMAIN s, NEW f \in Nat, s[p].lamports >= f,
           NEW t, Ledger(t), t = [s EXCEPT ![p] = Debited(@, f)],
           s[p] \in Account
    PROVE  /\ Lamports(t, DOMAIN t) + f = Lamports(s, DOMAIN s)
<1>1. DOMAIN t = DOMAIN s /\ {p} \in SUBSET DOMAIN s
  OBVIOUS
<1>2. \A a \in DOMAIN s \ {p} : t[a].lamports = s[a].lamports
  OBVIOUS
<1>3. Lamports(s, {p}) = s[p].lamports /\ Lamports(t, {p}) = t[p].lamports
  BY <1>1, LamportsFew
<1>4. t[p].lamports = s[p].lamports - f /\ s[p].lamports \in Nat
  BY Rewrites DEF Ledger
<1>5. /\ Lamports(t, DOMAIN t) + Lamports(s, {p}) = Lamports(s, DOMAIN s) + Lamports(t, {p})
      /\ Lamports(t, DOMAIN t) \in Nat /\ Lamports(s, DOMAIN s) \in Nat
  BY <1>1, <1>2, LamportsElsewhere
<1> QED
  BY <1>3, <1>4, <1>5

\* What the run checks, and what makes it inductive: validation stays strict
\* and what is left of the call is gentle.
FeeInv ==
    /\ TypeOK
    /\ policy = "Strict"
    /\ \A i \in DOMAIN todo : Gentle(todo[i])
    /\ FeeBalances

\* A call starts with the lamports it was given, fee included.
LEMMA FeeBegin ==
    ASSUME Conserving, FeeInv, NEW verb, NEW ixs, \A i \in DOMAIN ixs : Gentle(ixs[i]),
           NEW accts, NEW e, NEW f, Begin(verb, ixs, accts, e, f),
           Lamports(accts, DOMAIN accts) + f = Lamports(slice, DOMAIN slice), TypeOK'
    PROVE  FeeInv'
  BY DEF FeeInv, FeeBalances, Begin, config

\* Every step keeps the balance, a dispatch by conserving what is in its list.
LEMMA FeeStep ==
    ASSUME Conserving
    PROVE  FeeInv /\ [Next]_vars => FeeInv'
<1> SUFFICES ASSUME FeeInv, [Next]_vars PROVE FeeInv'
  OBVIOUS
<1>1. TypeOK /\ TypeOK'
  BY TypeStep DEF FeeInv
<1>2. Ledger(slice) /\ Lamports(slice, DOMAIN slice) + 0 = Lamports(slice, DOMAIN slice)
  <2>1. Ledger(slice)
    BY <1>1, AccountsLedger DEF TypeOK
  <2>2. DOMAIN slice \in SUBSET DOMAIN slice
    OBVIOUS
  <2>3. Lamports(slice, DOMAIN slice) \in Nat
    BY <2>1, <2>2, LamportsSplit
  <2> QED
    BY <2>1, <2>3
<1>3. ASSUME NEW verb \in Verbs, NEW ix \in Singles, BeginInstruction(verb, ix)
      PROVE  FeeInv'
  <2>1. \A i \in DOMAIN <<ix>> : Gentle(<<ix>>[i])
    BY DEF Conserving
  <2> QED
    BY <1>1, <1>2, <1>3, <2>1, FeeBegin DEF BeginInstruction
<1>4. ASSUME NEW verb \in Verbs, NEW ixs \in Chains, BeginChain(verb, ixs)
      PROVE  FeeInv'
  BY <1>1, <1>2, <1>4, FeeBegin DEF BeginChain, Conserving
<1>5. ASSUME NEW ixs \in Chains, NEW payer \in Payers, BeginTransaction(ixs, payer)
      PROVE  FeeInv'
  <2>1. \A i \in DOMAIN ixs : Gentle(ixs[i])
    BY DEF Conserving
  <2>2. CASE \/ Begin("transaction", ixs, slice, "UnknownAccount", 0)
             \/ Begin("transaction", ixs, slice, "InsufficientFunds", 0)
    BY <1>1, <1>2, <2>1, <2>2, FeeBegin
  <2> DEFINE f == Quote(ixs)
             t == [slice EXCEPT ![payer].lamports = @ - f]
  <2>3. CASE /\ payer \in DOMAIN slice /\ slice[payer].lamports >= f
             /\ Begin("transaction", ixs, t, "EmptyChain", f)
    <3>1. f \in Nat
      BY <1>1, QuoteType, AccountsAssumption DEF U64
    <3>2. slice[payer] \in Account /\ t = [slice EXCEPT ![payer] = Debited(@, f)]
      BY <1>1, <2>3 DEF TypeOK, Debited
    <3>3. Ledger(t)
      <4>1. st' = t /\ slice' = slice
        BY <2>3 DEF Begin
      <4>2. DOMAIN t \subseteq Addr /\ t \in [DOMAIN t -> Account]
        BY <1>1, <4>1 DEF TypeOK
      <4> QED
        BY <4>2, AccountsLedger
    <3>4. Lamports(t, DOMAIN t) + f = Lamports(slice, DOMAIN slice)
      <4> HIDE DEF t, f
      <4> QED
        BY <1>2, <2>3, <3>1, <3>2, <3>3, FeeTaken
    <3> HIDE DEF t, f
    <3> QED
      BY <1>1, <2>1, <2>3, <3>4, FeeBegin
  <2> QED
    BY <1>5, <2>2, <2>3 DEF BeginTransaction
<1>6. CASE Dispatch
  <2>1. todo # <<>> /\ pc # "idle"
    BY <1>6 DEF Dispatch, Unfinished
  <2>2. todo \in Seq(Instruction) /\ todo' = Tail(todo)
    BY <1>1, <1>6 DEF Dispatch, TypeOK
  <2>3. Gentle(Head(todo)) /\ \A i \in DOMAIN todo' : Gentle(todo'[i])
    BY <2>1, <2>2, HeadTailProperties, TailGentle DEF FeeInv
  <2>4. Lamports(st', DOMAIN st') = Lamports(st, DOMAIN st)
    BY <1>1, <1>6, <2>3, StepConserves DEF FeeInv
  <2> QED
    BY <1>1, <1>6, <2>1, <2>3, <2>4 DEF FeeInv, FeeBalances, Dispatch
<1>7. CASE Keep \/ Drop
  BY <1>1, <1>7 DEF Keep, Drop, Finish, FeeInv, FeeBalances, config
<1>8. CASE /\ UNCHANGED <<slice, call>> 
           /\ policy' = policy \/ policy' \in PolicyChoices
  BY <1>1, <1>8 DEF FeeInv, FeeBalances, call, Conserving
<1> QED
  BY <1>3, <1>4, <1>5, <1>6, <1>7, <1>8
     DEF Next, vars, config, SetComputeBudget, SetPriorityFee, SetFeeCalculator,
         SetValidationPolicy, WarpToSlot

\* With strict validation and gentle instructions, at every point of every
\* call the caller's lamports are accounted for: what it would get back now
\* and the fee are what it passed.
THEOREM FeesBalance ==
    ASSUME Conserving
    PROVE  Spec => []FeeBalances
<1>1. Init => FeeInv
  BY HarnessAssumption, TypeInit, EmptySeq DEF Init, FeeInv, FeeBalances, Conserving
<1>2. FeeInv => FeeBalances
  BY DEF FeeInv
<1> QED
  BY <1>1, <1>2, FeeStep, PTL DEF Spec
=============================================================================
