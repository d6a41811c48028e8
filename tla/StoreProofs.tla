----------------------------- MODULE StoreProofs -----------------------------
(***************************************************************************)
(* The overlay for any number of threads, any chains and any accounts: its *)
(* types and those of every call under way, that a panic with the lock     *)
(* held freezes it, and that its verbs happen at once as long as no thread *)
(* reads what another one may change.                                      *)
(*                                                                         *)
(* The type invariant is inductive once the record of a call has a type.   *)
(* For the refinement a call under way must also stand where its chain,    *)
(* run on the accounts of the store as it is now, may have got.            *)
(***************************************************************************)
EXTENDS AccountStore, EngineProofs

\* The stores a harness may have.
Stores == UNION {[D -> Account] : D \in SUBSET Addr}

Phases == {"idle", "collect", "run", "restore", "panicked"}

CallRecord == [phase : Phases, dry : BOOLEAN, snap : Stores,
               todo : Seq(Instruction), st : Stores, err : Errors]

IInv ==
    /\ store \in Stores /\ saved \in Stores
    /\ poisoned \in BOOLEAN
    /\ call \in [Threads -> CallRecord]

\* The threads at work and what they have been told.
Roll == crew \in Crews /\ acks \in [Threads -> BOOLEAN]

-----------------------------------------------------------------------------
(* What the verbs compute from a store is a store.                         *)

\* A store is a function from addresses to accounts.
LEMMA StoreIs ==
    ASSUME NEW s
    PROVE  s \in Stores <=> DOMAIN s \subseteq Addr /\ s \in [DOMAIN s -> Account]
<1>1. ASSUME s \in Stores
      PROVE  DOMAIN s \subseteq Addr /\ s \in [DOMAIN s -> Account]
  <2>1. PICK D \in SUBSET Addr : s \in [D -> Account]
    BY <1>1 DEF Stores
  <2> QED
    BY <2>1
<1>2. ASSUME DOMAIN s \subseteq Addr, s \in [DOMAIN s -> Account]
      PROVE  s \in Stores
  <2> DEFINE D == DOMAIN s
  <2>1. D \in SUBSET Addr /\ s \in [D -> Account]
    BY <1>2
  <2> HIDE DEF D
  <2> QED
    BY <2>1 DEF Stores
<1> QED
  BY <1>1, <1>2

\* The empty store, and the account an unknown address stands for.
LEMMA Blanks == <<>> \in Stores /\ Unseeded \in Account
<1>1. <<>> \in Stores
  <2>1. DOMAIN <<>> = {} /\ <<>> \in [DOMAIN <<>> -> Account]
    OBVIOUS
  <2> QED
    BY <2>1, StoreIs
<1>2. Zeroed(0) \in Data
  BY OverlayAssumption, DataTypes
<1>3. 0 \in U64 /\ SystemId \in Addr
  BY AccountsAssumption DEF U64
<1> QED
  BY <1>1, <1>2, <1>3 DEF Unseeded, Account, AccountOver

\* Merging accounts into a store.
LEMMA CommittedType ==
    ASSUME NEW s \in Stores, NEW accts \in Stores
    PROVE  Committed(s, accts) \in Stores
<1>1. /\ DOMAIN s \subseteq Addr /\ s \in [DOMAIN s -> Account]
      /\ DOMAIN accts \subseteq Addr /\ accts \in [DOMAIN accts -> Account]
  BY StoreIs
<1> DEFINE r == Committed(s, accts)
<1>2. DOMAIN r = DOMAIN s \cup DOMAIN accts /\ r \in [DOMAIN r -> Account]
  BY <1>1 DEF Committed
<1> QED
  BY <1>1, <1>2, StoreIs

\* Storing one account.
LEMMA StoredType ==
    ASSUME NEW s \in Stores, NEW a \in Addr, NEW acct \in Account
    PROVE  Stored(s, a, acct) \in Stores
<1> DEFINE one == [x \in {a} |-> acct]
<1>1. one \in Stores
  <2>1. DOMAIN one \subseteq Addr /\ one \in [DOMAIN one -> Account]
    OBVIOUS
  <2> QED
    BY <2>1, StoreIs
<1> QED
  BY <1>1, CommittedType DEF Stored

\* Removing one.
LEMMA RemovedType ==
    ASSUME NEW s \in Stores, NEW a
    PROVE  Removed(s, a) \in Stores
<1>1. DOMAIN s \subseteq Addr /\ s \in [DOMAIN s -> Account]
  BY StoreIs
<1> DEFINE r == Removed(s, a)
<1>2. DOMAIN r \subseteq Addr /\ r \in [DOMAIN r -> Account]
  BY <1>1 DEF Removed
<1> QED
  BY <1>2, StoreIs

\* An airdrop saturates.
LEMMA AirdroppedType ==
    ASSUME NEW s \in Stores, NEW a \in Addr, NEW n \in U64
    PROVE  Airdropped(s, a, n) \in Stores
<1>1. s \in [DOMAIN s -> Account]
  BY StoreIs
<1>2. ASSUME NEW acct \in Account, NEW m \in U64
      PROVE  [acct EXCEPT !.lamports = m] \in Account
  BY DEF Account, AccountOver
<1>3. ASSUME a \in DOMAIN s
      PROVE  [s[a] EXCEPT !.lamports = SatAdd(@, n)] \in Account
  <2>1. s[a] \in Account
    BY <1>1, <1>3
  <2>2. s[a].lamports \in Nat /\ n \in Nat
    BY <2>1, AccountsAssumption DEF Account, AccountOver, U64
  <2>3. SatAdd(s[a].lamports, n) \in U64
    BY <2>2, SatAddType
  <2> QED
    BY <1>2, <2>1, <2>3
<1>4. [Unseeded EXCEPT !.lamports = n] \in Account
  BY <1>2, Blanks
<1> QED
  BY <1>3, <1>4, StoredType DEF Airdropped

\* An account made with what it needs to be exempt from rent.
LEMMA RentedType ==
    ASSUME NEW s \in Stores, NEW a \in Addr, NEW size \in Sizes, NEW owner \in Addr
    PROVE  Rented(s, a, size, owner) \in Stores
<1> DEFINE acct == [lamports |-> MinimumBalance[size], data |-> Zeroed(size),
                    owner |-> owner, executable |-> FALSE]
<1>1. MinimumBalance[size] \in U64 /\ Zeroed(size) \in Data
  BY OverlayAssumption, DataTypes
<1>2. acct \in Account
  BY <1>1 DEF Account, AccountOver
<1> HIDE DEF acct
<1>3. Stored(s, a, acct) \in Stores
  BY <1>2, StoredType
<1> QED
  BY <1>3 DEF Rented, acct

\* The balance setters write into a buffer that is long enough.
LEMMA WritesType ==
    ASSUME NEW s \in Stores, NEW a, a \in DOMAIN s,
           NEW r \in TokenWrites(s, a) \cup MintWrites(s, a)
    PROVE  r \in Stores
<1>1. /\ DOMAIN s \subseteq Addr /\ s \in [DOMAIN s -> Account]
      /\ s[a] \in Account /\ s[a].data \in Data
  BY StoreIs DEF Account, AccountOver
<1>2. ASSUME NEW d \in Data
      PROVE  [s EXCEPT ![a] = [s[a] EXCEPT !.data = d]] \in Stores
  <2> DEFINE acct == [s[a] EXCEPT !.data = d]
             t == [s EXCEPT ![a] = acct]
  <2>1. acct \in Account
    BY <1>1 DEF Account, AccountOver
  <2> HIDE DEF acct
  <2>2. DOMAIN t = DOMAIN s /\ t \in [DOMAIN s -> Account]
    BY <1>1, <2>1
  <2>3. t \in Stores
    BY <1>1, <2>2, StoreIs
  <2> QED
    BY <2>3 DEF acct
<1>3. CASE r \in TokenWrites(s, a)
  <2>1. PICK n \in Slots \cup {NoHash} : r = [s EXCEPT ![a].data.nonce = n]
    BY <1>3 DEF TokenWrites
  <2> DEFINE d == [s[a].data EXCEPT !.nonce = n]
  <2>2. d \in Data
    BY <1>1 DEF Data
  <2>3. r = [s EXCEPT ![a] = [s[a] EXCEPT !.data = d]]
    BY <2>1
  <2> QED
    BY <1>2, <2>2, <2>3
<1>4. CASE r \in MintWrites(s, a)
  <2>1. PICK k \in Addr, n \in Slots \cup {NoHash} :
            r = [s EXCEPT ![a].data = [@ EXCEPT !.nonce = n, !.auth = k]]
    BY <1>4 DEF MintWrites
  <2> DEFINE d == [s[a].data EXCEPT !.nonce = n, !.auth = k]
  <2>2. d \in Data
    BY <1>1 DEF Data
  <2>3. r = [s EXCEPT ![a] = [s[a] EXCEPT !.data = d]]
    BY <1>1, <2>1
  <2> QED
    BY <1>2, <2>2, <2>3
<1> QED
  BY <1>3, <1>4

\* What a call reads out of a store.
LEMMA InputsType ==
    ASSUME NEW s \in Stores, NEW ixs \in Seq(Instruction)
    PROVE  Inputs(s, ixs) \in Stores
<1>1. \A i \in DOMAIN ixs : ixs[i] \in Instruction
  <2>1. DOMAIN ixs = 1..Len(ixs)
    BY LenProperties
  <2> QED
    BY <2>1, ElementOfSeq
<1>2. \A ix \in Instruction : {ix.program} \cup Keys(ix.metas) \subseteq Addr
  BY MetasType DEF Instruction
<1>3. Footprint(ixs) \subseteq Addr
  BY <1>1, <1>2 DEF Footprint
<1>4. s \in [DOMAIN s -> Account]
  BY StoreIs
<1> DEFINE r == Inputs(s, ixs)
<1>5. DOMAIN r = Footprint(ixs) /\ r \in [DOMAIN r -> Account]
  BY <1>4, Blanks DEF Inputs
<1> QED
  BY <1>3, <1>5, StoreIs

\* What an instruction makes of the accounts of its call.
LEMMA DispatchedType ==
    ASSUME NEW ix \in Instruction, NEW accts \in Stores, NEW out \in Dispatched(ix, accts)
    PROVE  out.accts \in Stores /\ out.error \in Errors
<1>1. DOMAIN accts \subseteq Addr /\ accts \in [DOMAIN accts -> Account]
  BY StoreIs
<1>2. out \in Outcomes(ix, accts, Slot, Limit, Policy) /\ Slot \in Slots
  BY OverlayAssumption DEF Dispatched
<1>3. out.accts \in [DOMAIN accts -> Account] /\ out.error \in Errors
  BY <1>1, <1>2, OutcomeType
<1>4. DOMAIN out.accts \subseteq Addr /\ out.accts \in [DOMAIN out.accts -> Account]
  BY <1>1, <1>3
<1> QED
  BY <1>3, <1>4, StoreIs

-----------------------------------------------------------------------------
(* The inductive invariant.                                                *)

\* A call that has not begun.
LEMMA IdleType == Idle \in CallRecord
  BY Blanks DEF Idle, CallRecord, Phases, Errors

\* A critical section that ends with a store.
LEMMA LockedKeeps ==
    ASSUME IInv, NEW s \in Stores, Locked(s),
           call' \in [Threads -> CallRecord]
    PROVE  IInv'
  BY DEF IInv, Locked

\* A verb that is one critical section.
LEMMA EditKeeps ==
    ASSUME IInv, NEW t, NEW verb, NEW s \in Stores, Edit(t, verb, s)
    PROVE  IInv'
<1>1. Locked(s) /\ call' = call
  BY DEF Edit
<1> QED
  BY <1>1, LockedKeeps DEF IInv

\* A step of one thread's call that is a record again.
LEMMA OneCall ==
    ASSUME IInv, NEW t \in Threads, NEW c \in CallRecord, call' = [call EXCEPT ![t] = c]
    PROVE  call' \in [Threads -> CallRecord]
  BY DEF IInv

\* What is known of a call.
LEMMA CallHas ==
    ASSUME IInv, NEW t \in Threads
    PROVE  /\ call[t] \in CallRecord
           /\ call[t].phase \in Phases /\ call[t].dry \in BOOLEAN
           /\ call[t].snap \in Stores /\ call[t].todo \in Seq(Instruction)
           /\ call[t].st \in Stores /\ call[t].err \in Errors
<1>1. call[t] \in CallRecord
  BY DEF IInv
<1> QED
  BY <1>1 DEF CallRecord

\* The accounts are read, or will be.
LEMMA CollectedType ==
    ASSUME IInv, NEW c \in CallRecord, NEW ixs \in Seq(Instruction)
    PROVE  Collected(c, ixs) \in CallRecord
<1>1. Inputs(store, ixs) \in Stores
  BY InputsType DEF IInv
<1> QED
  BY <1>1 DEF Collected, CallRecord, Phases

\* A call that begins.
LEMMA BeginKeeps ==
    ASSUME IInv, NEW t \in Threads, NEW ixs \in StoreChains[t],
           Process(t, ixs) \/ Simulate(t, ixs)
    PROVE  IInv'
<1>1. ixs \in Seq(Instruction)
  BY OverlayAssumption
<1>2. Locked(store) /\ store \in Stores
  BY DEF Process, Simulate, IInv
<1>3. CASE Process(t, ixs)
  <2>1. call' = [call EXCEPT ![t] = Collected(call[t], ixs)]
    BY <1>3 DEF Process
  <2>2. Collected(call[t], ixs) \in CallRecord
    BY <1>1, CallHas, CollectedType
  <2> QED
    BY <1>2, <2>1, <2>2, OneCall, LockedKeeps
<1>4. CASE Simulate(t, ixs)
  <2> DEFINE c == [call[t] EXCEPT !.phase = "collect", !.dry = TRUE,
                                  !.snap = store, !.todo = ixs]
  <2>1. call' = [call EXCEPT ![t] = c]
    BY <1>4 DEF Simulate
  <2>2. c \in CallRecord
    BY <1>1, <1>2, CallHas DEF CallRecord, Phases
  <2> HIDE DEF c
  <2> QED
    BY <1>2, <2>1, <2>2, OneCall, LockedKeeps
<1> QED
  BY <1>3, <1>4

\* A call that returns, or goes on to put its snapshot back.
LEMMA ReturnType ==
    ASSUME IInv, NEW t \in Threads, Return(t)
    PROVE  call' \in [Threads -> CallRecord]
<1> DEFINE c == IF call[t].dry THEN [call[t] EXCEPT !.phase = "restore"] ELSE Idle
<1>1. c \in CallRecord
  <2>1. [call[t] EXCEPT !.phase = "restore"] \in CallRecord
    BY CallHas DEF CallRecord, Phases
  <2> QED
    BY <2>1, IdleType
<1>2. call' = [call EXCEPT ![t] = c]
  BY DEF Return
<1> HIDE DEF c
<1> QED
  BY <1>1, <1>2, OneCall

\* The steps of a call under way.
LEMMA ProceedKeeps ==
    ASSUME IInv, NEW t \in Threads, Proceed(t)
    PROVE  IInv'
<1>1. CASE Collect(t)
  <2>1. /\ Locked(store) /\ store \in Stores
        /\ call' = [call EXCEPT ![t] = Collected(call[t], call[t].todo)]
    BY <1>1 DEF Collect, IInv
  <2>2. Collected(call[t], call[t].todo) \in CallRecord
    BY CallHas, CollectedType
  <2> QED
    BY <2>1, <2>2, OneCall, LockedKeeps
<1>2. CASE Dispatch(t)
  <2>1. PICK out \in Dispatched(Head(call[t].todo), call[t].st) :
            call' = [call EXCEPT ![t].todo = Tail(@), ![t].st = out.accts,
                                 ![t].err = out.error]
    BY <1>2 DEF Dispatch
  <2>2. /\ Head(call[t].todo) \in Instruction
        /\ Tail(call[t].todo) \in Seq(Instruction)
    BY <1>2, CallHas, HeadTailProperties DEF Dispatch, Unfinished
  <2>3. out.accts \in Stores /\ out.error \in Errors
    BY <2>2, CallHas, DispatchedType
  <2> DEFINE c == [call[t] EXCEPT !.todo = Tail(call[t].todo), !.st = out.accts,
                                  !.err = out.error]
  <2>4. c \in CallRecord
    BY <2>2, <2>3, CallHas DEF CallRecord
  <2>5. call' = [call EXCEPT ![t] = c]
    BY <2>1
  <2> HIDE DEF c
  <2>6. call' \in [Threads -> CallRecord]
    BY <2>4, <2>5, OneCall
  <2> QED
    BY <1>2, <2>6 DEF Dispatch, IInv
<1>3. CASE Commit(t)
  <2>1. Committed(store, call[t].st) \in Stores
    BY CallHas, CommittedType DEF IInv
  <2> QED
    BY <1>3, <2>1, ReturnType, LockedKeeps DEF Commit
<1>4. CASE GiveUp(t)
  BY <1>4, ReturnType DEF GiveUp, IInv
<1>5. CASE Restore(t)
  <2>1. call' = [call EXCEPT ![t] = Idle] /\ Locked(call[t].snap)
    BY <1>5 DEF Restore
  <2> QED
    BY <2>1, CallHas, IdleType, OneCall, LockedKeeps
<1>6. CASE Panic(t)
  <2>1. /\ call' = [call EXCEPT ![t] = Panicked(call[t])]
        /\ UNCHANGED <<store, saved, poisoned>>
    BY <1>6 DEF Panic
  <2>2. Panicked(call[t]) \in CallRecord
    BY CallHas, IdleType DEF Panicked, CallRecord, Phases
  <2>3. call' \in [Threads -> CallRecord]
    BY <2>1, <2>2, OneCall
  <2> QED
    BY <2>1, <2>3 DEF IInv
<1> QED
  BY <1>1, <1>2, <1>3, <1>4, <1>5, <1>6 DEF Proceed

\* A panic with the lock held.
LEMMA PoisonKeeps ==
    ASSUME IInv, NEW t \in Threads, Poison(t)
    PROVE  IInv'
<1> DEFINE c == [call[t] EXCEPT !.phase = "panicked"]
<1>1. /\ call' = [call EXCEPT ![t] = c] /\ poisoned' = TRUE
      /\ store' = store /\ saved' = saved
  BY DEF Poison
<1>2. c \in CallRecord
  BY CallHas DEF CallRecord, Phases
<1> HIDE DEF c
<1>3. call' \in [Threads -> CallRecord]
  BY <1>1, <1>2, OneCall
<1> QED
  BY <1>1, <1>3 DEF IInv

\* The verbs that edit the overlay.
LEMMA EditsKeep ==
    ASSUME IInv, NEW t \in Threads,
           \/ \E a \in Mine[t], acct \in Seeded : SetAccount(t, a, acct)
           \/ \E a \in Mine[t] : RemoveAccount(t, a)
           \/ ClearAccounts(t)
           \/ RestoreAccounts(t)
           \/ \E a \in Mine[t], n \in Gifts : Airdrop(t, a, n)
           \/ \E a \in Mine[t], size \in Sizes, owner \in Mine[t] :
                  CreateAccount(t, a, size, owner)
           \/ \E a \in Mine[t] : SetTokenBalance(t, a)
           \/ \E a \in Mine[t] : SetMintSupply(t, a)
    PROVE  IInv'
<1>1. /\ Mine[t] \subseteq Addr /\ Seeded \subseteq Account /\ Gifts \subseteq U64
      /\ store \in Stores /\ saved \in Stores
  BY OverlayAssumption DEF IInv
<1>2. ASSUME NEW a \in Mine[t], NEW acct \in Seeded, SetAccount(t, a, acct)
      PROVE  IInv'
  <2>1. Stored(store, a, acct) \in Stores
    BY <1>1, StoredType
  <2> QED
    BY <1>2, <2>1, EditKeeps DEF SetAccount
<1>3. ASSUME NEW a \in Mine[t], RemoveAccount(t, a)
      PROVE  IInv'
  BY <1>1, <1>3, RemovedType, EditKeeps DEF RemoveAccount
<1>4. ASSUME ClearAccounts(t)
      PROVE  IInv'
  BY <1>4, Blanks, EditKeeps DEF ClearAccounts
<1>5. ASSUME RestoreAccounts(t)
      PROVE  IInv'
  BY <1>1, <1>5, EditKeeps DEF RestoreAccounts
<1>6. ASSUME NEW a \in Mine[t], NEW n \in Gifts, Airdrop(t, a, n)
      PROVE  IInv'
  <2>1. Airdropped(store, a, n) \in Stores
    BY <1>1, AirdroppedType
  <2> QED
    BY <1>6, <2>1, EditKeeps DEF Airdrop
<1>7. ASSUME NEW a \in Mine[t], NEW size \in Sizes, NEW owner \in Mine[t],
             CreateAccount(t, a, size, owner)
      PROVE  IInv'
  <2>1. Rented(store, a, size, owner) \in Stores
    BY <1>1, RentedType
  <2> QED
    BY <1>7, <2>1, EditKeeps DEF CreateAccount
<1>8. ASSUME NEW a \in Mine[t], SetTokenBalance(t, a) \/ SetMintSupply(t, a)
      PROVE  IInv'
  <2>1. CASE Poison(t)
    BY <2>1, PoisonKeeps
  <2>2. CASE /\ a \in DOMAIN store
             /\ \E s \in TokenWrites(store, a) \cup MintWrites(store, a) :
                    Edit(t, "token", s) \/ Edit(t, "mint", s)
    BY <1>1, <2>2, WritesType, EditKeeps
  <2> QED
    BY <1>8, <2>1, <2>2 DEF SetTokenBalance, SetMintSupply, FitsToken, FitsMint
<1> QED
  BY <1>2, <1>3, <1>4, <1>5, <1>6, <1>7, <1>8

\* Nobody joins or leaves, and a bit flips or does not.
LEMMA RollKeeps == Roll /\ [Next]_vars => Roll'
<1> SUFFICES ASSUME Roll, [Next]_vars
             PROVE  Roll'
  OBVIOUS
<1>1. crew' = crew
  BY DEF Next, Proceed, vars
<1>2. ASSUME NEW t, acks' = acks \/ Told(t)
      PROVE  acks' \in [Threads -> BOOLEAN]
  BY <1>2 DEF Roll, Told
<1>3. ASSUME NEW t, Proceed(t)
      PROVE  acks' = acks \/ Told(t)
  BY <1>3 DEF Proceed, Collect, Dispatch, Commit, GiveUp, Restore, Panic
<1>4. \A t, verb, s : Edit(t, verb, s) => Told(t)
  BY DEF Edit
<1>5. ASSUME NEW t, Begin(t)
      PROVE  acks' = acks \/ Told(t)
  BY <1>4, <1>5
     DEF Begin, Process, Simulate, SetAccount, RemoveAccount, ClearAccounts, SnapshotAccounts,
         RestoreAccounts, Airdrop, CreateAccount, SetTokenBalance, SetMintSupply, Poison
<1>6. CASE Next
  <2>1. PICK t \in crew : Proceed(t) \/ Begin(t)
    BY <1>6 DEF Next
  <2> QED
    BY <1>1, <1>2, <1>3, <1>5, <2>1 DEF Roll
<1>7. CASE UNCHANGED vars
  BY <1>7 DEF vars, Roll
<1> QED
  BY <1>6, <1>7

\* Every step keeps the invariant.
LEMMA NextInv == Roll /\ IInv /\ [Next]_vars => IInv'
<1> SUFFICES ASSUME Roll, IInv, [Next]_vars
             PROVE  IInv'
  OBVIOUS
<1>1. ASSUME NEW t \in Threads, SnapshotAccounts(t)
      PROVE  IInv'
  BY <1>1 DEF SnapshotAccounts, IInv
<1>2. ASSUME NEW t \in Threads, Begin(t)
      PROVE  IInv'
  BY <1>1, <1>2, BeginKeeps, EditsKeep DEF Begin
<1>3. CASE UNCHANGED vars
  BY <1>3 DEF vars, IInv
<1>4. crew \subseteq Threads
  BY OverlayAssumption DEF Roll
<1> QED
  BY <1>2, <1>3, <1>4, ProceedKeeps DEF Next

\* A fresh harness.
LEMMA InitInv == Init => Roll /\ IInv
<1> SUFFICES ASSUME Init
             PROVE  Roll /\ IInv
  OBVIOUS
<1> QED
  BY IdleType, Blanks DEF Init, IInv, Roll

\* Every variable keeps its type, on any number of threads: what a dry run
\* puts back, a chain commits or a test seeds, the overlay holds accounts.
THEOREM StoreTypes == Spec => []TypeOK
<1>1. Roll /\ IInv => TypeOK
  <2> SUFFICES ASSUME Roll, IInv
               PROVE  TypeOK
    OBVIOUS
  <2>1. /\ DOMAIN store \subseteq Addr /\ store \in [DOMAIN store -> Account]
        /\ DOMAIN saved \subseteq Addr /\ saved \in [DOMAIN saved -> Account]
        /\ poisoned \in BOOLEAN /\ DOMAIN call = Threads
    BY StoreIs DEF IInv
  <2>2. ASSUME NEW t \in Threads
        PROVE  /\ call[t].phase \in Phases /\ call[t].dry \in BOOLEAN
               /\ call[t].err \in Errors /\ call[t].todo \in Seq(Instruction)
               /\ DOMAIN call[t].st \subseteq Addr
               /\ call[t].st \in [DOMAIN call[t].st -> Account]
               /\ DOMAIN call[t].snap \subseteq Addr
               /\ call[t].snap \in [DOMAIN call[t].snap -> Account]
    BY CallHas, StoreIs
  <2> QED
    BY <2>1, <2>2 DEF TypeOK, Phases, Roll
<1>2. Spec => [](Roll /\ IInv)
  BY InitInv, RollKeeps, NextInv, PTL DEF Spec
<1> QED
  BY <1>1, <1>2, PTL

\* Once a setter has panicked with the lock held (lib.rs, the expects of the
\* account_store lock), no thread changes the overlay or the snapshot again.
THEOREM PoisonHolds == Spec => PoisonFreezes
<1>1. ASSUME [Next]_vars, poisoned
      PROVE  poisoned' /\ UNCHANGED <<store, saved>>
  <2>1. \A s : ~Locked(s)
    BY <1>1 DEF Locked
  <2>2. \A t, verb, s : ~Edit(t, verb, s)
    BY <2>1 DEF Edit
  <2>3. ASSUME NEW t, Proceed(t)
        PROVE  UNCHANGED <<store, saved, poisoned>>
    BY <2>1, <2>3 DEF Proceed, Collect, Dispatch, Commit, GiveUp, Restore, Panic
  <2>4. \A t : ~SnapshotAccounts(t) /\ ~Poison(t)
    BY <1>1 DEF SnapshotAccounts, Poison
  <2>5. \A t : ~Begin(t)
    BY <2>1, <2>2, <2>4
       DEF Begin, Process, Simulate, SetAccount, RemoveAccount, ClearAccounts,
           RestoreAccounts, Airdrop, CreateAccount, SetTokenBalance, SetMintSupply
  <2>7. CASE Next
    BY <1>1, <2>3, <2>5, <2>7 DEF Next
  <2>6. CASE UNCHANGED vars
    BY <1>1, <2>6 DEF vars
  <2> QED
    BY <1>1, <2>6, <2>7
<1> QED
  BY <1>1, PTL DEF Spec, PoisonFreezes

-----------------------------------------------------------------------------
(* Serialisation.                                                          *)

\* Nobody of C but t makes calls.
Sole(t, C) == \A u \in C : u # t => StoreVerbs[u] = {}
Alone(t) == Sole(t, crew)

\* What the calls of a thread read, and what a chain and all the verbs of a
\* thread may change.  Under strict validation that is only what the metas mark
\* writable.
Reads(t) == UNION {Footprint(ixs) : ixs \in StoreChains[t]}

Writes(ixs) ==
    UNION {{a \in Keys(ixs[i].metas) : Policy = "Strict" => Writable(ixs[i].metas, a)} :
               i \in DOMAIN ixs}

Alters(t) == Mine[t] \cup UNION {Writes(ixs) : ixs \in StoreChains[t]}

\* One thread has the harness to itself, or none of them makes a dry run, clears
\* or restores, and none reads what another changes.
Parted(C) ==
    \A t \in C :
        \/ StoreVerbs[t] = {} \/ Sole(t, C)
        \/ /\ StoreVerbs[t] \cap {"simulate", "clear", "restore"} = {}
           /\ \A u \in C \ {t} :
                  StoreVerbs[u] # {} => Reads(u) \cap Alters(t) = {}

\* t has run the first n instructions of ixs on the accounts of the store,
\* and has changed none of them that it must not.
Underway(t, ixs, n) ==
    LET c == call[t] IN
    /\ ixs \in StoreChains[t] /\ n \in 0..Len(ixs)
    /\ Len(c.todo) = Len(ixs) - n
    /\ \A i \in 1..Len(c.todo) : c.todo[i] = ixs[n + i]
    /\ [accts |-> c.st, error |-> c.err] \in Atomic!Course(ixs, Inputs(store, ixs))[n]
    /\ DOMAIN c.st = Footprint(ixs)
    /\ \A a \in Footprint(ixs) : a \notin Alters(t) => c.st[a] = Inputs(store, ixs)[a]

\* Where a call stands: a dry run has the store as it was when it took its
\* snapshot until it writes to it, a chain what its instructions made of it.
Stands(t) ==
    LET c == call[t] IN
    /\ c.phase = "idle" => c = Idle
    /\ c.phase # "idle" => StoreVerbs[t] # {}
    /\ c.dry => "simulate" \in StoreVerbs[t]
    /\ c.phase = "run" /\ ~c.dry => "process" \in StoreVerbs[t]
    /\ c.phase \in {"collect", "restore"} => c.dry
    /\ c.phase = "collect" => c.todo \in StoreChains[t] /\ c.err = "EmptyChain"
    /\ c.phase = "run" => \E ixs \in StoreChains[t] : \E n \in 0..Len(ixs) : Underway(t, ixs, n)

SInv ==
    /\ Roll /\ IInv
    /\ \A t \in crew : Stands(t)
    /\ \A t \in Threads \ crew : call[t] = Idle

\* The result of an instruction is a list and an error and nothing else.
LEMMA ResultIs ==
    ASSUME NEW ix, NEW accts, NEW out \in Dispatched(ix, accts)
    PROVE  out = [accts |-> out.accts, error |-> out.error]
  BY OutcomeKinds DEF Dispatched, Concluded, Validated, Failed

\* The course of a chain, one instruction after the other.
LEMMA CourseIs ==
    ASSUME NEW ixs \in Seq(Instruction), NEW accts
    PROVE  /\ Atomic!Course(ixs, accts)[0] = {[accts |-> accts, error |-> "EmptyChain"]}
           /\ \A n \in 1..Len(ixs) :
                  Atomic!Course(ixs, accts)[n] =
                      UNION {Atomic!Then(ixs[n], r) : r \in Atomic!Course(ixs, accts)[n - 1]}
<1> DEFINE first == {[accts |-> accts, error |-> "EmptyChain"]}
           next(n, R) == UNION {Atomic!Then(ixs[n], r) : r \in R}
           Runs(f, m) == /\ f[0] = first
                         /\ \A n \in 1..m : f[n] = next(n, f[n - 1])
           N == {m \in Nat : \E f : Runs(f, m)}
<1>1. 0 \in N
  <2>1. Runs([n \in {0} |-> first], 0)
    OBVIOUS
  <2> QED
    BY <2>1
<1>2. ASSUME NEW m \in N PROVE m + 1 \in N
  <2>1. PICK f : Runs(f, m)
    OBVIOUS
  <2> DEFINE g == [n \in 0..(m + 1) |-> IF n = m + 1 THEN next(n, f[m]) ELSE f[n]]
  <2>2. /\ g[0] = f[0] /\ g[m + 1] = next(m + 1, f[m])
        /\ \A n \in 1..m : g[n] = f[n] /\ g[n - 1] = f[n - 1]
        /\ g[m] = f[m]
    <3> HIDE DEF next
    <3> QED
      OBVIOUS
  <2> HIDE DEF g, next, first
  <2>3. ASSUME NEW n \in 1..(m + 1) PROVE g[n] = next(n, g[n - 1])
    <3>1. CASE n = m + 1
      BY <2>2, <3>1
    <3>2. CASE n \in 1..m
      BY <2>1, <2>2, <3>2
    <3> QED
      BY <3>1, <3>2
  <2>4. Runs(g, m + 1)
    BY <2>1, <2>2, <2>3
  <2> QED
    BY <2>4
<1>3. Len(ixs) \in N
  <2> HIDE DEF N
  <2>1. N \in SUBSET Nat
    BY DEF N
  <2> QED
    BY <1>1, <1>2, <2>1, NaturalInduction, LenProperties
<1>4. PICK f : Runs(f, Len(ixs))
  BY <1>3
<1> DEFINE h == [n \in 0..Len(ixs) |-> f[n]]
           rec(c) == [n \in 0..Len(ixs) |-> IF n = 0 THEN first ELSE next(n, c[n - 1])]
<1>5. h = rec(h)
  <2> HIDE DEF next, first
  <2> QED
    BY <1>4, LenProperties
<1>6. Atomic!Course(ixs, accts) = CHOOSE c : c = rec(c)
  BY DEF Atomic!Course
<1> HIDE DEF h
<1>7. Atomic!Course(ixs, accts) = rec(Atomic!Course(ixs, accts))
  <2> HIDE DEF rec
  <2> QED
    BY <1>5, <1>6
<1> QED
  <2> HIDE DEF next, first
  <2>1. ASSUME NEW n \in 0..Len(ixs)
        PROVE  Atomic!Course(ixs, accts)[n] =
                   IF n = 0 THEN first ELSE next(n, Atomic!Course(ixs, accts)[n - 1])
    BY <1>7
  <2>2. Atomic!Course(ixs, accts)[0] = first
    BY <2>1, LenProperties
  <2>3. ASSUME NEW n \in 1..Len(ixs)
        PROVE  Atomic!Course(ixs, accts)[n] = next(n, Atomic!Course(ixs, accts)[n - 1])
    BY <2>1, LenProperties
  <2> QED
    BY <2>2, <2>3 DEF next, first

\* The course of a chain goes on with what the next instruction makes of a
\* result that lets it run.
LEMMA CourseGoesOn ==
    ASSUME NEW ixs \in Seq(Instruction), NEW accts, NEW n \in 1..Len(ixs),
           NEW r \in Atomic!Course(ixs, accts)[n - 1], r.error \in {"EmptyChain", "None"},
           NEW out \in Dispatched(ixs[n], r.accts)
    PROVE  out \in Atomic!Course(ixs, accts)[n]
<1>1. out \in Atomic!Then(ixs[n], r)
  BY DEF Atomic!Then, Atomic!GoesOn
<1> QED
  BY <1>1, CourseIs

-----------------------------------------------------------------------------
(* What others see of a call.                                              *)

\* What a store has at an address, for a call that reads it.
Seen(s, a) == IF a \in DOMAIN s THEN s[a] ELSE Unseeded

\* A store that differs from the overlay only where t may change it.
Spares(t, s) == \A a : a \notin Alters(t) => Seen(s, a) = Seen(store, a)

\* A step of t's: nobody else's call moves.
Only(t) == StoreVerbs[t] # {} /\ \A u \in Threads : u # t => call'[u] = call[u]

\* A thread that is in the middle of a call has verbs; if it makes a dry run
\* nobody else has.
LEMMA Callers ==
    ASSUME Parted(crew), SInv, NEW t \in Threads, t \in crew, NEW u \in Threads,
           StoreVerbs[t] # {}, u # t
    PROVE  /\ call[u].dry = FALSE
           /\ u \in crew /\ Alone(t) => StoreVerbs[u] = {}
           /\ u \in crew /\ StoreVerbs[u] # {} =>
                  /\ Reads(u) \cap Alters(t) = {}
                  /\ StoreVerbs[t] \cap {"simulate", "clear", "restore"} = {}
<1>1. CASE u \in crew
  <2>1. call[u].dry => "simulate" \in StoreVerbs[u]
    BY <1>1 DEF SInv, Stands
  <2>2. call[u].dry \in BOOLEAN
    BY CallHas DEF SInv
  <2>3. Alone(t) => StoreVerbs[u] = {}
    BY <1>1 DEF Alone, Sole
  <2>4. Sole(u, crew) => StoreVerbs[t] = {}
    BY DEF Sole
  <2>5. StoreVerbs[u] = {} \/ StoreVerbs[u] \cap {"simulate", "clear", "restore"} = {}
    BY <1>1, <2>4 DEF Parted
  <2> QED
    BY <1>1, <2>1, <2>2, <2>3, <2>5 DEF Parted, Alone
<1>2. CASE u \notin crew
  BY <1>2 DEF SInv, Idle
<1> QED
  BY <1>1, <1>2

\* A call of another thread stands where it stood.
LEMMA OthersStand ==
    ASSUME Parted(crew), SInv, NEW t \in Threads, t \in crew, Only(t),
           Alone(t) \/ Spares(t, store'),
           NEW u \in Threads, u \in crew, u # t
    PROVE  Stands(u)'
<1>1. call'[u] = call[u] /\ Stands(u)
  BY DEF SInv, Only
<1>2. CASE StoreVerbs[u] = {}
  BY <1>1, <1>2 DEF Stands
<1>3. CASE StoreVerbs[u] # {}
  <2>1. /\ call[u].dry = FALSE /\ Reads(u) \cap Alters(t) = {}
        /\ Spares(t, store')
    BY <1>3, Callers DEF Only
  <2>2. ASSUME NEW ixs \in StoreChains[u]
        PROVE  Inputs(store', ixs) = Inputs(store, ixs)
    <3>1. \A a \in Footprint(ixs) : Seen(store', a) = Seen(store, a)
      BY <2>1 DEF Reads, Spares
    <3>2. \A s : Inputs(s, ixs) = [a \in Footprint(ixs) |-> Seen(s, a)]
      BY DEF Inputs, Seen
    <3> QED
      BY <3>1, <3>2
  <2>3. ASSUME NEW ixs \in StoreChains[u], NEW n \in 0..Len(ixs), Underway(u, ixs, n)
        PROVE  Underway(u, ixs, n)'
    BY <1>1, <2>2, <2>3 DEF Underway
  <2> QED
    BY <1>1, <2>1, <2>3 DEF Stands
<1> QED
  BY <1>2, <1>3

\* Nobody else is in a dry run when t, that has verbs, makes a step.
LEMMA WhoIsDry ==
    ASSUME Parted(crew), SInv, NEW t \in Threads, t \in crew, StoreVerbs[t] # {}
    PROVE  /\ call[t].dry = TRUE => Visible = call[t].snap
           /\ call[t].dry = FALSE => Visible = store
<1>1. \A u \in Threads : u # t => call[u].dry = FALSE
  BY Callers
<1>2. CASE call[t].dry = TRUE
  <2>1. DryRuns = {t}
    BY <1>1, <1>2 DEF DryRuns
  <2> QED
    BY <1>2, <2>1 DEF Visible
<1>3. CASE call[t].dry = FALSE
  <2>1. DryRuns = {}
    BY <1>1, <1>3 DEF DryRuns
  <2> QED
    BY <1>3, <2>1 DEF Visible
<1> QED
  BY <1>2, <1>3

\* And after the step it is t's new call that says what the others see.
LEMMA WhoIsDryNow ==
    ASSUME Parted(crew), SInv, NEW t \in Threads, t \in crew, Only(t)
    PROVE  /\ call'[t].dry = TRUE => Visible' = call'[t].snap
           /\ call'[t].dry = FALSE => Visible' = store'
<1>1. \A u \in Threads : u # t => call'[u].dry = FALSE
  BY Callers DEF Only
<1>2. CASE call'[t].dry = TRUE
  <2>1. DryRuns' = {t}
    BY <1>1, <1>2 DEF DryRuns
  <2> QED
    BY <1>2, <2>1 DEF Visible
<1>3. CASE call'[t].dry = FALSE
  <2>1. DryRuns' = {}
    BY <1>1, <1>3 DEF DryRuns
  <2> QED
    BY <1>3, <2>1 DEF Visible
<1> QED
  BY <1>2, <1>3

-----------------------------------------------------------------------------
(* The steps of a call.                                                    *)

\* What is shown of every step of a thread: its own call stands where it should,
\* it spares what others read, and those who look see nothing or a verb that
\* happens at once.
Serial(t) ==
    /\ Only(t)
    /\ Alone(t) \/ Spares(t, store')
    /\ Stands(t)'
    /\ UNCHANGED Atomic!vars \/ Atomic!Next

\* A call collects its accounts: it has run nothing of its chain.
LEMMA CollectedStands ==
    ASSUME SInv, NEW t \in Threads, t \in crew, StoreVerbs[t] # {}, NEW ixs \in StoreChains[t],
           call[t].dry => "simulate" \in StoreVerbs[t],
           ~call[t].dry => "process" \in StoreVerbs[t],
           call[t].err = "EmptyChain",
           store' = store, call' = [call EXCEPT ![t] = Collected(call[t], ixs)]
    PROVE  Stands(t)'
<1> DEFINE c == Collected(call[t], ixs)
<1>1. /\ c.phase = "run" /\ c.todo = ixs /\ c.st = Inputs(store, ixs)
      /\ c.err = "EmptyChain" /\ c.dry = call[t].dry
  BY CallHas DEF SInv, Collected, CallRecord
<1>2. call'[t] = c
  BY DEF SInv, IInv
<1> HIDE DEF c
<1>3. ixs \in Seq(Instruction)
  BY OverlayAssumption
<1>4. 0 \in 0..Len(ixs) /\ Len(ixs) - 0 = Len(ixs)
  BY <1>3, LenProperties
<1>5. [accts |-> c.st, error |-> c.err] \in Atomic!Course(ixs, Inputs(store, ixs))[0]
  BY <1>1, <1>3, CourseIs
<1>6. DOMAIN c.st = Footprint(ixs)
  BY <1>1 DEF Inputs
<1>7. Underway(t, ixs, 0)'
  BY <1>1, <1>2, <1>4, <1>5, <1>6 DEF Underway
<1> QED
  BY <1>1, <1>2, <1>4, <1>7 DEF Stands

\* A call begins: nobody sees that.
LEMMA BeginSerial ==
    ASSUME Parted(crew), SInv, NEW t \in Threads, t \in crew, NEW ixs \in StoreChains[t],
           Process(t, ixs) \/ Simulate(t, ixs)
    PROVE  Serial(t)
<1>1. /\ StoreVerbs[t] # {} /\ call[t] = Idle
      /\ call[t].dry = FALSE /\ call[t].err = "EmptyChain"
      /\ store' = store /\ UNCHANGED <<acks, saved, poisoned>>
  BY DEF Process, Simulate, At, Locked, SInv, Stands, Idle
<1>2. Spares(t, store')
  BY <1>1 DEF Spares
<1>3. Visible = store
  BY <1>1, WhoIsDry
<1>4. CASE Process(t, ixs)
  <2> DEFINE c == Collected(call[t], ixs)
  <2>1. call' = [call EXCEPT ![t] = c] /\ "process" \in StoreVerbs[t]
    BY <1>4 DEF Process
  <2>2. c.dry = FALSE
    BY <1>1 DEF Collected, Idle
  <2>3. Stands(t)'
    BY <1>1, <2>1, CollectedStands
  <2> HIDE DEF c
  <2>4. call'[t] = c /\ Only(t)
    BY <1>1, <2>1 DEF SInv, IInv, Only
  <2>5. Visible' = store'
    BY <1>1, <2>2, <2>4, WhoIsDryNow
  <2> QED
    BY <1>1, <1>2, <1>3, <2>3, <2>4, <2>5 DEF Serial, Atomic!vars
<1>5. CASE Simulate(t, ixs)
  <2> DEFINE c == [call[t] EXCEPT !.phase = "collect", !.dry = TRUE,
                                  !.snap = store, !.todo = ixs]
  <2>1. call' = [call EXCEPT ![t] = c] /\ "simulate" \in StoreVerbs[t]
    BY <1>5 DEF Simulate
  <2>2. /\ c.phase = "collect" /\ c.dry = TRUE /\ c.snap = store
        /\ c.todo = ixs /\ c.err = "EmptyChain"
    BY <1>1 DEF Idle
  <2> HIDE DEF c
  <2>3. call'[t] = c /\ Only(t)
    BY <1>1, <2>1 DEF SInv, IInv, Only
  <2>4. Stands(t)'
    BY <1>1, <2>1, <2>2, <2>3 DEF Stands
  <2>5. Visible' = store
    BY <1>1, <2>2, <2>3, WhoIsDryNow
  <2> QED
    BY <1>1, <1>2, <1>3, <2>3, <2>4, <2>5 DEF Serial, Atomic!vars
<1> QED
  BY <1>4, <1>5

\* Who is in the middle of a call has verbs, and who makes a dry run is alone.
LEMMA Proceeding ==
    ASSUME Parted(crew), SInv, NEW t \in Threads, t \in crew, call[t].phase # "idle"
    PROVE  StoreVerbs[t] # {} /\ (call[t].dry => Alone(t))
<1>1. /\ StoreVerbs[t] # {}
      /\ call[t].dry => "simulate" \in StoreVerbs[t]
  BY DEF SInv, Stands
<1>2. \/ StoreVerbs[t] = {} \/ Alone(t)
      \/ StoreVerbs[t] \cap {"simulate", "clear", "restore"} = {}
  BY DEF Parted, Alone
<1> QED
  BY <1>1, <1>2

\* A dry run goes on to collect its accounts.
LEMMA CollectSerial ==
    ASSUME Parted(crew), SInv, NEW t \in Threads, t \in crew, Collect(t)
    PROVE  Serial(t)
<1>1. /\ StoreVerbs[t] # {} /\ call[t].dry = TRUE /\ call[t].todo \in StoreChains[t]
      /\ call[t].err = "EmptyChain" /\ "simulate" \in StoreVerbs[t]
  BY CallHas, Proceeding DEF Collect, At, SInv, Stands
<1> DEFINE c == Collected(call[t], call[t].todo)
<1>2. /\ call' = [call EXCEPT ![t] = c]
      /\ store' = store /\ UNCHANGED <<acks, saved, poisoned>>
  BY DEF Collect, Locked
<1>3. c.dry = TRUE /\ c.snap = call[t].snap
  BY <1>1, CallHas DEF Collected, CallRecord, SInv
<1>4. Stands(t)'
  BY <1>1, <1>2, CollectedStands
<1> HIDE DEF c
<1>5. call'[t] = c /\ Only(t)
  BY <1>1, <1>2 DEF SInv, IInv, Only
<1>6. Visible' = Visible
  BY <1>1, <1>3, <1>5, WhoIsDry, WhoIsDryNow
<1>7. Spares(t, store')
  BY <1>2 DEF Spares
<1> QED
  BY <1>1, <1>2, <1>4, <1>5, <1>6, <1>7 DEF Serial, Atomic!vars

\* An instruction runs: one more of the chain is done.
LEMMA DispatchSerial ==
    ASSUME Parted(crew), SInv, NEW t \in Threads, t \in crew, Dispatch(t)
    PROVE  Serial(t)
<1>1. /\ StoreVerbs[t] # {} /\ call[t].phase = "run" /\ call[t].todo # <<>>
      /\ call[t].err \in {"EmptyChain", "None"}
      /\ store' = store /\ UNCHANGED <<acks, saved, poisoned>>
      /\ call[t].dry => "simulate" \in StoreVerbs[t]
      /\ ~call[t].dry => "process" \in StoreVerbs[t]
  BY Proceeding DEF Dispatch, Unfinished, At, SInv, Stands
<1>2. PICK ixs \in StoreChains[t] : \E n \in 0..Len(ixs) : Underway(t, ixs, n)
  BY <1>1 DEF SInv, Stands
<1>3. PICK n \in 0..Len(ixs) : Underway(t, ixs, n)
  BY <1>2
<1>4. ixs \in Seq(Instruction) /\ Len(ixs) \in Nat
  BY OverlayAssumption, LenProperties
<1>5. PICK out \in Dispatched(Head(call[t].todo), call[t].st) :
          call' = [call EXCEPT ![t].todo = Tail(@), ![t].st = out.accts,
                               ![t].err = out.error]
  BY DEF Dispatch
<1> DEFINE todo == call[t].todo
           c == [call[t] EXCEPT !.todo = Tail(todo), !.st = out.accts, !.err = out.error]
<1>6. call'[t] = c /\ Only(t)
  BY <1>1, <1>5 DEF SInv, IInv, Only
<1>7. /\ c.phase = "run" /\ c.todo = Tail(todo) /\ c.st = out.accts
      /\ c.err = out.error /\ c.dry = call[t].dry /\ c.snap = call[t].snap
      /\ call[t].dry \in BOOLEAN
  BY <1>1, CallHas DEF CallRecord, SInv
<1> HIDE DEF c
<1>8. /\ todo \in Seq(Instruction) /\ Len(todo) \in Nat /\ Len(todo) > 0
      /\ Head(todo) = todo[1] /\ Len(Tail(todo)) = Len(todo) - 1
      /\ \A i \in 1..Len(Tail(todo)) : Tail(todo)[i] = todo[i + 1]
  BY <1>1, CallHas, HeadTailProperties, LenProperties, EmptySeq DEF SInv
<1> HIDE DEF todo
<1>9. /\ Len(todo) = Len(ixs) - n /\ n + 1 \in 1..Len(ixs) /\ n + 1 \in 0..Len(ixs)
      /\ \A i \in 1..Len(todo) : todo[i] = ixs[n + i]
  BY <1>3, <1>4, <1>8 DEF Underway, todo
<1>10. Head(todo) = ixs[n + 1] /\ ixs[n + 1] \in Instruction
  <2>1. 1 \in 1..Len(todo)
    BY <1>8
  <2> QED
    BY <1>4, <1>8, <1>9, <2>1, ElementOfSeq
<1> DEFINE ix == ixs[n + 1]
           pre == [accts |-> call[t].st, error |-> call[t].err]
<1>11. /\ pre \in Atomic!Course(ixs, Inputs(store, ixs))[n]
       /\ DOMAIN call[t].st = Footprint(ixs)
       /\ \A a \in Footprint(ixs) :
              a \notin Alters(t) => call[t].st[a] = Inputs(store, ixs)[a]
  BY <1>3 DEF Underway
<1>12. out \in Dispatched(ix, call[t].st) /\ ix \in Instruction
  BY <1>5, <1>10 DEF todo
<1>13. [accts |-> c.st, error |-> c.err] \in Atomic!Course(ixs, Inputs(store, ixs))[n + 1]
  <2>1. pre.accts = call[t].st /\ pre.error = call[t].err
    OBVIOUS
  <2> HIDE DEF pre
  <2>2. pre \in Atomic!Course(ixs, Inputs(store, ixs))[(n + 1) - 1]
    BY <1>11
  <2>3. out \in Atomic!Course(ixs, Inputs(store, ixs))[n + 1]
    BY <1>1, <1>4, <1>9, <1>12, <2>1, <2>2, CourseGoesOn
  <2>4. out = [accts |-> out.accts, error |-> out.error]
    BY <1>12, ResultIs
  <2> QED
    BY <1>7, <2>3, <2>4
<1>14. call[t].st \in [DOMAIN call[t].st -> Account]
  BY CallHas, StoreIs DEF SInv
<1>15. out \in Outcomes(ix, call[t].st, Slot, Limit, Policy) /\ Slot \in Slots
  BY <1>12, OverlayAssumption DEF Dispatched
<1>16. DOMAIN c.st = Footprint(ixs)
  BY <1>7, <1>11, <1>12, <1>14, <1>15, OutcomeType
<1>17. ASSUME NEW a \in Footprint(ixs), a \notin Alters(t)
       PROVE  c.st[a] = Inputs(store, ixs)[a]
  <2>1. SUFFICES out.accts[a] = call[t].st[a]
    BY <1>7, <1>11, <1>17
  <2>2. SUFFICES ASSUME out.accts[a] # call[t].st[a] PROVE FALSE
    OBVIOUS
  <2>3. /\ a \in Keys(ix.metas)
        /\ ValidPostState(ix.program, ix.metas, call[t].st, out.accts, Policy)
    BY <1>11, <1>12, <1>14, <1>15, <2>2, OutcomeChange
  <2>4. Policy = "Strict" => Writable(ix.metas, a)
    BY <2>2, <2>3 DEF ValidPostState, AccountRules, ReadOnlyKept
  <2>5. n + 1 \in DOMAIN ixs
    BY <1>4, <1>9, LenProperties
  <2>6. a \in Writes(ixs)
    BY <2>3, <2>4, <2>5 DEF Writes
  <2> QED
    BY <1>2, <1>17, <2>6 DEF Alters
<1>18. Underway(t, ixs, n + 1)'
  <2>1. Len(c.todo) = Len(ixs) - (n + 1)
    BY <1>4, <1>7, <1>8, <1>9
  <2>2. ASSUME NEW i \in 1..Len(c.todo)
        PROVE  c.todo[i] = ixs[(n + 1) + i]
    <3>1. i + 1 \in 1..Len(todo) /\ c.todo[i] = todo[i + 1] /\ n + (i + 1) = (n + 1) + i
      BY <1>7, <1>8
    <3> QED
      BY <1>9, <3>1
  <2>3. Inputs(store, ixs)' = Inputs(store, ixs)
    BY <1>1
  <2> QED
    BY <1>2, <1>6, <1>9, <1>13, <1>16, <1>17, <2>1, <2>2, <2>3 DEF Underway
<1>19. Stands(t)'
  BY <1>1, <1>2, <1>6, <1>7, <1>9, <1>18 DEF Stands
<1>20. Visible' = Visible
  BY <1>1, <1>6, <1>7, WhoIsDry, WhoIsDryNow
<1>21. Spares(t, store')
  BY <1>1 DEF Spares
<1> QED
  BY <1>1, <1>6, <1>19, <1>20, <1>21 DEF Serial, Atomic!vars

\* A chain that ran to its end without failing is written back at once: of
\* a dry run nobody sees that.
LEMMA CommitSerial ==
    ASSUME Parted(crew), SInv, NEW t \in Threads, t \in crew, Commit(t)
    PROVE  Serial(t)
<1>1. /\ StoreVerbs[t] # {} /\ call[t].phase = "run" /\ call[t].err = "None"
      /\ call[t].todo = <<>> /\ call[t].dry \in BOOLEAN
      /\ call[t].dry => "simulate" \in StoreVerbs[t] /\ Alone(t)
      /\ ~call[t].dry => "process" \in StoreVerbs[t]
      /\ ~poisoned /\ store' = Committed(store, call[t].st)
      /\ UNCHANGED <<saved, poisoned>>
      /\ IF call[t].dry THEN acks' = acks ELSE Told(t)
  BY CallHas, Proceeding
     DEF Commit, Finished, Unfinished, Locked, At, SInv, Stands
<1> DEFINE c == IF call[t].dry THEN [call[t] EXCEPT !.phase = "restore"] ELSE Idle
<1>2. call'[t] = c /\ Only(t)
  BY <1>1 DEF Commit, Return, SInv, IInv, Only
<1>3. CASE call[t].dry = TRUE
  <2>1. /\ c.phase = "restore" /\ c.dry = TRUE /\ c.snap = call[t].snap
    BY <1>1, <1>3, CallHas DEF CallRecord, SInv
  <2> HIDE DEF c
  <2>2. Stands(t)'
    BY <1>1, <1>2, <1>3, <2>1 DEF Stands
  <2>3. Visible' = Visible
    BY <1>1, <1>2, <1>3, <2>1, WhoIsDry, WhoIsDryNow
  <2> QED
    BY <1>1, <1>2, <1>3, <2>2, <2>3 DEF Serial, Atomic!vars
<1>4. CASE call[t].dry = FALSE
  <2>1. c = Idle
    BY <1>4
  <2> HIDE DEF c
  <2>2. Stands(t)'
    BY <1>2, <2>1 DEF Stands, Idle
  <2>3. Visible = store /\ Visible' = store'
    <3>1. call'[t].dry = FALSE
      BY <1>2, <2>1 DEF Idle
    <3>2. Visible = store
      BY <1>1, <1>4, WhoIsDry
    <3> QED
      BY <1>2, <3>1, <3>2, WhoIsDryNow
  <2>4. PICK ixs \in StoreChains[t] : \E n \in 0..Len(ixs) : Underway(t, ixs, n)
    BY <1>1 DEF SInv, Stands
  <2>5. PICK n \in 0..Len(ixs) : Underway(t, ixs, n)
    BY <2>4
  <2> DEFINE r == [accts |-> call[t].st, error |-> call[t].err]
  <2>6. /\ Len(call[t].todo) = Len(ixs) - n
        /\ r \in Atomic!Course(ixs, Inputs(store, ixs))[n]
        /\ DOMAIN call[t].st = Footprint(ixs)
        /\ \A a \in Footprint(ixs) :
               a \notin Alters(t) => call[t].st[a] = Inputs(store, ixs)[a]
    BY <2>5 DEF Underway
  <2>7. n = Len(ixs)
    <3>1. Len(call[t].todo) = 0
      BY <1>1
    <3>2. Len(ixs) \in Nat
      BY OverlayAssumption, LenProperties
    <3> QED
      BY <2>6, <3>1, <3>2
  <2>8. r.accts = call[t].st /\ r.error = "None"
    BY <1>1
  <2> HIDE DEF r
  <2>9. r \in Atomic!ChainOutcomes(ixs, Inputs(Visible, ixs))
    BY <2>3, <2>6, <2>7 DEF Atomic!ChainOutcomes
  <2>10. Atomic!Becomes(Committed(Visible, r.accts))
    BY <1>1, <2>3, <2>8 DEF Atomic!Becomes
  <2>11. Atomic!Process(ixs)
    BY <2>8, <2>9, <2>10 DEF Atomic!Process
  <2>12. Atomic!Next
    BY <1>1, <1>4, <2>4, <2>11 DEF Atomic!Next, Atomic!Verb, Atomic!Told, Told
  <2>13. Spares(t, store')
    <3>1. ASSUME NEW a, a \notin Alters(t)
          PROVE  Seen(store', a) = Seen(store, a)
      BY <1>1, <2>6, <3>1 DEF Seen, Committed, Inputs
    <3> QED
      BY <3>1 DEF Spares
  <2> QED
    BY <1>1, <1>2, <2>2, <2>12, <2>13 DEF Serial
<1> QED
  BY <1>1, <1>3, <1>4

\* A chain that failed leaves no trace.
LEMMA GiveUpSerial ==
    ASSUME Parted(crew), SInv, NEW t \in Threads, t \in crew, GiveUp(t)
    PROVE  Serial(t)
<1>1. /\ StoreVerbs[t] # {} /\ call[t].dry \in BOOLEAN
      /\ call[t].dry => "simulate" \in StoreVerbs[t]
      /\ store' = store /\ UNCHANGED <<acks, saved, poisoned>>
  BY CallHas, Proceeding DEF GiveUp, Finished, At, SInv, Stands
<1> DEFINE c == IF call[t].dry THEN [call[t] EXCEPT !.phase = "restore"] ELSE Idle
<1>2. call'[t] = c /\ Only(t)
  BY <1>1 DEF GiveUp, Return, SInv, IInv, Only
<1>3. call[t].dry = TRUE => c.phase = "restore" /\ c.dry = TRUE /\ c.snap = call[t].snap
  BY CallHas DEF CallRecord, SInv
<1>4. call[t].dry = FALSE => c = Idle
  OBVIOUS
<1> HIDE DEF c
<1>5. Stands(t)'
  BY <1>1, <1>2, <1>3, <1>4 DEF Stands, Idle
<1>6. Visible' = Visible
  <2>1. CASE call[t].dry = TRUE
    <3>1. call'[t].dry = TRUE /\ call'[t].snap = call[t].snap
      BY <1>2, <1>3, <2>1
    <3>2. Visible = call[t].snap
      BY <1>1, <2>1, WhoIsDry
    <3>3. Visible' = call'[t].snap
      BY <1>2, <3>1, WhoIsDryNow
    <3> QED
      BY <3>1, <3>2, <3>3
  <2>2. CASE call[t].dry = FALSE
    <3>1. call'[t].dry = FALSE
      BY <1>2, <1>4, <2>2 DEF Idle
    <3> QED
      BY <1>1, <1>2, <2>2, <3>1, WhoIsDry, WhoIsDryNow
  <2> QED
    BY <1>1, <2>1, <2>2
<1>7. Spares(t, store')
  BY <1>1 DEF Spares
<1> QED
  BY <1>1, <1>2, <1>5, <1>6, <1>7 DEF Serial, Atomic!vars

\* A dry run that puts its snapshot back is over, and the overlay is what it
\* looked like all the time.
LEMMA RestoreSerial ==
    ASSUME Parted(crew), SInv, NEW t \in Threads, t \in crew, Restore(t)
    PROVE  Serial(t)
<1>1. /\ StoreVerbs[t] # {} /\ call[t].dry = TRUE /\ Alone(t)
      /\ store' = call[t].snap /\ UNCHANGED <<acks, saved, poisoned>>
  BY CallHas, Proceeding DEF Restore, At, Locked, SInv, Stands
<1>2. call'[t] = Idle /\ Only(t)
  BY <1>1 DEF Restore, SInv, IInv, Only
<1>3. Stands(t)'
  BY <1>2 DEF Stands, Idle
<1>4. call'[t].dry = FALSE
  BY <1>2 DEF Idle
<1>5. Visible = call[t].snap /\ Visible' = store'
  BY <1>1, <1>2, <1>4, WhoIsDry, WhoIsDryNow
<1> QED
  BY <1>1, <1>2, <1>3, <1>5 DEF Serial, Atomic!vars

\* A call that panics on a poisoned lock changes nothing.
LEMMA PanicSerial ==
    ASSUME Parted(crew), SInv, NEW t \in Threads, t \in crew, Panic(t)
    PROVE  Serial(t)
<1>1. call[t].phase # "idle"
  BY DEF Panic, At, Finished
<1>2. /\ StoreVerbs[t] # {} /\ call[t].dry \in BOOLEAN
      /\ call[t].dry => "simulate" \in StoreVerbs[t]
      /\ store' = store /\ UNCHANGED <<acks, saved, poisoned>>
  BY <1>1, CallHas, Proceeding DEF Panic, SInv, Stands
<1> DEFINE c == Panicked(call[t])
<1>3. call'[t] = c /\ Only(t)
  BY <1>2 DEF Panic, SInv, IInv, Only
<1>4. c.phase = "panicked" /\ c.dry = call[t].dry /\ c.snap = call[t].snap
  BY DEF Panicked, Idle
<1> HIDE DEF c
<1>5. Stands(t)'
  BY <1>2, <1>3, <1>4 DEF Stands
<1>6. Visible' = Visible
  <2>1. call'[t].dry = call[t].dry /\ call'[t].snap = call[t].snap
    BY <1>3, <1>4
  <2>2. CASE call[t].dry = TRUE
    <3>1. Visible = call[t].snap
      BY <1>2, <2>2, WhoIsDry
    <3>2. Visible' = call'[t].snap
      BY <1>3, <2>1, <2>2, WhoIsDryNow
    <3> QED
      BY <2>1, <3>1, <3>2
  <2>3. CASE call[t].dry = FALSE
    BY <1>2, <1>3, <2>1, <2>3, WhoIsDry, WhoIsDryNow
  <2> QED
    BY <1>2, <2>2, <2>3
<1>7. Spares(t, store')
  BY <1>2 DEF Spares
<1> QED
  BY <1>2, <1>3, <1>5, <1>6, <1>7 DEF Serial, Atomic!vars

-----------------------------------------------------------------------------
(* The verbs that edit the overlay.                                        *)

\* A thread that edits the overlay is in no call, and neither is a dry run
\* of anybody under way.
LEMMA IdleSees ==
    ASSUME Parted(crew), SInv, NEW t \in Threads, t \in crew, StoreVerbs[t] # {}, At(t, "idle")
    PROVE  call[t].dry = FALSE /\ Visible = store
<1>1. call[t].dry = FALSE
  BY DEF At, SInv, Stands, Idle
<1> QED
  BY <1>1, WhoIsDry

\* Who is in no call stands where it should.
LEMMA IdleStands ==
    ASSUME SInv, NEW t \in Threads, t \in crew, At(t, "idle"), call' = call
    PROVE  Stands(t)'
<1>1. call'[t] = Idle /\ Idle.phase = "idle" /\ Idle.dry = FALSE
  BY DEF At, SInv, Stands, Idle
<1> QED
  BY <1>1 DEF Stands

\* A critical section that is a verb: everybody sees at once what it does.
LEMMA EditSeen ==
    ASSUME Parted(crew), SInv, NEW t \in Threads, t \in crew, NEW verb, NEW s, Edit(t, verb, s)
    PROVE  /\ verb \in StoreVerbs[t] /\ Only(t) /\ Stands(t)'
           /\ store' = s /\ Visible = store /\ Atomic!Becomes(s) /\ Atomic!Told(t)
<1>1. /\ verb \in StoreVerbs[t] /\ At(t, "idle")
      /\ ~poisoned /\ store' = s /\ UNCHANGED <<saved, poisoned, call>> /\ Told(t)
  BY DEF Edit, Locked
<1>2. Only(t)
  BY <1>1 DEF Only
<1>3. call[t].dry = FALSE /\ Visible = store
  BY <1>1, IdleSees
<1>4. Stands(t)'
  BY <1>1, IdleStands
<1>5. Visible' = s
  BY <1>1, <1>2, <1>3, WhoIsDryNow
<1> QED
  BY <1>1, <1>2, <1>3, <1>4, <1>5 DEF Atomic!Becomes, Atomic!Told, Told

\* Only the account of the verb differs.
LEMMA EditSpares ==
    ASSUME NEW t \in Threads, NEW a \in Mine[t]
    PROVE  /\ \A acct : Spares(t, Stored(store, a, acct))
           /\ Spares(t, Removed(store, a))
           /\ a \in DOMAIN store => \A acct : Spares(t, [store EXCEPT ![a] = acct])
<1>1. a \in Alters(t)
  BY DEF Alters
<1>2. ASSUME NEW x, x \notin Alters(t)
      PROVE  /\ \A acct : Seen(Stored(store, a, acct), x) = Seen(store, x)
             /\ Seen(Removed(store, a), x) = Seen(store, x)
             /\ a \in DOMAIN store =>
                    \A acct : Seen([store EXCEPT ![a] = acct], x) = Seen(store, x)
  BY <1>1, <1>2 DEF Seen, Stored, Committed, Removed
<1> QED
  BY <1>2 DEF Spares

\* Clearing and restoring are for those who are alone.
LEMMA ForTheLonely ==
    ASSUME Parted(crew), NEW t \in Threads, t \in crew, NEW verb \in {"clear", "restore"},
           verb \in StoreVerbs[t]
    PROVE  Alone(t)
  BY DEF Parted, Alone

\* Storing, removing, clearing, restoring, airdrops and new accounts.
LEMMA EditsSerial ==
    ASSUME Parted(crew), SInv, NEW t \in Threads, t \in crew,
           \/ \E a \in Mine[t], acct \in Seeded : SetAccount(t, a, acct)
           \/ \E a \in Mine[t] : RemoveAccount(t, a)
           \/ ClearAccounts(t)
           \/ RestoreAccounts(t)
           \/ \E a \in Mine[t], n \in Gifts : Airdrop(t, a, n)
           \/ \E a \in Mine[t], size \in Sizes, owner \in Mine[t] :
                  CreateAccount(t, a, size, owner)
    PROVE  Serial(t)
<1>1. Mine[t] \subseteq Addr
  BY OverlayAssumption
<1>2. ASSUME NEW a \in Mine[t], NEW acct \in Seeded, SetAccount(t, a, acct)
      PROVE  Serial(t)
  <2>1. Edit(t, "set", Stored(store, a, acct))
    BY <1>2 DEF SetAccount
  <2>2. Atomic!SetAccount(a, acct)
    BY <2>1, EditSeen DEF Atomic!SetAccount
  <2>3. Atomic!Next
    BY <2>1, <2>2, EditSeen DEF Atomic!Next, Atomic!Verb
  <2> QED
    BY <2>1, <2>3, EditSeen, EditSpares DEF Serial
<1>3. ASSUME NEW a \in Mine[t], RemoveAccount(t, a)
      PROVE  Serial(t)
  <2>1. Edit(t, "remove", Removed(store, a))
    BY <1>3 DEF RemoveAccount
  <2>2. Atomic!RemoveAccount(a)
    BY <2>1, EditSeen DEF Atomic!RemoveAccount
  <2>3. Atomic!Next
    BY <2>1, <2>2, EditSeen DEF Atomic!Next, Atomic!Verb
  <2> QED
    BY <2>1, <2>3, EditSeen, EditSpares DEF Serial
<1>4. ASSUME ClearAccounts(t)
      PROVE  Serial(t)
  <2>1. Edit(t, "clear", <<>>)
    BY <1>4 DEF ClearAccounts
  <2>2. Atomic!ClearAccounts
    BY <2>1, EditSeen DEF Atomic!ClearAccounts
  <2>3. Atomic!Next
    BY <2>1, <2>2, EditSeen DEF Atomic!Next, Atomic!Verb
  <2> QED
    BY <2>1, <2>3, EditSeen, ForTheLonely DEF Serial
<1>5. ASSUME RestoreAccounts(t)
      PROVE  Serial(t)
  <2>1. Edit(t, "restore", saved)
    BY <1>5 DEF RestoreAccounts
  <2>2. Atomic!RestoreAccounts
    BY <2>1, EditSeen DEF Atomic!RestoreAccounts
  <2>3. Atomic!Next
    BY <2>1, <2>2, EditSeen DEF Atomic!Next, Atomic!Verb
  <2> QED
    BY <2>1, <2>3, EditSeen, ForTheLonely DEF Serial
<1>6. ASSUME NEW a \in Mine[t], NEW n \in Gifts, Airdrop(t, a, n)
      PROVE  Serial(t)
  <2>1. Edit(t, "airdrop", Airdropped(store, a, n))
    BY <1>6 DEF Airdrop
  <2>2. Atomic!Airdrop(a, n)
    BY <2>1, EditSeen DEF Atomic!Airdrop
  <2>3. Atomic!Next
    BY <2>1, <2>2, EditSeen DEF Atomic!Next, Atomic!Verb
  <2>4. Spares(t, Airdropped(store, a, n))
    BY EditSpares DEF Airdropped
  <2> QED
    BY <2>1, <2>3, <2>4, EditSeen DEF Serial
<1>7. ASSUME NEW a \in Mine[t], NEW size \in Sizes, NEW owner \in Mine[t],
             CreateAccount(t, a, size, owner)
      PROVE  Serial(t)
  <2>1. Edit(t, "create", Rented(store, a, size, owner))
    BY <1>7 DEF CreateAccount
  <2>2. Atomic!CreateAccount(a, size, owner)
    BY <2>1, EditSeen DEF Atomic!CreateAccount
  <2>3. Atomic!Next
    BY <2>1, <2>2, EditSeen DEF Atomic!Next, Atomic!Verb
  <2>4. Spares(t, Rented(store, a, size, owner))
    BY EditSpares DEF Rented
  <2> QED
    BY <2>1, <2>3, <2>4, EditSeen DEF Serial
<1> QED
  BY <1>2, <1>3, <1>4, <1>5, <1>6, <1>7

\* A setter that panics: the overlay is as it was, and nobody looks again.
LEMMA PoisonSerial ==
    ASSUME Parted(crew), SInv, NEW t \in Threads, t \in crew, Poison(t),
           StoreVerbs[t] \cap {"token", "mint"} # {}, NEW a \in Mine[t], ~FitsToken(store, a)
    PROVE  Serial(t)
<1> DEFINE c == [call[t] EXCEPT !.phase = "panicked"]
<1>1. /\ At(t, "idle") /\ ~poisoned /\ poisoned' = TRUE
      /\ store' = store /\ saved' = saved /\ acks' = acks
      /\ call' = [call EXCEPT ![t] = c] /\ StoreVerbs[t] # {}
  BY DEF Poison
<1>2. call[t].dry = FALSE /\ Visible = store
  BY <1>1, IdleSees
<1>3. c.phase = "panicked" /\ c.dry = FALSE
  BY <1>2, CallHas DEF CallRecord, SInv
<1>4. call'[t] = c /\ Only(t)
  BY <1>1 DEF SInv, IInv, Only
<1> HIDE DEF c
<1>5. Stands(t)'
  BY <1>3, <1>4 DEF Stands
<1>6. Visible' = store'
  BY <1>3, <1>4, WhoIsDryNow
<1>7. Atomic!Poison(a)
  BY <1>1, <1>2, <1>6 DEF Atomic!Poison
<1>8. Atomic!Next
  BY <1>7 DEF Atomic!Next
<1>9. Spares(t, store')
  BY <1>1 DEF Spares
<1> QED
  BY <1>4, <1>5, <1>8, <1>9 DEF Serial

\* The balance setters.
LEMMA SettersSerial ==
    ASSUME Parted(crew), SInv, NEW t \in Threads, t \in crew, NEW a \in Mine[t],
           SetTokenBalance(t, a) \/ SetMintSupply(t, a)
    PROVE  Serial(t)
<1>1. a \in Addr
  BY OverlayAssumption
<1>2. CASE FitsToken(store, a) /\ \E s \in TokenWrites(store, a) : Edit(t, "token", s)
  <2>1. PICK s \in TokenWrites(store, a) : Edit(t, "token", s)
    BY <1>2
  <2>2. PICK n \in Slots \cup {NoHash} : s = [store EXCEPT ![a].data.nonce = n]
    BY <2>1 DEF TokenWrites
  <2>3. Spares(t, s)
    BY <1>2, <2>2, EditSpares DEF FitsToken
  <2>4. Atomic!SetTokenBalance(a)
    BY <1>2, <2>1, EditSeen DEF Atomic!SetTokenBalance
  <2>5. Atomic!Next
    BY <2>1, <2>4, EditSeen DEF Atomic!Next, Atomic!Verb
  <2> QED
    BY <2>1, <2>3, <2>5, EditSeen DEF Serial
<1>3. CASE FitsMint(store, a) /\ \E s \in MintWrites(store, a) : Edit(t, "mint", s)
  <2>1. PICK s \in MintWrites(store, a) : Edit(t, "mint", s)
    BY <1>3
  <2>2. PICK k \in Addr, n \in Slots \cup {NoHash} :
            s = [store EXCEPT ![a].data = [@ EXCEPT !.nonce = n, !.auth = k]]
    BY <2>1 DEF MintWrites
  <2>3. Spares(t, s)
    BY <1>3, <2>2, EditSpares DEF FitsMint
  <2>4. Atomic!SetMintSupply(a)
    BY <1>3, <2>1, EditSeen DEF Atomic!SetMintSupply
  <2>5. Atomic!Next
    BY <2>1, <2>4, EditSeen DEF Atomic!Next, Atomic!Verb
  <2> QED
    BY <2>1, <2>3, <2>5, EditSeen DEF Serial
<1>4. CASE /\ Poison(t) /\ StoreVerbs[t] \cap {"token", "mint"} # {}
          /\ ~(FitsToken(store, a) /\ FitsMint(store, a))
  <2>1. FitsToken(store, a) => FitsMint(store, a)
    <3>1. a \in DOMAIN store => store[a].data.len \in Nat
      BY StoreIs, SystemAssumption DEF SInv, IInv, Account, AccountOver, Data
    <3> QED
      BY <3>1 DEF FitsToken, FitsMint
  <2> QED
    BY <1>1, <1>4, <2>1, PoisonSerial
<1> QED
  BY <1>2, <1>3, <1>4 DEF SetTokenBalance, SetMintSupply

\* A test takes a snapshot.
LEMMA SnapshotSerial ==
    ASSUME Parted(crew), SInv, NEW t \in Threads, t \in crew, SnapshotAccounts(t)
    PROVE  Serial(t)
<1>1. /\ StoreVerbs[t] # {} /\ At(t, "idle") /\ ~poisoned
      /\ saved' = store /\ UNCHANGED <<store, poisoned, call>>
      /\ Told(t) /\ "snapshot" \in StoreVerbs[t]
  BY DEF SnapshotAccounts
<1>2. Only(t) /\ Spares(t, store')
  BY <1>1 DEF Only, Spares
<1>3. call[t].dry = FALSE /\ Visible = store
  BY <1>1, IdleSees
<1>4. Visible' = store'
  BY <1>1, <1>2, <1>3, WhoIsDryNow
<1>5. Stands(t)'
  BY <1>1, IdleStands
<1>6. Atomic!SnapshotAccounts
  BY <1>1, <1>3, <1>4 DEF Atomic!SnapshotAccounts
<1>7. Atomic!Next
  BY <1>1, <1>6 DEF Atomic!Next, Atomic!Verb, Atomic!Told, Told
<1> QED
  BY <1>2, <1>5, <1>7 DEF Serial
-----------------------------------------------------------------------------

\* Every step is one thread's.
LEMMA NextSerial ==
    ASSUME Parted(crew), SInv, Next
    PROVE  crew' = crew /\ \E t \in crew : Serial(t)
<1>1. PICK t \in crew : Proceed(t) \/ Begin(t)
  BY DEF Next
<1>2. t \in Threads
  BY OverlayAssumption DEF SInv, Roll
<1>3. crew' = crew
  BY DEF Next, Proceed
<1>4. ASSUME Proceed(t) PROVE Serial(t)
  BY <1>2, <1>4, CollectSerial, DispatchSerial, CommitSerial, GiveUpSerial, RestoreSerial,
     PanicSerial DEF Proceed
<1>5. ASSUME Begin(t) PROVE Serial(t)
  BY <1>2, <1>5, BeginSerial, EditsSerial, SettersSerial, SnapshotSerial DEF Begin
<1> QED
  BY <1>1, <1>3, <1>4, <1>5

\* Calls stand where they should throughout, and what is seen of a step is
\* nothing or a step of the atomic overlay.
LEMMA SerialStep ==
    ASSUME \A C \in Crews : Parted(C)
    PROVE  SInv /\ [Next]_vars => SInv' /\ [Atomic!Next]_(Atomic!vars)
<1> SUFFICES ASSUME SInv, [Next]_vars
             PROVE  SInv' /\ [Atomic!Next]_(Atomic!vars)
  OBVIOUS
<1>1. Roll' /\ IInv'
  BY RollKeeps, NextInv DEF SInv
<1>2. CASE Next
  <2>1. Parted(crew) /\ crew \subseteq Threads
    BY OverlayAssumption DEF SInv, Roll
  <2>2. crew' = crew
    BY <1>2, <2>1, NextSerial
  <2>3. PICK t \in crew : Serial(t)
    BY <1>2, <2>1, NextSerial
  <2>4. \A u \in crew : Stands(u)'
    BY <2>1, <2>3, OthersStand DEF Serial
  <2>5. \A u \in Threads \ crew : call'[u] = Idle
    BY <2>3 DEF Serial, Only, SInv
  <2> QED
    BY <1>1, <2>2, <2>3, <2>4, <2>5 DEF SInv, Serial
<1>3. CASE UNCHANGED vars
  <2>1. \A t \in crew : Stands(t)'
    BY <1>3 DEF vars, SInv, Stands, Underway
  <2>2. UNCHANGED Atomic!vars
    BY <1>3 DEF vars, Visible, DryRuns, Atomic!vars
  <2>3. crew' = crew /\ \A t \in Threads \ crew : call'[t] = Idle
    BY <1>3 DEF vars, SInv
  <2> QED
    BY <1>1, <2>1, <2>2, <2>3 DEF SInv
<1> QED
  BY <1>2, <1>3

\* lib.rs:157-160 and 1183-1185: whatever one thread does to a harness, and
\* whatever several do that share no account one of them may change, every verb
\* happens at once, what a thread is told has happened has happened once, and
\* a call that fails and a dry run leave no trace.
THEOREM CallsSerialised ==
    ASSUME \A C \in Crews : Parted(C)
    PROVE  Spec => Serialised
<1>1. Init => SInv
  <2> SUFFICES ASSUME Init PROVE SInv
    OBVIOUS
  <2>1. \A t \in Threads : Stands(t) /\ call[t] = Idle
    BY DEF Init, Stands, Idle
  <2> QED
    BY <2>1, InitInv, OverlayAssumption DEF SInv, Roll
<1>2. Init => Atomic!Init
  <2> SUFFICES ASSUME Init PROVE Atomic!Init
    OBVIOUS
  <2>1. DryRuns = {}
    BY DEF Init, DryRuns, Idle
  <2> QED
    BY <2>1 DEF Init, Visible, Atomic!Init
<1>3. SInv /\ [Next]_vars => SInv' /\ [Atomic!Next]_(Atomic!vars)
  BY SerialStep
<1> QED
  BY <1>1, <1>2, <1>3, PTL DEF Spec, Serialised
=============================================================================
