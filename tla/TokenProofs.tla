---------------------------- MODULE TokenProofs ----------------------------
(***************************************************************************)
(* Type correctness of TokenHarness, who may take and delegate tokens, and *)
(* where lamports and supplies go, for every set of addresses, token       *)
(* programs, instructions and account lists under either validation        *)
(* policy.  Keys may repeat, where the property itself does not say that   *)
(* they must not.                                                          *)
(***************************************************************************)
EXTENDS TokenHarness, AccountProofs

-----------------------------------------------------------------------------
(* Types.                                                                  *)

\* u64 are naturals, and a mint is not a token account is not a blank buffer.
LEMMA DataKinds ==
    /\ U64 \subseteq Nat /\ U64Max \in Nat
    /\ \A d \in Data :
        /\ d.kind = "token" <=> d \in TokenData
        /\ d.kind = "mint" <=> d \in MintData
        /\ d.kind \in {"token", "mint", "blank"}
  BY AccountsAssumption DEF U64, Data, TokenData, MintData, BlankData

\* Fresh mints, token accounts and zeroed buffers are data.
LEMMA FreshData ==
    /\ \A k \in Addr : NewMint(k) \in Data
    /\ \A m, k \in Addr : NewTokens(m, k) \in Data
    /\ Blank(TokenLen) \in Data
<1>1. 0 \in U64
  BY AccountsAssumption DEF U64
<1>2. \A k \in Addr : NewMint(k) \in MintData
  BY <1>1 DEF NewMint, MintData
<1>3. \A m, k \in Addr : NewTokens(m, k) \in TokenData
  BY <1>1 DEF NewTokens, TokenData
<1>4. Blank(TokenLen) \in BlankData
  BY TokenAssumption DEF Blank, BlankData
<1> QED
  BY <1>2, <1>3, <1>4 DEF Data

\* An account with other data, and another owner, is an account.
LEMMA AccountUpdate ==
    ASSUME NEW p \in Account, NEW x \in Data, NEW o \in Addr
    PROVE  /\ [p EXCEPT !.data = x] \in Account
           /\ [p EXCEPT !.data = x, !.owner = o] \in Account
  BY DEF Account, AccountOver

\* What a spender within its bounds leaves is a token account.
LEMMA SpentType ==
    ASSUME NEW d \in TokenData, NEW k, NEW n \in U64, n <= d.amount
    PROVE  Spent(d, k, n) \in TokenData
<1>1. d.amount \in Nat /\ d.delegated \in Nat /\ n \in Nat /\ d.amount <= U64Max
  BY DataKinds DEF TokenData, U64
<1>2. d.amount - n \in U64
  BY <1>1, DataKinds DEF U64
<1>3. SatSub(d.delegated, n) \in U64
  BY <1>1, DataKinds DEF U64, SatSub, TokenData
<1>4. (IF d.delegated <= n THEN NoKey ELSE d.delegate) \in Addr \cup {NoKey}
  BY DEF TokenData
<1>5. CASE d.owner = k
  BY <1>2, <1>5 DEF Spent, TokenData
<1>6. CASE d.owner # k
  BY <1>2, <1>3, <1>4, <1>6 DEF Spent, TokenData
<1> QED
  BY <1>5, <1>6

\* What happens to a token account beside spending.
LEMMA TokenUpdate ==
    ASSUME NEW d \in TokenData, NEW k \in Addr \cup {NoKey}, NEW n \in U64
    PROVE  /\ [d EXCEPT !.amount = n] \in TokenData
           /\ [d EXCEPT !.delegate = k, !.delegated = n] \in TokenData
  BY DEF TokenData

\* What minting and burning do to a mint.
LEMMA MintUpdate ==
    ASSUME NEW d \in MintData, NEW n \in U64
    PROVE  [d EXCEPT !.supply = n] \in MintData
  BY DEF MintData

\* Metas, keys and copies of an instruction with so many metas.
LEMMA TokenCopies ==
    ASSUME NEW ix \in Instruction
    PROVE  /\ Len(ix.metas) >= 1 => {1} \subseteq DOMAIN ix.metas
           /\ Len(ix.metas) >= 2 => {1, 2} \subseteq DOMAIN ix.metas
           /\ Len(ix.metas) >= 3 => {1, 2, 3} \subseteq DOMAIN ix.metas
           /\ Len(ix.metas) >= 6 => {1, 2, 3, 4, 5, 6} \subseteq DOMAIN ix.metas
           /\ \A i \in DOMAIN ix.metas : Key(ix, i) \in Addr
           /\ Keys(ix.metas) \subseteq Addr
<1>1. ix.metas \in Seq(Meta)
  BY DEF Instruction
<1>2. /\ DOMAIN ix.metas = 1..Len(ix.metas) /\ Len(ix.metas) \in Nat
      /\ \A i \in DOMAIN ix.metas : ix.metas[i] \in Meta
      /\ Keys(ix.metas) \subseteq Addr
  BY <1>1, MetaList
<1>3. \A i \in DOMAIN ix.metas : Key(ix, i) \in Addr
  BY <1>2 DEF Key, Meta
<1> QED
  BY <1>2, <1>3

\* InitializeMint and InitializeAccount.
LEMMA InitializeType ==
    ASSUME NEW ix \in Instruction, NEW w \in [DOMAIN ix.metas -> Account],
           ix.program \in Addr
    PROVE  /\ InitializeMintOk(ix, w) =>
                  InitializeMintPost(ix, w) \in [DOMAIN ix.metas -> Account]
           /\ InitializeAccountOk(ix, w) =>
                  InitializeAccountPost(ix, w) \in [DOMAIN ix.metas -> Account]
<1>1. ASSUME InitializeMintOk(ix, w)
      PROVE  InitializeMintPost(ix, w) \in [DOMAIN ix.metas -> Account]
  <2>1. 1 \in DOMAIN ix.metas
    BY <1>1, TokenCopies DEF InitializeMintOk
  <2>2. NewMint(ix.key) \in Data
    BY FreshData DEF Instruction
  <2>3. [w[1] EXCEPT !.data = NewMint(ix.key), !.owner = ix.program] \in Account
    BY <2>1, <2>2, AccountUpdate, AccountsAssumption
  <2> QED
    BY <2>1, <2>3 DEF InitializeMintPost
<1>2. ASSUME InitializeAccountOk(ix, w)
      PROVE  InitializeAccountPost(ix, w) \in [DOMAIN ix.metas -> Account]
  <2>1. {1, 2, 3} \subseteq DOMAIN ix.metas /\ Key(ix, 2) \in Addr /\ Key(ix, 3) \in Addr
    BY <1>2, TokenCopies DEF InitializeAccountOk
  <2>2. NewTokens(Key(ix, 2), Key(ix, 3)) \in Data
    BY <2>1, FreshData
  <2>3. [w[1] EXCEPT !.data = NewTokens(Key(ix, 2), Key(ix, 3)), !.owner = ix.program]
            \in Account
    BY <2>1, <2>2, AccountUpdate, AccountsAssumption
  <2> QED
    BY <2>1, <2>3 DEF InitializeAccountPost
<1> QED
  BY <1>1, <1>2

\* Transfer and Burn.
LEMMA SpendType ==
    ASSUME NEW ix \in Instruction, NEW w \in [DOMAIN ix.metas -> Account]
    PROVE  /\ TransferOk(ix, w) => TransferPost(ix, w) \in [DOMAIN ix.metas -> Account]
           /\ BurnOk(ix, w) => BurnPost(ix, w) \in [DOMAIN ix.metas -> Account]
<1> DEFINE d == w[1].data
           e == w[2].data
           spent == Spent(d, Key(ix, 3), ix.amount)
<1>1. ASSUME TransferOk(ix, w) \/ BurnOk(ix, w)
      PROVE  /\ {1, 2, 3} \subseteq DOMAIN ix.metas
             /\ d \in TokenData /\ e \in Data /\ spent \in TokenData
             /\ ix.amount \in U64
  <2>1. {1, 2, 3} \subseteq DOMAIN ix.metas
    BY <1>1, TokenCopies DEF TransferOk, BurnOk
  <2>2. d \in Data /\ e \in Data
    BY <2>1 DEF Account, AccountOver
  <2>3. d \in TokenData /\ ix.amount <= d.amount /\ ix.amount \in U64
    <3>1. d.kind = "token" /\ d.amount >= ix.amount
      BY <1>1 DEF TransferOk, BurnOk, IsTokens
    <3>2. d \in TokenData /\ ix.amount \in U64 /\ d.amount \in U64
      BY <2>2, <3>1, DataKinds DEF Instruction, TokenData
    <3> QED
      BY <3>1, <3>2, DataKinds
  <2> QED
    BY <2>1, <2>2, <2>3, SpentType
<1>2. ASSUME TransferOk(ix, w)
      PROVE  TransferPost(ix, w) \in [DOMAIN ix.metas -> Account]
  <2> DEFINE f == [e EXCEPT !.amount = e.amount + ix.amount]
  <2>1. e \in TokenData /\ e.amount \in U64 /\ e.amount + ix.amount <= U64Max
    BY <1>1, <1>2, DataKinds DEF TransferOk, IsTokens, TokenData
  <2>2. e.amount + ix.amount \in U64
    BY <1>1, <1>2, <2>1, DataKinds DEF U64
  <2>3. f \in Data /\ spent \in Data
    BY <1>1, <1>2, <2>1, <2>2, TokenUpdate DEF Data
  <2>4. [w[1] EXCEPT !.data = spent] \in Account /\ [w[2] EXCEPT !.data = f] \in Account
    BY <1>1, <1>2, <2>3, AccountUpdate, AccountsAssumption
  <2>5. TransferPost(ix, w) = [w EXCEPT ![1] = [w[1] EXCEPT !.data = spent],
                                        ![2] = [w[2] EXCEPT !.data = f]]
    BY DEF TransferPost
  <2> HIDE DEF d, e, spent, f
  <2> QED
    BY <2>4, <2>5
<1>3. ASSUME BurnOk(ix, w)
      PROVE  BurnPost(ix, w) \in [DOMAIN ix.metas -> Account]
  <2> DEFINE f == [e EXCEPT !.supply = SatSub(e.supply, ix.amount)]
  <2>1. e \in MintData /\ e.supply \in U64
    BY <1>1, <1>3, DataKinds DEF BurnOk, IsMint, MintData
  <2>2. SatSub(e.supply, ix.amount) \in U64
    BY <1>1, <1>3, <2>1, DataKinds DEF SatSub, U64
  <2>3. f \in Data /\ spent \in Data
    BY <1>1, <1>3, <2>1, <2>2, MintUpdate DEF Data
  <2>4. [w[1] EXCEPT !.data = spent] \in Account /\ [w[2] EXCEPT !.data = f] \in Account
    BY <1>1, <1>3, <2>3, AccountUpdate, AccountsAssumption
  <2>5. BurnPost(ix, w) = [w EXCEPT ![1] = [w[1] EXCEPT !.data = spent],
                                    ![2] = [w[2] EXCEPT !.data = f]]
    BY DEF BurnPost
  <2> HIDE DEF d, e, spent, f
  <2> QED
    BY <2>4, <2>5
<1> QED
  BY <1>2, <1>3

\* Approve and Revoke.
LEMMA GrantType ==
    ASSUME NEW ix \in Instruction, NEW w \in [DOMAIN ix.metas -> Account]
    PROVE  /\ ApproveOk(ix, w) => ApprovePost(ix, w) \in [DOMAIN ix.metas -> Account]
           /\ RevokeOk(ix, w) => RevokePost(ix, w) \in [DOMAIN ix.metas -> Account]
<1> DEFINE d == w[1].data
           granted(k, n) == [d EXCEPT !.delegate = k, !.delegated = n]
<1>1. ASSUME ApproveOk(ix, w) \/ RevokeOk(ix, w),
             NEW k \in Addr \cup {NoKey}, NEW n \in U64
      PROVE  [w EXCEPT ![1] = [w[1] EXCEPT !.data = granted(k, n)]]
                 \in [DOMAIN ix.metas -> Account]
  <2>1. {1, 2} \subseteq DOMAIN ix.metas
    BY <1>1, TokenCopies DEF ApproveOk, RevokeOk
  <2>2. d \in Data
    BY <2>1 DEF Account, AccountOver
  <2>3. d \in TokenData
    BY <1>1, <2>2, DataKinds DEF ApproveOk, RevokeOk, IsTokens
  <2>4. granted(k, n) \in Data
    BY <1>1, <2>3, TokenUpdate DEF Data
  <2>5. [w[1] EXCEPT !.data = granted(k, n)] \in Account
    BY <2>1, <2>4, AccountUpdate, AccountsAssumption
  <2> HIDE DEF d, granted
  <2> QED
    BY <2>1, <2>5
<1>2. ASSUME ApproveOk(ix, w)
      PROVE  ApprovePost(ix, w) \in [DOMAIN ix.metas -> Account]
  <2>1. Key(ix, 2) \in Addr /\ ix.amount \in U64
    BY <1>2, TokenCopies DEF ApproveOk, Instruction
  <2>2. ApprovePost(ix, w) =
            [w EXCEPT ![1] = [w[1] EXCEPT !.data = granted(Key(ix, 2), ix.amount)]]
    BY DEF ApprovePost
  <2> HIDE DEF d, granted
  <2> QED
    BY <1>1, <1>2, <2>1, <2>2
<1>3. ASSUME RevokeOk(ix, w)
      PROVE  RevokePost(ix, w) \in [DOMAIN ix.metas -> Account]
  <2>1. 0 \in U64
    BY AccountsAssumption DEF U64
  <2>2. RevokePost(ix, w) = [w EXCEPT ![1] = [w[1] EXCEPT !.data = granted(NoKey, 0)]]
    BY DEF RevokePost
  <2> HIDE DEF d, granted
  <2> QED
    BY <1>1, <1>3, <2>1, <2>2
<1> QED
  BY <1>2, <1>3

\* MintTo and CloseAccount.
LEMMA MintCloseType ==
    ASSUME NEW ix \in Instruction, NEW w \in [DOMAIN ix.metas -> Account]
    PROVE  /\ MintToOk(ix, w) => MintToPost(ix, w) \in [DOMAIN ix.metas -> Account]
           /\ CloseAccountOk(ix, w) =>
                  CloseAccountPost(ix, w) \in [DOMAIN ix.metas -> Account]
<1>1. ASSUME MintToOk(ix, w)
      PROVE  MintToPost(ix, w) \in [DOMAIN ix.metas -> Account]
  <2> DEFINE d == w[1].data
             e == w[2].data
             minted == [d EXCEPT !.supply = d.supply + ix.amount]
             held == [e EXCEPT !.amount = e.amount + ix.amount]
  <2>1. {1, 2, 3} \subseteq DOMAIN ix.metas /\ ix.amount \in U64
    BY <1>1, TokenCopies DEF MintToOk, Instruction
  <2>2. d \in Data /\ e \in Data
    BY <2>1 DEF Account, AccountOver
  <2>3. d \in MintData /\ e \in TokenData
    BY <1>1, <2>2, DataKinds DEF MintToOk, IsMint, IsTokens
  <2>4. /\ d.supply \in U64 /\ d.supply + ix.amount <= U64Max
        /\ e.amount \in U64 /\ e.amount + ix.amount <= U64Max
    BY <1>1, <2>3 DEF MintToOk, MintData, TokenData
  <2>5. d.supply + ix.amount \in U64 /\ e.amount + ix.amount \in U64
    BY <2>1, <2>4, DataKinds DEF U64
  <2>6. minted \in Data /\ held \in Data
    BY <2>3, <2>5, MintUpdate, TokenUpdate DEF Data
  <2>7. [w[1] EXCEPT !.data = minted] \in Account /\ [w[2] EXCEPT !.data = held] \in Account
    BY <2>1, <2>6, AccountUpdate, AccountsAssumption
  <2>8. MintToPost(ix, w) = [w EXCEPT ![1] = [w[1] EXCEPT !.data = minted],
                                      ![2] = [w[2] EXCEPT !.data = held]]
    BY DEF MintToPost
  <2> HIDE DEF d, e, minted, held
  <2> QED
    BY <2>7, <2>8
<1>2. ASSUME CloseAccountOk(ix, w)
      PROVE  CloseAccountPost(ix, w) \in [DOMAIN ix.metas -> Account]
  <2>1. {1, 2, 3} \subseteq DOMAIN ix.metas
    BY <1>2, TokenCopies DEF CloseAccountOk
  <2>2. w[1].lamports \in Nat /\ w[2].lamports \in Nat
    BY <2>1, DataKinds DEF Account, AccountOver
  <2>3. SatAdd(w[2].lamports, w[1].lamports) \in U64
    BY <2>2, SatAddType
  <2>4. 0 \in U64
    BY AccountsAssumption DEF U64
  <2>5. Closed(w[1]) \in Account
    BY <2>1, <2>4, FreshData, AccountsAssumption DEF Closed, Account, AccountOver
  <2> DEFINE paid == [w[2] EXCEPT !.lamports = SatAdd(w[2].lamports, w[1].lamports)]
  <2>6. paid \in Account
    BY <2>1, <2>3 DEF Account, AccountOver
  <2>7. CloseAccountPost(ix, w) = [w EXCEPT ![1] = Closed(w[1]), ![2] = paid]
    BY DEF CloseAccountPost
  <2> HIDE DEF paid
  <2> QED
    BY <2>5, <2>6, <2>7
<1> QED
  BY <1>1, <1>2

\* The instructions of the associated-token program.
LEMMA AtaPostType ==
    ASSUME NEW ix \in Instruction, NEW w \in [DOMAIN ix.metas -> Account], AtaOk(ix, w)
    PROVE  AtaPost(ix, w) \in [DOMAIN ix.metas -> Account]
<1>1. CASE Exists(w[2])
  BY <1>1 DEF AtaPost
<1>2. CASE ~Exists(w[2])
  <2> DEFINE made == [lamports |-> AtaLamports, executable |-> FALSE,
                      data |-> NewTokens(Key(ix, 4), Key(ix, 3)), owner |-> Key(ix, 6)]
             payer == [w[1] EXCEPT !.lamports = w[1].lamports - AtaLamports]
  <2>1. /\ {1, 2, 3, 4, 5, 6} \subseteq DOMAIN ix.metas
        /\ Key(ix, 3) \in Addr /\ Key(ix, 4) \in Addr /\ Key(ix, 6) \in Addr
    BY TokenCopies DEF AtaOk, AtaMetasOk
  <2>2. w[1].lamports >= AtaLamports /\ w[1].lamports \in U64
    BY <1>2, <2>1 DEF AtaOk, AlreadyThereOk, CreateAtaOk, Account, AccountOver
  <2>3. w[1].lamports - AtaLamports \in U64
    BY <2>2, AtaAssumption, DataKinds DEF U64
  <2>4. payer \in Account
    BY <2>1, <2>3 DEF Account, AccountOver
  <2>5. NewTokens(Key(ix, 4), Key(ix, 3)) \in Data
    BY <2>1, FreshData
  <2>6. made \in Account
    BY <2>1, <2>5, AtaAssumption DEF Account, AccountOver
  <2>7. AtaPost(ix, w) = [w EXCEPT ![1] = payer, ![2] = made]
    BY <1>2 DEF AtaPost, CreateAtaPost
  <2> HIDE DEF payer, made
  <2> QED
    BY <2>4, <2>6, <2>7
<1> QED
  BY <1>1, <1>2

\* The instructions of the token programs.
LEMMA TokenPostType ==
    ASSUME NEW ix \in Instruction, NEW w \in [DOMAIN ix.metas -> Account],
           ix.program \in Addr, TokenOk(ix, w)
    PROVE  TokenPost(ix, w) \in [DOMAIN ix.metas -> Account]
<1>1. CASE ix.op = "InitializeMint"
  BY <1>1, InitializeType DEF TokenOk, TokenPost
<1>2. CASE ix.op = "InitializeAccount"
  BY <1>2, InitializeType DEF TokenOk, TokenPost
<1>3. CASE ix.op = "Transfer"
  BY <1>3, SpendType DEF TokenOk, TokenPost
<1>4. CASE ix.op = "Approve"
  BY <1>4, GrantType DEF TokenOk, TokenPost
<1>5. CASE ix.op = "Revoke"
  BY <1>5, GrantType DEF TokenOk, TokenPost
<1>6. CASE ix.op = "MintTo"
  BY <1>6, MintCloseType DEF TokenOk, TokenPost
<1>7. CASE ix.op = "Burn"
  BY <1>7, SpendType DEF TokenOk, TokenPost
<1>8. CASE ix.op = "CloseAccount"
  BY <1>8, MintCloseType DEF TokenOk, TokenPost
<1> QED
  BY <1>1, <1>2, <1>3, <1>4, <1>5, <1>6, <1>7, <1>8 DEF TokenOk

-----------------------------------------------------------------------------
(* The outcome of an instruction, and type correctness.                    *)

\* The copies a program gets, and those it gives back, are accounts.
LEMMA InvokedType ==
    ASSUME NEW ix \in Instruction, NEW S, S \in [DOMAIN S -> Account],
           Keys(ix.metas) \subseteq DOMAIN S
    PROVE  /\ Resolve(ix.metas, S) \in [DOMAIN ix.metas -> Account]
           /\ Invoked(ix, Resolve(ix.metas, S)).w \in [DOMAIN ix.metas -> Account]
<1> DEFINE w == Resolve(ix.metas, S)
<1>1. w \in [DOMAIN ix.metas -> Account]
  BY DEF Resolve, Keys
<1>2. ix.program \in Addr
  BY TokenAssumption, AtaAssumption DEF Instruction
<1>3. AtaOk(ix, w) => AtaPost(ix, w) \in [DOMAIN ix.metas -> Account]
  BY <1>1, AtaPostType
<1>4. TokenOk(ix, w) => TokenPost(ix, w) \in [DOMAIN ix.metas -> Account]
  BY <1>1, <1>2, TokenPostType
<1> HIDE DEF w
<1>5. Invoked(ix, w).w \in [DOMAIN ix.metas -> Account]
  BY <1>1, <1>3, <1>4 DEF Invoked
<1> QED
  BY <1>1, <1>5 DEF w

\* An account comes back as it went in, or as one of the program's copies of
\* it after an instruction that succeeded.
LEMMA OutcomeAccount ==
    ASSUME NEW ix \in Instruction, slice \in [DOMAIN slice -> Account],
           NEW a \in DOMAIN slice
    PROVE  LET w == Resolve(ix.metas, slice) IN
           /\ DOMAIN Outcome(ix).accts = DOMAIN slice
           /\ Outcome(ix).accts[a] \in Account
           /\ \/ Outcome(ix).accts[a] = slice[a]
              \/ \E i \in DOMAIN ix.metas :
                    /\ w \in [DOMAIN ix.metas -> Account]
                    /\ Invoked(ix, w).ok
                    /\ w[i] = slice[a]
                    /\ Outcome(ix).accts[a] = Invoked(ix, w).w[i]
<1> DEFINE w == Resolve(ix.metas, slice)
           r == Invoked(ix, w)
           M == Merge(ix.metas, slice, r.w)
<1>1. \/ Outcome(ix).accts = slice
      \/ Keys(ix.metas) \subseteq DOMAIN slice /\ r.ok /\ Outcome(ix).accts = M
  BY DEF Outcome, Concluded, Validated, Failed
<1>2. CASE Outcome(ix).accts = slice
  BY <1>2
<1>3. CASE Keys(ix.metas) \subseteq DOMAIN slice /\ r.ok /\ Outcome(ix).accts = M
  <2>1. w \in [DOMAIN ix.metas -> Account] /\ r.w \in [DOMAIN ix.metas -> Account]
    BY <1>3, InvokedType
  <2>2. DOMAIN M = DOMAIN slice
    BY DEF Merge
  <2>3. CASE a \in Keys(ix.metas)
    <3> DEFINE i == LastMeta(ix.metas, a)
    <3>1. i \in DOMAIN ix.metas /\ ix.metas[i].key = a
      BY <2>3, LastMetaOfKey DEF Instruction
    <3>2. w[i] = slice[a]
      BY <3>1 DEF Resolve
    <3>3. M[a] = r.w[i]
      BY <2>3 DEF Merge
    <3> HIDE DEF w, r, M, i
    <3>4. r.w[i] \in Account
      BY <2>1, <3>1
    <3> QED
      BY <1>3, <2>1, <2>2, <3>1, <3>2, <3>3, <3>4 DEF w, r
  <2>4. CASE a \notin Keys(ix.metas)
    <3>1. M[a] = slice[a]
      BY <2>4 DEF Merge
    <3> QED
      BY <1>3, <2>2, <3>1
  <2> QED
    BY <2>3, <2>4
<1> QED
  BY <1>1, <1>2, <1>3

\* The instruction dispatched is one the caller may submit.
LEMMA Dispatched ==
    ASSUME TypeOK, todo # <<>>
    PROVE  Head(todo) \in Instruction
  BY HeadTailProperties DEF TypeOK

\* Every variable keeps its type, for every set of instructions.
THEOREM TokenTypes == Spec => []TypeOK
<1>1. Init => TypeOK
  BY TokenHarnessAssumption DEF Init, TypeOK
<1>2. ASSUME TypeOK, [Next]_vars
      PROVE  TypeOK'
  <2>1. CASE \E ix \in Instructions : Submit(ix)
    <3>1. PICK ix \in Instructions : Submit(ix)
      BY <2>1
    <3>2. ix \in Instruction
      BY TokenHarnessAssumption
    <3>3. <<ix>> \in Seq(Instruction) /\ Len(<<ix>>) = 1
      BY <3>2
    <3> QED
      BY <1>2, <3>1, <3>3 DEF Submit, TypeOK
  <2>2. CASE Dispatch
    <3> DEFINE ix == Head(todo)
    <3>1. ix \in Instruction
      BY <1>2, <2>2, Dispatched DEF Dispatch
    <3>2. slice' = Outcome(ix).accts
      BY <2>2 DEF Dispatch
    <3>3. slice \in [DOMAIN slice -> Account] /\ DOMAIN slice \subseteq Addr
      BY <1>2 DEF TypeOK
    <3>4. \/ slice' = slice
          \/ slice' = Merge(ix.metas, slice, Invoked(ix, Resolve(ix.metas, slice)).w)
      BY <3>2 DEF Outcome, Concluded, Validated, Failed
    <3> HIDE DEF ix
    <3>5. \A a \in DOMAIN slice : Outcome(ix).accts[a] \in Account
      BY <3>1, <3>3, OutcomeAccount
    <3>6. slice' \in [DOMAIN slice -> Account]
      BY <3>2, <3>3, <3>4, <3>5 DEF Merge
    <3>7. DOMAIN slice' \subseteq Addr /\ slice' \in [DOMAIN slice' -> Account]
      BY <3>3, <3>6
    <3>8. todo' \in Seq(Instruction) /\ Len(todo') <= 1 /\ policy' = policy
      BY <2>2 DEF Dispatch
    <3> QED
      BY <1>2, <3>7, <3>8 DEF TypeOK
  <2>3. CASE \E p \in PolicyChoices : SetValidationPolicy(p)
    BY <1>2, <2>3, TokenHarnessAssumption DEF SetValidationPolicy, TypeOK
  <2>4. CASE UNCHANGED vars
    BY <1>2, <2>4 DEF vars, TypeOK
  <2> QED
    BY <1>2, <2>1, <2>2, <2>3, <2>4 DEF Next
<1> QED
  BY <1>1, <1>2, PTL DEF Spec

-----------------------------------------------------------------------------
(* What becomes of a token account.                                        *)

\* p is a token account before an instruction, n the same account after it.
Overwritten(ix, p, n) ==
    \/ ix.op = "InitializeMint" /\ n.data.kind = "mint"
    \/ /\ ix.op = "InitializeAccount" /\ p.data.state = "Frozen"
       /\ n.data.delegate = NoKey

Received(p, n) ==
    /\ n.owner = p.owner
    /\ \E m \in U64 : m >= p.data.amount /\ n.data = [p.data EXCEPT !.amount = m]

SpentBy(ix, p, n) ==
    /\ p.owner = ix.program /\ n.owner = p.owner
    /\ \E k \in Addr :
        /\ Signs(ix.metas, k)
        /\ MaySpend(p.data, k, ix.amount) /\ ix.amount <= p.data.amount
        /\ n.data = Spent(p.data, k, ix.amount)

Granted(ix, p, n) ==
    /\ n.owner = p.owner
    /\ Signs(ix.metas, p.data.owner)
    /\ \E k \in Addr \cup {NoKey}, m \in U64 :
        n.data = [p.data EXCEPT !.delegate = k, !.delegated = m]

Emptied(ix, p, n) ==
    /\ p.data.amount = 0 /\ n.data.kind = "blank"
    /\ \E k \in {p.data.owner, p.data.closer} \cap Addr : Signs(ix.metas, k)

TokenFate(ix, p, n) ==
    \/ Overwritten(ix, p, n) \/ Received(p, n) \/ SpentBy(ix, p, n)
    \/ Granted(ix, p, n) \/ Emptied(ix, p, n)

\* A token account whose data and owner are left alone has received nothing.
LEMMA LeftAlone ==
    ASSUME NEW p \in Account, p.data \in TokenData,
           NEW n, n.owner = p.owner, n.data = p.data
    PROVE  Received(p, n)
<1>1. p.data.amount \in U64 /\ p.data = [p.data EXCEPT !.amount = p.data.amount]
  BY DEF TokenData
<1> QED
  BY <1>1, DataKinds DEF Received

\* The copies of token accounts that an instruction of a token program leaves.
LEMMA TokenCopyAfter ==
    ASSUME NEW ix \in Instruction, NEW w \in [DOMAIN ix.metas -> Account],
           TokenOk(ix, w), NEW i \in DOMAIN ix.metas, w[i].data \in TokenData
    PROVE  TokenFate(ix, w[i], TokenPost(ix, w)[i])
<1> DEFINE p == w[i]
           n == TokenPost(ix, w)[i]
<1>1. p \in Account /\ p.data \in Data /\ p.data.kind = "token" /\ ix.amount \in U64
  BY DataKinds DEF Account, AccountOver, Instruction
<1>2. n = p => TokenFate(ix, p, n)
  BY <1>1, LeftAlone DEF TokenFate
<1>3. CASE ix.op = "InitializeMint"
  <2>1. n = InitializeMintPost(ix, w)[i]
    BY <1>3 DEF TokenPost
  <2>2. CASE i = 1
    BY <1>1, <1>3, <2>1, <2>2
       DEF InitializeMintPost, NewMint, TokenFate, Overwritten, Account, AccountOver
  <2>3. CASE i # 1
    BY <1>2, <2>1, <2>3 DEF InitializeMintPost
  <2> QED
    BY <2>2, <2>3
<1>4. CASE ix.op = "InitializeAccount"
  <2>1. n = InitializeAccountPost(ix, w)[i] /\ InitializeAccountOk(ix, w)
    BY <1>4 DEF TokenPost, TokenOk
  <2>2. CASE i = 1
    <3>1. p.data.state = "Frozen"
      BY <1>1, <2>1, <2>2 DEF InitializeAccountOk, Initialized, TokenData
    <3>2. n.data = NewTokens(Key(ix, 2), Key(ix, 3))
      BY <1>1, <2>1, <2>2 DEF InitializeAccountPost, Account, AccountOver
    <3> QED
      BY <1>4, <3>1, <3>2 DEF NewTokens, TokenFate, Overwritten
  <2>3. CASE i # 1
    BY <1>2, <2>1, <2>3 DEF InitializeAccountPost
  <2> QED
    BY <2>2, <2>3
<1>5. CASE ix.op \in {"Transfer", "Burn"}
  <2> DEFINE k == Key(ix, 3)
  <2>1. /\ {1, 2, 3} \subseteq DOMAIN ix.metas /\ k \in Addr /\ Signs(ix.metas, k)
        /\ w[1].owner = ix.program
        /\ MaySpend(w[1].data, k, ix.amount) /\ ix.amount <= w[1].data.amount
    <3>1. Len(ix.metas) >= 3 /\ w[1].data.amount >= ix.amount
      BY <1>5 DEF TokenOk, TransferOk, BurnOk
    <3>2. w[1].data.kind = "token" /\ w[1].data \in Data
      BY <1>5, <3>1, TokenCopies DEF TokenOk, TransferOk, BurnOk, IsTokens, Account, AccountOver
    <3>3. w[1].data.amount \in Nat /\ ix.amount \in Nat
      BY <1>1, <3>2, DataKinds DEF TokenData
    <3>4. ix.amount <= w[1].data.amount
      BY <3>1, <3>3
    <3> QED
      BY <1>5, <3>1, <3>4, TokenCopies DEF TokenOk, TransferOk, BurnOk, IsTokens, AuthoritySigns
  <2>2. CASE i = 1
    <3>1. n.data = Spent(p.data, k, ix.amount) /\ n.owner = p.owner
      BY <1>1, <1>5, <2>1, <2>2 DEF TokenPost, TransferPost, BurnPost, Account, AccountOver
    <3>2. /\ p.owner = ix.program /\ MaySpend(p.data, k, ix.amount)
          /\ ix.amount <= p.data.amount
      BY <2>1, <2>2
    <3> HIDE DEF k, p, n
    <3>3. SpentBy(ix, p, n)
      BY <2>1, <3>1, <3>2 DEF SpentBy
    <3>4. TokenFate(ix, p, n)
      BY <3>3 DEF TokenFate
    <3> QED
      BY <3>4 DEF p, n
  <2>3. CASE i = 2 /\ ix.op = "Transfer"
    <3> DEFINE m == p.data.amount + ix.amount
    <3>1. /\ n.owner = p.owner
          /\ n.data = [p.data EXCEPT !.amount = m]
      BY <1>1, <2>1, <2>3 DEF TokenPost, TransferPost, Account, AccountOver
    <3>2. m <= U64Max
      BY <2>3 DEF TokenOk, TransferOk
    <3>3. p.data.amount \in Nat /\ ix.amount \in Nat
      BY <1>1, DataKinds DEF TokenData
    <3>4. m \in U64 /\ m >= p.data.amount
      BY <3>2, <3>3, DataKinds DEF U64
    <3> HIDE DEF m, p, n
    <3>5. Received(p, n)
      BY <3>1, <3>4 DEF Received
    <3>6. TokenFate(ix, p, n)
      BY <3>5 DEF TokenFate
    <3> QED
      BY <3>6 DEF p, n
  <2>4. CASE i = 2 /\ ix.op = "Burn"
    <3>1. p.data.kind = "mint"
      BY <2>4 DEF TokenOk, BurnOk, IsMint
    <3> QED
      BY <1>1, <3>1
  <2>5. CASE i # 1 /\ i # 2
    <3>1. n = p
      BY <1>5, <2>5 DEF TokenPost, TransferPost, BurnPost
    <3> QED
      BY <1>2, <3>1
  <2> QED
    BY <1>5, <2>2, <2>3, <2>4, <2>5
<1>6. CASE ix.op = "Approve"
  <2>1. /\ Key(ix, 2) \in Addr
        /\ Signs(ix.metas, w[1].data.owner)
    BY <1>6, TokenCopies DEF TokenOk, ApproveOk, AuthoritySigns
  <2>2. n = [w EXCEPT ![1].data.delegate = Key(ix, 2), ![1].data.delegated = ix.amount][i]
    BY <1>6 DEF TokenPost, ApprovePost
  <2>3. CASE i = 1
    <3>1. /\ n.owner = p.owner
          /\ n.data = [p.data EXCEPT !.delegate = Key(ix, 2), !.delegated = ix.amount]
      BY <1>1, <2>2, <2>3 DEF Account, AccountOver
    <3>2. /\ Signs(ix.metas, p.data.owner)
          /\ Key(ix, 2) \in Addr \cup {NoKey} /\ ix.amount \in U64
      BY <1>1, <2>1, <2>3
    <3> HIDE DEF p, n
    <3>3. Granted(ix, p, n)
      BY <3>1, <3>2 DEF Granted
    <3>4. TokenFate(ix, p, n)
      BY <3>3 DEF TokenFate
    <3> QED
      BY <3>4 DEF p, n
  <2>4. CASE i # 1
    BY <1>2, <2>2, <2>4
  <2> QED
    BY <2>3, <2>4
<1>7. CASE ix.op = "Revoke"
  <2>1. Signs(ix.metas, w[1].data.owner) /\ 0 \in U64
    BY <1>7, AccountsAssumption DEF TokenOk, RevokeOk, AuthoritySigns, U64
  <2>2. n = [w EXCEPT ![1].data.delegate = NoKey, ![1].data.delegated = 0][i]
    BY <1>7 DEF TokenPost, RevokePost
  <2>3. CASE i = 1
    <3>1. /\ n.owner = p.owner
          /\ n.data = [p.data EXCEPT !.delegate = NoKey, !.delegated = 0]
      BY <1>1, <2>2, <2>3 DEF Account, AccountOver
    <3>2. /\ Signs(ix.metas, p.data.owner)
          /\ NoKey \in Addr \cup {NoKey} /\ 0 \in U64
      BY <2>1, <2>3
    <3> HIDE DEF p, n
    <3>3. Granted(ix, p, n)
      BY <3>1, <3>2 DEF Granted
    <3>4. TokenFate(ix, p, n)
      BY <3>3 DEF TokenFate
    <3> QED
      BY <3>4 DEF p, n
  <2>4. CASE i # 1
    BY <1>2, <2>2, <2>4
  <2> QED
    BY <2>3, <2>4
<1>8. CASE ix.op = "MintTo"
  <2>1. n = MintToPost(ix, w)[i] /\ MintToOk(ix, w)
    BY <1>8 DEF TokenPost, TokenOk
  <2>2. CASE i = 1
    <3>1. p.data.kind = "mint"
      BY <2>1, <2>2 DEF MintToOk, IsMint
    <3> QED
      BY <1>1, <3>1
  <2>3. CASE i = 2
    <3> DEFINE m == p.data.amount + ix.amount
    <3>1. /\ n.owner = p.owner
          /\ n.data = [p.data EXCEPT !.amount = m]
      BY <1>1, <2>1, <2>3 DEF MintToPost, Account, AccountOver
    <3>2. m <= U64Max
      BY <2>1, <2>3 DEF MintToOk
    <3>3. p.data.amount \in Nat /\ ix.amount \in Nat
      BY <1>1, DataKinds DEF TokenData
    <3>4. m \in U64 /\ m >= p.data.amount
      BY <3>2, <3>3, DataKinds DEF U64
    <3> HIDE DEF m, p, n
    <3>5. Received(p, n)
      BY <3>1, <3>4 DEF Received
    <3>6. TokenFate(ix, p, n)
      BY <3>5 DEF TokenFate
    <3> QED
      BY <3>6 DEF p, n
  <2>4. CASE i # 1 /\ i # 2
    BY <1>2, <2>1, <2>4 DEF MintToPost
  <2> QED
    BY <2>2, <2>3, <2>4
<1>9. CASE ix.op = "CloseAccount"
  <2>1. n = CloseAccountPost(ix, w)[i] /\ CloseAccountOk(ix, w)
    BY <1>9 DEF TokenPost, TokenOk
  <2>2. CASE i = 1
    <3> DEFINE paid == [w[2] EXCEPT !.lamports = SatAdd(w[2].lamports, w[1].lamports)]
    <3>3. CloseAccountPost(ix, w) = [w EXCEPT ![1] = Closed(w[1]), ![2] = paid]
      BY DEF CloseAccountPost
    <3>4. n = Closed(w[1])
      <4> HIDE DEF paid
      <4> QED
        BY <2>1, <2>2, <3>3
    <3>5. Closed(p).data = Blank(TokenLen)
      BY <1>1 DEF Closed, Account, AccountOver
    <3>1. n.data.kind = "blank"
      BY <2>2, <3>4, <3>5 DEF Blank
    <3>2. /\ p.data.amount = 0
          /\ Key(ix, 3) \in {p.data.owner, p.data.closer} \cap Addr
          /\ Signs(ix.metas, Key(ix, 3))
      BY <2>1, <2>2, TokenCopies DEF CloseAccountOk, AuthoritySigns
    <3> QED
      BY <3>1, <3>2 DEF TokenFate, Emptied
  <2>3. CASE i = 2
    <3>1. n.owner = p.owner /\ n.data = p.data
      BY <1>1, <2>1, <2>3 DEF CloseAccountPost, Account, AccountOver
    <3> QED
      BY <1>1, <3>1, LeftAlone DEF TokenFate
  <2>4. CASE i # 1 /\ i # 2
    BY <1>2, <2>1, <2>4 DEF CloseAccountPost
  <2> QED
    BY <2>2, <2>3, <2>4
<1> QED
  BY <1>3, <1>4, <1>5, <1>6, <1>7, <1>8, <1>9 DEF TokenOk

\* The associated-token program leaves every token account alone: the account
\* it creates is not there before.
LEMMA AtaCopyAfter ==
    ASSUME NEW ix \in Instruction, NEW w \in [DOMAIN ix.metas -> Account],
           AtaOk(ix, w), NEW i \in DOMAIN ix.metas, w[i].data \in TokenData
    PROVE  TokenFate(ix, w[i], AtaPost(ix, w)[i])
<1> DEFINE p == w[i]
           n == AtaPost(ix, w)[i]
           payer == [w[1] EXCEPT !.lamports = w[1].lamports - AtaLamports]
           made == [lamports |-> AtaLamports, executable |-> FALSE,
                    data |-> NewTokens(Key(ix, 4), Key(ix, 3)), owner |-> Key(ix, 6)]
<1>1. p \in Account
  OBVIOUS
<1>2. n.owner = p.owner /\ n.data = p.data
  <2>1. CASE Exists(w[2])
    BY <2>1 DEF AtaPost
  <2>2. CASE ~Exists(w[2])
    <3>1. AtaPost(ix, w) = [w EXCEPT ![1] = payer, ![2] = made]
      BY <2>2 DEF AtaPost, CreateAtaPost
    <3>2. i # 2
      BY <2>2 DEF Exists, EmptySystemOwned, TokenData, TokenLen
    <3>3. payer.owner = w[1].owner /\ payer.data = w[1].data
      <4>1. 1 \in DOMAIN ix.metas
        BY TokenCopies DEF AtaOk, AtaMetasOk
      <4> QED
        BY <4>1 DEF Account, AccountOver
    <3>4. n = IF i = 1 THEN payer ELSE p
      <4> HIDE DEF payer, made
      <4> QED
        BY <3>1, <3>2
    <3> QED
      BY <3>3, <3>4
  <2> QED
    BY <2>1, <2>2
<1> HIDE DEF p, n
<1>3. p.data \in TokenData
  BY DEF p
<1>4. Received(p, n)
  BY <1>1, <1>2, <1>3, LeftAlone
<1>5. TokenFate(ix, p, n)
  BY <1>4 DEF TokenFate
<1> QED
  BY <1>5 DEF p, n

\* What a dispatch does to a token account, whichever program runs.
LEMMA Fate ==
    ASSUME TypeOK, Dispatch, NEW a \in DOMAIN slice, slice[a].data.kind = "token"
    PROVE  /\ slice[a].data \in TokenData /\ slice'[a] \in Account
           /\ Head(todo) \in Instruction
           /\ TokenFate(Head(todo), slice[a], slice'[a])
<1> DEFINE ix == Head(todo)
           w == Resolve(ix.metas, slice)
<1>1. ix \in Instruction /\ slice' = Outcome(ix).accts
  BY Dispatched DEF Dispatch
<1>2. slice \in [DOMAIN slice -> Account]
  BY DEF TypeOK
<1>3. slice[a] \in Account /\ slice[a].data \in TokenData
  BY <1>2, DataKinds DEF Account, AccountOver
<1> HIDE DEF ix
<1>4. slice'[a] \in Account
  BY <1>1, <1>2, OutcomeAccount
<1>5. ASSUME slice'[a] = slice[a]
      PROVE  TokenFate(ix, slice[a], slice'[a])
  <2>1. Received(slice[a], slice[a])
    BY <1>3, LeftAlone
  <2> QED
    BY <1>5, <2>1 DEF TokenFate
<1>6. ASSUME slice'[a] # slice[a]
      PROVE  TokenFate(ix, slice[a], slice'[a])
  <2>1. PICK i \in DOMAIN ix.metas :
            /\ w \in [DOMAIN ix.metas -> Account]
            /\ Invoked(ix, w).ok
            /\ w[i] = slice[a]
            /\ slice'[a] = Invoked(ix, w).w[i]
    BY <1>1, <1>2, <1>6, OutcomeAccount
  <2> HIDE DEF w
  <2>2. CASE ix.program = AtaId
    <3>1. AtaOk(ix, w) /\ slice'[a] = AtaPost(ix, w)[i]
      BY <2>1, <2>2 DEF Invoked
    <3>2. TokenFate(ix, w[i], AtaPost(ix, w)[i])
      BY <1>1, <1>3, <2>1, <3>1, AtaCopyAfter
    <3> QED
      BY <2>1, <3>1, <3>2
  <2>3. CASE ix.program # AtaId
    <3>1. TokenOk(ix, w) /\ slice'[a] = TokenPost(ix, w)[i]
      BY <2>1, <2>3 DEF Invoked
    <3>2. TokenFate(ix, w[i], TokenPost(ix, w)[i])
      BY <1>1, <1>3, <2>1, <3>1, TokenCopyAfter
    <3> QED
      BY <2>1, <3>1, <3>2
  <2> QED
    BY <2>2, <2>3
<1> QED
  BY <1>1, <1>3, <1>4, <1>5, <1>6 DEF ix

-----------------------------------------------------------------------------
(* The two authorities over a token account.                               *)

\* Nobody but the owner, or the delegate up to its allowance, can do what the
\* fates of a token account take tokens for.
LEMMA FateNeedsAuthority ==
    ASSUME NEW ix \in Instruction, NEW p \in Account, p.data \in TokenData,
           NEW n \in Account, TokenFate(ix, p, n)
    PROVE  \/ ix.op = "InitializeMint"
           \/ ix.op = "InitializeAccount" /\ p.data.state = "Frozen"
           \/ /\ n.data.kind = "token" /\ n.owner = p.owner
              /\ n.data.owner = p.data.owner /\ n.data.mint = p.data.mint
              /\ n.data.amount < p.data.amount =>
                     ix.program = p.owner /\ SpendSigned(ix, p.data, n.data)
           \/ /\ p.data.amount = 0
              /\ \E k \in {p.data.owner, p.data.closer} \cap Addr : Signs(ix.metas, k)
<1>1. CASE Overwritten(ix, p, n)
  BY <1>1 DEF Overwritten
<1>2. CASE Emptied(ix, p, n)
  BY <1>2 DEF Emptied
<1>3. CASE Received(p, n)
  <2>1. PICK m \in U64 : m >= p.data.amount /\ n.data = [p.data EXCEPT !.amount = m]
    BY <1>3 DEF Received
  <2>2. /\ n.data.kind = "token" /\ n.owner = p.owner
        /\ n.data.owner = p.data.owner /\ n.data.mint = p.data.mint
        /\ n.data.amount = m
    BY <1>3, <2>1 DEF Received, TokenData
  <2>3. m \in Nat /\ p.data.amount \in Nat
    BY DataKinds DEF TokenData
  <2>4. ~(n.data.amount < p.data.amount)
    BY <2>1, <2>2, <2>3
  <2> QED
    BY <2>2, <2>4
<1>4. CASE Granted(ix, p, n)
  <2>1. PICK k \in Addr \cup {NoKey}, m \in U64 :
            n.data = [p.data EXCEPT !.delegate = k, !.delegated = m]
    BY <1>4 DEF Granted
  <2>2. /\ n.data.kind = "token" /\ n.owner = p.owner
        /\ n.data.owner = p.data.owner /\ n.data.mint = p.data.mint
        /\ n.data.amount = p.data.amount
    BY <1>4, <2>1 DEF Granted, TokenData
  <2>3. p.data.amount \in Nat
    BY DataKinds DEF TokenData
  <2>4. ~(n.data.amount < p.data.amount)
    BY <2>2, <2>3
  <2> QED
    BY <2>2, <2>4
<1>5. CASE SpentBy(ix, p, n)
  <2> DEFINE d == p.data
  <2>1. PICK k \in Addr :
            /\ Signs(ix.metas, k)
            /\ MaySpend(d, k, ix.amount) /\ ix.amount <= d.amount
            /\ n.data = Spent(d, k, ix.amount)
    BY <1>5 DEF SpentBy
  <2>2. d \in TokenData /\ ix.amount \in Nat /\ d.amount \in Nat /\ d.delegated \in Nat
    BY DataKinds DEF TokenData, Instruction
  <2>3. /\ n.data.kind = "token" /\ n.owner = p.owner /\ p.owner = ix.program
        /\ n.data.owner = d.owner /\ n.data.mint = d.mint
        /\ n.data.amount = d.amount - ix.amount
    BY <1>5, <2>1, <2>2 DEF SpentBy, Spent, TokenData
  <2>4. CASE d.owner = k
    BY <2>1, <2>3, <2>4 DEF SpendSigned
  <2>5. CASE d.owner # k
    <3>1. d.delegate = k /\ ix.amount <= d.delegated /\ k # NoKey
      BY <2>1, <2>5, TokenAssumption DEF MaySpend
    <3>2. n.data.delegated = SatSub(d.delegated, ix.amount)
      BY <2>1, <2>2, <2>5 DEF Spent, TokenData
    <3>3. SatSub(d.delegated, ix.amount) = d.delegated - ix.amount
      BY <2>2, <3>1 DEF SatSub
    <3>4. d.delegated - n.data.delegated = d.amount - n.data.amount
      <4> HIDE DEF d
      <4> QED
        BY <2>2, <2>3, <3>2, <3>3
    <3> QED
      BY <2>1, <2>3, <3>1, <3>4 DEF SpendSigned
  <2> QED
    BY <2>4, <2>5
<1> QED
  BY <1>1, <1>2, <1>3, <1>4, <1>5 DEF TokenFate

\* Nobody but the owner can raise an allowance or name a delegate.
LEMMA FateKeepsAllowance ==
    ASSUME NEW ix \in Instruction, NEW p \in Account, p.data \in TokenData,
           NEW n \in Account, TokenFate(ix, p, n),
           n.data.kind = "token", n.data.delegate # NoKey
    PROVE  \/ n.data.delegate = p.data.delegate /\ n.data.delegated <= p.data.delegated
           \/ Signs(ix.metas, p.data.owner)
<1>1. p.data.delegated \in Nat
  BY DataKinds DEF TokenData
<1>2. CASE Overwritten(ix, p, n)
  BY <1>2 DEF Overwritten
<1>3. CASE Emptied(ix, p, n)
  BY <1>3 DEF Emptied
<1>4. CASE Received(p, n)
  <2>1. n.data.delegate = p.data.delegate /\ n.data.delegated = p.data.delegated
    BY <1>4 DEF Received, TokenData
  <2> QED
    BY <1>1, <2>1
<1>5. CASE Granted(ix, p, n)
  BY <1>5 DEF Granted
<1>6. CASE SpentBy(ix, p, n)
  <2>1. PICK k \in Addr :
            /\ Signs(ix.metas, k) /\ MaySpend(p.data, k, ix.amount)
            /\ n.data = Spent(p.data, k, ix.amount)
    BY <1>6 DEF SpentBy
  <2>2. CASE p.data.owner = k
    BY <2>1, <2>2
  <2>3. CASE p.data.owner # k
    <3>1. /\ n.data.delegated = SatSub(p.data.delegated, ix.amount)
          /\ n.data.delegate \in {p.data.delegate, NoKey}
      BY <2>1, <2>3 DEF Spent, TokenData
    <3>2. ix.amount \in Nat
      BY DataKinds DEF Instruction
    <3>3. SatSub(p.data.delegated, ix.amount) <= p.data.delegated
      BY <1>1, <3>2 DEF SatSub
    <3> QED
      BY <3>1, <3>3
  <2> QED
    BY <2>2, <2>3
<1> QED
  BY <1>2, <1>3, <1>4, <1>5, <1>6 DEF TokenFate

\* Only a dispatch clears the submission.
LEMMA DispatchingSteps ==
    ASSUME [Next]_vars, Dispatching
    PROVE  Dispatch
<1>1. \A ix \in Instructions : ~Submit(ix)
  BY DEF Dispatching, Submit
<1>2. \A p \in PolicyChoices : ~SetValidationPolicy(p)
  BY DEF Dispatching, SetValidationPolicy
<1>3. ~UNCHANGED vars
  BY DEF Dispatching, vars
<1> QED
  BY <1>1, <1>2, <1>3 DEF Next

\* A token account loses tokens, its owner, its mint or its program only as
\* TokenStep allows, whatever the metas say and under either policy.
THEOREM TokensKept == Spec => TokensNeedAuthority
<1>1. ASSUME TypeOK, [Next]_vars
      PROVE  TokenStep
  <2>1. SUFFICES ASSUME Dispatch, NEW a \in DOMAIN slice, slice[a].data.kind = "token"
                 PROVE  LET ix == Head(todo)
                            old == slice[a].data
                            new == slice'[a].data
                        IN  \/ ix.op = "InitializeMint"
                            \/ ix.op = "InitializeAccount" /\ old.state = "Frozen"
                            \/ /\ new.kind = "token" /\ slice'[a].owner = slice[a].owner
                               /\ new.owner = old.owner /\ new.mint = old.mint
                               /\ new.amount < old.amount =>
                                      ix.program = slice[a].owner /\ SpendSigned(ix, old, new)
                            \/ /\ old.amount = 0
                               /\ \E k \in {old.owner, old.closer} \cap Addr :
                                      Signs(ix.metas, k)
    BY <1>1, DispatchingSteps DEF TokenStep
  <2>2. slice[a] \in Account
    BY <1>1 DEF TypeOK
  <2> QED
    BY <1>1, <2>1, <2>2, Fate, FateNeedsAuthority
<1>2. TypeOK /\ [Next]_vars => [TokenStep]_vars
  BY <1>1
<1> QED
  BY <1>2, TokenTypes, PTL DEF Spec, TokensNeedAuthority

\* A delegate never gets more than the owner approved, over any sequence of
\* instructions: transfers and burns use the allowance up, nothing else
\* touches it.
THEOREM AllowancesKept == Spec => AllowancesNeedOwner
<1>1. ASSUME TypeOK, [Next]_vars
      PROVE  AllowanceStep
  <2>1. SUFFICES ASSUME Dispatch, NEW a \in DOMAIN slice, slice[a].data.kind = "token",
                        slice'[a].data.kind = "token", slice'[a].data.delegate # NoKey
                 PROVE  \/ /\ slice'[a].data.delegate = slice[a].data.delegate
                           /\ slice'[a].data.delegated <= slice[a].data.delegated
                        \/ Signs(Head(todo).metas, slice[a].data.owner)
    BY <1>1, DispatchingSteps DEF AllowanceStep
  <2>2. slice[a] \in Account
    BY <1>1 DEF TypeOK
  <2> QED
    BY <1>1, <2>1, <2>2, Fate, FateKeepsAllowance
<1>2. TypeOK /\ [Next]_vars => [AllowanceStep]_vars
  BY <1>1
<1> QED
  BY <1>2, TokenTypes, PTL DEF Spec, AllowancesNeedOwner

-----------------------------------------------------------------------------
(* Lamports.                                                               *)

\* Buffers in use are not empty.
LEMMA TokenBuffers == \A d \in Data : d.kind \in {"token", "mint"} => d.len # 0
  BY DEF Data, TokenData, MintData, BlankData, TokenLen, MintLen

\* Of the token program's instructions CloseAccount alone moves lamports, from
\* its first account to its second.
LEMMA TokenLamports ==
    ASSUME NEW ix \in Instruction, NEW w \in [DOMAIN ix.metas -> Account],
           TokenOk(ix, w)
    PROVE  LET v == TokenPost(ix, w)
           IN  \/ \A i \in DOMAIN ix.metas : v[i].lamports = w[i].lamports
               \/ /\ 1 \in DOMAIN ix.metas /\ 2 \in DOMAIN ix.metas
                  /\ v[1].lamports = 0
                  /\ v[2].lamports = SatAdd(w[2].lamports, w[1].lamports)
                  /\ \A i \in DOMAIN ix.metas \ {1, 2} : v[i].lamports = w[i].lamports
<1> DEFINE v == TokenPost(ix, w)
<1>1. CASE ix.op = "InitializeMint"
  BY <1>1 DEF TokenPost, InitializeMintPost, Account, AccountOver
<1>2. CASE ix.op = "InitializeAccount"
  BY <1>2 DEF TokenPost, InitializeAccountPost, Account, AccountOver
<1>3. CASE ix.op = "Transfer"
  BY <1>3 DEF TokenPost, TransferPost, Account, AccountOver
<1>4. CASE ix.op = "Approve"
  BY <1>4 DEF TokenPost, ApprovePost, Account, AccountOver
<1>5. CASE ix.op = "Revoke"
  BY <1>5 DEF TokenPost, RevokePost, Account, AccountOver
<1>6. CASE ix.op = "MintTo"
  BY <1>6 DEF TokenPost, MintToPost, Account, AccountOver
<1>7. CASE ix.op = "Burn"
  BY <1>7 DEF TokenPost, BurnPost, Account, AccountOver
<1>8. CASE ix.op = "CloseAccount"
  <2>1. {1, 2} \subseteq DOMAIN ix.metas
    BY <1>8, TokenCopies DEF TokenOk, CloseAccountOk
  <2>2. v = CloseAccountPost(ix, w)
    BY <1>8 DEF TokenPost
  <2> DEFINE paid == [w[2] EXCEPT !.lamports = SatAdd(w[2].lamports, w[1].lamports)]
  <2>3. v = [w EXCEPT ![1] = Closed(w[1]), ![2] = paid]
    BY <2>2 DEF CloseAccountPost
  <2>4. /\ Closed(w[1]).lamports = 0
        /\ paid.lamports = SatAdd(w[2].lamports, w[1].lamports)
    BY <2>1 DEF Closed, Account, AccountOver
  <2> HIDE DEF v, paid
  <2>5. /\ v[1] = Closed(w[1]) /\ v[2] = paid
        /\ \A i \in DOMAIN ix.metas \ {1, 2} : v[i] = w[i]
    BY <2>1, <2>3
  <2> QED
    BY <2>1, <2>4, <2>5 DEF v
<1> QED
  BY <1>1, <1>2, <1>3, <1>4, <1>5, <1>6, <1>7, <1>8 DEF TokenOk

\* The funder of a new associated account loses what the account gets.
LEMMA AtaLamportsMove ==
    ASSUME NEW ix \in Instruction, NEW w \in [DOMAIN ix.metas -> Account], AtaOk(ix, w)
    PROVE  LET v == AtaPost(ix, w)
           IN  \/ \A i \in DOMAIN ix.metas : v[i].lamports = w[i].lamports
               \/ /\ 1 \in DOMAIN ix.metas /\ 2 \in DOMAIN ix.metas
                  /\ v[1].lamports = w[1].lamports - AtaLamports
                  /\ v[2].lamports = AtaLamports /\ w[2].lamports = 0
                  /\ \A i \in DOMAIN ix.metas \ {1, 2} : v[i].lamports = w[i].lamports
<1>1. CASE Exists(w[2])
  BY <1>1 DEF AtaPost
<1>2. CASE ~Exists(w[2])
  <2>1. {1, 2, 3, 4, 5, 6} \subseteq DOMAIN ix.metas
    BY TokenCopies DEF AtaOk, AtaMetasOk
  <2>2. w[2].lamports = 0
    BY <1>2 DEF Exists, EmptySystemOwned
  <2>3. AtaPost(ix, w) = CreateAtaPost(ix, w)
    BY <1>2 DEF AtaPost
  <2> QED
    BY <2>1, <2>2, <2>3 DEF CreateAtaPost, Account, AccountOver
<1> QED
  BY <1>1, <1>2

\* Neither program makes an account out of an empty one without taking it
\* from the system program.
LEMMA NoneMade ==
    ASSUME NEW ix \in Instruction, NEW w \in [DOMAIN ix.metas -> Account],
           Invoked(ix, w).ok, NEW i \in DOMAIN ix.metas, EmptySystemOwned(w[i]),
           NEW n, n = Invoked(ix, w).w[i]
    PROVE  n.data.len = 0 \/ n.owner # SystemId
<1>1. /\ w[i].data \in Data /\ w[i].data.len = 0
      /\ w[i].data.kind \notin {"token", "mint"} /\ w[i] \in Account
  BY TokenBuffers DEF EmptySystemOwned, Account, AccountOver
<1>2. CASE ix.program = AtaId
  <2>1. AtaOk(ix, w) /\ n = AtaPost(ix, w)[i]
    BY <1>2 DEF Invoked
  <2>2. CASE Exists(w[2])
    BY <1>1, <2>1, <2>2 DEF AtaPost
  <2>3. CASE ~Exists(w[2])
    <3>1. Key(ix, 6) \in TokenIds /\ n = CreateAtaPost(ix, w)[i]
      BY <2>1, <2>3 DEF AtaOk, AtaMetasOk, AtaPost
    <3>2. CASE i = 2
      BY <3>1, <3>2, TokenAssumption DEF CreateAtaPost
    <3>3. CASE i # 2
      BY <1>1, <3>1, <3>3 DEF CreateAtaPost, Account, AccountOver
    <3> QED
      BY <3>2, <3>3
  <2> QED
    BY <2>2, <2>3
<1>3. CASE ix.program # AtaId
  <2>1. TokenOk(ix, w) /\ n = TokenPost(ix, w)[i]
    BY <1>3 DEF Invoked
  <2>2. CASE ix.op \in {"InitializeMint", "InitializeAccount"}
    <3>1. i # 1
      BY <1>1, <2>1, <2>2
         DEF TokenOk, InitializeMintOk, InitializeAccountOk, MintLen, TokenLen
    <3> QED
      BY <1>1, <2>1, <2>2, <3>1 DEF TokenPost, InitializeMintPost, InitializeAccountPost
  <2>3. CASE ix.op \in {"Transfer", "MintTo", "Burn"}
    <3>1. i # 1 /\ i # 2
      BY <1>1, <2>1, <2>3 DEF TokenOk, TransferOk, MintToOk, BurnOk, IsTokens, IsMint
    <3> QED
      BY <1>1, <2>1, <2>3, <3>1 DEF TokenPost, TransferPost, MintToPost, BurnPost
  <2>4. CASE ix.op \in {"Approve", "Revoke"}
    <3>1. i # 1
      BY <1>1, <2>1, <2>4 DEF TokenOk, ApproveOk, RevokeOk, IsTokens
    <3> QED
      BY <1>1, <2>1, <2>4, <3>1 DEF TokenPost, ApprovePost, RevokePost
  <2>5. CASE ix.op = "CloseAccount"
    <3>1. i # 1
      BY <1>1, <2>1, <2>5 DEF TokenOk, CloseAccountOk, IsTokens
    <3> QED
      BY <1>1, <2>1, <2>5, <3>1 DEF TokenPost, CloseAccountPost, Account, AccountOver
  <2> QED
    BY <2>1, <2>2, <2>3, <2>4, <2>5 DEF TokenOk
<1> QED
  BY <1>2, <1>3

\* What a dispatch that changes the list ran, and what validation saw.
LEMMA Changed ==
    ASSUME TypeOK, Dispatch, slice' # slice
    PROVE  LET ix == Head(todo)
               w == Resolve(ix.metas, slice)
               v == Invoked(ix, w).w
           IN  /\ ix \in Instruction /\ ix.metas \in Seq(Meta)
               /\ Keys(ix.metas) \subseteq DOMAIN slice
               /\ w \in [DOMAIN ix.metas -> Account]
               /\ Invoked(ix, w).ok
               /\ slice' = Merge(ix.metas, slice, v)
               /\ ValidPostState(ix.program, ix.metas, slice, slice', policy)
<1> DEFINE ix == Head(todo)
           w == Resolve(ix.metas, slice)
<1>1. ix \in Instruction /\ ix.metas \in Seq(Meta) /\ slice' = Outcome(ix).accts
  BY Dispatched DEF Dispatch, Instruction
<1>2. Keys(ix.metas) \subseteq DOMAIN slice
  BY <1>1 DEF Outcome, Failed
<1>3. slice' = Concluded(ix, slice, Invoked(ix, w), policy).accts
  BY <1>1, <1>2 DEF Outcome
<1>4. /\ Invoked(ix, w).ok
      /\ slice' = Validated(ix, slice, Merge(ix.metas, slice, Invoked(ix, w).w), policy).accts
  BY <1>3 DEF Concluded, Failed
<1>5. /\ slice' = Merge(ix.metas, slice, Invoked(ix, w).w)
      /\ ValidPostState(ix.program, ix.metas, slice, slice', policy)
  BY <1>4 DEF Validated, Failed
<1>6. w \in [DOMAIN ix.metas -> Account]
  BY <1>1, <1>2, InvokedType DEF TypeOK
<1> QED
  BY <1>1, <1>2, <1>4, <1>5, <1>6

\* The lists before and after a dispatch.
LEMMA TokenLedgers ==
    ASSUME TypeOK, Dispatch
    PROVE  Ledger(slice) /\ Ledger(slice') /\ DOMAIN slice' = DOMAIN slice
<1>1. /\ slice \in [DOMAIN slice -> Account] /\ IsFiniteSet(DOMAIN slice)
  BY FS_Subset, AccountsAssumption DEF TypeOK
<1>2. \A p \in Account : p.lamports \in Nat
  BY AccountsAssumption DEF Account, AccountOver, U64
<1>3. Head(todo) \in Instruction /\ slice' = Outcome(Head(todo)).accts
  BY Dispatched DEF Dispatch
<1>4. DOMAIN slice' = DOMAIN slice
  BY <1>3 DEF Outcome, Concluded, Validated, Failed, Merge
<1>5. \A a \in DOMAIN slice : slice'[a] \in Account
  BY <1>1, <1>3, OutcomeAccount
<1> QED
  BY <1>1, <1>2, <1>4, <1>5 DEF Ledger

\* Under strict validation the sum stays: rule 2 could only be deceived by an
\* account made in the instruction, and rule 4 leaves that to the system
\* program.
LEMMA StrictLamports ==
    ASSUME TypeOK, Dispatch, policy = "Strict"
    PROVE  Lamports(slice', DOMAIN slice) = Lamports(slice, DOMAIN slice)
<1> DEFINE ix == Head(todo)
           ms == ix.metas
           w == Resolve(ms, slice)
           v == Invoked(ix, w).w
<1>1. CASE slice' = slice
  BY <1>1
<1>2. CASE slice' # slice
  <2>1. /\ ix \in Instruction /\ ms \in Seq(Meta)
        /\ Keys(ms) \subseteq DOMAIN slice
        /\ w \in [DOMAIN ms -> Account] /\ Invoked(ix, w).ok
        /\ slice' = Merge(ms, slice, v)
        /\ ValidPostState(ix.program, ms, slice, slice', "Strict")
    BY <1>2, Changed
  <2>2. ix.program # SystemId
    BY <2>1, TokenAssumption, AtaAssumption DEF Instruction
  <2>3. Ledger(slice) /\ Ledger(slice') /\ DOMAIN slice' = DOMAIN slice
    BY TokenLedgers
  <2>4. ASSUME NEW a \in Created(slice, slice') PROVE FALSE
    <3>1. /\ a \in DOMAIN slice /\ EmptySystemOwned(slice[a])
          /\ slice'[a].owner # slice[a].owner \/ slice'[a].data.len # 0
      BY <2>4 DEF Created
    <3>2. slice'[a] # slice[a]
      BY <3>1 DEF EmptySystemOwned
    <3>3. a \in Keys(ms) /\ slice'[a] = v[LastMeta(ms, a)]
      BY <2>1, <3>1, <3>2 DEF Merge
    <3>4. /\ LastMeta(ms, a) \in DOMAIN ms
          /\ ms[LastMeta(ms, a)].key = a
      BY <2>1, <3>3, LastMetaOfKey
    <3>5. w[LastMeta(ms, a)] = slice[a]
      BY <3>4 DEF Resolve
    <3>6. AccountRules(ix.program, Writable(ms, a), slice[a], slice'[a])
      BY <2>1, <3>3 DEF ValidPostState
    <3>7. OwnerChangeAllowed(ix.program, slice[a], slice'[a])
      BY <3>2, <3>6 DEF AccountRules, ReadOnlyKept
    <3>8. slice[a].owner = SystemId /\ slice'[a].owner = SystemId
      BY <2>2, <3>1, <3>7 DEF OwnerChangeAllowed, EmptySystemOwned
    <3> HIDE DEF ix, ms, w
    <3>9. slice'[a].data.len = 0 \/ slice'[a].owner # SystemId
      BY <2>1, <3>1, <3>3, <3>4, <3>5, NoneMade DEF ms
    <3> QED
      BY <3>1, <3>8, <3>9
  <2>5. Created(slice, slice') = {}
    BY <2>4
  <2>6. \A a \in DOMAIN slice \ Keys(ms) : slice'[a] = slice[a]
    BY <2>1 DEF Merge
  <2>7. Lamports(slice', {}) = 0
    BY <2>3, LamportsFew
  <2> HIDE DEF ix, ms, w, v
  <2>8. /\ Lamports(slice', DOMAIN slice')
             = Lamports(slice, DOMAIN slice) + Lamports(slice', Created(slice, slice'))
        /\ Lamports(slice, DOMAIN slice) \in Nat
    BY <2>1, <2>3, <2>6, StrictTotal
  <2> QED
    BY <2>3, <2>5, <2>7, <2>8
<1> QED
  BY <1>1, <1>2

\* Without validation the two programs see to it themselves, unless what a
\* closed account held is more than its destination has room for.
LEMMA LaxLamports ==
    ASSUME TypeOK, Dispatch, NoRepeats(Head(todo).metas)
    PROVE  \/ Lamports(slice', DOMAIN slice) = Lamports(slice, DOMAIN slice)
           \/ /\ Lamports(slice', DOMAIN slice) < Lamports(slice, DOMAIN slice)
              /\ \E a \in DOMAIN slice : slice'[a].lamports = U64Max
<1> DEFINE ix == Head(todo)
           ms == ix.metas
           w == Resolve(ms, slice)
           v == Invoked(ix, w).w
<1>1. CASE slice' = slice
  BY <1>1
<1>2. CASE slice' # slice
  <2>1. /\ ix \in Instruction /\ ms \in Seq(Meta)
        /\ Keys(ms) \subseteq DOMAIN slice
        /\ w \in [DOMAIN ms -> Account] /\ Invoked(ix, w).ok
        /\ slice' = Merge(ms, slice, v)
    BY <1>2, Changed
  <2>2. Ledger(slice) /\ Ledger(slice') /\ DOMAIN slice' = DOMAIN slice
    BY TokenLedgers
  <2>3. \/ \A i \in DOMAIN ms : v[i].lamports = w[i].lamports
        \/ /\ 1 \in DOMAIN ms /\ 2 \in DOMAIN ms
           /\ \E n \in Nat : /\ v[1].lamports = w[1].lamports - n
                            /\ v[2].lamports = SatAdd(w[2].lamports, n)
           /\ \A i \in DOMAIN ms \ {1, 2} : v[i].lamports = w[i].lamports
    <3>1. CASE ix.program = AtaId
      <4>1. AtaOk(ix, w) /\ v = AtaPost(ix, w)
        BY <2>1, <3>1 DEF Invoked
      <4> HIDE DEF ix, w, v
      <4>2. AtaLamports \in Nat /\ SatAdd(0, AtaLamports) = AtaLamports
        BY AtaAssumption, AccountsAssumption DEF U64, SatAdd
      <4> QED
        BY <2>1, <4>1, <4>2, AtaLamportsMove DEF ms
    <3>2. CASE ix.program # AtaId
      <4>1. TokenOk(ix, w) /\ v = TokenPost(ix, w)
        BY <2>1, <3>2 DEF Invoked
      <4> HIDE DEF ix, w, v
      <4>2. 1 \in DOMAIN ms => w[1].lamports \in Nat /\ w[1].lamports - w[1].lamports = 0
        BY <2>1, AccountsAssumption DEF Account, AccountOver, U64
      <4> QED
        BY <2>1, <4>1, <4>2, TokenLamports DEF ms
    <3> QED
      BY <3>1, <3>2
  <2>4. \A i, j \in DOMAIN ms : ms[i].key = ms[j].key => i = j
    BY DEF NoRepeats
  <2> HIDE DEF ix, ms, v
  <2>5. CASE \A i \in DOMAIN ms : v[i].lamports = w[i].lamports
    <3>1. LET t == Merge(ms, slice, v)
          IN  Lamports(t, DOMAIN t) = Lamports(slice, DOMAIN slice)
      BY <2>1, <2>2, <2>5, CopiesAlike
    <3> QED
      BY <2>1, <2>2, <3>1
  <2>6. CASE /\ 1 \in DOMAIN ms /\ 2 \in DOMAIN ms
             /\ \A i \in DOMAIN ms \ {1, 2} : v[i].lamports = w[i].lamports
    <3>1. PairChanged(ms, slice, v, slice', 1, 2)
      BY <2>1, <2>2, <2>4, <2>6 DEF PairChanged
    <3>2. \A n \in Nat :
            v[1].lamports = w[1].lamports - n /\ v[2].lamports = SatAdd(w[2].lamports, n) =>
              \/ Lamports(slice', DOMAIN slice') = Lamports(slice, DOMAIN slice)
              \/ /\ Lamports(slice', DOMAIN slice') < Lamports(slice, DOMAIN slice)
                 /\ \E a \in DOMAIN slice : slice'[a].lamports = U64Max
      BY <3>1, OnePays
    <3>3. CASE \A i \in DOMAIN ms : v[i].lamports = w[i].lamports
      BY <2>5, <3>3
    <3> QED
      BY <2>2, <2>3, <3>2, <3>3
  <2> QED
    BY <2>3, <2>5, <2>6
<1> QED
  BY <1>1, <1>2

\* Lamports are kept, by validation whatever the metas, and without it by the
\* programs, up to what a full account has no room for.
THEOREM TokenLamportsKept == Spec => LamportsAddUp
<1>1. ASSUME TypeOK, [Next]_vars
      PROVE  LamportStep
  <2>1. SUFFICES ASSUME Dispatch
                 PROVE  LET before == Lamports(slice, DOMAIN slice)
                            after == Lamports(slice', DOMAIN slice)
                        IN  \/ after = before
                            \/ /\ policy = "Lax" /\ NoRepeats(Head(todo).metas)
                               /\ after < before
                               /\ \E a \in DOMAIN slice : slice'[a].lamports = U64Max
                            \/ policy = "Lax" /\ ~NoRepeats(Head(todo).metas)
    BY <1>1, DispatchingSteps DEF LamportStep
  <2>2. policy \in {"Strict", "Lax"}
    BY <1>1 DEF TypeOK, Policies
  <2>3. CASE policy = "Strict"
    BY <1>1, <2>1, <2>3, StrictLamports
  <2>4. CASE policy = "Lax"
    BY <1>1, <2>1, <2>4, LaxLamports
  <2> QED
    BY <2>2, <2>3, <2>4
<1>2. TypeOK /\ [Next]_vars => [LamportStep]_vars
  BY <1>1
<1> QED
  BY <1>2, TokenTypes, PTL DEF Spec, LamportsAddUp

-----------------------------------------------------------------------------
(* Supply.                                                                 *)

\* What an account holds of mint m under program prog.
Weigh(p, m, prog) ==
    IF IsTokens(p, prog) /\ p.data.mint = m THEN p.data.amount ELSE 0

\* The same for every account of a list.
Holding(S, m) == [a \in DOMAIN S |-> Weigh(S[a], m, S[m].owner)]

\* A weight is a number.
LEMMA WeighType ==
    ASSUME NEW p \in Account, NEW m, NEW prog
    PROVE  Weigh(p, m, prog) \in Nat
<1>1. p.data.kind = "token" => p.data.amount \in Nat
  BY DataKinds DEF Account, AccountOver, TokenData
<1> QED
  BY <1>1 DEF Weigh, IsTokens

\* What circulates, which is summed up over the holders, is the total over
\* all accounts of what each holds.
LEMMA CirculatingTotal ==
    ASSUME NEW S, IsFiniteSet(DOMAIN S), S \in [DOMAIN S -> Account], NEW m
    PROVE  /\ Circulating(S, m) = Total(Holding(S, m), DOMAIN S)
           /\ \A a \in DOMAIN S : Holding(S, m)[a] \in Nat
<1> DEFINE g == Holding(S, m)
           H == Holders(S, m)
           P(F) == F = [t \in SUBSET H |->
                          IF t = {} THEN 0
                          ELSE S[CHOOSE x \in t : TRUE].data.amount
                               + F[t \ {CHOOSE x \in t : TRUE}]]
<1>1. \A a \in DOMAIN S : g[a] \in Nat /\ (a \notin H => g[a] = 0)
  BY WeighType DEF Weigh, Holding, Holders
<1>2. \A a \in H : g[a] = S[a].data.amount
  BY DEF Weigh, Holding, Holders
<1>3. H \in SUBSET DOMAIN S
  BY DEF Holders
<1>4. IsFiniteSet(H) /\ IsFiniteSet(DOMAIN S \ H)
  BY <1>3, FS_Subset, FS_Difference
<1>5. Circulating(S, m) = (CHOOSE F : P(F))[H]
  BY DEF Circulating, MapThenSumSet, MapThenFoldSet
<1> HIDE DEF g, H
<1>6. \A F : P(F) <=> Unfolds(F, g, H)
  <2>1. \A t \in SUBSET H :
          t # {} => g[CHOOSE x \in t : TRUE] = S[CHOOSE x \in t : TRUE].data.amount
    BY <1>2
  <2> QED
    BY <2>1 DEF Unfolds
<1> HIDE DEF P
<1>7. \A a \in H : g[a] \in Nat
  BY <1>1, <1>3
<1>8. PICK F : Adds(F, g, H)
  BY <1>4, <1>7, AddsExists
<1>9. Unfolds(F, g, H)
  BY <1>7, <1>8, AddsUnfolds
<1>10. P(CHOOSE G : P(G))
  BY <1>6, <1>9
<1>11. PICK G : G = CHOOSE G0 : P(G0)
  OBVIOUS
<1>12. G[H] = F[H]
  BY <1>4, <1>6, <1>7, <1>8, <1>10, <1>11, UnfoldsAdds
<1>13. F[H] = Total(g, H)
  BY <1>4, <1>7, <1>8, TotalIs
<1>14. /\ Total(g, DOMAIN S) = Total(g, H) + Total(g, DOMAIN S \ H)
       /\ Total(g, H) \in Nat
  BY <1>1, <1>3, TotalSplit
<1>15. Total(g, DOMAIN S \ H) = 0
  BY <1>1, <1>4, TotalZero
<1>16. Circulating(S, m) = Total(g, DOMAIN S)
  BY <1>5, <1>11, <1>12, <1>13, <1>14, <1>15
<1> QED
  BY <1>1, <1>16 DEF g

\* A mint is a mint for good, under the same authority and program, in every
\* copy; MintTo and Burn alone change its supply.
LEMMA MintCopyAfter ==
    ASSUME NEW ix \in Instruction, NEW w \in [DOMAIN ix.metas -> Account],
           Invoked(ix, w).ok, NEW i \in DOMAIN ix.metas, w[i].data.kind = "mint",
           NEW n, n = Invoked(ix, w).w[i]
    PROVE  /\ n.owner = w[i].owner /\ n.data.kind = "mint"
           /\ n.data.authority = w[i].data.authority
           /\ \/ n.data.supply = w[i].data.supply
              \/ ix.program # AtaId /\ ix.op = "MintTo" /\ i = 1
              \/ ix.program # AtaId /\ ix.op = "Burn" /\ i = 2
<1> DEFINE p == w[i]
<1>1. p \in Account /\ p.data \in MintData /\ p.data.len = 82
  BY DataKinds DEF Account, AccountOver, MintData, MintLen
<1>2. n.owner = p.owner /\ n.data = p.data
      => /\ n.data.kind = "mint" /\ n.data.authority = p.data.authority
         /\ n.data.supply = p.data.supply
  OBVIOUS
<1>3. CASE ix.program = AtaId
  <2>1. AtaOk(ix, w) /\ n = AtaPost(ix, w)[i]
    BY <1>3 DEF Invoked
  <2>2. CASE Exists(w[2])
    BY <1>2, <2>1, <2>2 DEF AtaPost
  <2>3. CASE ~Exists(w[2])
    <3>1. i # 2
      BY <1>1, <2>3 DEF Exists, EmptySystemOwned
    <3>2. n.owner = p.owner /\ n.data = p.data
      BY <1>1, <2>1, <2>3, <3>1 DEF AtaPost, CreateAtaPost, Account, AccountOver
    <3> QED
      BY <1>2, <3>2
  <2> QED
    BY <2>2, <2>3
<1>4. CASE ix.program # AtaId
  <2>1. TokenOk(ix, w) /\ n = TokenPost(ix, w)[i]
    BY <1>4 DEF Invoked
  <2>2. CASE ix.op \in {"InitializeMint", "InitializeAccount"}
    <3>1. w[1].data.kind # "mint" \/ w[1].data.len >= 165
      BY <2>1, <2>2 DEF TokenOk, InitializeMintOk, InitializeAccountOk, TokenLen
    <3>2. i # 1
      BY <1>1, <3>1
    <3>3. n = p
      BY <2>1, <2>2, <3>2 DEF TokenPost, InitializeMintPost, InitializeAccountPost
    <3> QED
      BY <1>2, <3>3
  <2>3. CASE ix.op = "Transfer"
    <3>1. i # 1 /\ i # 2
      BY <2>1, <2>3 DEF TokenOk, TransferOk, IsTokens
    <3>2. n = p
      BY <2>1, <2>3, <3>1 DEF TokenPost, TransferPost
    <3> QED
      BY <1>2, <3>2
  <2>4. CASE ix.op \in {"Approve", "Revoke"}
    <3>1. i # 1
      BY <2>1, <2>4 DEF TokenOk, ApproveOk, RevokeOk, IsTokens
    <3>2. n = p
      BY <2>1, <2>4, <3>1 DEF TokenPost, ApprovePost, RevokePost
    <3> QED
      BY <1>2, <3>2
  <2>5. CASE ix.op = "MintTo"
    <3>1. i # 2 /\ n = MintToPost(ix, w)[i]
      BY <2>1, <2>5 DEF TokenOk, TokenPost, MintToOk, IsTokens
    <3>2. CASE i = 1
      BY <1>1, <1>4, <2>5, <3>1, <3>2 DEF MintToPost, Account, AccountOver, MintData
    <3>3. CASE i # 1
      BY <1>2, <3>1, <3>3 DEF MintToPost
    <3> QED
      BY <3>2, <3>3
  <2>6. CASE ix.op = "Burn"
    <3>1. i # 1 /\ n = BurnPost(ix, w)[i]
      BY <2>1, <2>6 DEF TokenOk, TokenPost, BurnOk, IsTokens
    <3>2. CASE i = 2
      BY <1>1, <1>4, <2>6, <3>1, <3>2 DEF BurnPost, Account, AccountOver, MintData
    <3>3. CASE i # 2
      BY <1>2, <3>1, <3>3 DEF BurnPost
    <3> QED
      BY <3>2, <3>3
  <2>7. CASE ix.op = "CloseAccount"
    <3>1. i # 1
      BY <2>1, <2>7 DEF TokenOk, CloseAccountOk, IsTokens
    <3>2. n.owner = p.owner /\ n.data = p.data
      BY <1>1, <2>1, <2>7, <3>1 DEF TokenPost, CloseAccountPost, Account, AccountOver
    <3> QED
      BY <1>2, <3>2
  <2> QED
    BY <2>1, <2>2, <2>3, <2>4, <2>5, <2>6, <2>7 DEF TokenOk
<1> QED
  BY <1>3, <1>4

\* A dispatch that changes the list, and passes no key twice: w are the
\* copies it works on and v those it leaves, m is a mint.
Moving(ix, w, v, m) ==
    /\ ix \in Instruction /\ ix.metas \in Seq(Meta)
    /\ \A i, j \in DOMAIN ix.metas : ix.metas[i].key = ix.metas[j].key => i = j
    /\ slice \in [DOMAIN slice -> Account] /\ slice' \in [DOMAIN slice -> Account]
    /\ IsFiniteSet(DOMAIN slice)
    /\ Keys(ix.metas) \subseteq DOMAIN slice
    /\ w = Resolve(ix.metas, slice)
    /\ slice' = Merge(ix.metas, slice, v)
    /\ m \in DOMAIN slice /\ slice'[m].owner = slice[m].owner

\* What the accounts hold is what their copies hold.
LEMMA HoldingCopies ==
    ASSUME NEW ix, NEW w, NEW v, NEW m, Moving(ix, w, v, m)
    PROVE  LET ms == ix.metas
               prog == slice[m].owner
               g == Holding(slice, m)
               h == Holding(slice', m)
           IN  /\ DOMAIN slice' = DOMAIN slice
               /\ \A i \in DOMAIN ms :
                    /\ ms[i].key \in DOMAIN slice
                    /\ slice[ms[i].key] = w[i] /\ slice'[ms[i].key] = v[i]
                    /\ g[ms[i].key] = Weigh(w[i], m, prog)
                    /\ h[ms[i].key] = Weigh(v[i], m, prog)
               /\ \A a \in DOMAIN slice \ Keys(ms) :
                    slice'[a] = slice[a] /\ h[a] = g[a]
<1> DEFINE ms == ix.metas
           prog == slice[m].owner
           g == Holding(slice, m)
           h == Holding(slice', m)
<1>1. DOMAIN slice' = DOMAIN slice
  BY DEF Moving
<1>2. ASSUME NEW i \in DOMAIN ms
      PROVE  /\ ms[i].key \in DOMAIN slice
             /\ slice[ms[i].key] = w[i] /\ slice'[ms[i].key] = v[i]
  <2>1. ms[i].key \in DOMAIN slice /\ slice'[ms[i].key] = v[i]
    BY MergeOnce DEF Moving
  <2>2. slice[ms[i].key] = w[i]
    BY DEF Moving, Resolve
  <2> QED
    BY <2>1, <2>2
<1>3. \A a \in DOMAIN slice \ Keys(ms) : slice'[a] = slice[a]
  BY DEF Moving, Merge
<1>4. \A a \in DOMAIN slice : /\ g[a] = Weigh(slice[a], m, prog)
                              /\ h[a] = Weigh(slice'[a], m, prog)
  BY <1>1 DEF Holding, Moving
<1> HIDE DEF g, h
<1> QED
  BY <1>1, <1>2, <1>3, <1>4 DEF g, h

\* The sum over the list and the weights of the copies of an instruction.
LEMMA CirculatingCopies ==
    ASSUME NEW ix, NEW w, NEW v, NEW m, Moving(ix, w, v, m)
    PROVE  LET prog == slice[m].owner
               now == Circulating(slice, m)
               then == Circulating(slice', m)
               old(i) == Weigh(w[i], m, prog)
               new(i) == Weigh(v[i], m, prog)
           IN  /\ now \in Nat /\ then \in Nat
               /\ \A i \in DOMAIN ix.metas : old(i) \in Nat /\ new(i) \in Nat /\ now >= old(i)
               /\ (\A i \in DOMAIN ix.metas : new(i) = old(i)) => then = now
               /\ \A i \in DOMAIN ix.metas :
                    (\A k \in DOMAIN ix.metas \ {i} : new(k) = old(k))
                    => then + old(i) = now + new(i)
               /\ \A i, j \in DOMAIN ix.metas :
                    i # j /\ (\A k \in DOMAIN ix.metas \ {i, j} : new(k) = old(k))
                    => then + (old(i) + old(j)) = now + (new(i) + new(j))
<1> DEFINE ms == ix.metas
           prog == slice[m].owner
           g == Holding(slice, m)
           h == Holding(slice', m)
           D == DOMAIN slice
           old(i) == Weigh(w[i], m, prog)
           new(i) == Weigh(v[i], m, prog)
<1>1. /\ DOMAIN slice' = D /\ IsFiniteSet(D)
      /\ Circulating(slice, m) = Total(g, D) /\ Circulating(slice', m) = Total(h, D)
      /\ \A a \in D : g[a] \in Nat /\ h[a] \in Nat
  <2>1. /\ DOMAIN slice' = D /\ IsFiniteSet(D)
        /\ slice \in [DOMAIN slice -> Account] /\ slice' \in [DOMAIN slice' -> Account]
    BY DEF Moving
  <2> QED
    BY <2>1, CirculatingTotal
<1>2. \A i \in DOMAIN ms : ms[i].key \in D /\ g[ms[i].key] = old(i) /\ h[ms[i].key] = new(i)
  BY HoldingCopies
<1>3. \A a \in D \ Keys(ms) : h[a] = g[a]
  BY HoldingCopies
<1>4. \A i, j \in DOMAIN ms : ms[i].key = ms[j].key => i = j
  BY DEF Moving
<1> HIDE DEF g, h, old, new, D
<1>5. Total(g, D) \in Nat /\ Total(h, D) \in Nat
  BY <1>1, TotalType
<1>6. ASSUME NEW i \in DOMAIN ms
      PROVE  old(i) \in Nat /\ new(i) \in Nat /\ Total(g, D) >= old(i)
  <2>1. PICK a \in D : a = ms[i].key
    BY <1>2
  <2>2. g[a] = old(i) /\ h[a] = new(i)
    BY <1>2, <2>1
  <2>3. Total(g, D) >= g[a]
    BY <1>1, TotalOfOne
  <2> QED
    BY <1>1, <2>2, <2>3
<1>7. ASSUME \A i \in DOMAIN ms : new(i) = old(i)
      PROVE  Total(h, D) = Total(g, D)
  <2>1. \A a \in D : h[a] = g[a]
    BY <1>2, <1>3, <1>7 DEF Keys
  <2> QED
    BY <1>1, <2>1, TotalSame
<1>8. ASSUME NEW i \in DOMAIN ms, \A k \in DOMAIN ms \ {i} : new(k) = old(k)
      PROVE  Total(h, D) + old(i) = Total(g, D) + new(i)
  <2>1. PICK a \in D : a = ms[i].key
    BY <1>2
  <2>2. \A c \in D \ {a} : h[c] = g[c]
    BY <1>2, <1>3, <1>8, <2>1 DEF Keys
  <2>3. Total(h, D) + g[a] = Total(g, D) + h[a]
    BY <1>1, <2>2, TotalOfOne
  <2> QED
    BY <1>2, <2>1, <2>3
<1>9. ASSUME NEW i \in DOMAIN ms, NEW j \in DOMAIN ms, i # j,
             \A k \in DOMAIN ms \ {i, j} : new(k) = old(k)
      PROVE  Total(h, D) + (old(i) + old(j)) = Total(g, D) + (new(i) + new(j))
  <2>1. PICK a \in D, b \in D : a = ms[i].key /\ b = ms[j].key
    BY <1>2
  <2>2. a # b
    BY <1>4, <1>9, <2>1
  <2>3. \A c \in D \ {a, b} : h[c] = g[c]
    BY <1>2, <1>3, <1>9, <2>1 DEF Keys
  <2>4. Total(h, D) + (g[a] + g[b]) = Total(g, D) + (h[a] + h[b])
    BY <1>1, <2>2, <2>3, TotalOfPair
  <2> QED
    BY <1>2, <2>1, <2>4
<1> HIDE DEF ms
<1> QED
  BY <1>1, <1>5, <1>6, <1>7, <1>8, <1>9 DEF old, new, ms

\* The holdings of mint m under program prog, in the copies before (w) and
\* after (v) an instruction: only MintTo of m adds to them, only Burn of m and
\* initialisations take from them.
Rebalanced(ix, w, v, m, prog) ==
    LET old(i) == Weigh(w[i], m, prog)
        new(i) == Weigh(v[i], m, prog)
        Rest(I) == \A k \in DOMAIN ix.metas \ I : new(k) = old(k)
        Native(op) == ix.program # AtaId /\ ix.op = op
    IN  \/ /\ Rest({})
           /\ Native("MintTo") => Key(ix, 1) # m \/ prog # ix.program
           /\ Native("Burn") => Key(ix, 2) # m \/ prog # ix.program
        \/ /\ Native("InitializeMint") \/ Native("InitializeAccount")
           /\ 1 \in DOMAIN ix.metas /\ new(1) = 0 /\ Rest({1})
        \/ /\ Native("Transfer")
           /\ 1 \in DOMAIN ix.metas /\ 2 \in DOMAIN ix.metas
           /\ new(1) + new(2) = old(1) + old(2) /\ Rest({1, 2})
        \/ /\ Native("MintTo")
           /\ 1 \in DOMAIN ix.metas /\ 2 \in DOMAIN ix.metas
           /\ Key(ix, 1) = m /\ v[1].data.supply = w[1].data.supply + ix.amount
           /\ new(2) = old(2) + ix.amount /\ Rest({2})
        \/ /\ Native("Burn")
           /\ 1 \in DOMAIN ix.metas /\ 2 \in DOMAIN ix.metas
           /\ Key(ix, 2) = m
           /\ v[2].data.supply = SatSub(w[2].data.supply, ix.amount)
           /\ ix.amount <= old(1) /\ new(1) = old(1) - ix.amount /\ Rest({1})

\* Every successful instruction moves them so.
LEMMA WeightsAfter ==
    ASSUME NEW ix \in Instruction, NEW w \in [DOMAIN ix.metas -> Account],
           Invoked(ix, w).ok, NEW m, NEW prog
    PROVE  Rebalanced(ix, w, Invoked(ix, w).w, m, prog)
<1> DEFINE v == Invoked(ix, w).w
           old(i) == Weigh(w[i], m, prog)
           new(i) == Weigh(v[i], m, prog)
<1>0. /\ ix.amount \in Nat
      /\ \A i \in DOMAIN ix.metas :
           /\ w[i] \in Account /\ w[i].data.kind \in {"mint", "token", "blank"}
           /\ w[i].data.kind = "token" => w[i].data.amount \in Nat
           /\ w[i].data.kind = "mint" => w[i].data.supply \in Nat
  <2>1. ix.amount \in Nat
    BY AccountsAssumption DEF Instruction, U64
  <2>2. ASSUME NEW i \in DOMAIN ix.metas
        PROVE  /\ w[i] \in Account /\ w[i].data.kind \in {"mint", "token", "blank"}
               /\ w[i].data.kind = "token" => w[i].data.amount \in Nat
               /\ w[i].data.kind = "mint" => w[i].data.supply \in Nat
    BY DataKinds, AccountsAssumption
       DEF Account, AccountOver, Data, MintData, TokenData, BlankData, U64
  <2> QED
    BY <2>1, <2>2
<1>1. CASE ix.program = AtaId
  <2>1. AtaOk(ix, w) /\ v = AtaPost(ix, w)
    BY <1>1 DEF Invoked
  <2>2. CASE Exists(w[2])
    <3>1. v = w
      BY <2>1, <2>2 DEF AtaPost
    <3> QED
      BY <1>1, <3>1 DEF Rebalanced
  <2>3. CASE ~Exists(w[2])
    <3>1. {1, 2, 3, 4, 5, 6} \subseteq DOMAIN ix.metas
      BY <2>1, TokenCopies DEF AtaOk, AtaMetasOk
    <3>2. old(2) = 0
      BY <1>0, <2>3, <3>1, TokenBuffers
         DEF Weigh, IsTokens, Exists, EmptySystemOwned, Account, AccountOver
    <3>3. v = CreateAtaPost(ix, w)
      BY <2>1, <2>3 DEF AtaPost
    <3>4. new(2) = 0
      BY <3>1, <3>3 DEF CreateAtaPost, Weigh, NewTokens
    <3>5. \A i \in DOMAIN ix.metas \ {2} : new(i) = old(i)
      <4>1. ASSUME NEW i \in DOMAIN ix.metas \ {2}
            PROVE  v[i].owner = w[i].owner /\ v[i].data = w[i].data
        BY <1>0, <3>3 DEF CreateAtaPost, Account, AccountOver
      <4> QED
        BY <4>1 DEF Weigh, IsTokens
    <3> QED
      BY <1>1, <3>2, <3>4, <3>5 DEF Rebalanced
  <2> QED
    BY <2>2, <2>3
<1>2. CASE ix.program # AtaId
  <2>0. TokenOk(ix, w) /\ v = TokenPost(ix, w)
    BY <1>2 DEF Invoked
  <2>1. CASE ix.op \in {"InitializeMint", "InitializeAccount"}
    <3>1. 1 \in DOMAIN ix.metas
      BY <2>0, <2>1, TokenCopies DEF TokenOk, InitializeMintOk, InitializeAccountOk
    <3>2. v[1].data = NewMint(ix.key) \/ v[1].data = NewTokens(Key(ix, 2), Key(ix, 3))
      BY <2>0, <2>1, <3>1, <1>0
         DEF TokenPost, InitializeMintPost, InitializeAccountPost, Account, AccountOver
    <3>3. new(1) = 0
      BY <3>2 DEF Weigh, IsTokens, NewMint, NewTokens
    <3>4. \A i \in DOMAIN ix.metas \ {1} : v[i] = w[i]
      BY <2>0, <2>1 DEF TokenPost, InitializeMintPost, InitializeAccountPost
    <3> HIDE DEF v
    <3> QED
      BY <1>2, <2>1, <3>1, <3>3, <3>4 DEF v, Rebalanced
  <2>2. CASE ix.op = "Transfer"
    <3>1. /\ 1 \in DOMAIN ix.metas /\ 2 \in DOMAIN ix.metas
          /\ IsTokens(w[1], ix.program) /\ IsTokens(w[2], ix.program)
          /\ w[1].data.mint = w[2].data.mint /\ w[1].data.amount >= ix.amount
      BY <2>0, <2>2, TokenCopies DEF TokenOk, TransferOk
    <3>2. v = TransferPost(ix, w)
      BY <2>0, <2>2 DEF TokenPost
    <3>3. /\ \A i \in DOMAIN ix.metas \ {1, 2} : v[i] = w[i]
          /\ v[1] = [w[1] EXCEPT !.data = Spent(w[1].data, Key(ix, 3), ix.amount)]
          /\ v[2] = [w[2] EXCEPT !.data = [w[2].data EXCEPT
                                             !.amount = w[2].data.amount + ix.amount]]
      BY <3>1, <3>2 DEF TransferPost
    <3>4. w[1].data \in TokenData /\ w[2].data \in TokenData
      BY <1>0, <3>1, DataKinds DEF IsTokens, Account, AccountOver
    <3>5. /\ v[1].owner = w[1].owner /\ v[1].data.kind = "token"
          /\ v[1].data.mint = w[1].data.mint
          /\ v[1].data.amount = w[1].data.amount - ix.amount
      <4>1. v[1].owner = w[1].owner /\ v[1].data = Spent(w[1].data, Key(ix, 3), ix.amount)
        BY <1>0, <3>1, <3>3 DEF Account, AccountOver
      <4> QED
        BY <3>4, <4>1 DEF Spent, TokenData
    <3>6. /\ v[2].owner = w[2].owner /\ v[2].data.kind = "token"
          /\ v[2].data.mint = w[2].data.mint
          /\ v[2].data.amount = w[2].data.amount + ix.amount
      <4>1. /\ v[2].owner = w[2].owner
            /\ v[2].data = [w[2].data EXCEPT !.amount = w[2].data.amount + ix.amount]
        BY <1>0, <3>1, <3>3 DEF Account, AccountOver
      <4> QED
        BY <3>4, <4>1 DEF TokenData
    <3> HIDE DEF v
    <3>7. new(1) + new(2) = old(1) + old(2)
      BY <1>0, <3>1, <3>5, <3>6 DEF Weigh, IsTokens
    <3> QED
      BY <1>2, <2>2, <3>1, <3>3, <3>7 DEF v, Rebalanced
  <2>3. CASE ix.op \in {"Approve", "Revoke"}
    <3>1. 1 \in DOMAIN ix.metas /\ IsTokens(w[1], ix.program)
      BY <2>0, <2>3, TokenCopies DEF TokenOk, ApproveOk, RevokeOk
    <3>2. w[1].data \in TokenData
      BY <1>0, <3>1, DataKinds DEF IsTokens, Account, AccountOver
    <3>3. \A i \in DOMAIN ix.metas \ {1} : v[i] = w[i]
      BY <2>0, <2>3 DEF TokenPost, ApprovePost, RevokePost
    <3>4. /\ v[1].owner = w[1].owner /\ v[1].data.kind = w[1].data.kind
          /\ v[1].data.mint = w[1].data.mint /\ v[1].data.amount = w[1].data.amount
      BY <1>0, <2>0, <2>3, <3>1, <3>2
         DEF TokenPost, ApprovePost, RevokePost, Account, AccountOver, TokenData
    <3> HIDE DEF v
    <3>5. \A i \in DOMAIN ix.metas : new(i) = old(i)
      BY <3>3, <3>4 DEF Weigh, IsTokens
    <3> QED
      BY <2>3, <3>5 DEF v, Rebalanced
  <2>4. CASE ix.op = "MintTo"
    <3>1. /\ 1 \in DOMAIN ix.metas /\ 2 \in DOMAIN ix.metas
          /\ IsMint(w[1], ix.program) /\ IsTokens(w[2], ix.program)
          /\ w[2].data.mint = Key(ix, 1)
      BY <2>0, <2>4, TokenCopies DEF TokenOk, MintToOk
    <3>2. v = MintToPost(ix, w)
      BY <2>0, <2>4 DEF TokenPost
    <3>3. w[1].data \in MintData /\ w[2].data \in TokenData
      BY <1>0, <3>1, DataKinds DEF IsTokens, IsMint, Account, AccountOver
    <3>4. /\ \A i \in DOMAIN ix.metas \ {1, 2} : v[i] = w[i]
          /\ v[1] = [w[1] EXCEPT !.data = [w[1].data EXCEPT
                                             !.supply = w[1].data.supply + ix.amount]]
          /\ v[2] = [w[2] EXCEPT !.data = [w[2].data EXCEPT
                                             !.amount = w[2].data.amount + ix.amount]]
      BY <3>1, <3>2 DEF MintToPost
    <3>5. v[1].data.kind = "mint" /\ v[1].data.supply = w[1].data.supply + ix.amount
      <4>1. v[1].data = [w[1].data EXCEPT !.supply = w[1].data.supply + ix.amount]
        BY <1>0, <3>1, <3>4 DEF Account, AccountOver
      <4> QED
        BY <3>3, <4>1 DEF MintData
    <3>6. /\ v[2].owner = w[2].owner /\ v[2].data.kind = "token"
          /\ v[2].data.mint = w[2].data.mint
          /\ v[2].data.amount = w[2].data.amount + ix.amount
      <4>1. /\ v[2].owner = w[2].owner
            /\ v[2].data = [w[2].data EXCEPT !.amount = w[2].data.amount + ix.amount]
        BY <1>0, <3>1, <3>4 DEF Account, AccountOver
      <4> QED
        BY <3>3, <4>1 DEF TokenData
    <3> HIDE DEF v
    <3>7. new(1) = old(1)
      BY <3>1, <3>5 DEF Weigh, IsTokens, IsMint
    <3>8. CASE Key(ix, 1) = m /\ prog = ix.program
      <4>1. new(2) = old(2) + ix.amount
        BY <3>1, <3>6, <3>8 DEF Weigh, IsTokens
      <4> QED
        BY <1>2, <2>4, <3>1, <3>4, <3>5, <3>7, <3>8, <4>1 DEF v, Rebalanced
    <3>9. CASE ~(Key(ix, 1) = m /\ prog = ix.program)
      <4>1. new(2) = old(2)
        BY <3>1, <3>6, <3>9 DEF Weigh, IsTokens
      <4> QED
        BY <2>4, <3>4, <3>7, <3>9, <4>1 DEF v, Rebalanced
    <3> QED
      BY <3>8, <3>9
  <2>5. CASE ix.op = "Burn"
    <3>1. /\ 1 \in DOMAIN ix.metas /\ 2 \in DOMAIN ix.metas
          /\ IsTokens(w[1], ix.program) /\ IsMint(w[2], ix.program)
          /\ w[1].data.mint = Key(ix, 2) /\ w[1].data.amount >= ix.amount
      BY <2>0, <2>5, TokenCopies DEF TokenOk, BurnOk
    <3>2. v = BurnPost(ix, w)
      BY <2>0, <2>5 DEF TokenPost
    <3>3. w[2].data \in MintData /\ w[1].data \in TokenData
      BY <1>0, <3>1, DataKinds DEF IsTokens, IsMint, Account, AccountOver
    <3>4. /\ \A i \in DOMAIN ix.metas \ {1, 2} : v[i] = w[i]
          /\ v[2] = [w[2] EXCEPT !.data = [w[2].data EXCEPT
                                       !.supply = SatSub(w[2].data.supply, ix.amount)]]
          /\ v[1] = [w[1] EXCEPT !.data = Spent(w[1].data, Key(ix, 3), ix.amount)]
      BY <3>1, <3>2 DEF BurnPost
    <3>5. /\ v[2].data.kind = "mint"
          /\ v[2].data.supply = SatSub(w[2].data.supply, ix.amount)
      <4>1. v[2].data = [w[2].data EXCEPT !.supply = SatSub(w[2].data.supply, ix.amount)]
        BY <1>0, <3>1, <3>4 DEF Account, AccountOver
      <4> QED
        BY <3>3, <4>1 DEF MintData
    <3>6. /\ v[1].owner = w[1].owner /\ v[1].data.kind = "token"
          /\ v[1].data.mint = w[1].data.mint
          /\ v[1].data.amount = w[1].data.amount - ix.amount
      <4>1. v[1].owner = w[1].owner /\ v[1].data = Spent(w[1].data, Key(ix, 3), ix.amount)
        BY <1>0, <3>1, <3>4 DEF Account, AccountOver
      <4> QED
        BY <3>3, <4>1 DEF Spent, TokenData
    <3> HIDE DEF v
    <3>7. new(2) = old(2)
      BY <3>1, <3>5 DEF Weigh, IsTokens, IsMint
    <3>8. CASE Key(ix, 2) = m /\ prog = ix.program
      <4>1. ix.amount <= old(1) /\ new(1) = old(1) - ix.amount
        BY <1>0, <3>1, <3>6, <3>8 DEF Weigh, IsTokens
      <4> QED
        BY <1>2, <2>5, <3>1, <3>4, <3>5, <3>7, <3>8, <4>1 DEF v, Rebalanced
    <3>9. CASE ~(Key(ix, 2) = m /\ prog = ix.program)
      <4>1. new(1) = old(1)
        BY <3>1, <3>6, <3>9 DEF Weigh, IsTokens
      <4> QED
        BY <2>5, <3>4, <3>7, <3>9, <4>1 DEF v, Rebalanced
    <3> QED
      BY <3>8, <3>9
  <2>6. CASE ix.op = "CloseAccount"
    <3>1. /\ 1 \in DOMAIN ix.metas /\ 2 \in DOMAIN ix.metas
          /\ w[1].data.amount = 0
      BY <2>0, <2>6, TokenCopies DEF TokenOk, CloseAccountOk
    <3>2. v = CloseAccountPost(ix, w)
      BY <2>0, <2>6 DEF TokenPost
    <3>3. v[1].data = Blank(TokenLen)
      <4>1. Closed(w[1]).data = Blank(TokenLen)
        BY <1>0, <3>1 DEF Closed, Account, AccountOver
      <4> DEFINE paid == [w[2] EXCEPT !.lamports = SatAdd(w[2].lamports, w[1].lamports)]
      <4>2. v = [w EXCEPT ![1] = Closed(w[1]), ![2] = paid]
        BY <3>2 DEF CloseAccountPost
      <4> HIDE DEF v, paid
      <4> QED
        BY <3>1, <4>1, <4>2
    <3>4. \A i \in DOMAIN ix.metas \ {1} : v[i].owner = w[i].owner /\ v[i].data = w[i].data
      BY <1>0, <3>2 DEF CloseAccountPost, Account, AccountOver
    <3> HIDE DEF v
    <3>5. old(1) = 0 /\ new(1) = 0
      BY <3>1, <3>3 DEF Weigh, IsTokens, Blank
    <3>6. \A i \in DOMAIN ix.metas : new(i) = old(i)
      BY <3>4, <3>5 DEF Weigh, IsTokens
    <3> QED
      BY <2>6, <3>6 DEF v, Rebalanced
  <2> QED
    BY <2>0, <2>1, <2>2, <2>3, <2>4, <2>5, <2>6 DEF TokenOk
<1> QED
  BY <1>1, <1>2

\* A mint through a dispatch: its supply changes only with MintTo and Burn on
\* it.
LEMMA MintAfter ==
    ASSUME TypeOK, Dispatch, slice' # slice,
           NEW m \in DOMAIN slice, slice[m].data.kind = "mint"
    PROVE  LET ix == Head(todo) IN
           /\ slice'[m].owner = slice[m].owner /\ slice'[m].data.kind = "mint"
           /\ slice'[m].data.authority = slice[m].data.authority
           /\ slice[m].data.supply \in Nat
           /\ \/ slice'[m].data.supply = slice[m].data.supply
              \/ /\ ix.program # AtaId /\ ix.op = "MintTo" /\ m = Key(ix, 1)
                 /\ slice[m].owner = ix.program
              \/ /\ ix.program # AtaId /\ ix.op = "Burn" /\ m = Key(ix, 2)
                 /\ slice[m].owner = ix.program
<1> DEFINE ix == Head(todo)
           w == Resolve(ix.metas, slice)
           v == Invoked(ix, w).w
<1>1. /\ ix \in Instruction /\ ix.metas \in Seq(Meta)
      /\ Keys(ix.metas) \subseteq DOMAIN slice
      /\ w \in [DOMAIN ix.metas -> Account] /\ Invoked(ix, w).ok
      /\ slice' = Merge(ix.metas, slice, v)
  BY Changed
<1>2. slice[m].data.supply \in Nat
  BY DataKinds, AccountsAssumption DEF TypeOK, Account, AccountOver, MintData, U64
<1> HIDE DEF ix, v
<1>3. CASE m \notin Keys(ix.metas)
  <2>1. slice'[m] = slice[m]
    BY <1>1, <1>3 DEF Merge
  <2> QED
    BY <1>2, <2>1
<1>4. CASE m \in Keys(ix.metas)
  <2> DEFINE i == LastMeta(ix.metas, m)
  <2>1. i \in DOMAIN ix.metas /\ ix.metas[i].key = m
    BY <1>1, <1>4, LastMetaOfKey
  <2>2. slice'[m] = v[i]
    BY <1>1, <1>4 DEF Merge
  <2>3. w[i] = slice[m]
    BY <2>1 DEF Resolve
  <2> HIDE DEF i, w
  <2>4. /\ v[i].owner = w[i].owner /\ v[i].data.kind = "mint"
        /\ v[i].data.authority = w[i].data.authority
        /\ \/ v[i].data.supply = w[i].data.supply
           \/ ix.program # AtaId /\ ix.op = "MintTo" /\ i = 1
           \/ ix.program # AtaId /\ ix.op = "Burn" /\ i = 2
    BY <1>1, <2>1, <2>3, MintCopyAfter DEF v
  <2>5. CASE v[i].data.supply = w[i].data.supply
    BY <1>2, <2>2, <2>3, <2>4, <2>5 DEF ix
  <2>6. CASE v[i].data.supply # w[i].data.supply
    <3>1. /\ ix.program # AtaId
          /\ \/ ix.op = "MintTo" /\ i = 1
             \/ ix.op = "Burn" /\ i = 2
      BY <2>4, <2>6
    <3>2. m = Key(ix, i)
      BY <2>1 DEF Key
    <3>3. TokenOk(ix, w)
      BY <1>1, <3>1 DEF Invoked
    <3>4. w[i].owner = ix.program
      BY <3>1, <3>3 DEF TokenOk, MintToOk, BurnOk, IsMint
    <3> QED
      BY <1>2, <2>2, <2>3, <2>4, <3>1, <3>2, <3>4 DEF ix
  <2> QED
    BY <2>5, <2>6
<1> QED
  BY <1>3, <1>4

\* What circulates of a mint, and its supply, through a dispatch that passes
\* no key twice.
LEMMA SupplyMoves ==
    ASSUME TypeOK, Dispatch, NoRepeats(Head(todo).metas),
           NEW m \in DOMAIN slice, slice[m].data.kind = "mint"
    PROVE  LET moved == Circulating(slice', m) - Circulating(slice, m)
               minted == slice'[m].data.supply - slice[m].data.supply
           IN  \/ moved = minted
               \/ Initialises(Head(todo)) /\ minted = 0 /\ moved < 0
               \/ /\ Circulating(slice, m) > slice[m].data.supply
                  /\ moved < minted /\ slice'[m].data.supply = 0
<1> DEFINE ix == Head(todo)
           w == Resolve(ix.metas, slice)
           v == Invoked(ix, w).w
           prog == slice[m].owner
           now == Circulating(slice, m)
           then == Circulating(slice', m)
           supply == slice[m].data.supply
           left == slice'[m].data.supply
           old(i) == Weigh(w[i], m, prog)
           new(i) == Weigh(v[i], m, prog)
<1>0. /\ slice \in [DOMAIN slice -> Account] /\ IsFiniteSet(DOMAIN slice)
      /\ supply \in Nat
  <2>1. slice \in [DOMAIN slice -> Account] /\ IsFiniteSet(DOMAIN slice)
    BY FS_Subset, AccountsAssumption DEF TypeOK
  <2> QED
    BY <2>1, DataKinds, AccountsAssumption DEF Account, AccountOver, MintData, U64
<1>1. CASE slice' = slice
  <2>1. now \in Nat
    BY <1>0, CirculatingTotal, TotalType
  <2> QED
    BY <1>0, <1>1, <2>1
<1>2. CASE slice' # slice
  <2>1. /\ ix \in Instruction /\ ix.metas \in Seq(Meta)
        /\ Keys(ix.metas) \subseteq DOMAIN slice
        /\ w \in [DOMAIN ix.metas -> Account] /\ Invoked(ix, w).ok
        /\ slice' = Merge(ix.metas, slice, v)
    BY <1>2, Changed
  <2>2. /\ slice'[m].owner = slice[m].owner
        /\ \/ left = supply
           \/ /\ ix.program # AtaId /\ ix.op = "MintTo" /\ m = Key(ix, 1)
              /\ prog = ix.program
           \/ /\ ix.program # AtaId /\ ix.op = "Burn" /\ m = Key(ix, 2)
              /\ prog = ix.program
    BY <1>2, MintAfter
  <2>3. slice' \in [DOMAIN slice -> Account]
    <3>1. slice' = Outcome(ix).accts
      BY DEF Dispatch
    <3>2. \A a \in DOMAIN slice : slice'[a] \in Account
      BY <1>0, <2>1, <3>1, OutcomeAccount
    <3> QED
      BY <2>1, <3>2 DEF Merge
  <2>4. \A i, j \in DOMAIN ix.metas : ix.metas[i].key = ix.metas[j].key => i = j
    BY DEF NoRepeats
  <2> HIDE DEF ix, v
  <2>5. Moving(ix, w, v, m)
    BY <1>0, <2>1, <2>2, <2>3, <2>4 DEF Moving
  <2>6. \A i \in DOMAIN ix.metas :
          Key(ix, i) = m => w[i].data.supply = supply /\ v[i].data.supply = left
    BY <2>5, HoldingCopies DEF Key
  <2> HIDE DEF w, now, then, supply, left, old, new, prog
  <2> DEFINE Rest(I) == \A k \in DOMAIN ix.metas \ I : new(k) = old(k)
  <2>7. /\ now \in Nat /\ then \in Nat
        /\ \A i \in DOMAIN ix.metas : old(i) \in Nat /\ new(i) \in Nat /\ now >= old(i)
        /\ Rest({}) => then = now
        /\ \A i \in DOMAIN ix.metas : Rest({i}) => then + old(i) = now + new(i)
        /\ \A i, j \in DOMAIN ix.metas :
             i # j /\ Rest({i, j}) => then + (old(i) + old(j)) = now + (new(i) + new(j))
    BY <2>5, CirculatingCopies DEF now, then, old, new, prog
  <2>8. \/ /\ Rest({})
           /\ ix.program # AtaId /\ ix.op = "MintTo" => Key(ix, 1) # m \/ prog # ix.program
           /\ ix.program # AtaId /\ ix.op = "Burn" => Key(ix, 2) # m \/ prog # ix.program
        \/ /\ ix.op \in {"InitializeMint", "InitializeAccount"}
           /\ 1 \in DOMAIN ix.metas /\ new(1) = 0 /\ Rest({1})
        \/ /\ ix.op = "Transfer"
           /\ 1 \in DOMAIN ix.metas /\ 2 \in DOMAIN ix.metas
           /\ new(1) + new(2) = old(1) + old(2) /\ Rest({1, 2})
        \/ /\ ix.op = "MintTo"
           /\ 1 \in DOMAIN ix.metas /\ 2 \in DOMAIN ix.metas
           /\ Key(ix, 1) = m /\ v[1].data.supply = w[1].data.supply + ix.amount
           /\ new(2) = old(2) + ix.amount /\ Rest({2})
        \/ /\ ix.op = "Burn"
           /\ 1 \in DOMAIN ix.metas /\ 2 \in DOMAIN ix.metas
           /\ Key(ix, 2) = m
           /\ v[2].data.supply = SatSub(w[2].data.supply, ix.amount)
           /\ ix.amount <= old(1) /\ new(1) = old(1) - ix.amount /\ Rest({1})
    <3>1. Rebalanced(ix, w, v, m, prog)
      BY <2>1, WeightsAfter DEF v
    <3> QED
      BY <3>1 DEF Rebalanced, old, new
  <2>9. ix.amount \in Nat /\ supply \in Nat
    BY <1>0, <2>1, AccountsAssumption DEF Instruction, U64, supply
  <2> HIDE DEF Rest
  <2>10. CASE left = supply /\ Rest({})
    BY <2>7, <2>9, <2>10 DEF left, supply, now, then
  <2>11. CASE /\ ix.op \in {"InitializeMint", "InitializeAccount"}
              /\ 1 \in DOMAIN ix.metas /\ new(1) = 0 /\ Rest({1})
    <3>1. left = supply /\ then + old(1) = now /\ old(1) \in Nat
      BY <2>2, <2>7, <2>11
    <3>2. then = now \/ then - now < 0
      BY <2>7, <3>1
    <3>3. Initialises(ix)
      BY <2>11 DEF Initialises
    <3>4. then - now = left - supply \/ (left - supply = 0 /\ then - now < 0)
      BY <2>7, <2>9, <3>1, <3>2
    <3> QED
      BY <3>3, <3>4 DEF left, supply, now, then, ix
  <2>12. CASE /\ ix.op = "Transfer"
              /\ 1 \in DOMAIN ix.metas /\ 2 \in DOMAIN ix.metas
              /\ new(1) + new(2) = old(1) + old(2) /\ Rest({1, 2})
    <3>1. left = supply /\ then = now
      BY <2>2, <2>7, <2>12
    <3> QED
      BY <2>7, <2>9, <3>1 DEF left, supply, now, then
  <2>13. CASE /\ ix.op = "MintTo"
              /\ 1 \in DOMAIN ix.metas /\ 2 \in DOMAIN ix.metas
              /\ Key(ix, 1) = m /\ v[1].data.supply = w[1].data.supply + ix.amount
              /\ new(2) = old(2) + ix.amount /\ Rest({2})
    <3>1. left = supply + ix.amount
      BY <2>6, <2>13
    <3>2. then = now + ix.amount
      BY <2>7, <2>9, <2>13
    <3>3. then - now = left - supply
      BY <2>7, <2>9, <3>1, <3>2
    <3> QED
      BY <3>3 DEF left, supply, now, then
  <2>14. CASE /\ ix.op = "Burn"
              /\ 1 \in DOMAIN ix.metas /\ 2 \in DOMAIN ix.metas
              /\ Key(ix, 2) = m
              /\ v[2].data.supply = SatSub(w[2].data.supply, ix.amount)
              /\ ix.amount <= old(1) /\ new(1) = old(1) - ix.amount /\ Rest({1})
    <3>1. left = SatSub(supply, ix.amount)
      BY <2>6, <2>14
    <3>2. then = now - ix.amount /\ now >= ix.amount
      BY <2>7, <2>9, <2>14
    <3>3. \/ then - now = left - supply
          \/ now > supply /\ then - now < left - supply /\ left = 0
      BY <2>7, <2>9, <3>1, <3>2 DEF SatSub
    <3> QED
      BY <3>3 DEF left, supply, now, then
  <2> QED
    BY <2>2, <2>8, <2>10, <2>11, <2>12, <2>13, <2>14
<1> QED
  BY <1>1, <1>2

\* What circulates of every mint follows its supply.
THEOREM SupplyHolds == Spec => SupplyFollowsTokens
<1>1. ASSUME TypeOK, [Next]_vars
      PROVE  SupplyStep
  <2>1. SUFFICES ASSUME Dispatch, NoRepeats(Head(todo).metas),
                        NEW m \in DOMAIN slice, slice[m].data.kind = "mint"
                 PROVE  /\ slice'[m].owner = slice[m].owner
                        /\ slice'[m].data.kind = "mint"
                        /\ slice'[m].data.authority = slice[m].data.authority
                        /\ LET moved == Circulating(slice', m) - Circulating(slice, m)
                               minted == slice'[m].data.supply - slice[m].data.supply
                           IN  \/ moved = minted
                               \/ Initialises(Head(todo)) /\ minted = 0 /\ moved < 0
                               \/ /\ Circulating(slice, m) > slice[m].data.supply
                                  /\ moved < minted /\ slice'[m].data.supply = 0
    BY <1>1, DispatchingSteps DEF SupplyStep
  <2>2. /\ slice'[m].owner = slice[m].owner
        /\ slice'[m].data.kind = "mint"
        /\ slice'[m].data.authority = slice[m].data.authority
    <3>1. CASE slice' = slice
      BY <2>1, <3>1
    <3>2. CASE slice' # slice
      BY <1>1, <2>1, <3>2, MintAfter
    <3> QED
      BY <3>1, <3>2
  <2> QED
    BY <1>1, <2>1, <2>2, SupplyMoves
<1>2. TypeOK /\ [Next]_vars => [SupplyStep]_vars
  BY <1>1
<1> QED
  BY <1>2, TokenTypes, PTL DEF Spec, SupplyFollowsTokens
=============================================================================
