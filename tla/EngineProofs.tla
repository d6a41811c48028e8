---------------------------- MODULE EngineProofs ----------------------------
(***************************************************************************)
(* Facts about one instruction, for every instruction and account list:    *)
(* the copies a program works on and the list it gives back are well       *)
(* typed, and an account that comes back changed is one the program's      *)
(* last copy of it says so.                                                *)
(***************************************************************************)
EXTENDS Engine, AccountProofs

\* The metas of an instruction are numbered from 1 and are metas.
LEMMA MetasType ==
    ASSUME NEW ix \in Instruction
    PROVE  /\ DOMAIN ix.metas = 1..Len(ix.metas)
           /\ Len(ix.metas) \in Nat
           /\ \A i \in DOMAIN ix.metas : ix.metas[i] \in Meta
           /\ Keys(ix.metas) \subseteq Addr
  BY MetaList DEF Instruction

\* The last meta of a key is a meta of that key.
LEMMA LastMetaIs ==
    ASSUME NEW ix \in Instruction, NEW a \in Keys(ix.metas)
    PROVE  /\ LastMeta(ix.metas, a) \in DOMAIN ix.metas
           /\ ix.metas[LastMeta(ix.metas, a)].key = a
  BY LastMetaOfKey DEF Instruction

-----------------------------------------------------------------------------
(* What the system program leaves in the copies is accounts again.         *)

\* A zeroed buffer, and a nonce state written over a buffer, are buffers.
LEMMA DataTypes ==
    /\ \A n \in Sizes : Zeroed(n) \in Data
    /\ \A d \in Data, k \in Addr, h \in Slots \cup {NoHash} : NonceState(d, k, h) \in Data
  BY AccountsAssumption DEF Data, Zeroed, NonceState

\* Taking what is there, and adding with saturation, leaves an account.
LEMMA DebitCreditType ==
    ASSUME NEW acct \in Account, NEW n \in U64
    PROVE  /\ acct.lamports >= n => Debited(acct, n) \in Account
           /\ Credited(acct, n) \in Account
<1>1. acct.lamports \in U64 /\ acct.lamports \in Nat /\ n \in Nat
  BY AccountsAssumption DEF Account, AccountOver, U64
<1>2. ASSUME NEW m \in U64 PROVE [acct EXCEPT !.lamports = m] \in Account
  BY DEF Account, AccountOver
<1>3. acct.lamports >= n => acct.lamports - n \in U64
  BY <1>1, AccountsAssumption DEF U64
<1>4. SatAdd(acct.lamports, n) \in U64
  BY <1>1, SatAddType
<1> QED
  BY <1>2, <1>3, <1>4 DEF Debited, Credited

\* CreateAccount and CreateAccountWithSeed.
LEMMA CreateType ==
    ASSUME NEW ix \in Instruction, NEW w \in [DOMAIN ix.metas -> Account],
           1 \in DOMAIN ix.metas, 2 \in DOMAIN ix.metas, w[1].lamports >= ix.amount
    PROVE  CreatePost(ix, w) \in [DOMAIN ix.metas -> Account]
<1>1. Created0(ix) \in Account
  BY DataTypes DEF Created0, Account, AccountOver, Instruction
<1>2. Debited(w[1], ix.amount) \in Account
  BY DebitCreditType DEF Instruction
<1> QED
  BY <1>1, <1>2 DEF CreatePost

\* The three that move lamports.
LEMMA MoveType ==
    ASSUME NEW ix \in Instruction, NEW w \in [DOMAIN ix.metas -> Account],
           NEW i \in DOMAIN ix.metas, NEW j \in DOMAIN ix.metas,
           i # j, w[i].lamports >= ix.amount
    PROVE  MovePost(ix, w, i, j) \in [DOMAIN ix.metas -> Account]
<1>1. Debited(w[i], ix.amount) \in Account /\ Credited(w[j], ix.amount) \in Account
  BY DebitCreditType DEF Instruction
<1> QED
  BY <1>1 DEF MovePost

\* Assign, AssignWithSeed and Allocate.
LEMMA AssignAllocateType ==
    ASSUME NEW ix \in Instruction, NEW w \in [DOMAIN ix.metas -> Account],
           1 \in DOMAIN ix.metas
    PROVE  /\ AssignPost(ix, w) \in [DOMAIN ix.metas -> Account]
           /\ AllocatePost(ix, w) \in [DOMAIN ix.metas -> Account]
<1>1. [w[1] EXCEPT !.owner = ix.key] \in Account
  BY DEF Account, AccountOver, Instruction
<1>2. [w[1] EXCEPT !.data = Zeroed(ix.space)] \in Account
  BY DataTypes DEF Account, AccountOver, Instruction
<1> QED
  BY <1>1, <1>2 DEF AssignPost, AllocatePost

\* The four that write a nonce state.
LEMMA NonceType ==
    ASSUME NEW ix \in Instruction, NEW w \in [DOMAIN ix.metas -> Account],
           NEW sl \in Slots, 1 \in DOMAIN ix.metas
    PROVE  /\ InitializeNoncePost(ix, w, sl) \in [DOMAIN ix.metas -> Account]
           /\ AdvanceNoncePost(ix, w, sl) \in [DOMAIN ix.metas -> Account]
           /\ AuthorizeNoncePost(ix, w) \in [DOMAIN ix.metas -> Account]
           /\ UpgradeNoncePost(ix, w) \in [DOMAIN ix.metas -> Account]
<1> DEFINE d == w[1].data
<1>1. d \in Data /\ d.auth \in Addr /\ d.nonce \in Slots \cup {NoHash}
  BY DEF Account, AccountOver, Data
<1>2. /\ NonceState(d, ix.key, sl) \in Data
      /\ NonceState(d, d.auth, sl) \in Data
      /\ NonceState(d, ix.key, d.nonce) \in Data
  BY <1>1, DataTypes DEF Instruction
<1>3. [d EXCEPT !.version = 1] \in Data
  BY <1>1 DEF Data
<1>4. ASSUME NEW x \in Data
      PROVE  [w[1] EXCEPT !.data = x] \in Account
  BY DEF Account, AccountOver
<1>5. [w[1] EXCEPT !.data = NonceState(d, ix.key, sl), !.owner = SystemId] \in Account
  BY <1>2, AccountsAssumption DEF Account, AccountOver
<1>6. InitializeNoncePost(ix, w, sl) \in [DOMAIN ix.metas -> Account]
  BY <1>5 DEF InitializeNoncePost
<1>7. /\ AdvanceNoncePost(ix, w, sl) \in [DOMAIN ix.metas -> Account]
      /\ AuthorizeNoncePost(ix, w) \in [DOMAIN ix.metas -> Account]
  BY <1>2, <1>4 DEF AdvanceNoncePost, AuthorizeNoncePost
<1>8. UpgradeNoncePost(ix, w) \in [DOMAIN ix.metas -> Account]
  BY <1>3, <1>4 DEF UpgradeNoncePost
<1> QED
  BY <1>6, <1>7, <1>8

\* Having that many metas, as the handlers test it, means having the copies.
LEMMA CopiesExist ==
    ASSUME NEW ix \in Instruction
    PROVE  /\ Len(ix.metas) >= 1 => {1} \subseteq DOMAIN ix.metas
           /\ Len(ix.metas) >= 2 => {1, 2} \subseteq DOMAIN ix.metas
           /\ Len(ix.metas) >= 3 => {1, 2, 3} \subseteq DOMAIN ix.metas
           /\ Len(ix.metas) >= 5 => {1, 2, 3, 4, 5} \subseteq DOMAIN ix.metas
  BY MetasType

\* Every instruction of the program that passes its checks.
LEMMA SystemPostType ==
    ASSUME NEW ix \in Instruction, NEW w \in [DOMAIN ix.metas -> Account],
           NEW sl \in Slots, SystemOk(ix, w)
    PROVE  SystemPost(ix, w, sl) \in [DOMAIN ix.metas -> Account]
<1>1. CASE ix.op \in {"CreateAccount", "CreateAccountWithSeed"}
  <2>1. {1, 2} \subseteq DOMAIN ix.metas /\ w[1].lamports >= ix.amount
    BY <1>1, CopiesExist DEF SystemOk, CreateAccountOk, CreateAccountWithSeedOk
  <2>2. SystemPost(ix, w, sl) = CreatePost(ix, w)
    BY <1>1 DEF SystemPost
  <2> QED
    BY <2>1, <2>2, CreateType
<1>2. CASE ix.op \in {"Assign", "AssignWithSeed"}
  <2>1. {1} \subseteq DOMAIN ix.metas
    BY <1>2, CopiesExist DEF SystemOk, AssignOk, AssignWithSeedOk
  <2>2. SystemPost(ix, w, sl) = AssignPost(ix, w)
    BY <1>2 DEF SystemPost
  <2> QED
    BY <2>1, <2>2, AssignAllocateType
<1>3. CASE ix.op = "Allocate"
  <2>1. {1} \subseteq DOMAIN ix.metas
    BY <1>3, CopiesExist DEF SystemOk, AllocateOk
  <2>2. SystemPost(ix, w, sl) = AllocatePost(ix, w)
    BY <1>3 DEF SystemPost
  <2> QED
    BY <2>1, <2>2, AssignAllocateType
<1>4. CASE ix.op \in {"Transfer", "WithdrawNonce"}
  <2>1. {1, 2} \subseteq DOMAIN ix.metas /\ w[1].lamports >= ix.amount
    BY <1>4, CopiesExist DEF SystemOk, TransferOk, WithdrawNonceOk
  <2>2. SystemPost(ix, w, sl) = MovePost(ix, w, 1, 2)
    BY <1>4 DEF SystemPost
  <2> QED
    BY <2>1, <2>2, MoveType
<1>5. CASE ix.op = "TransferWithSeed"
  <2>1. {1, 2, 3} \subseteq DOMAIN ix.metas /\ w[1].lamports >= ix.amount
    BY <1>5, CopiesExist DEF SystemOk, TransferWithSeedOk
  <2>2. SystemPost(ix, w, sl) = MovePost(ix, w, 1, 3)
    BY <1>5 DEF SystemPost
  <2> QED
    BY <2>1, <2>2, MoveType
<1>6. CASE ix.op \in {"InitializeNonce", "AdvanceNonce", "AuthorizeNonce", "UpgradeNonce"}
  <2>1. {1} \subseteq DOMAIN ix.metas
    BY <1>6, CopiesExist DEF SystemOk, InitializeNonceOk, AdvanceNonceOk, AuthorizeNonceOk,
                             UpgradeNonceOk
  <2>2. SystemPost(ix, w, sl) \in {InitializeNoncePost(ix, w, sl), AdvanceNoncePost(ix, w, sl),
                                  AuthorizeNoncePost(ix, w), UpgradeNoncePost(ix, w)}
    BY <1>6 DEF SystemPost
  <2> QED
    BY <2>1, <2>2, NonceType
<1> QED
  BY <1>1, <1>2, <1>3, <1>4, <1>5, <1>6 DEF SystemOk

-----------------------------------------------------------------------------
(* The outcome of an instruction.                                          *)

\* The copies a program gets, and those any program gives back, are accounts.
LEMMA InvocationType ==
    ASSUME NEW ix \in Instruction, NEW S, S \in [DOMAIN S -> Account],
           Keys(ix.metas) \subseteq DOMAIN S, NEW sl \in Slots,
           NEW r \in Invocations(ix, Resolve(ix.metas, S), sl)
    PROVE  /\ Resolve(ix.metas, S) \in [DOMAIN ix.metas -> Account]
           /\ r.w \in [DOMAIN ix.metas -> Account]
<1> DEFINE w == Resolve(ix.metas, S)
<1>1. w \in [DOMAIN ix.metas -> Account]
  BY DEF Resolve, Keys
<1>2. CASE ix.program = SystemId
  <2>1. r.w = IF SystemOk(ix, w) THEN SystemPost(ix, w, sl) ELSE w
    BY <1>2 DEF Invocations
  <2> QED
    BY <1>1, <2>1, SystemPostType
<1>3. CASE ix.program # SystemId /\ ix.program = BudgetId
  <2>1. r.w = w
    BY <1>3 DEF Invocations
  <2> QED
    BY <1>1, <2>1
<1>4. CASE ix.program # SystemId /\ ix.program # BudgetId
  <2>1. r.w = w \/ r.w \in [DOMAIN w -> CustomAccounts]
    BY <1>4 DEF Invocations
  <2> QED
    BY <1>1, <2>1, EngineAssumption
<1> QED
  BY <1>1, <1>2, <1>3, <1>4

\* Putting accounts back into a list gives a list over the same addresses.
LEMMA MergeType ==
    ASSUME NEW ix \in Instruction, NEW S, S \in [DOMAIN S -> Account],
           NEW w \in [DOMAIN ix.metas -> Account]
    PROVE  Merge(ix.metas, S, w) \in [DOMAIN S -> Account]
<1>1. \A a \in Keys(ix.metas) : w[LastMeta(ix.metas, a)] \in Account
  BY LastMetaIs
<1> QED
  BY <1>1 DEF Merge

\* An outcome is one of three failures that leave the list alone, or what a
\* registered program's run makes of the accounts it resolved.
LEMMA OutcomeKinds ==
    ASSUME NEW ix, NEW S, NEW sl, NEW lim, NEW pol,
           NEW out \in Outcomes(ix, S, sl, lim, pol)
    PROVE  \/ out \in {Failed(S, "UnknownProgram"), Failed(S, "OutOfComputeUnits"),
                       Failed(S, "UnknownAccount")}
           \/ /\ ix.program \in Registered
              /\ Keys(ix.metas) \subseteq DOMAIN S
              /\ \E r \in Invocations(ix, Resolve(ix.metas, S), sl) :
                    out = Concluded(ix, S, r, pol)
<1>1. CASE ix.program \notin Registered
  BY <1>1 DEF Outcomes
<1>2. CASE ix.program \in Registered
  <2>1. PICK c \in Costs(ix.program) : out \in Executed(ix, S, sl, lim, pol, c)
    BY <1>2 DEF Outcomes
  <2> QED
    BY <1>2, <2>1 DEF Executed
<1> QED
  BY <1>1, <1>2

\* Whatever becomes of an instruction, its caller gets a list of accounts
\* over the addresses it passed, and an error the harness knows.
LEMMA OutcomeType ==
    ASSUME NEW ix \in Instruction, NEW S, S \in [DOMAIN S -> Account],
           NEW sl \in Slots, NEW lim, NEW pol,
           NEW out \in Outcomes(ix, S, sl, lim, pol)
    PROVE  out.accts \in [DOMAIN S -> Account] /\ out.error \in Errors
<1>1. CASE \E e \in Errors : out = Failed(S, e)
  BY <1>1 DEF Failed
<1>2. CASE \E r \in Invocations(ix, Resolve(ix.metas, S), sl) :
              /\ Keys(ix.metas) \subseteq DOMAIN S
              /\ out = Concluded(ix, S, r, pol)
  <2>1. PICK r \in Invocations(ix, Resolve(ix.metas, S), sl) :
              /\ Keys(ix.metas) \subseteq DOMAIN S
              /\ out = Concluded(ix, S, r, pol)
    BY <1>2
  <2>2. Merge(ix.metas, S, r.w) \in [DOMAIN S -> Account]
    BY <2>1, InvocationType, MergeType
  <2> QED
    BY <2>1, <2>2 DEF Concluded, Validated, Failed, Errors
<1> QED
  BY <1>1, <1>2, OutcomeKinds DEF Errors

\* An account comes back changed only if the instruction succeeded, the
\* list passed validation, and one of the program's copies of the account
\* was changed in that way.
LEMMA OutcomeChange ==
    ASSUME NEW ix \in Instruction, NEW S, S \in [DOMAIN S -> Account],
           NEW sl \in Slots, NEW lim, NEW pol,
           NEW out \in Outcomes(ix, S, sl, lim, pol),
           NEW a \in DOMAIN S, out.accts[a] # S[a]
    PROVE  /\ ix.program \in Registered
           /\ a \in Keys(ix.metas)
           /\ ValidPostState(ix.program, ix.metas, S, out.accts, pol)
           /\ LET w == Resolve(ix.metas, S) IN
               /\ w \in [DOMAIN ix.metas -> Account]
               /\ \E r \in Invocations(ix, w, sl), i \in DOMAIN ix.metas :
                    /\ r.ok
                    /\ ix.metas[i].key = a
                    /\ w[i] = S[a] /\ r.w[i] = out.accts[a]
<1> DEFINE w == Resolve(ix.metas, S)
<1>1. \A e : out # Failed(S, e)
  BY DEF Failed
<1>2. /\ ix.program \in Registered
      /\ Keys(ix.metas) \subseteq DOMAIN S
      /\ \E r \in Invocations(ix, w, sl) : out = Concluded(ix, S, r, pol)
  BY <1>1, OutcomeKinds
<1>3. PICK r \in Invocations(ix, w, sl) : out = Concluded(ix, S, r, pol)
  BY <1>2
<1>4. /\ r.ok
      /\ out.accts = Merge(ix.metas, S, r.w)
      /\ ValidPostState(ix.program, ix.metas, S, out.accts, pol)
  BY <1>1, <1>3 DEF Concluded, Validated
<1>5. a \in Keys(ix.metas) /\ out.accts[a] = r.w[LastMeta(ix.metas, a)]
  BY <1>4 DEF Merge
<1>6. /\ LastMeta(ix.metas, a) \in DOMAIN ix.metas
      /\ ix.metas[LastMeta(ix.metas, a)].key = a
  BY <1>5, LastMetaIs
<1>7. w[LastMeta(ix.metas, a)] = S[a]
  BY <1>6 DEF Resolve
<1>8. w \in [DOMAIN ix.metas -> Account]
  BY <1>2, InvocationType
<1> QED
  BY <1>2, <1>4, <1>5, <1>6, <1>7, <1>8

-----------------------------------------------------------------------------
(* What the system program does to one copy.                               *)

Paid(ix, i, p, n) ==
    /\ i = 1 /\ n = Debited(p, ix.amount)
    /\ ix.op \in {"CreateAccount", "CreateAccountWithSeed", "Transfer",
                  "TransferWithSeed", "WithdrawNonce"}

Made(ix, i, p, n) ==
    /\ i = 2 /\ n = Created0(ix)
    /\ ix.op \in {"CreateAccount", "CreateAccountWithSeed"}

Received(ix, i, p, n) ==
    /\ n = Credited(p, ix.amount)
    /\ \/ i = 2 /\ ix.op \in {"Transfer", "WithdrawNonce"}
       \/ i = 3 /\ ix.op = "TransferWithSeed"

Reassigned(ix, i, p, n) ==
    /\ i = 1 /\ n = [p EXCEPT !.owner = ix.key]
    /\ ix.op \in {"Assign", "AssignWithSeed"}

Resized(ix, i, p, n) ==
    i = 1 /\ n = [p EXCEPT !.data = Zeroed(ix.space)] /\ ix.op = "Allocate"

Initialized(ix, i, p, n, sl) ==
    /\ i = 1 /\ ix.op = "InitializeNonce"
    /\ n = [p EXCEPT !.data = NonceState(p.data, ix.key, sl), !.owner = SystemId]

Advanced(ix, i, p, n, sl) ==
    /\ i = 1 /\ ix.op = "AdvanceNonce"
    /\ n = [p EXCEPT !.data = NonceState(p.data, p.data.auth, sl)]

Authorized(ix, i, p, n) ==
    /\ i = 1 /\ ix.op = "AuthorizeNonce"
    /\ n = [p EXCEPT !.data = NonceState(p.data, ix.key, p.data.nonce)]

Upgraded(ix, i, p, n) ==
    /\ i = 1 /\ ix.op = "UpgradeNonce"
    /\ n = [p EXCEPT !.data = [p.data EXCEPT !.version = 1]]

\* What each way to rewrite an account leaves of it.
LEMMA Rewrites ==
    ASSUME NEW p \in Account, NEW x, NEW y
    PROVE  /\ Debited(p, x).lamports = p.lamports - x
           /\ Debited(p, x).owner = p.owner /\ Debited(p, x).data = p.data
           /\ Credited(p, x).lamports = SatAdd(p.lamports, x)
           /\ Credited(p, x).owner = p.owner /\ Credited(p, x).data = p.data
           /\ [p EXCEPT !.owner = x].lamports = p.lamports
           /\ [p EXCEPT !.owner = x].data = p.data
           /\ [p EXCEPT !.data = x].lamports = p.lamports
           /\ [p EXCEPT !.data = x].owner = p.owner
           /\ [p EXCEPT !.data = x].data = x
           /\ [p EXCEPT !.data = x, !.owner = y].lamports = p.lamports
           /\ [p EXCEPT !.data = x, !.owner = y].owner = y
           /\ [p EXCEPT !.data = x, !.owner = y].data = x
  BY DEF Account, AccountOver, Debited, Credited

\* A copy is left alone or changed in one of nine ways.
LEMMA CopyAfter ==
    ASSUME NEW ix \in Instruction, NEW w \in [DOMAIN ix.metas -> Account],
           NEW sl \in Slots, SystemOk(ix, w), NEW i \in DOMAIN ix.metas,
           NEW n, n = SystemPost(ix, w, sl)[i], n # w[i]
    PROVE  \/ Paid(ix, i, w[i], n) \/ Made(ix, i, w[i], n)
           \/ Received(ix, i, w[i], n) \/ Reassigned(ix, i, w[i], n)
           \/ Resized(ix, i, w[i], n) \/ Initialized(ix, i, w[i], n, sl)
           \/ Advanced(ix, i, w[i], n, sl) \/ Authorized(ix, i, w[i], n)
           \/ Upgraded(ix, i, w[i], n)
<1>1. CASE ix.op \in {"CreateAccount", "CreateAccountWithSeed"}
  <2>1. n = CreatePost(ix, w)[i]
    BY <1>1 DEF SystemPost
  <2> QED
    BY <1>1, <2>1 DEF CreatePost, Paid, Made
<1>2. CASE ix.op \in {"Assign", "AssignWithSeed"}
  <2>1. n = AssignPost(ix, w)[i]
    BY <1>2 DEF SystemPost
  <2> QED
    BY <1>2, <2>1 DEF AssignPost, Reassigned
<1>3. CASE ix.op = "Allocate"
  <2>1. n = AllocatePost(ix, w)[i]
    BY <1>3 DEF SystemPost
  <2> QED
    BY <1>3, <2>1 DEF AllocatePost, Resized
<1>4. CASE ix.op \in {"Transfer", "WithdrawNonce"}
  <2>1. n = MovePost(ix, w, 1, 2)[i]
    BY <1>4 DEF SystemPost
  <2> QED
    BY <1>4, <2>1 DEF MovePost, Paid, Received
<1>5. CASE ix.op = "TransferWithSeed"
  <2>1. n = MovePost(ix, w, 1, 3)[i]
    BY <1>5 DEF SystemPost
  <2> QED
    BY <1>5, <2>1 DEF MovePost, Paid, Received
<1>6. CASE ix.op = "InitializeNonce"
  <2>1. n = InitializeNoncePost(ix, w, sl)[i]
    BY <1>6 DEF SystemPost
  <2> QED
    BY <1>6, <2>1 DEF InitializeNoncePost, Initialized
<1>7. CASE ix.op = "AdvanceNonce"
  <2>1. n = AdvanceNoncePost(ix, w, sl)[i]
    BY <1>7 DEF SystemPost
  <2> QED
    BY <1>7, <2>1 DEF AdvanceNoncePost, Advanced
<1>8. CASE ix.op = "AuthorizeNonce"
  <2>1. n = AuthorizeNoncePost(ix, w)[i]
    BY <1>8 DEF SystemPost
  <2> QED
    BY <1>8, <2>1 DEF AuthorizeNoncePost, Authorized
<1>9. CASE ix.op = "UpgradeNonce"
  <2>1. n = UpgradeNoncePost(ix, w)[i]
    BY <1>9 DEF SystemPost
  <2> QED
    BY <1>9, <2>1 DEF UpgradeNoncePost, Upgraded
<1> QED
  BY <1>1, <1>2, <1>3, <1>4, <1>5, <1>6, <1>7, <1>8, <1>9 DEF SystemOk
=============================================================================
