---------------------------- MODULE TokenHarness ----------------------------
(***************************************************************************)
(* A caller that runs token and associated-token instructions on its       *)
(* account list, one after the other, as single calls or as a chain: a     *)
(* chain that fails keeps what the instructions before the failure did.    *)
(* The compute budget covers them; Harness is about budgets that do not.   *)
(***************************************************************************)
EXTENDS AssociatedToken, Invocation

CONSTANTS
    InitSlices,     \* account lists the caller may start from
    Instructions,   \* instructions it runs
    PolicyChoices   \* validation policies it sets

Instruction ==
    [program : TokenIds \cup {AtaId}, op : STRING, metas : Seq(Meta),
     amount : U64, key : Addr]

ASSUME TokenHarnessAssumption ==
    /\ \A s \in InitSlices : DOMAIN s \subseteq Addr /\ s \in [DOMAIN s -> Account]
    /\ Instructions \subseteq Instruction
    /\ PolicyChoices \subseteq Policies

VARIABLES
    slice,      \* the caller's account list
    policy,     \* validation_policy
    todo        \* the instruction submitted and not yet dispatched, if any

vars == <<slice, policy, todo>>

Init ==
    /\ slice \in InitSlices
    /\ policy \in PolicyChoices
    /\ todo = <<>>

\* What invoke returns.
Invoked(ix, w) ==
    LET ok == IF ix.program = AtaId THEN AtaOk(ix, w) ELSE TokenOk(ix, w)
        post == IF ix.program = AtaId THEN AtaPost(ix, w) ELSE TokenPost(ix, w)
    IN  [ok |-> ok, w |-> IF ok THEN post ELSE w]

Outcome(ix) ==
    IF Keys(ix.metas) \subseteq DOMAIN slice
    THEN Concluded(ix, slice, Invoked(ix, Resolve(ix.metas, slice)), policy)
    ELSE Failed(slice, "UnknownAccount")

Submit(ix) ==
    todo = <<>> /\ todo' = <<ix>> /\ UNCHANGED <<slice, policy>>

Dispatch ==
    /\ todo # <<>>
    /\ slice' = Outcome(Head(todo)).accts
    /\ todo' = <<>>
    /\ UNCHANGED policy

SetValidationPolicy(p) == policy' = p /\ UNCHANGED <<slice, todo>>

Next ==
    \/ \E ix \in Instructions : Submit(ix)
    \/ Dispatch
    \/ \E p \in PolicyChoices : SetValidationPolicy(p)

Spec == Init /\ [][Next]_vars
-----------------------------------------------------------------------------
(* Properties.                                                             *)

\* Every variable keeps its type: neither a balance, nor an allowance, nor a
\* supply goes below zero or above the largest u64, and no buffer is left
\* half mint, half token account.
TypeOK ==
    /\ DOMAIN slice \subseteq Addr /\ slice \in [DOMAIN slice -> Account]
    /\ policy \in Policies
    /\ todo \in Seq(Instruction) /\ Len(todo) <= 1

Dispatching == todo # <<>> /\ todo' = <<>>

\* No key of the instruction is passed twice.
NoRepeats(ms) == \A i, j \in DOMAIN ms : ms[i].key = ms[j].key => i = j

\* The token accounts of mint m under the token program that owns m, and what
\* they hold together.
Holders(S, m) ==
    {a \in DOMAIN S : IsTokens(S[a], S[m].owner) /\ S[a].data.mint = m}
Circulating(S, m) == MapThenSumSet(LAMBDA a : S[a].data.amount, Holders(S, m))

Initialises(ix) == ix.op \in {"InitializeMint", "InitializeAccount"}

\* A mint is a mint for good, under the same authority and program, and what
\* circulates of it moves with its supply, whoever transfers, mints, burns,
\* delegates or closes.  InitializeMint and InitializeAccount never add to
\* it; they may take from it, over a token account and over a frozen one.
\* Only a burn of more than the supply, where a transfer with a key repeated
\* has made more than was ever minted, takes the supply to zero instead.
SupplyStep ==
    Dispatching /\ NoRepeats(Head(todo).metas) =>
        \A m \in DOMAIN slice : slice[m].data.kind = "mint" =>
            /\ slice'[m].owner = slice[m].owner
            /\ slice'[m].data.kind = "mint"
            /\ slice'[m].data.authority = slice[m].data.authority
            /\ LET moved == Circulating(slice', m) - Circulating(slice, m)
                   minted == slice'[m].data.supply - slice[m].data.supply
               IN  \/ moved = minted
                   \/ Initialises(Head(todo)) /\ minted = 0 /\ moved < 0
                   \/ /\ Circulating(slice, m) > slice[m].data.supply
                      /\ moved < minted /\ slice'[m].data.supply = 0
SupplyFollowsTokens == [][SupplyStep]_vars

\* The account's owner signs, or its delegate, whose allowance falls by what
\* the account loses.
SpendSigned(ix, old, new) ==
    \/ Signs(ix.metas, old.owner)
    \/ /\ old.delegate # NoKey /\ Signs(ix.metas, old.delegate)
       /\ old.delegated - new.delegated = old.amount - new.amount

\* A token account stays with its owner, its mint and its program, and loses
\* tokens only to its owner or to a delegate within its allowance, until it is
\* empty and its owner or its close authority closes it.  The exceptions are
\* InitializeMint, which overwrites any token account it is given, and
\* InitializeAccount, which overwrites a frozen one, with nobody's signature.
TokenStep ==
    Dispatching => \A a \in DOMAIN slice : slice[a].data.kind = "token" =>
        LET ix == Head(todo)
            old == slice[a].data
            new == slice'[a].data
        IN  \/ ix.op = "InitializeMint"
            \/ ix.op = "InitializeAccount" /\ old.state = "Frozen"
            \/ /\ new.kind = "token" /\ slice'[a].owner = slice[a].owner
               /\ new.owner = old.owner /\ new.mint = old.mint
               /\ new.amount < old.amount =>
                      ix.program = slice[a].owner /\ SpendSigned(ix, old, new)
            \/ /\ old.amount = 0
               /\ \E k \in {old.owner, old.closer} \cap Addr : Signs(ix.metas, k)
TokensNeedAuthority == [][TokenStep]_vars

\* Only the owner names a delegate or raises what it may spend: over any
\* sequence of transfers and burns a delegate takes no more than the owner
\* last approved.
AllowanceStep ==
    Dispatching => \A a \in DOMAIN slice :
        LET old == slice[a].data
            new == slice'[a].data
        IN  old.kind = "token" /\ new.kind = "token" /\ new.delegate # NoKey =>
                \/ new.delegate = old.delegate /\ new.delegated <= old.delegated
                \/ Signs(Head(todo).metas, old.owner)
AllowancesNeedOwner == [][AllowanceStep]_vars

\* The lamports of all accounts add up to what they were: those of a closed
\* account reach the destination, the funder pays for a new associated
\* account.  Validation sees to it whatever the metas; without it the
\* programs do, as long as no key is passed twice and no credit saturates.
LamportStep ==
    Dispatching =>
        LET before == Lamports(slice, DOMAIN slice)
            after == Lamports(slice', DOMAIN slice)
        IN  \/ after = before
            \/ /\ policy = "Lax" /\ NoRepeats(Head(todo).metas)
               /\ after < before /\ \E a \in DOMAIN slice : slice'[a].lamports = U64Max
            \/ policy = "Lax" /\ ~NoRepeats(Head(todo).metas)
LamportsAddUp == [][LamportStep]_vars
=============================================================================
