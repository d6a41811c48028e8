--------------------------- MODULE SystemProgram ---------------------------
(***************************************************************************)
(* The system program (system_program.rs).  Each instruction has a guard,  *)
(* the conjunction of its checks, and a post-state for the working copies  *)
(* w, one account per meta.  A failed check is an error and its kind is    *)
(* left out.                                                               *)
(*                                                                         *)
(* An instruction is a record with the fields program, op, metas, amount   *)
(* (lamports), space, key (an owner or an authority), base and seed; a     *)
(* handler reads those its body carries.  op "Malformed" stands for a body *)
(* that is too short, a tag nobody knows or a seed that is not UTF-8.      *)
(***************************************************************************)
EXTENDS Accounts

CONSTANTS
    Sizes,      \* the buffer lengths in play
    Slots,      \* the clock slots in play
    Seeds,      \* the seed strings in play
    Derive,     \* create_with_seed: <<base, seed, owner>> to an address
    NoAddr      \* Derive's answer when create_with_seed fails

\* Length of a nonce state.
NonceBytes == 80

\* The slot is hashed into a durable nonce, injectively for our purposes, so
\* a nonce is the slot it came from; NoHash is the zeroes before the first.
NoHash == -1

ASSUME SystemAssumption ==
    /\ Sizes \subseteq Nat
    /\ Slots \subseteq Nat
    /\ NoAddr \notin Addr
    /\ Derive \in [Addr \X Seeds \X Addr -> Addr \cup {NoAddr}]

\* A buffer: its length and the nonce fields its bytes spell.  The fee field
\* is left out, it holds NONCE_DEFAULT_FEE from initialisation on.
Data == [len : Sizes, version : {0, 1}, init : BOOLEAN,
         auth : Addr, nonce : Slots \cup {NoHash}]

Zeroed(n) ==
    [len |-> n, version |-> 0, init |-> FALSE, auth |-> SystemId, nonce |-> NoHash]

Account == AccountOver(Data)

\* read_nonce_state succeeds on a buffer this long.
HoldsNonce(acct) == acct.data.len >= NonceBytes

\* write_nonce_state
NonceState(data, authority, nonce) ==
    [data EXCEPT !.version = 1, !.init = TRUE, !.auth = authority, !.nonce = nonce]

-----------------------------------------------------------------------------
(* Accounts: create, assign, allocate, transfer.                           *)

Debited(acct, n) == [acct EXCEPT !.lamports = @ - n]
Credited(acct, n) == [acct EXCEPT !.lamports = SatAdd(@, n)]

Created0(ix) ==
    [lamports |-> ix.amount, data |-> Zeroed(ix.space),
     owner |-> ix.key, executable |-> FALSE]

CreateAccountOk(ix, w) ==
    /\ Len(ix.metas) >= 2
    /\ Signs(ix.metas, Key(ix, 1)) /\ Signs(ix.metas, Key(ix, 2))
    /\ Writable(ix.metas, Key(ix, 1)) /\ Writable(ix.metas, Key(ix, 2))
    /\ w[1].lamports >= ix.amount
    /\ w[2].lamports = 0 /\ w[2].data.len = 0

CreateAccountWithSeedOk(ix, w) ==
    /\ Len(ix.metas) >= 2
    /\ Derive[<<ix.base, ix.seed, ix.key>>] = Key(ix, 2)
    /\ Signs(ix.metas, Key(ix, 1))
    /\ Writable(ix.metas, Key(ix, 1)) /\ Writable(ix.metas, Key(ix, 2))
    /\ ix.base # Key(ix, 1) => Signs(ix.metas, ix.base)
    /\ w[1].lamports >= ix.amount
    /\ w[2].lamports = 0 /\ w[2].data.len = 0

CreatePost(ix, w) ==
    [w EXCEPT ![1] = Debited(w[1], ix.amount), ![2] = Created0(ix)]

AssignOk(ix, w) ==
    /\ Len(ix.metas) >= 1
    /\ Signs(ix.metas, Key(ix, 1)) /\ Writable(ix.metas, Key(ix, 1))

AssignWithSeedOk(ix, w) ==
    /\ Len(ix.metas) >= 2
    /\ Writable(ix.metas, Key(ix, 1))
    /\ Signs(ix.metas, ix.base)
    /\ Derive[<<ix.base, ix.seed, ix.key>>] = Key(ix, 1)

AssignPost(ix, w) == [w EXCEPT ![1].owner = ix.key]

\* Mutant of AllocateOk: the buffer may be in use.
AllocateAgain(ix, w) ==
    /\ Len(ix.metas) >= 1
    /\ Signs(ix.metas, Key(ix, 1)) /\ Writable(ix.metas, Key(ix, 1))

AllocateOk(ix, w) ==
    /\ Len(ix.metas) >= 1
    /\ Signs(ix.metas, Key(ix, 1)) /\ Writable(ix.metas, Key(ix, 1))
    /\ w[1].data.len = 0

AllocatePost(ix, w) == [w EXCEPT ![1].data = Zeroed(ix.space)]

\* Mutant of TransferOk: the balance is not checked.
TransferUnfunded(ix, w) ==
    /\ Len(ix.metas) >= 2
    /\ Signs(ix.metas, Key(ix, 1))
    /\ Writable(ix.metas, Key(ix, 1)) /\ Writable(ix.metas, Key(ix, 2))
    /\ w[1].owner = SystemId

TransferOk(ix, w) ==
    /\ Len(ix.metas) >= 2
    /\ Signs(ix.metas, Key(ix, 1))
    /\ Writable(ix.metas, Key(ix, 1)) /\ Writable(ix.metas, Key(ix, 2))
    /\ w[1].owner = SystemId
    /\ w[1].lamports >= ix.amount

TransferWithSeedOk(ix, w) ==
    /\ Len(ix.metas) >= 3
    /\ Writable(ix.metas, Key(ix, 1)) /\ Writable(ix.metas, Key(ix, 3))
    /\ Signs(ix.metas, Key(ix, 2))
    /\ Derive[<<Key(ix, 2), ix.seed, ix.key>>] = Key(ix, 1)
    /\ w[1].lamports >= ix.amount

\* Debit copy i, credit copy j; two copies even when both name one account.
MovePost(ix, w, i, j) ==
    [w EXCEPT ![i] = Debited(w[i], ix.amount), ![j] = Credited(w[j], ix.amount)]

-----------------------------------------------------------------------------
(* Durable nonces.                                                         *)

InitializeNonceOk(ix, w) ==
    /\ Len(ix.metas) >= 1
    /\ Writable(ix.metas, Key(ix, 1))
    /\ HoldsNonce(w[1]) /\ ~w[1].data.init

InitializeNoncePost(ix, w, slot) ==
    [w EXCEPT ![1] = [w[1] EXCEPT !.data = NonceState(@, ix.key, slot), !.owner = SystemId]]

AdvanceNonceOk(ix, w) ==
    /\ Len(ix.metas) >= 3
    /\ Writable(ix.metas, Key(ix, 1)) /\ Signs(ix.metas, Key(ix, 3))
    /\ HoldsNonce(w[1]) /\ w[1].data.init /\ w[1].data.auth = Key(ix, 3)

AdvanceNoncePost(ix, w, slot) ==
    [w EXCEPT ![1].data = NonceState(@, w[1].data.auth, slot)]

AuthorizeNonceOk(ix, w) ==
    /\ Len(ix.metas) >= 2
    /\ Writable(ix.metas, Key(ix, 1)) /\ Signs(ix.metas, Key(ix, 2))
    /\ HoldsNonce(w[1]) /\ w[1].data.init /\ w[1].data.auth = Key(ix, 2)

AuthorizeNoncePost(ix, w) ==
    [w EXCEPT ![1].data = NonceState(@, ix.key, w[1].data.nonce)]

\* Mutant of WithdrawNonceOk: any signer will do, as before initialisation.
WithdrawBySigner(ix, w) ==
    /\ Len(ix.metas) >= 5
    /\ Writable(ix.metas, Key(ix, 1)) /\ Writable(ix.metas, Key(ix, 2))
    /\ Signs(ix.metas, Key(ix, 5))
    /\ HoldsNonce(w[1])
    /\ w[1].lamports >= ix.amount

\* Before initialisation any signer may withdraw.
WithdrawNonceOk(ix, w) ==
    /\ Len(ix.metas) >= 5
    /\ Writable(ix.metas, Key(ix, 1)) /\ Writable(ix.metas, Key(ix, 2))
    /\ Signs(ix.metas, Key(ix, 5))
    /\ HoldsNonce(w[1])
    /\ w[1].data.init => w[1].data.auth = Key(ix, 5)
    /\ w[1].lamports >= ix.amount

UpgradeNonceOk(ix, w) ==
    /\ Len(ix.metas) >= 1
    /\ Writable(ix.metas, Key(ix, 1))

\* The first four bytes become the version tag, on any buffer that has them.
UpgradeNoncePost(ix, w) ==
    IF w[1].data.len >= 4 THEN [w EXCEPT ![1].data.version = 1] ELSE w

-----------------------------------------------------------------------------
(* invoke: dispatch on the tag.                                            *)

SystemOk(ix, w) ==
    \/ ix.op = "CreateAccount" /\ CreateAccountOk(ix, w)
    \/ ix.op = "Assign" /\ AssignOk(ix, w)
    \/ ix.op = "Transfer" /\ TransferOk(ix, w)
    \/ ix.op = "CreateAccountWithSeed" /\ CreateAccountWithSeedOk(ix, w)
    \/ ix.op = "AdvanceNonce" /\ AdvanceNonceOk(ix, w)
    \/ ix.op = "WithdrawNonce" /\ WithdrawNonceOk(ix, w)
    \/ ix.op = "InitializeNonce" /\ InitializeNonceOk(ix, w)
    \/ ix.op = "AuthorizeNonce" /\ AuthorizeNonceOk(ix, w)
    \/ ix.op = "Allocate" /\ AllocateOk(ix, w)
    \/ ix.op = "AssignWithSeed" /\ AssignWithSeedOk(ix, w)
    \/ ix.op = "TransferWithSeed" /\ TransferWithSeedOk(ix, w)
    \/ ix.op = "UpgradeNonce" /\ UpgradeNonceOk(ix, w)

SystemPost(ix, w, slot) ==
    CASE ix.op \in {"CreateAccount", "CreateAccountWithSeed"} -> CreatePost(ix, w)
      [] ix.op \in {"Assign", "AssignWithSeed"} -> AssignPost(ix, w)
      [] ix.op = "Allocate" -> AllocatePost(ix, w)
      [] ix.op = "Transfer" -> MovePost(ix, w, 1, 2)
      [] ix.op = "TransferWithSeed" -> MovePost(ix, w, 1, 3)
      [] ix.op = "WithdrawNonce" -> MovePost(ix, w, 1, 2)
      [] ix.op = "InitializeNonce" -> InitializeNoncePost(ix, w, slot)
      [] ix.op = "AdvanceNonce" -> AdvanceNoncePost(ix, w, slot)
      [] ix.op = "AuthorizeNonce" -> AuthorizeNoncePost(ix, w)
      [] ix.op = "UpgradeNonce" -> UpgradeNoncePost(ix, w)
      [] OTHER -> w
=============================================================================
