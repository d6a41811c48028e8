------------------------------ MODULE Accounts ------------------------------
(***************************************************************************)
(* Accounts, account metas and unsigned arithmetic, as every built-in      *)
(* program of the harness sees them (account.rs, builtin.rs).              *)
(*                                                                         *)
(* An account is a record [lamports, data, owner, executable].  Its        *)
(* address is not a field: a caller's account list is a function from      *)
(* addresses to accounts, which stands for a list without two entries for  *)
(* one address.  rent_epoch is left out: nothing reads or changes it.      *)
(* What account data holds is up to each program; here a data value is     *)
(* any record with a field len, the length of the buffer in bytes.         *)
(***************************************************************************)
EXTENDS Integers, Sequences, FiniteSets, FiniteSetsExt

CONSTANTS
    Addr,       \* the public keys in play: wallets, data accounts, program ids
    SystemId,   \* the system program's id; its 32 bytes are zero
    U64Max      \* the largest u64

ASSUME AccountsAssumption ==
    /\ SystemId \in Addr
    /\ U64Max \in Nat
    /\ IsFiniteSet(Addr)

U64 == 0..U64Max

\* u64::saturating_add
SatAdd(m, n) == IF m + n > U64Max THEN U64Max ELSE m + n

\* u64::saturating_sub
SatSub(m, n) == IF m < n THEN 0 ELSE m - n

\* u64::saturating_mul
SatMul(m, n) == IF m * n > U64Max THEN U64Max ELSE m * n

Meta == [key : Addr, signer : BOOLEAN, writable : BOOLEAN]

AccountOver(data) ==
    [lamports : U64, data : data, owner : Addr, executable : BOOLEAN]

-----------------------------------------------------------------------------
(* The metas of an instruction ms; the same key may appear more than once. *)

Keys(ms) == {ms[i].key : i \in DOMAIN ms}

\* accounts[i].address
Key(ix, i) == ix.metas[i].key

\* meta_for: the first meta that names the key answers for all of them.
FirstMeta(ms, a) ==
    CHOOSE i \in DOMAIN ms :
        ms[i].key = a /\ \A j \in DOMAIN ms : ms[j].key = a => i <= j

\* merge_accounts walks the working copies in order, so the last one stays.
LastMeta(ms, a) ==
    CHOOSE i \in DOMAIN ms :
        ms[i].key = a /\ \A j \in DOMAIN ms : ms[j].key = a => j <= i

Signs(ms, a) == a \in Keys(ms) /\ ms[FirstMeta(ms, a)].signer

Writable(ms, a) == a \in Keys(ms) /\ ms[FirstMeta(ms, a)].writable

-----------------------------------------------------------------------------

\* The shape validation takes for an account about to be created.
EmptySystemOwned(acct) ==
    acct.lamports = 0 /\ acct.data.len = 0 /\ acct.owner = SystemId

Lamports(slice, S) == MapThenSumSet(LAMBDA a : slice[a].lamports, S)
=============================================================================
