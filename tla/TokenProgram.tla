---------------------------- MODULE TokenProgram ----------------------------
(***************************************************************************)
(* The token program (spl/token.rs), and Token-2022 (spl/token_2022.rs),   *)
(* which hands every instruction it supports to the same handlers under    *)
(* its own id.                                                             *)
(*                                                                         *)
(* An instruction is a record [program, op, metas, amount, key], key being *)
(* the mint authority of an InitializeMint.  op "Malformed" stands for a   *)
(* short body and for the tags neither program supports.                   *)
(***************************************************************************)
EXTENDS Accounts

CONSTANTS
    TokenIds,   \* the ids of the token programs
    NoKey,      \* COption::None
    Lengths     \* the lengths of buffers that hold neither mint nor tokens

MintLen == 82
TokenLen == 165

ASSUME TokenAssumption ==
    /\ TokenIds \subseteq Addr \ {SystemId}
    /\ NoKey \notin Addr
    /\ Lengths \subseteq Nat /\ TokenLen \in Lengths

-----------------------------------------------------------------------------
(* A buffer unpacks as a mint, as a token account, or as neither.  The     *)
(* decimals, the freeze authority and is_native are left out, no handler   *)
(* reads them.                                                             *)

MintData ==
    [kind : {"mint"}, len : {MintLen}, supply : U64, authority : Addr \cup {NoKey}]

TokenData ==
    [kind : {"token"}, len : {TokenLen}, mint : Addr, owner : Addr, amount : U64,
     delegate : Addr \cup {NoKey}, delegated : U64, closer : Addr \cup {NoKey},
     state : {"Initialized", "Frozen"}]

BlankData == [kind : {"blank"}, len : Lengths]

Data == MintData \cup TokenData \cup BlankData
Account == AccountOver(Data)

Blank(n) == [kind |-> "blank", len |-> n]

NewMint(authority) ==
    [kind |-> "mint", len |-> MintLen, supply |-> 0, authority |-> authority]

NewTokens(mint, owner) ==
    [kind |-> "token", len |-> TokenLen, mint |-> mint, owner |-> owner, amount |-> 0,
     delegate |-> NoKey, delegated |-> 0, closer |-> NoKey, state |-> "Initialized"]

\* read_mint and read_token_account
IsMint(acct, prog) == acct.owner = prog /\ acct.data.kind = "mint"
IsTokens(acct, prog) == acct.owner = prog /\ acct.data.kind = "token"

\* require_writable and require_signer on the metas' positions.
AllWritable(ix, I) == \A i \in I : Writable(ix.metas, Key(ix, i))
AuthoritySigns(ix, i) == Signs(ix.metas, Key(ix, i))

-----------------------------------------------------------------------------
(* Initialisation.  Neither handler asks for a signature or looks at the   *)
(* account's owner.                                                        *)

\* A buffer that is longer than a mint does not unpack as one, so that a
\* token account passes for uninitialised here.
InitializeMintOk(ix, w) ==
    /\ Len(ix.metas) >= 1 /\ AllWritable(ix, {1})
    /\ w[1].data.len >= MintLen
    /\ w[1].data.kind # "mint"

InitializeMintPost(ix, w) ==
    [w EXCEPT ![1] = [w[1] EXCEPT !.data = NewMint(ix.key), !.owner = ix.program]]

Initialized(data) == data.kind = "token" /\ data.state = "Initialized"

InitializeAccountOk(ix, w) ==
    /\ Len(ix.metas) >= 3 /\ AllWritable(ix, {1})
    /\ IsMint(w[2], ix.program)
    /\ w[1].data.len >= TokenLen
    /\ ~Initialized(w[1].data)

InitializeAccountPost(ix, w) ==
    [w EXCEPT ![1] = [w[1] EXCEPT !.data = NewTokens(Key(ix, 2), Key(ix, 3)),
                                  !.owner = ix.program]]

-----------------------------------------------------------------------------
(* Spending, by the owner or by a delegate within its allowance.           *)

\* Mutant of MaySpend: the allowance is not compared.
MaySpendAnything(data, signer, n) ==
    data.owner = signer \/ data.delegate = signer

MaySpend(data, signer, n) ==
    \/ data.owner = signer
    \/ data.delegate = signer /\ n <= data.delegated

Spent(data, signer, n) ==
    IF data.owner = signer THEN [data EXCEPT !.amount = data.amount - n]
    ELSE [data EXCEPT !.amount = data.amount - n,
                      !.delegated = SatSub(data.delegated, n),
                      !.delegate = IF data.delegated <= n THEN NoKey ELSE data.delegate]

TransferOk(ix, w) ==
    /\ Len(ix.metas) >= 3 /\ AllWritable(ix, {1, 2}) /\ AuthoritySigns(ix, 3)
    /\ IsTokens(w[1], ix.program) /\ IsTokens(w[2], ix.program)
    /\ Initialized(w[1].data) /\ Initialized(w[2].data)
    /\ w[1].data.mint = w[2].data.mint
    /\ MaySpend(w[1].data, Key(ix, 3), ix.amount)
    /\ w[1].data.amount >= ix.amount
    /\ w[2].data.amount + ix.amount <= U64Max

TransferPost(ix, w) ==
    [w EXCEPT ![1].data = Spent(w[1].data, Key(ix, 3), ix.amount),
              ![2].data.amount = w[2].data.amount + ix.amount]

BurnOk(ix, w) ==
    /\ Len(ix.metas) >= 3 /\ AllWritable(ix, {1, 2}) /\ AuthoritySigns(ix, 3)
    /\ IsTokens(w[1], ix.program) /\ IsMint(w[2], ix.program)
    /\ w[1].data.mint = Key(ix, 2)
    /\ MaySpend(w[1].data, Key(ix, 3), ix.amount)
    /\ w[1].data.amount >= ix.amount

\* Mutant of BurnPost: the supply stays.
BurnOfTokensOnly(ix, w) ==
    [w EXCEPT ![1].data = Spent(w[1].data, Key(ix, 3), ix.amount)]

BurnPost(ix, w) ==
    [w EXCEPT ![1].data = Spent(w[1].data, Key(ix, 3), ix.amount),
              ![2].data.supply = SatSub(w[2].data.supply, ix.amount)]

-----------------------------------------------------------------------------
(* Delegation, minting and closing.                                        *)

\* Mutant of ApproveOk: whoever signs approves.
ApproveBySigner(ix, w) ==
    /\ Len(ix.metas) >= 3 /\ AllWritable(ix, {1}) /\ AuthoritySigns(ix, 3)
    /\ IsTokens(w[1], ix.program)

ApproveOk(ix, w) ==
    /\ Len(ix.metas) >= 3 /\ AllWritable(ix, {1}) /\ AuthoritySigns(ix, 3)
    /\ IsTokens(w[1], ix.program)
    /\ w[1].data.owner = Key(ix, 3)

ApprovePost(ix, w) ==
    [w EXCEPT ![1].data.delegate = Key(ix, 2), ![1].data.delegated = ix.amount]

RevokeOk(ix, w) ==
    /\ Len(ix.metas) >= 2 /\ AllWritable(ix, {1}) /\ AuthoritySigns(ix, 2)
    /\ IsTokens(w[1], ix.program)
    /\ w[1].data.owner = Key(ix, 2)

RevokePost(ix, w) ==
    [w EXCEPT ![1].data.delegate = NoKey, ![1].data.delegated = 0]

\* Mutant of MintToOk: the supply may overflow.
MintToUnchecked(ix, w) ==
    /\ Len(ix.metas) >= 3 /\ AllWritable(ix, {1, 2}) /\ AuthoritySigns(ix, 3)
    /\ IsMint(w[1], ix.program) /\ IsTokens(w[2], ix.program)
    /\ w[2].data.mint = Key(ix, 1)
    /\ w[1].data.authority = Key(ix, 3)
    /\ w[2].data.amount + ix.amount <= U64Max

MintToOk(ix, w) ==
    /\ Len(ix.metas) >= 3 /\ AllWritable(ix, {1, 2}) /\ AuthoritySigns(ix, 3)
    /\ IsMint(w[1], ix.program) /\ IsTokens(w[2], ix.program)
    /\ w[2].data.mint = Key(ix, 1)
    /\ w[1].data.authority = Key(ix, 3)
    /\ w[1].data.supply + ix.amount <= U64Max
    /\ w[2].data.amount + ix.amount <= U64Max

MintToPost(ix, w) ==
    [w EXCEPT ![1].data.supply = w[1].data.supply + ix.amount,
              ![2].data.amount = w[2].data.amount + ix.amount]

CloseAccountOk(ix, w) ==
    /\ Len(ix.metas) >= 3 /\ AllWritable(ix, {1, 2}) /\ AuthoritySigns(ix, 3)
    /\ IsTokens(w[1], ix.program)
    /\ w[1].data.amount = 0
    /\ Key(ix, 3) \in {w[1].data.owner, w[1].data.closer}

Closed(acct) == [acct EXCEPT !.lamports = 0, !.data = Blank(TokenLen), !.owner = SystemId]

\* Mutant of CloseAccountPost: the closed account keeps its lamports.
CloseAccountHalf(ix, w) ==
    [w EXCEPT ![1] = [w[1] EXCEPT !.data = Blank(TokenLen), !.owner = SystemId],
              ![2].lamports = SatAdd(w[2].lamports, w[1].lamports)]

CloseAccountPost(ix, w) ==
    [w EXCEPT ![1] = Closed(w[1]),
              ![2].lamports = SatAdd(w[2].lamports, w[1].lamports)]

-----------------------------------------------------------------------------
(* invoke: dispatch on the tag.                                            *)

TokenOk(ix, w) ==
    \/ ix.op = "InitializeMint" /\ InitializeMintOk(ix, w)
    \/ ix.op = "InitializeAccount" /\ InitializeAccountOk(ix, w)
    \/ ix.op = "Transfer" /\ TransferOk(ix, w)
    \/ ix.op = "Approve" /\ ApproveOk(ix, w)
    \/ ix.op = "Revoke" /\ RevokeOk(ix, w)
    \/ ix.op = "MintTo" /\ MintToOk(ix, w)
    \/ ix.op = "Burn" /\ BurnOk(ix, w)
    \/ ix.op = "CloseAccount" /\ CloseAccountOk(ix, w)

TokenPost(ix, w) ==
    CASE ix.op = "InitializeMint" -> InitializeMintPost(ix, w)
      [] ix.op = "InitializeAccount" -> InitializeAccountPost(ix, w)
      [] ix.op = "Transfer" -> TransferPost(ix, w)
      [] ix.op = "Approve" -> ApprovePost(ix, w)
      [] ix.op = "Revoke" -> RevokePost(ix, w)
      [] ix.op = "MintTo" -> MintToPost(ix, w)
      [] ix.op = "Burn" -> BurnPost(ix, w)
      [] ix.op = "CloseAccount" -> CloseAccountPost(ix, w)
      [] OTHER -> w
=============================================================================
