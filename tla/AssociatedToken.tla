-------------------------- MODULE AssociatedToken --------------------------
(***************************************************************************)
(* The associated-token-account program (spl/ata.rs), which creates the    *)
(* token account whose address derives from a wallet, a mint and a token   *)
(* program.  Its metas are funder, account, wallet, mint, system program   *)
(* and token program.                                                      *)
(***************************************************************************)
EXTENDS TokenProgram

CONSTANTS
    AtaId,          \* ATA_PROGRAM_ID
    AtaLamports,    \* ATA_DEFAULT_LAMPORTS, 2_039_280 in the code
    Ata             \* find_program_address over <<wallet, mint, token program>>

ASSUME AtaAssumption ==
    /\ AtaId \in Addr \ ({SystemId} \cup TokenIds)
    /\ AtaLamports \in U64
    /\ Ata \in [Addr \X Addr \X TokenIds -> Addr]

AtaMetasOk(ix) ==
    /\ Len(ix.metas) >= 6
    /\ AuthoritySigns(ix, 1) /\ AllWritable(ix, {1, 2})
    /\ Key(ix, 5) = SystemId /\ Key(ix, 6) \in TokenIds
    /\ Key(ix, 2) = Ata[<<Key(ix, 3), Key(ix, 4), Key(ix, 6)>>]

Exists(acct) == ~EmptySystemOwned(acct)

\* The mint need only belong to the token program.
CreateAtaOk(ix, w) ==
    /\ ~Exists(w[2])
    /\ w[1].lamports >= AtaLamports

CreateAtaPost(ix, w) ==
    [w EXCEPT ![1].lamports = w[1].lamports - AtaLamports,
              ![2] = [lamports |-> AtaLamports, executable |-> FALSE,
                      data |-> NewTokens(Key(ix, 4), Key(ix, 3)), owner |-> Key(ix, 6)]]

\* CreateIdempotent on an account that is there: only what unpacks as a token
\* account is compared.
AlreadyThereOk(ix, w) ==
    /\ Exists(w[2])
    /\ w[2].owner = Key(ix, 6)
    /\ w[2].data.kind = "token" =>
          w[2].data.mint = Key(ix, 4) /\ w[2].data.owner = Key(ix, 3)

AtaOk(ix, w) ==
    /\ AtaMetasOk(ix)
    /\ w[4].owner = Key(ix, 6)
    /\ \/ ix.op \in {"Create", "CreateIdempotent"} /\ CreateAtaOk(ix, w)
       \/ ix.op = "CreateIdempotent" /\ AlreadyThereOk(ix, w)

AtaPost(ix, w) == IF Exists(w[2]) THEN w ELSE CreateAtaPost(ix, w)
=============================================================================
