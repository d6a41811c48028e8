---------------------------- MODULE ConfigProgram ----------------------------
(***************************************************************************)
(* The config program (spl/config_program.rs), one instruction.            *)
(*                                                                         *)
(* The keys are those the body flags as signers.  They are checked against *)
(* the metas and not stored, so that the next Store need not name them.    *)
(* The user data is key, of amount bytes.                                  *)
(***************************************************************************)
EXTENDS NativePrograms

CONSTANT ConfigId   \* CONFIG_PROGRAM_ID

ASSUME ConfigAssumption == ConfigId \in Addr \ {SystemId}

ConfigData == [kind : {"config"}, len : Lengths, body : Addr, size : Nat]

\* The bytes after the user data are zeroes.
Written(len, body, size) ==
    IF size = 0 THEN Blank(len)
    ELSE [kind |-> "config", len |-> len, body |-> body, size |-> size]

StoreOk(ix, w) ==
    /\ Len(ix.metas) >= 1 /\ AllWritable(ix, {1})
    /\ \A i \in DOMAIN ix.keys : Signs(ix.metas, ix.keys[i])
    /\ ix.amount <= w[1].data.len

StorePost(ix, w) == [w EXCEPT ![1].data = Written(w[1].data.len, ix.key, ix.amount)]

ConfigOk(ix, w) == ix.op = "Store" /\ StoreOk(ix, w)
=============================================================================
