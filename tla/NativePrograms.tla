--------------------------- MODULE NativePrograms ---------------------------
(***************************************************************************)
(* What the lookup-table, stake, vote and config programs share.           *)
(*                                                                         *)
(* An instruction is a record [program, op, metas, amount, key, keys]:     *)
(* amount, key and keys stand for whatever its body holds, and op          *)
(* "Malformed" for a short body and for a tag the program does not know.   *)
(* None of the programs looks at the owner of an account it writes.        *)
(***************************************************************************)
EXTENDS Sysvars

CONSTANTS
    NoKey,      \* Option::None of a public key
    Lengths     \* the lengths of zeroed buffers

ASSUME NativeAssumption ==
    /\ NoKey \notin Addr
    /\ Lengths \subseteq Nat /\ 0 \in Lengths

BlankData == [kind : {"blank"}, len : Lengths]

\* A buffer of so many zeroes, which every program takes for uninitialised.
Blank(n) == [kind |-> "blank", len |-> n]

\* u64::MAX, the slot or epoch of deactivation of what is active.
Never == U64Max

\* require_writable and require_signer on the metas' positions.
AllWritable(ix, I) == \A i \in I : Writable(ix.metas, Key(ix, i))
AuthoritySigns(ix, i) == Signs(ix.metas, Key(ix, i))
=============================================================================
