---------------------------- MODULE LookupTables ----------------------------
(***************************************************************************)
(* The address-lookup-table program (spl/alt_program.rs), its account      *)
(* layout (alt.rs), and the resolution of a lookup (lib.rs).               *)
(*                                                                         *)
(* last_extended_slot and its start index are written and never read, so   *)
(* they are left out.  In an Extend, keys are the new addresses; in a      *)
(* Create, amount stands for the recent slot and the bump.                 *)
(***************************************************************************)
EXTENDS NativePrograms

CONSTANTS
    TableId,        \* ALT_PROGRAM_ID
    MaxAddresses,   \* LOOKUP_TABLE_MAX_ADDRESSES, 256 in the code
    Cooldown,       \* DEACTIVATION_COOLDOWN_SLOTS, 513 in the code
    TableRent,      \* initial_lamports of a table, 1281360 in the code
    Derivations     \* the <<authority, amount, table>> that derive an address

ASSUME TableAssumption ==
    /\ TableId \in Addr \ {SystemId}
    /\ MaxAddresses \in Nat /\ Cooldown \in Nat /\ TableRent \in U64

MetaLen == 56   \* LOOKUP_TABLE_META_SIZE

\* The addresses fill the buffer after the header.
TableData ==
    {d \in [kind : {"table"}, len : Nat, authority : Addr \cup {NoKey},
            deactivation : U64, addrs : Seq(Addr)] :
        d.len = MetaLen + 32 * Len(d.addrs) /\ Len(d.addrs) <= MaxAddresses}

\* read_meta: no program's id is asked for.
IsTable(data) == data.kind = "table"

NewTable(authority) ==
    [kind |-> "table", len |-> MetaLen, authority |-> authority,
     deactivation |-> Never, addrs |-> <<>>]

Closeable(data, slot) ==
    data.deactivation # Never /\ SatSub(slot, data.deactivation) > Cooldown

\* The table in meta 1 has an authority, it is meta 2, and it signs.
TableAuthority(ix, w) ==
    /\ AllWritable(ix, {1}) /\ AuthoritySigns(ix, 2)
    /\ IsTable(w[1].data)
    /\ w[1].data.authority = Key(ix, 2)

-----------------------------------------------------------------------------
(* The five instructions.                                                  *)

CreateOk(ix, w) ==
    /\ Len(ix.metas) >= 4
    /\ AllWritable(ix, {1, 3}) /\ AuthoritySigns(ix, 2) /\ AuthoritySigns(ix, 3)
    /\ <<Key(ix, 2), ix.amount, Key(ix, 1)>> \in Derivations
    /\ w[1].data.len = 0 /\ w[1].lamports = 0
    /\ w[3].lamports >= TableRent

CreatePost(ix, w) ==
    [w EXCEPT ![3].lamports = w[3].lamports - TableRent,
              ![1] = [lamports |-> TableRent, data |-> NewTable(Key(ix, 2)),
                      owner |-> ix.program, executable |-> FALSE]]

FreezeOk(ix, w) == Len(ix.metas) >= 2 /\ TableAuthority(ix, w)

FreezePost(ix, w) == [w EXCEPT ![1].data.authority = NoKey]

\* Mutant of ExtendOk: any signer extends.
ExtendBySigner(ix, w) ==
    /\ Len(ix.metas) >= 4
    /\ AllWritable(ix, {1}) /\ AuthoritySigns(ix, 2) /\ IsTable(w[1].data)
    /\ w[1].data.deactivation = Never
    /\ Len(w[1].data.addrs) + Len(ix.keys) <= MaxAddresses

\* Mutant of ExtendOk: the addresses already there are not counted.
ExtendUncounted(ix, w) ==
    /\ Len(ix.metas) >= 4 /\ TableAuthority(ix, w)
    /\ w[1].data.deactivation = Never
    /\ Len(ix.keys) <= MaxAddresses

ExtendOk(ix, w) ==
    /\ Len(ix.metas) >= 4 /\ TableAuthority(ix, w)
    /\ w[1].data.deactivation = Never
    /\ Len(w[1].data.addrs) + Len(ix.keys) <= MaxAddresses

ExtendPost(ix, w) ==
    [w EXCEPT ![1].data.addrs = w[1].data.addrs \o ix.keys,
              ![1].data.len = w[1].data.len + 32 * Len(ix.keys)]

DeactivateTableOk(ix, w) ==
    Len(ix.metas) >= 2 /\ TableAuthority(ix, w) /\ w[1].data.deactivation = Never

DeactivateTablePost(ix, w, clock) == [w EXCEPT ![1].data.deactivation = clock.slot]

\* Mutant of CloseOk: a deactivated table closes at once.
CloseAtOnce(ix, w, clock) ==
    /\ Len(ix.metas) >= 3 /\ TableAuthority(ix, w) /\ AllWritable(ix, {3})
    /\ w[1].data.deactivation # Never

CloseOk(ix, w, clock) ==
    /\ Len(ix.metas) >= 3 /\ TableAuthority(ix, w) /\ AllWritable(ix, {3})
    /\ Closeable(w[1].data, clock.slot)

ClosePost(ix, w) ==
    [w EXCEPT ![3].lamports = SatAdd(w[3].lamports, w[1].lamports),
              ![1] = [w[1] EXCEPT !.lamports = 0, !.data = Blank(0), !.owner = SystemId]]

TableOk(ix, w, clock) ==
    \/ ix.op = "CreateLookupTable" /\ CreateOk(ix, w)
    \/ ix.op = "FreezeLookupTable" /\ FreezeOk(ix, w)
    \/ ix.op = "ExtendLookupTable" /\ ExtendOk(ix, w)
    \/ ix.op = "DeactivateLookupTable" /\ DeactivateTableOk(ix, w)
    \/ ix.op = "CloseLookupTable" /\ CloseOk(ix, w, clock)

TablePost(ix, w, clock) ==
    CASE ix.op = "CreateLookupTable" -> CreatePost(ix, w)
      [] ix.op = "FreezeLookupTable" -> FreezePost(ix, w)
      [] ix.op = "ExtendLookupTable" -> ExtendPost(ix, w)
      [] ix.op = "DeactivateLookupTable" -> DeactivateTablePost(ix, w, clock)
      [] ix.op = "CloseLookupTable" -> ClosePost(ix, w)
      [] OTHER -> w

-----------------------------------------------------------------------------
(* resolve_address_table_lookup, which works on any account list and asks  *)
(* the harness's clock.  Indexes count from 0.                             *)

Resolvable(slice, a, slot) ==
    a \in DOMAIN slice /\ IsTable(slice[a].data) /\ ~Closeable(slice[a].data, slot)

\* The index names an address of the table; the bytes after the header are
\* the addresses, 32 each.
InBounds(slice, a, i) == i < Len(slice[a].data.addrs)

\* The list of addresses a list of indexes resolves to, or an error.
Lookup(slice, a, indexes, slot) ==
    IF Resolvable(slice, a, slot) /\ \A j \in DOMAIN indexes : InBounds(slice, a, indexes[j])
    THEN [ok |-> TRUE,
          addrs |-> [j \in DOMAIN indexes |-> slice[a].data.addrs[indexes[j] + 1]]]
    ELSE [ok |-> FALSE, addrs |-> <<>>]
=============================================================================
