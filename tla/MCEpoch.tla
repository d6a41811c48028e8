------------------------------ MODULE MCEpoch ------------------------------
(***************************************************************************)
(* Instances of EpochHarness for TLC: two wallets and a table, or a stake  *)
(* account, or a vote account, or a config account.                        *)
(***************************************************************************)
EXTENDS EpochClaims, TLC

CONSTANTS system, tables, stakes, votes, configs, alice, bob, table, stake, vote, config, none

Programs == {tables, stakes, votes, configs}
MCAddr == Programs \cup {system, alice, bob, table, stake, vote, config}

MCHome == [a \in MCAddr |->
    CASE a = table -> tables [] a = stake -> stakes [] a = vote -> votes
      [] a = config -> configs [] OTHER -> system]

MCDerivations == {<<alice, 1, table>>}

-----------------------------------------------------------------------------
(* Instructions.                                                           *)

M(k, s, w) == [key |-> k, signer |-> s, writable |-> w]
SW(k) == M(k, TRUE, TRUE)
S(k)  == M(k, TRUE, FALSE)
W(k)  == M(k, FALSE, TRUE)
R(k)  == M(k, FALSE, FALSE)

Ix(program, op, metas, n) ==
    [program |-> program, op |-> op, metas |-> metas, amount |-> n, key |-> bob,
     keys |-> <<>>]

WithKeys(ix, keys) == [ix EXCEPT !.keys = keys]

\* A signature of either wallet, and one left out.
Authorities == {S(alice), S(bob), R(alice)}

Extend(s, keys) ==
    WithKeys(Ix(tables, "ExtendLookupTable", <<W(table), s, R(bob), R(system)>>, 0), keys)

TableIxs ==
    {Ix(tables, "CreateLookupTable", <<W(table), S(alice), p, R(system)>>, n) :
        p \in {SW(bob), W(bob)}, n \in 1..2}
    \cup {Extend(s, <<alice>>) : s \in Authorities} \cup {Extend(S(alice), <<bob, alice>>)}
    \cup {Ix(tables, op, <<W(table), s>>, 0) :
        op \in {"FreezeLookupTable", "DeactivateLookupTable"}, s \in {S(alice), S(bob)}}
    \cup {Ix(tables, "CloseLookupTable", <<m, s, W(bob)>>, 0) :
        m \in {W(table), R(table)}, s \in {S(alice), S(bob)}}
    \cup {Ix(tables, "CloseLookupTable", <<W(table), S(alice), W(table)>>, 0),
          Ix(tables, "Malformed", <<>>, 0)}

\* Each role goes to the wallet that has the other.
Rotate(program, op, metas, role) ==
    [Ix(program, op, metas, role) EXCEPT !.key = IF role = 0 THEN bob ELSE alice]

StakeIxs ==
    {WithKeys(Ix(stakes, "InitializeStake", <<m>>, 0), <<alice, bob>>) :
        m \in {W(stake), R(stake)}}
    \cup {Rotate(stakes, "AuthorizeStake", <<W(stake), s>>, role) :
        s \in {S(alice), S(bob)}, role \in 0..1}
    \cup {Ix(stakes, op, <<W(stake), R(system), s>>, 0) :
        op \in {"DelegateStake", "DeactivateStake"}, s \in {S(alice), S(bob)}}
    \cup {Ix(stakes, "WithdrawStake", <<W(stake), W(d), S(bob)>>, 3) : d \in {alice, stake}}
    \cup {Ix(stakes, "WithdrawStake", <<W(stake), W(alice), S(alice)>>, 3),
          Ix(stakes, "DelegateStake", <<W(stake), R(stake), S(alice)>>, 0)}

VoteIxs ==
    {WithKeys(Ix(votes, "InitializeVote", <<W(vote), s>>, 200), <<alice, alice, bob>>) :
        s \in {S(alice), S(bob)}}
    \cup {Rotate(votes, "AuthorizeVote", <<W(vote), s>>, role) :
        s \in {S(alice), S(bob)}, role \in 0..1}
    \cup {Ix(votes, "WithdrawVote", <<W(vote), W(d), S(bob)>>, 6) : d \in {alice, vote}}
    \cup {Ix(votes, "WithdrawVote", <<W(vote), W(alice), S(bob)>>, 2)}
    \cup {Ix(votes, "UpdateIdentity", <<W(vote), x, R(alice)>>, 0) : x \in {S(bob), S(alice)}}
    \cup {Ix(votes, "UpdateIdentity", <<W(vote), S(bob), S(alice)>>, 0)}
    \cup {Ix(votes, "UpdateCommission", <<W(vote), S(bob)>>, 100)}

ConfigIxs ==
    {WithKeys(Ix(configs, "Store", <<W(config), s>>, n), ks) :
        s \in {S(alice), S(bob)}, n \in {0, 4, 113}, ks \in {<<>>, <<alice>>}}

EpochIxs == TableIxs \cup StakeIxs \cup VoteIxs \cup ConfigIxs

-----------------------------------------------------------------------------
(* Account lists.                                                          *)

Acct(n, data, owner) ==
    [lamports |-> n, data |-> data, owner |-> owner, executable |-> FALSE]
Wallet(n) == Acct(n, Blank(0), system)

Wallets(n) == alice :> Wallet(0) @@ bob :> Wallet(n) @@ system :> Wallet(0)

EpochSlices ==
    {Wallets(2) @@ table :> Wallet(0),
     Wallets(U64Max) @@ table :> Acct(1, NewTable(alice), tables),
     Wallets(0) @@ stake :> Acct(6, Blank(200), stakes),
     Wallets(0) @@ vote :> Acct(6, Blank(112), votes),
     Wallets(0) @@ config :> Acct(1, Blank(112), configs)}

-----------------------------------------------------------------------------
(* Clocks.                                                                 *)

C(slot, time, epoch) == [slot |-> slot, time |-> time, epoch |-> epoch]

MCSlots == {0, 2, 3}
MCTimestamps == {-5, 1, 2}
MCClocks == {C(0, 0, 0), C(3, 0, 0)}

\* Epochs of two slots, from the first slot or after a warm-up.
MCSchedules ==
    {[slots |-> 2, firstSlot |-> 0, firstEpoch |-> 0],
     [slots |-> 1, firstSlot |-> 3, firstEpoch |-> 2]}

\* A product that saturates, and half of it for the rent: three lamports, or none.
MCRents == [rate : {0, 1}, years : {1}, parts : {2}]
=============================================================================
