----------------------------- MODULE MCHarness -----------------------------
(***************************************************************************)
(* Instances of Harness for TLC: a wallet, an address derived from it by a *)
(* seed, a nonce account, two accounts for a user's program, and the       *)
(* programs' ids.                                                          *)
(***************************************************************************)
EXTENDS HarnessClaims, TLC

CONSTANTS system, budget, custom, alice, vault, nonce, carol, dave, s1, none

MCAddr == {system, budget, custom, alice, vault, nonce, carol, dave}
MCSizes == {0, 80}

\* vault is the address of (alice, s1, system); nothing else derives from a
\* seed, except that vault itself is a base nobody has used.
MCDerive ==
    [t \in MCAddr \X {s1} \X MCAddr |->
        IF t = <<alice, s1, system>> THEN vault
        ELSE IF t = <<alice, s1, custom>> THEN nonce
        ELSE none]

-----------------------------------------------------------------------------
(* Instructions.                                                           *)

M(k, s, w) == [key |-> k, signer |-> s, writable |-> w]
SW(k) == M(k, TRUE, TRUE)
S(k)  == M(k, TRUE, FALSE)
W(k)  == M(k, FALSE, TRUE)
R(k)  == M(k, FALSE, FALSE)

Ix(program, op, metas) ==
    [program |-> program, op |-> op, metas |-> metas, amount |-> 0, space |-> 0,
     key |-> system, base |-> alice, seed |-> s1]

Pay(metas, n) == [Ix(system, "Transfer", metas) EXCEPT !.amount = n]
Held == {alice, vault, nonce}

AccountIxs ==
    {[Ix(system, "CreateAccount", <<SW(alice), m>>) EXCEPT
        !.amount = n, !.space = 80, !.key = o] :
            m \in {SW(nonce), W(nonce)}, n \in 0..1, o \in {system, custom}}
    \cup {[Ix(system, "CreateAccountWithSeed", ms) EXCEPT !.amount = n, !.key = o] :
            ms \in {<<SW(alice), W(vault)>>, <<SW(vault), W(nonce), S(alice)>>,
                    <<SW(vault), W(nonce), R(alice)>>},
            n \in 0..1, o \in {system, custom}}
    \cup {[Ix(system, "Assign", <<m>>) EXCEPT !.key = o] :
            m \in {S(nonce), W(nonce), SW(nonce)}, o \in {system, custom}}
    \cup {[Ix(system, "AssignWithSeed", ms) EXCEPT !.key = o] :
            ms \in {<<W(nonce), S(alice)>>, <<W(nonce), R(alice)>>}, o \in {system, custom}}
    \cup {[Ix(system, "Allocate", <<m>>) EXCEPT !.space = 80] : m \in {SW(nonce), W(vault)}}

MoveIxs ==
    {Pay(<<M(a, s, TRUE), M(b, FALSE, w)>>, 1) :
        a \in Held, b \in Held, s \in BOOLEAN, w \in BOOLEAN}
    \cup {[Ix(system, "TransferWithSeed", <<m, b, W(nonce)>>) EXCEPT !.amount = 1, !.key = o] :
            m \in {W(vault), R(vault), W(nonce)}, b \in {S(alice), R(alice)},
            o \in {system, custom}}

NonceIxs ==
    {[Ix(system, "InitializeNonce", <<m>>) EXCEPT !.key = alice] : m \in {W(nonce), R(nonce)}}
    \cup {Ix(system, "AdvanceNonce", <<n, R(system), m>>) :
        n \in {W(nonce), SW(nonce)}, m \in {S(alice), R(alice), S(vault), S(nonce)}}
    \cup {[Ix(system, "AuthorizeNonce", <<n, m>>) EXCEPT !.key = k] :
        n \in {W(nonce), SW(nonce)}, m \in {S(alice), R(alice), S(vault), S(nonce)},
        k \in {alice, nonce}}
    \cup {[Ix(system, "WithdrawNonce", <<n, W(d), R(system), R(system), m>>) EXCEPT !.amount = 1] :
        n \in {W(nonce), R(nonce)}, d \in {alice, nonce},
        m \in {S(alice), R(alice), S(vault)}}
    \cup {Ix(system, "UpgradeNonce", <<m>>) : m \in {W(nonce), R(nonce)}}

BudgetIxs ==
    {[Ix(budget, op, <<>>) EXCEPT !.amount = n] :
        op \in {"SetComputeUnitLimit", "RequestUnits"}, n \in {100, 1400000, 1400001}}
    \cup {[Ix(budget, "SetComputeUnitPrice", <<>>) EXCEPT !.amount = n] : n \in {0, 5}}
    \cup {Ix(budget, op, <<>>) : op \in {"RequestHeapFrame", "Malformed"}}

-----------------------------------------------------------------------------
(* Account lists.                                                          *)

Wallet(n) == [lamports |-> n, data |-> Zeroed(0), owner |-> system, executable |-> FALSE]
NonceAccount(n) == [Wallet(n) EXCEPT !.data = Zeroed(80)]
Program == [Wallet(0) EXCEPT !.executable = TRUE]
AllHeld == Held \cup {system}

Slice(f) == [a \in AllHeld |-> IF a = system THEN Program ELSE f[a]]

\* A funded wallet, an empty seed address and an empty or sized nonce account.
AuthoritySlices ==
    {Slice(alice :> Wallet(2) @@ vault :> Wallet(0) @@ nonce :> x) :
        x \in {Wallet(0), NonceAccount(1)}}

NoIxs == {}
-----------------------------------------------------------------------------
(* Transactions and their fees.                                            *)

FeeSlices == {Slice(alice :> Wallet(5) @@ vault :> Wallet(1) @@ nonce :> Wallet(0))}

\* A payment, one to oneself, one that two sign, a failure, and the budget
\* instructions that matter to what follows them.
FeeIxs ==
    {Pay(<<SW(alice), W(vault)>>, 1), Pay(<<SW(alice), W(alice)>>, 1),
     Pay(<<SW(vault), W(alice), S(alice)>>, 2), Ix(custom, "Malformed", <<S(nonce)>>)}
    \cup {[Ix(budget, op, <<>>) EXCEPT !.amount = n] :
            op \in {"SetComputeUnitLimit"}, n \in {100, 1400000}}

FeeChains ==
    {<<>>} \cup {<<i>> : i \in FeeIxs \cup BudgetIxs} \cup {<<i, j>> : i, j \in FeeIxs}

FeePayers == {alice, custom}

-----------------------------------------------------------------------------
(* A program that may leave anything behind, and the account lists it gets *)
(* its hands on: a wallet or an account of its own, and an empty wallet or *)
(* a sized account.                                                        *)

CustomIxs ==
    {Ix(custom, "Any", <<M(a, FALSE, v), M(b, FALSE, w)>>) :
        a \in {carol, dave}, b \in {carol, dave}, v \in BOOLEAN, w \in BOOLEAN}
    \cup {Pay(<<SW(carol), W(dave)>>, 1)}

AnyAccounts ==
    [lamports : 0..2, data : {Zeroed(0), Zeroed(80)}, owner : {system, custom},
     executable : {FALSE}] \cup {Program}

CustomSlices ==
    {carol :> [Wallet(1) EXCEPT !.owner = o] @@ dave :> x @@ system :> Program :
        o \in {system, custom}, x \in {Wallet(0), NonceAccount(0)}}

\* The system program's instructions name accounts the lists above lack, and
\* the user's program is not called on any other.
AuthorityIxs == AccountIxs \cup MoveIxs \cup NonceIxs \cup CustomIxs
AllSlices == AuthoritySlices \cup CustomSlices
=============================================================================
