------------------------------ MODULE MCToken ------------------------------
(***************************************************************************)
(* Instances of TokenClaims for TLC:  two wallets, a mint, a token account *)
(* of alice's, the associated account of bob's, and two token programs.    *)
(***************************************************************************)
EXTENDS TokenClaims, TLC

CONSTANTS system, token, token22, atas, alice, bob, mint, purse, bobs, none

MCAddr == {system, token, token22, atas, alice, bob, mint, purse, bobs}

MCAta == [t \in MCAddr \X MCAddr \X {token, token22} |->
            IF t = <<bob, mint, token>> THEN bobs ELSE atas]

-----------------------------------------------------------------------------
(* Instructions.                                                           *)

M(k, s, w) == [key |-> k, signer |-> s, writable |-> w]
SW(k) == M(k, TRUE, TRUE)
S(k)  == M(k, TRUE, FALSE)
W(k)  == M(k, FALSE, TRUE)
R(k)  == M(k, FALSE, FALSE)

Ix(program, op, metas, n) ==
    [program |-> program, op |-> op, metas |-> metas, amount |-> n, key |-> alice]

\* Signatures of the authority: those that may serve, and one left out.
Authorities == {S(alice), S(bob), R(alice)}

Initialisations ==
    {Ix(p, "InitializeMint", <<m>>, 0) : p \in {token, token22}, m \in {W(mint), W(purse)}}
    \cup {Ix(token, "InitializeMint", <<m>>, 0) : m \in {R(mint), W(bobs)}}
    \cup {Ix(p, "InitializeAccount", <<W(a), R(mint), R(o)>>, 0) :
            p \in {token, token22}, a \in {purse, bobs}, o \in {alice, bob}}

Moves ==
    {Ix(token, "Transfer", <<W(x), W(y), s>>, n) :
        x \in {purse, bobs}, y \in {purse, bobs}, s \in Authorities, n \in 1..2}
    \cup {Ix(token, "Transfer", <<m, W(bobs), S(alice)>>, 1) : m \in {R(purse), W(mint)}}
    \cup {Ix(token22, "Transfer", <<W(purse), W(bobs), S(alice)>>, 1)}
    \cup {Ix(token, "MintTo", <<W(mint), W(a), s>>, n) :
        a \in {purse, bobs, mint}, s \in Authorities, n \in 1..2}
    \cup {Ix(token, "Burn", <<W(a), W(mint), s>>, 1) : a \in {purse, bobs}, s \in Authorities}

Grants ==
    {Ix(token, "Approve", <<W(purse), R(bob), s>>, n) : s \in Authorities, n \in 0..2}
    \cup {Ix(token, "Revoke", <<W(purse), s>>, 0) : s \in Authorities}
    \cup {Ix(token, "CloseAccount", <<W(a), W(d), s>>, 0) :
            a \in {purse, bobs}, d \in {alice, purse}, s \in Authorities}

AtaIxs ==
    {Ix(atas, op, <<SW(f), W(bobs), R(bob), R(mint), R(system), R(token)>>, 0) :
        op \in {"Create", "CreateIdempotent"}, f \in {alice, bob}}
    \cup {Ix(atas, "Create", <<SW(alice), W(a), R(w), R(mint), R(system), R(t)>>, 0) :
        a \in {purse, bobs}, w \in {alice, bob}, t \in {token, token22}}

TokenIxs ==
    Initialisations \cup Moves \cup Grants \cup AtaIxs
    \cup {Ix(token, "Malformed", <<>>, 0)}

-----------------------------------------------------------------------------
(* Account lists.                                                          *)

Acct(n, data, owner) ==
    [lamports |-> n, data |-> data, owner |-> owner, executable |-> FALSE]
Wallet(n) == Acct(n, Blank(0), system)
Program == [Wallet(0) EXCEPT !.executable = TRUE]

Slice(f) ==
    [a \in MCAddr |->
        IF a \in DOMAIN f THEN f[a]
        ELSE IF a \in {alice, bob} THEN Wallet(1) ELSE Program]

Purse(d) == Acct(0, d, token)
Fresh == Slice(mint :> Purse(Blank(82)) @@ purse :> Purse(Blank(165)) @@ bobs :> Wallet(0))

\* A funded purse: an allowance left, a close authority, or frozen.
Funded ==
    {Slice(mint :> Purse([NewMint(alice) EXCEPT !.supply = 1])
           @@ purse :> Acct(1, d, token) @@ bobs :> Wallet(0)) :
        d \in {[NewTokens(mint, alice) EXCEPT !.amount = 1, !.closer = bob],
               [NewTokens(mint, alice) EXCEPT !.amount = 1, !.state = "Frozen"]}}

TokenSlices == {Fresh} \cup Funded
FreshSlices == {Fresh}
=============================================================================
