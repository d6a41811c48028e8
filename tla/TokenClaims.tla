---------------------------- MODULE TokenClaims ----------------------------
(***************************************************************************)
(* What the documentation says of repeated keys and of initialisation, and *)
(* the code does not do.                                                   *)
(***************************************************************************)
EXTENDS TokenHarness

\* engine.rs:201-202: a key passed twice is honored as the runtime does, where
\* both metas are the one account; spl/token.rs:238-239: what is initialised
\* is not initialised again.  So nothing comes of nothing and nothing is lost,
\* whatever the metas and also with validation off: lamports add up unless a
\* credit saturates, and what circulates of a mint moves with its supply.
ValueStep ==
    Dispatching =>
        /\ \/ Lamports(slice', DOMAIN slice) = Lamports(slice, DOMAIN slice)
           \/ /\ Lamports(slice', DOMAIN slice) < Lamports(slice, DOMAIN slice)
              /\ \E a \in DOMAIN slice : slice'[a].lamports = U64Max
        /\ \A m \in DOMAIN slice : slice[m].data.kind = "mint" =>
              Circulating(slice', m) - Circulating(slice, m)
                  = slice'[m].data.supply - slice[m].data.supply
ValueKept == [][ValueStep]_vars
=============================================================================
