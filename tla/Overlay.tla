------------------------------ MODULE Overlay ------------------------------
(***************************************************************************)
(* The account overlay of a HopperSvm (account_store in lib.rs): what one  *)
(* critical section of each of its verbs computes.  A store is a function  *)
(* from the addresses it knows to their accounts.                          *)
(*                                                                         *)
(* The settings of the harness stay put here, and no instruction goes to   *)
(* the compute-budget program; Harness is about those.                     *)
(***************************************************************************)
EXTENDS Engine

CONSTANTS
    Threads,        \* the threads of a test
    Crews,          \* the sets of threads that hold clones of one harness
    StoreChains,    \* the instruction lists each thread runs
    Mine,           \* the addresses each thread uses directly
    Seeded,         \* accounts a test stores
    Gifts,          \* lamports a test airdrops
    MinimumBalance, \* Rent::minimum_balance, by buffer length
    StoreVerbs,     \* the verbs each thread uses
    Policy, Limit, Slot

Verbs == {"process", "simulate", "set", "remove", "clear", "snapshot",
          "restore", "airdrop", "create", "token", "mint"}

ASSUME OverlayAssumption ==
    /\ Crews \subseteq SUBSET Threads
    /\ StoreChains \in [Threads -> SUBSET Seq(Instruction)]
    /\ \A t \in Threads : \A ixs \in StoreChains[t] :
           \A i \in DOMAIN ixs : ixs[i].program # BudgetId
    /\ Mine \in [Threads -> SUBSET Addr]
    /\ Seeded \subseteq Account
    /\ Gifts \subseteq U64
    /\ MinimumBalance \in [Sizes -> U64]
    /\ 0 \in Sizes
    /\ StoreVerbs \in [Threads -> SUBSET Verbs]
    /\ Policy \in Policies /\ Limit \in Nat /\ Slot \in Slots

\* What an address the store does not know stands for.
Unseeded == [lamports |-> 0, data |-> Zeroed(0), owner |-> SystemId, executable |-> FALSE]

\* The accounts a call reads and, when it succeeds, writes back: those of the
\* metas and those of the programs.
Footprint(ixs) ==
    UNION {{ixs[i].program} \cup Keys(ixs[i].metas) : i \in DOMAIN ixs}

Inputs(s, ixs) ==
    [a \in Footprint(ixs) |-> IF a \in DOMAIN s THEN s[a] ELSE Unseeded]

\* commit, which overwrites every resulting account, changed or not.
Committed(s, accts) ==
    [a \in DOMAIN s \cup DOMAIN accts |-> IF a \in DOMAIN accts THEN accts[a] ELSE s[a]]

Stored(s, a, acct) == Committed(s, [x \in {a} |-> acct])

Removed(s, a) == [x \in DOMAIN s \ {a} |-> s[x]]

\* Mutant of Airdropped: the sum does not saturate.
AirdroppedUnbounded(s, a, n) ==
    Stored(s, a, IF a \in DOMAIN s THEN [s[a] EXCEPT !.lamports = @ + n]
                                   ELSE [Unseeded EXCEPT !.lamports = n])

Airdropped(s, a, n) ==
    Stored(s, a, IF a \in DOMAIN s THEN [s[a] EXCEPT !.lamports = SatAdd(@, n)]
                                   ELSE [Unseeded EXCEPT !.lamports = n])

Rented(s, a, size, owner) ==
    Stored(s, a, [lamports |-> MinimumBalance[size], data |-> Zeroed(size),
                  owner |-> owner, executable |-> FALSE])

\* set_token_balance writes bytes 64 to 72, part of where a nonce state has
\* its value; set_mint_supply writes 36 to 44, the end of its authority and
\* the start of its value.  Both panic, holding the lock, on an account that
\* is missing or too short.
FitsToken(s, a) == a \in DOMAIN s /\ s[a].data.len >= 72
FitsMint(s, a) == a \in DOMAIN s /\ s[a].data.len >= 44

TokenWrites(s, a) ==
    {[s EXCEPT ![a].data.nonce = n] : n \in Slots \cup {NoHash}}

MintWrites(s, a) ==
    UNION {{[s EXCEPT ![a].data = [@ EXCEPT !.nonce = n, !.auth = k]] :
               n \in Slots \cup {NoHash}} : k \in Addr}

\* dispatch_one under the settings of this harness.
Dispatched(ix, accts) == Outcomes(ix, accts, Slot, Limit, Policy)
=============================================================================
