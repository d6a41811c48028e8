------------------------------ MODULE MCForeign ------------------------------
(***************************************************************************)
(* An instance of ForeignInterface for TLC: two threads that share a       *)
(* handle, two wallets, the system and the compute-budget program.         *)
(***************************************************************************)
EXTENDS ForeignInterface, TLC

CONSTANTS system, budget, alice, bob, s1, none, t1, t2

MCAddr == {system, budget, alice, bob}
MCDerive == [t \in MCAddr \X {s1} \X MCAddr |-> none]

M(k, s) == [key |-> k, signer |-> s, writable |-> TRUE]

Ix(program, op, metas, n) ==
    [program |-> program, op |-> op, metas |-> metas, amount |-> n, space |-> 0,
     key |-> system, base |-> system, seed |-> s1]

Pay == Ix(system, "Transfer", <<M(alice, TRUE), M(bob, FALSE)>>, 1)

Wallet(n) == [lamports |-> n, data |-> Zeroed(0), owner |-> system, executable |-> FALSE]

Q(verb) == [verb |-> verb, addr |-> alice, acct |-> Wallet(1), n |-> 0, ix |-> Pay]

\* Two wallets to seed, one of them with two balances; a payment between them;
\* a limit too low for anything, through the budget program and through the
\* verb; a balance and a length to read.
MCRequests ==
    {Q("set_account"), [Q("set_account") EXCEPT !.addr = bob, !.acct = Wallet(0)],
     Q("dispatch"),
     [Q("dispatch") EXCEPT !.ix = Ix(budget, "SetComputeUnitLimit", <<>>, 2)],
     [Q("get_lamports") EXCEPT !.addr = bob],
     Q("get_account_data"), Q("with_solana_runtime"),
     [Q("set_compute_budget") EXCEPT !.n = 2]}
=============================================================================
