------------------------------ MODULE MCStore ------------------------------
(***************************************************************************)
(* Instances of AccountStore for TLC: two wallets, the system program, and *)
(* two threads at a time.                                                  *)
(***************************************************************************)
EXTENDS AccountStore, TLC

CONSTANTS system, budget, alice, bob, s1, none, t1, t2, t3, t4

MCAddr == {system, budget, alice, bob}
MCDerive == [t \in MCAddr \X {s1} \X MCAddr |-> none]
MCSizes == {0, 80}
MCRent == 0 :> 1 @@ 80 :> 2

M(k, s) == [key |-> k, signer |-> s, writable |-> TRUE]

Pay(from, to, n) ==
    [program |-> system, op |-> "Transfer", metas |-> <<M(from, TRUE), M(to, FALSE)>>,
     amount |-> n, space |-> 0, key |-> system, base |-> system, seed |-> s1]

Resize(a) ==
    [Pay(a, a, 0) EXCEPT !.op = "Allocate", !.metas = <<M(a, TRUE)>>, !.space = 80]

\* A thread that uses every verb: payments that succeed, fail, fail half way,
\* and dry runs of them, and edits, now and then of an account that is not
\* there or too short; so is every edit of its neighbour's, who panics.
\* And two threads, each on its own accounts.
MCCrews == {{t1, t2}, {t3, t4}}

MCChains ==
    t1 :> {<<Resize(alice), Pay(alice, bob, 2)>>, <<>>}
    @@ t2 :> {}
    @@ t3 :> {<<Pay(alice, alice, 1)>>, <<Resize(alice)>>, <<Resize(alice), Pay(alice, alice, 2)>>}
    @@ t4 :> {<<Pay(bob, bob, 1)>>, <<Resize(bob)>>}

MCMine == t1 :> {alice} @@ t2 :> {bob} @@ t3 :> {alice} @@ t4 :> {bob}

ApartVerbs == {"process", "set", "remove", "airdrop"}
MCVerbs ==
    t1 :> Verbs @@ t2 :> {"token", "mint"} @@ t3 :> ApartVerbs @@ t4 :> ApartVerbs

\* Two threads whose chains share an account.
RaceCrews == {{t1, t2}}
RaceChains ==
    t1 :> {<<Resize(alice)>>} @@ t2 :> {<<Pay(alice, bob, 0)>>} @@ t3 :> {} @@ t4 :> {}
RaceMine == [t \in {t1, t2, t3, t4} |-> {}]
RaceVerbs == [t \in {t1, t2, t3, t4} |-> {"process"}]

Purse(n) == [Unseeded EXCEPT !.lamports = 1, !.data = Zeroed(n)]
MCSeeded == {Purse(80)}
=============================================================================
