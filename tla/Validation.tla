----------------------------- MODULE Validation -----------------------------
(***************************************************************************)
(* validate_post_state (validation.rs): the checks made on the accounts a  *)
(* program leaves behind, once per instruction that succeeded.  pre and    *)
(* post are account lists over the same addresses; ms are the metas.       *)
(***************************************************************************)
EXTENDS Accounts

Policies == {"Strict", "Lax"}

\* Mutant of ReadOnlyKept: the owner is not compared.
OwnerForgotten(p, n) ==
    n.lamports = p.lamports /\ n.data = p.data /\ n.executable = p.executable

\* Rule 1: what the metas do not mark writable comes back as it went in.
ReadOnlyKept(p, n) == n = p

\* Rule 5: the executable flag never changes.
ExecutableKept(p, n) == n.executable = p.executable

\* Rule 6: only the owner debits.
DebitAllowed(prog, p, n) == n.lamports < p.lamports => p.owner = prog

\* Mutant of OwnerChangeAllowed: any program may take a fresh account.
OwnerChangeOnFresh(prog, p, n) ==
    n.owner # p.owner => p.owner = prog \/ EmptySystemOwned(p)

\* Rule 4: only the owner, or the system program on a fresh account, reassigns.
OwnerChangeAllowed(prog, p, n) ==
    n.owner # p.owner =>
        \/ p.owner = prog
        \/ EmptySystemOwned(p) /\ prog = SystemId

\* Rule 3: only the owner, or anybody on a fresh account, writes data.
DataChangeAllowed(prog, p, n) ==
    n.data # p.data => p.owner = prog \/ EmptySystemOwned(p)

AccountRules(prog, writable, p, n) ==
    IF writable
    THEN /\ ExecutableKept(p, n)
         /\ DebitAllowed(prog, p, n)
         /\ OwnerChangeAllowed(prog, p, n)
         /\ DataChangeAllowed(prog, p, n)
    ELSE ReadOnlyKept(p, n)

\* The accounts whose new lamports rule 2 adds to the pre-side of its sum:
\* every one in the list, named by a meta or not.
Created(pre, post) ==
    {a \in DOMAIN pre :
        /\ EmptySystemOwned(pre[a])
        /\ \/ post[a].owner # pre[a].owner
           \/ post[a].data.len # 0}

\* Mutant of Conserved: only a surplus is an error.
NotInflated(ms, pre, post) ==
    Lamports(pre, Keys(ms)) + Lamports(post, Created(pre, post))
        >= Lamports(post, Keys(ms))

\* Rule 2: lamports are conserved over the metas, creations apart.
Conserved(ms, pre, post) ==
    Lamports(pre, Keys(ms)) + Lamports(post, Created(pre, post))
        = Lamports(post, Keys(ms))

ValidPostState(prog, ms, pre, post, policy) ==
    policy = "Strict" =>
        /\ \A a \in Keys(ms) : AccountRules(prog, Writable(ms, a), pre[a], post[a])
        /\ Conserved(ms, pre, post)
=============================================================================
