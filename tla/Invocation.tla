---------------------------- MODULE Invocation ----------------------------
(***************************************************************************)
(* What every call of a built-in program shares, whichever program it is:  *)
(* BuiltinEngine::execute, resolve_accounts, merge_accounts (engine.rs)    *)
(* and apply_validation (lib.rs).                                          *)
(***************************************************************************)
EXTENDS Validation

\* A program works on one clone per meta, duplicates included.
Resolve(ms, slice) == [i \in DOMAIN ms |-> slice[ms[i].key]]

Merge(ms, slice, w) ==
    [a \in DOMAIN slice |-> IF a \in Keys(ms) THEN w[LastMeta(ms, a)] ELSE slice[a]]

Failed(slice, error) == [accts |-> slice, error |-> error]

Validated(ix, slice, post, policy) ==
    IF ValidPostState(ix.program, ix.metas, slice, post, policy)
    THEN [accts |-> post, error |-> "None"]
    ELSE Failed(slice, "AccountValidationFailed")

\* One invocation's outcome: a program's error and a broken rule both give
\* the caller its own accounts back.
Concluded(ix, slice, r, policy) ==
    IF r.ok THEN Validated(ix, slice, Merge(ix.metas, slice, r.w), policy)
            ELSE Failed(slice, "ProgramError")
=============================================================================
