---------------------------- MODULE EpochClaims ----------------------------
(***************************************************************************)
(* What the documentation says of lookup tables and the code does not do.  *)
(***************************************************************************)
EXTENDS EpochHarness

\* lib.rs:726-728: resolving a lookup is an error while the table is
\* deactivated.
DeactivatedDoNotResolve ==
    \A a \in DOMAIN slice :
        IsTable(slice[a].data) /\ slice[a].data.deactivation # Never =>
            \A i \in 0..Len(slice[a].data.addrs) : ~Lookup(slice, a, <<i>>, clock.slot).ok
=============================================================================
