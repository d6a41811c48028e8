---------------------------- MODULE HarnessClaims ----------------------------
(***************************************************************************)
(* What the documentation says of the harness and the code does not do.    *)
(* Each is checked by a run of its own, which ends in a counterexample.    *)
(***************************************************************************)
EXTENDS Harness

\* The instruction at the head goes to the system program, within budget.
Calls(op) ==
    Stepping /\ Head(todo).program = SystemId /\ Head(todo).op = op

\* README.md:15: account creation runs end to end.  CreateAccount, under the
\* default policy, succeeds whenever its own checks do.
CreationWorks ==
    [][/\ Calls("CreateAccount")
       /\ policy = "Strict" /\ EffectiveLimit >= BuiltinCost
       /\ Keys(Head(todo).metas) \subseteq DOMAIN st
       /\ CreateAccountOk(Head(todo), Resolve(Head(todo).metas, st))
       => err' = "None"]_vars

\* compute_budget_program.rs:26-30, lib.rs:211-216: a limit that an instruction
\* has set ends with set_compute_budget, or with the chain that it is part of;
\* lib.rs:909-912: a simulation leaves the compute budget alone.  Between two
\* calls, then, what a user sets is the limit in force.
SetterStep == pc = "idle" /\ limit' # limit => EffectiveLimit' = limit'
OverrideEndsWithSetter == [][SetterStep]_vars
=============================================================================
