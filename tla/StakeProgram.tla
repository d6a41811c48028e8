---------------------------- MODULE StakeProgram ----------------------------
(***************************************************************************)
(* The stake program (spl/stake_program.rs).                               *)
(*                                                                         *)
(* The lockup, which is never enforced, the activation epoch, the rent of  *)
(* cooldown and the credits are written and never read by the program.     *)
(* Initialize has the staker and the withdrawer as its keys; Authorize has *)
(* the new authority as its key and the role, 0 or 1, as its amount.       *)
(***************************************************************************)
EXTENDS NativePrograms

CONSTANT StakeId    \* STAKE_PROGRAM_ID

ASSUME StakeAssumption == StakeId \in Addr \ {SystemId} /\ 200 \in Lengths

StakeLen == 200     \* STAKE_ACCOUNT_SIZE

StakeData ==
    [kind : {"stake"}, len : {StakeLen}, reserve : U64, staker : Addr,
     withdrawer : Addr, delegated : BOOLEAN, voter : Addr \cup {NoKey}, stake : U64,
     deactivation : Nat]

\* StakeAccountState::Initialized and ::Stake
IsStake(data) == data.kind = "stake"
IsDelegated(data) == IsStake(data) /\ data.delegated

NewStake(reserve, staker, withdrawer) ==
    [kind |-> "stake", len |-> StakeLen, reserve |-> reserve, staker |-> staker,
     withdrawer |-> withdrawer, delegated |-> FALSE, voter |-> NoKey, stake |-> 0,
     deactivation |-> Never]

\* What a withdrawal must leave: the stake too while it is delegated, until
\* the epoch after the one in which it was deactivated.
LockedFloor(data, epoch) ==
    IF data.delegated /\ (data.deactivation = Never \/ epoch <= data.deactivation)
    THEN SatAdd(data.reserve, data.stake)
    ELSE data.reserve

-----------------------------------------------------------------------------
(* The five instructions.                                                  *)

InitializeStakeOk(ix, w, rent) ==
    /\ Len(ix.metas) >= 1 /\ AllWritable(ix, {1}) /\ Len(ix.keys) = 2
    /\ w[1].data = Blank(StakeLen)
    /\ w[1].lamports >= MinimumBalance(rent, StakeLen)

InitializeStakePost(ix, w, rent) ==
    [w EXCEPT ![1].data =
        NewStake(MinimumBalance(rent, StakeLen), ix.keys[1], ix.keys[2])]

\* Mutant of AuthorizeOk: the staker may rotate either authority.
AuthorizeByStaker(ix, w) ==
    /\ Len(ix.metas) >= 1 /\ AllWritable(ix, {1})
    /\ IsStake(w[1].data)
    /\ ix.amount \in {0, 1} /\ Signs(ix.metas, w[1].data.staker)

AuthorizeOk(ix, w) ==
    /\ Len(ix.metas) >= 1 /\ AllWritable(ix, {1})
    /\ IsStake(w[1].data)
    /\ \/ ix.amount = 0 /\ Signs(ix.metas, w[1].data.staker)
       \/ ix.amount = 1 /\ Signs(ix.metas, w[1].data.withdrawer)

AuthorizePost(ix, w) ==
    IF ix.amount = 0 THEN [w EXCEPT ![1].data.staker = ix.key]
                     ELSE [w EXCEPT ![1].data.withdrawer = ix.key]

\* Active stake may be delegated again: it is bound to the new vote account
\* and measured anew.
DelegateOk(ix, w) ==
    /\ Len(ix.metas) >= 2 /\ AllWritable(ix, {1})
    /\ IsStake(w[1].data) /\ Signs(ix.metas, w[1].data.staker)

Delegated(data, voter, lamports) ==
    [data EXCEPT !.delegated = TRUE, !.voter = voter, !.deactivation = Never,
                 !.stake = SatSub(lamports, data.reserve)]

\* Mutant of DelegatePost: the reserve is delegated too.
DelegateEverything(ix, w) ==
    [w EXCEPT ![1].data = [Delegated(w[1].data, Key(ix, 2), w[1].lamports)
                              EXCEPT !.stake = w[1].lamports]]

DelegatePost(ix, w) ==
    [w EXCEPT ![1].data = Delegated(w[1].data, Key(ix, 2), w[1].lamports)]

WithdrawStakeOk(ix, w, clock) ==
    /\ Len(ix.metas) >= 2 /\ AllWritable(ix, {1, 2})
    /\ IsStake(w[1].data) /\ Signs(ix.metas, w[1].data.withdrawer)
    /\ ix.amount <= SatSub(w[1].lamports, LockedFloor(w[1].data, clock.epoch))

\* An emptied account is zeroed; it stays with the stake program.
WithdrawStakePost(ix, w) ==
    LET left == w[1].lamports - ix.amount
    IN  [w EXCEPT ![1] = [w[1] EXCEPT !.lamports = left,
                            !.data = IF left = 0 THEN Blank(StakeLen) ELSE w[1].data],
                  ![2].lamports = SatAdd(w[2].lamports, ix.amount)]

DeactivateStakeOk(ix, w) ==
    /\ Len(ix.metas) >= 1 /\ AllWritable(ix, {1})
    /\ IsDelegated(w[1].data) /\ Signs(ix.metas, w[1].data.staker)
    /\ w[1].data.deactivation = Never

DeactivateStakePost(ix, w, clock) == [w EXCEPT ![1].data.deactivation = clock.epoch]

StakeOk(ix, w, clock, rent) ==
    \/ ix.op = "InitializeStake" /\ InitializeStakeOk(ix, w, rent)
    \/ ix.op = "AuthorizeStake" /\ AuthorizeOk(ix, w)
    \/ ix.op = "DelegateStake" /\ DelegateOk(ix, w)
    \/ ix.op = "WithdrawStake" /\ WithdrawStakeOk(ix, w, clock)
    \/ ix.op = "DeactivateStake" /\ DeactivateStakeOk(ix, w)

StakePost(ix, w, clock, rent) ==
    CASE ix.op = "InitializeStake" -> InitializeStakePost(ix, w, rent)
      [] ix.op = "AuthorizeStake" -> AuthorizePost(ix, w)
      [] ix.op = "DelegateStake" -> DelegatePost(ix, w)
      [] ix.op = "WithdrawStake" -> WithdrawStakePost(ix, w)
      [] ix.op = "DeactivateStake" -> DeactivateStakePost(ix, w, clock)
      [] OTHER -> w
=============================================================================
