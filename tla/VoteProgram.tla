----------------------------- MODULE VoteProgram -----------------------------
(***************************************************************************)
(* The vote program (spl/vote_program.rs), administrative instructions     *)
(* only: votes themselves are not supported by the code.                   *)
(*                                                                         *)
(* InitializeAccount has the node, the voter and the withdrawer as its     *)
(* keys and the commission as its amount; Authorize has the new authority  *)
(* as its key and the role, 0 or 1, as its amount.                         *)
(***************************************************************************)
EXTENDS NativePrograms

CONSTANT VoteId     \* VOTE_PROGRAM_ID

ASSUME VoteAssumption == VoteId \in Addr \ {SystemId}

VoteHeader == 112   \* VOTE_ACCOUNT_HEADER_SIZE

VoteData ==
    [kind : {"vote"}, len : Lengths, node : Addr, voter : Addr, withdrawer : Addr,
     commission : 0..255]

\* require_initialized
IsVote(data) == data.kind = "vote"

NewVote(len, keys, commission) ==
    [kind |-> "vote", len |-> len, node |-> keys[1], voter |-> keys[2],
     withdrawer |-> keys[3], commission |-> commission]

-----------------------------------------------------------------------------
(* The five instructions.                                                  *)

\* Any byte is a commission here; UpdateCommission has a limit of 100.
InitializeVoteOk(ix, w, rent) ==
    /\ Len(ix.metas) >= 1 /\ AllWritable(ix, {1})
    /\ Len(ix.keys) = 3 /\ ix.amount \in 0..255
    /\ w[1].data = Blank(w[1].data.len) /\ w[1].data.len >= VoteHeader
    /\ Signs(ix.metas, ix.keys[1])
    /\ w[1].lamports >= MinimumBalance(rent, w[1].data.len)

InitializeVotePost(ix, w) ==
    [w EXCEPT ![1].data = NewVote(w[1].data.len, ix.keys, ix.amount)]

AuthorizeVoteOk(ix, w) ==
    /\ Len(ix.metas) >= 1 /\ AllWritable(ix, {1})
    /\ IsVote(w[1].data)
    /\ \/ ix.amount = 0 /\ Signs(ix.metas, w[1].data.voter)
       \/ ix.amount = 1 /\ Signs(ix.metas, w[1].data.withdrawer)

AuthorizeVotePost(ix, w) ==
    IF ix.amount = 0 THEN [w EXCEPT ![1].data.voter = ix.key]
                     ELSE [w EXCEPT ![1].data.withdrawer = ix.key]

\* The rent is the one in force now, not the one at initialisation.
WithdrawVoteOk(ix, w, rent) ==
    /\ Len(ix.metas) >= 2 /\ AllWritable(ix, {1, 2})
    /\ IsVote(w[1].data) /\ Signs(ix.metas, w[1].data.withdrawer)
    /\ ix.amount <= SatSub(w[1].lamports, MinimumBalance(rent, w[1].data.len))

\* Mutant of WithdrawVotePost: the recipient is not credited.
WithdrawVoteHalf(ix, w) ==
    LET left == w[1].lamports - ix.amount
    IN  [w EXCEPT ![1] = [w[1] EXCEPT !.lamports = left,
                            !.data = IF left = 0 THEN Blank(w[1].data.len)
                                                 ELSE w[1].data]]

WithdrawVotePost(ix, w) ==
    LET left == w[1].lamports - ix.amount
    IN  [w EXCEPT ![1] = [w[1] EXCEPT !.lamports = left,
                            !.data = IF left = 0 THEN Blank(w[1].data.len)
                                                 ELSE w[1].data],
                  ![2].lamports = SatAdd(w[2].lamports, ix.amount)]

\* Mutant of UpdateIdentityOk: the new node alone signs.
UpdateIdentityByNode(ix, w) ==
    /\ Len(ix.metas) >= 2 /\ AllWritable(ix, {1})
    /\ IsVote(w[1].data)
    /\ AuthoritySigns(ix, 2)

\* The new node and the withdrawer sign.
UpdateIdentityOk(ix, w) ==
    /\ Len(ix.metas) >= 2 /\ AllWritable(ix, {1})
    /\ IsVote(w[1].data)
    /\ AuthoritySigns(ix, 2) /\ Signs(ix.metas, w[1].data.withdrawer)

UpdateIdentityPost(ix, w) == [w EXCEPT ![1].data.node = Key(ix, 2)]

UpdateCommissionOk(ix, w) ==
    /\ Len(ix.metas) >= 1 /\ AllWritable(ix, {1})
    /\ IsVote(w[1].data) /\ Signs(ix.metas, w[1].data.withdrawer)
    /\ ix.amount <= 100

UpdateCommissionPost(ix, w) == [w EXCEPT ![1].data.commission = ix.amount]

VoteOk(ix, w, rent) ==
    \/ ix.op = "InitializeVote" /\ InitializeVoteOk(ix, w, rent)
    \/ ix.op = "AuthorizeVote" /\ AuthorizeVoteOk(ix, w)
    \/ ix.op = "WithdrawVote" /\ WithdrawVoteOk(ix, w, rent)
    \/ ix.op = "UpdateIdentity" /\ UpdateIdentityOk(ix, w)
    \/ ix.op = "UpdateCommission" /\ UpdateCommissionOk(ix, w)

VotePost(ix, w) ==
    CASE ix.op = "InitializeVote" -> InitializeVotePost(ix, w)
      [] ix.op = "AuthorizeVote" -> AuthorizeVotePost(ix, w)
      [] ix.op = "WithdrawVote" -> WithdrawVotePost(ix, w)
      [] ix.op = "UpdateIdentity" -> UpdateIdentityPost(ix, w)
      [] ix.op = "UpdateCommission" -> UpdateCommissionPost(ix, w)
      [] OTHER -> w
=============================================================================
