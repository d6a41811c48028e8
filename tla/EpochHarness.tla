---------------------------- MODULE EpochHarness ----------------------------
(***************************************************************************)
(* A caller that runs lookup-table, stake, vote and config instructions on *)
(* its account list, one after the other, while it warps and sets the      *)
(* clock, the epoch schedule and the rent at any step in between.          *)
(* The compute budget covers them; Harness is about budgets that do not.   *)
(***************************************************************************)
EXTENDS LookupTables, StakeProgram, VoteProgram, ConfigProgram, Invocation

CONSTANTS
    InitSlices,     \* account lists the caller may start from
    Instructions,   \* instructions it runs on the lists that hold their accounts
    PolicyChoices,  \* validation policies it sets
    Home,           \* the one program that works on an account's buffer
    Slots,          \* slots it warps to; bound: no warp ends elsewhere
    Timestamps,     \* timestamps it warps to
    Clocks,         \* clocks it sets
    Schedules,      \* epoch schedules it sets
    Rents,          \* rents it sets
    MaxTime         \* bound: no warp ends later

ProgramIds == {TableId, StakeId, VoteId, ConfigId}

Instruction ==
    [program : ProgramIds, op : STRING, metas : Seq(Meta), amount : Nat, key : Addr,
     keys : Seq(Addr)]

Data == TableData \cup StakeData \cup VoteData \cup ConfigData \cup BlankData
Account == AccountOver(Data)

\* The program whose state a buffer holds works at that address, if any does.
AtHome(s) ==
    \A a \in DOMAIN s :
        /\ IsTable(s[a].data) => Home[a] = TableId
        /\ IsStake(s[a].data) => Home[a] = StakeId
        /\ IsVote(s[a].data) => Home[a] = VoteId
        /\ s[a].data.kind = "config" => Home[a] = ConfigId

\* The layouts overlap: an initialised stake state, say, also reads as a
\* lookup table.  Each account is given to one of the programs only, and none
\* that is given to the stake or the vote program pays for a lookup table.
OwnBuffers ==
    \A ix \in Instructions :
        /\ Len(ix.metas) >= 1 => Home[Key(ix, 1)] = ix.program
        /\ ix.op = "CreateLookupTable" /\ Len(ix.metas) >= 3 =>
               Home[Key(ix, 3)] \notin {StakeId, VoteId}

\* Whatever stake there is at the start is backed by lamports.
Backed(acct) ==
    IsStake(acct.data) =>
        /\ acct.lamports >= acct.data.reserve
        /\ acct.data.delegated /\ acct.data.deactivation = Never =>
               acct.lamports >= acct.data.reserve + acct.data.stake

ASSUME EpochAssumption ==
    /\ TableId # StakeId /\ TableId # VoteId /\ TableId # ConfigId
    /\ StakeId # VoteId /\ StakeId # ConfigId /\ VoteId # ConfigId
    /\ \A s \in InitSlices :
        /\ DOMAIN s \subseteq Addr /\ s \in [DOMAIN s -> Account]
        /\ AtHome(s) /\ \A a \in DOMAIN s : Backed(s[a])
    /\ Instructions \subseteq Instruction
    /\ PolicyChoices \subseteq Policies
    /\ Home \in [Addr -> Addr] /\ OwnBuffers
    /\ Slots \subseteq U64 /\ Timestamps \subseteq Int /\ Clocks \subseteq Clock
    /\ Schedules \subseteq EpochSchedule /\ Rents \subseteq Rent

VARIABLES
    slice,      \* the caller's account list
    todo,       \* the instruction submitted and not yet dispatched, if any
    policy,     \* validation_policy
    clock, schedule, rent   \* the sysvars: clock, epoch_schedule, rent

sysvars == <<clock, schedule, rent>>
vars == <<slice, todo, policy, sysvars>>

Init ==
    /\ slice \in InitSlices /\ todo = <<>>
    /\ policy \in PolicyChoices
    /\ clock \in Clocks /\ schedule \in Schedules /\ rent \in Rents

\* What invoke returns.
Invoked(ix, w) ==
    LET ok == \/ ix.program = TableId /\ TableOk(ix, w, clock)
              \/ ix.program = StakeId /\ StakeOk(ix, w, clock, rent)
              \/ ix.program = VoteId /\ VoteOk(ix, w, rent)
              \/ ix.program = ConfigId /\ ConfigOk(ix, w)
        post == CASE ix.program = TableId -> TablePost(ix, w, clock)
                  [] ix.program = StakeId -> StakePost(ix, w, clock, rent)
                  [] ix.program = VoteId -> VotePost(ix, w)
                  [] OTHER -> StorePost(ix, w)
    IN  [ok |-> ok, w |-> IF ok THEN post ELSE w]

Outcome(ix) == Concluded(ix, slice, Invoked(ix, Resolve(ix.metas, slice)), policy)

Submit(ix) ==
    /\ todo = <<>> /\ Keys(ix.metas) \subseteq DOMAIN slice
    /\ todo' = <<ix>>
    /\ UNCHANGED <<slice, policy, sysvars>>

Dispatch ==
    /\ todo # <<>>
    /\ slice' = Outcome(Head(todo)).accts
    /\ todo' = <<>>
    /\ UNCHANGED <<policy, sysvars>>

SetValidationPolicy(p) == policy' = p /\ UNCHANGED <<slice, todo, sysvars>>

Warp(c) ==
    /\ c.slot \in Slots /\ c.time <= MaxTime
    /\ clock' = c
    /\ UNCHANGED <<slice, todo, policy, schedule, rent>>

\* The epoch of the clock stays as it was under the schedule before.
SetEpochSchedule(es) ==
    schedule' = es /\ UNCHANGED <<slice, todo, policy, clock, rent>>

SetRent(r) == rent' = r /\ UNCHANGED <<slice, todo, policy, clock, schedule>>

Next ==
    \/ \E ix \in Instructions : Submit(ix)
    \/ Dispatch
    \/ \E p \in PolicyChoices : SetValidationPolicy(p)
    \/ \E s \in Slots : Warp(WarpToSlot(clock, schedule, s))
    \/ \E t \in Timestamps : Warp(WarpToTimestamp(clock, schedule, t))
    \/ \E c \in Clocks : Warp(c)
    \/ \E es \in Schedules : SetEpochSchedule(es)
    \/ \E r \in Rents : SetRent(r)

Spec == Init /\ [][Next]_vars
-----------------------------------------------------------------------------
(* Properties.                                                             *)

\* Every variable keeps its type: no balance leaves u64, a table's buffer is
\* as long as its addresses make it and holds no more than it may, and every
\* buffer holds the state of its own program or none.
TypeOK ==
    /\ DOMAIN slice \subseteq Addr /\ slice \in [DOMAIN slice -> Account]
    /\ AtHome(slice)
    /\ todo \in Seq(Instructions) /\ Len(todo) <= 1
    /\ policy \in Policies
    /\ clock \in Clock /\ schedule \in EpochSchedule /\ rent \in Rent

\* Stake is money: a stake account holds its reserve and, while it is
\* delegated and not deactivated, the lamports it counts as stake, whatever
\* was delegated again, withdrawn, and whichever way the clock and the rent
\* were moved.
StakeBacked == \A a \in DOMAIN slice : Backed(slice[a])

Dispatching == todo # <<>> /\ todo' = <<>>

\* No key of the instruction is passed twice.
NoRepeats(ms) == \A i, j \in DOMAIN ms : ms[i].key = ms[j].key => i = j

\* A table changes only with its authority's signature; addresses are added
\* behind those it has, until it is deactivated, which happens once.  Nobody
\* changes a frozen one any more, and it is never closed.
TableChange(ix, old, new) ==
    /\ old.authority # NoKey /\ Signs(ix.metas, old.authority)
    /\ \/ new = Blank(0)
       \/ /\ IsTable(new) /\ new.authority \in {old.authority, NoKey}
          /\ SubSeq(new.addrs, 1, Len(old.addrs)) = old.addrs
          /\ old.deactivation # Never =>
                new.addrs = old.addrs /\ new.deactivation = old.deactivation
TablesNeedAuthority ==
    [][Dispatching => \A a \in DOMAIN slice :
        IsTable(slice[a].data) /\ slice'[a].data # slice[a].data =>
            TableChange(Head(todo), slice[a].data, slice'[a].data)]_vars

\* What a transaction looked up it can rely on: an index that resolves never
\* shifts to another address, however the table is extended, and no table is
\* closed under it.  It stops resolving only with the table still in place
\* and deactivated.
LookupStep(a, i) ==
    LET before == Lookup(slice, a, <<i>>, clock.slot)
        after == Lookup(slice', a, <<i>>, clock'.slot)
    IN  before.ok =>
            \/ after = before
            \/ /\ ~after.ok /\ IsTable(slice'[a].data)
               /\ slice'[a].data.deactivation # Never
LookupsAreStable ==
    [][\A a \in DOMAIN slice : IsTable(slice[a].data) =>
        \A i \in 0..Len(slice[a].data.addrs) : LookupStep(a, i)]_vars

\* A stake account's authorities answer each for their own part: the staker
\* for the delegation and for the next staker, the withdrawer for the lamports and
\* for the next withdrawer.  Lamports leave down to the stake only, until the
\* epoch after the one in which it was deactivated, and the state is wiped
\* only when the last of them leave.
StakeStep(ix, a) ==
    LET old == slice[a].data
        new == slice'[a].data
        staker == Signs(ix.metas, old.staker)
        withdrawer == Signs(ix.metas, old.withdrawer)
    IN  /\ slice'[a].lamports < slice[a].lamports =>
               withdrawer /\ slice'[a].lamports >= LockedFloor(old, clock.epoch)
        /\ IF IsStake(new)
           THEN /\ new.reserve = old.reserve
                /\ new.staker # old.staker => staker
                /\ new.withdrawer # old.withdrawer => withdrawer
                /\ [new EXCEPT !.staker = old.staker, !.withdrawer = old.withdrawer] # old
                       => staker
           ELSE new = Blank(StakeLen) /\ withdrawer /\ slice'[a].lamports = 0
StakesNeedAuthority ==
    [][Dispatching => \A a \in DOMAIN slice :
        IsStake(slice[a].data) => StakeStep(Head(todo), a)]_vars

\* A vote account's voter answers for the next voter, its withdrawer for all the
\* rest, the new node for itself; lamports leave down to the rent of today.
VoteStep(ix, a) ==
    LET old == slice[a].data
        new == slice'[a].data
        withdrawer == Signs(ix.metas, old.withdrawer)
    IN  /\ slice'[a].lamports < slice[a].lamports =>
               withdrawer /\ slice'[a].lamports >= MinimumBalance(rent, old.len)
        /\ IF IsVote(new)
           THEN /\ new.voter # old.voter => Signs(ix.metas, old.voter)
                /\ new.node # old.node => Signs(ix.metas, new.node)
                /\ [new EXCEPT !.voter = old.voter] # old => withdrawer
           ELSE new = Blank(old.len) /\ withdrawer /\ slice'[a].lamports = 0
VotesNeedAuthority ==
    [][Dispatching => \A a \in DOMAIN slice :
        IsVote(slice[a].data) => VoteStep(Head(todo), a)]_vars

\* The lamports of all accounts add up to what they were.  Validation sees to
\* it whatever the metas; without it the programs do, as long as no key is
\* passed twice and no credit saturates.
LamportStep ==
    Dispatching =>
        LET before == Lamports(slice, DOMAIN slice)
            after == Lamports(slice', DOMAIN slice)
        IN  \/ after = before
            \/ /\ policy = "Lax" /\ NoRepeats(Head(todo).metas)
               /\ after < before /\ \E a \in DOMAIN slice : slice'[a].lamports = U64Max
            \/ policy = "Lax" /\ ~NoRepeats(Head(todo).metas)
LamportsAddUp == [][LamportStep]_vars

\* The two ways to warp forward agree: whoever warps to a timestamp is in the slot
\* and the epoch in which a warp to that slot would have put it, and their times
\* differ by less than the second that a slot count cannot express.
WarpsAgree ==
    \A t \in Timestamps, es \in Schedules :
        LET byTime == WarpToTimestamp(clock, es, t)
            bySlot == WarpToSlot(clock, es, byTime.slot)
        IN  t >= clock.time /\ t >= 0 /\ byTime.slot < U64Max =>
                /\ bySlot.epoch = byTime.epoch
                /\ bySlot.time \in {byTime.time - 1, byTime.time}
=============================================================================
