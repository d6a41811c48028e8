---------------------------- MODULE EpochProofs ----------------------------
(***************************************************************************)
(* Type correctness of EpochHarness, stake that stays backed, who may      *)
(* change tables, stake and votes, and lamports that add up, for all       *)
(* addresses, account lists, instructions, clocks, schedules and rents,    *)
(* under either policy.                                                    *)
(*                                                                         *)
(* A dispatch works on one copy of an account per meta.  Every instruction *)
(* is shown to change at most two copies; Fate says what may become of     *)
(* one, and the copy that is merged into the account list is one of them.  *)
(***************************************************************************)
EXTENDS EpochHarness, AccountProofs

-----------------------------------------------------------------------------
(* What may become of a copy.                                              *)

\* A buffer holds the state of the program p or none.
Fits(p, data) ==
    /\ IsTable(data) => p = TableId
    /\ IsStake(data) => p = StakeId
    /\ IsVote(data) => p = VoteId
    /\ data.kind = "config" => p = ConfigId

\* A copy of an account at an address that is home to p.
Sound(p, acct) == acct \in Account /\ Fits(p, acct.data) /\ Backed(acct)

\* What resolved in a table resolves to the same.
TableKeeps(old, new) ==
    ~Closeable(old, clock.slot) =>
        /\ IsTable(new) /\ ~Closeable(new, clock.slot)
        /\ Len(old.addrs) <= Len(new.addrs)
        /\ \A j \in 1..Len(old.addrs) : new.addrs[j] = old.addrs[j]

TableFate(ix, old, new) ==
    IsTable(old.data) =>
        /\ new.data # old.data => TableChange(ix, old.data, new.data)
        /\ TableKeeps(old.data, new.data)

\* StakeStep and VoteStep, of two accounts.
StakeFate(ix, old, new) ==
    IsStake(old.data) =>
        /\ new.lamports < old.lamports =>
               /\ Signs(ix.metas, old.data.withdrawer)
               /\ new.lamports >= LockedFloor(old.data, clock.epoch)
        /\ IF IsStake(new.data)
           THEN /\ new.data.reserve = old.data.reserve
                /\ new.data.staker # old.data.staker => Signs(ix.metas, old.data.staker)
                /\ new.data.withdrawer # old.data.withdrawer =>
                       Signs(ix.metas, old.data.withdrawer)
                /\ [new.data EXCEPT !.staker = old.data.staker,
                                    !.withdrawer = old.data.withdrawer] # old.data
                       => Signs(ix.metas, old.data.staker)
           ELSE /\ new.data = Blank(StakeLen) /\ Signs(ix.metas, old.data.withdrawer)
                /\ new.lamports = 0

VoteFate(ix, old, new) ==
    IsVote(old.data) =>
        /\ new.lamports < old.lamports =>
               /\ Signs(ix.metas, old.data.withdrawer)
               /\ new.lamports >= MinimumBalance(rent, old.data.len)
        /\ IF IsVote(new.data)
           THEN /\ new.data.voter # old.data.voter => Signs(ix.metas, old.data.voter)
                /\ new.data.node # old.data.node => Signs(ix.metas, new.data.node)
                /\ [new.data EXCEPT !.voter = old.data.voter] # old.data =>
                       Signs(ix.metas, old.data.withdrawer)
           ELSE /\ new.data = Blank(old.data.len) /\ Signs(ix.metas, old.data.withdrawer)
                /\ new.lamports = 0

Fate(ix, p, old, new) ==
    /\ Sound(p, new)
    /\ TableFate(ix, old, new) /\ StakeFate(ix, old, new) /\ VoteFate(ix, old, new)

-----------------------------------------------------------------------------
(* Types.                                                                  *)

\* Lamports are natural numbers.
LEMMA Numbers == U64 \subseteq Nat /\ U64Max \in Nat /\ 0 \in U64 /\ Never \in U64
  BY AccountsAssumption DEF U64, Never

\* The kinds tell the programs' states apart.
LEMMA DataKinds ==
    \A d \in Data :
        /\ IsTable(d) <=> d \in TableData
        /\ IsStake(d) <=> d \in StakeData
        /\ IsVote(d) <=> d \in VoteData
        /\ d.kind = "config" <=> d \in ConfigData
        /\ d.kind = "blank" <=> d \in BlankData
  BY DEF Data, TableData, StakeData, VoteData, ConfigData, BlankData,
         IsTable, IsStake, IsVote

\* A zeroed buffer is a buffer.
LEMMA BlankIsData ==
    ASSUME NEW n \in Lengths
    PROVE  Blank(n) \in Data /\ Blank(n).kind = "blank"
  BY DEF Blank, BlankData, Data

\* The rounding down of a quotient of naturals.
LEMMA QuotientType ==
    ASSUME NEW m \in Nat, NEW n \in Nat \ {0}
    PROVE  m \div n \in Nat
  BY SMT

\* The rent is a u64.
LEMMA MinimumBalanceType ==
    ASSUME NEW r \in Rent, NEW n \in Nat
    PROVE  MinimumBalance(r, n) \in U64
<1>1. r.years \in Nat /\ r.rate \in Nat /\ r.parts \in Nat \ {0} /\ n + 128 \in Nat
  BY DEF Rent
<1>2. SatMul(n + 128, r.rate) \in Nat
  BY <1>1, SatMulType, Numbers
<1>3. r.years * SatMul(n + 128, r.rate) \in Nat
  BY <1>1, <1>2, ProductType
<1>4. (r.years * SatMul(n + 128, r.rate)) \div r.parts \in Nat
  BY <1>1, <1>3, QuotientType
<1> QED
  BY <1>4, Numbers DEF MinimumBalance, U64

\* The epoch of a slot is a natural number.
LEMMA EpochOfType ==
    ASSUME NEW es \in EpochSchedule, NEW s \in Nat
    PROVE  EpochOf(es, s) \in Nat
<1>1. es.slots \in Nat \ {0} /\ es.firstSlot \in Nat /\ es.firstEpoch \in Nat
  BY Numbers DEF EpochSchedule
<1>2. CASE s < es.firstSlot
  BY <1>1, <1>2, QuotientType DEF EpochOf
<1>3. CASE ~(s < es.firstSlot)
  <2>1. s - es.firstSlot \in Nat
    BY <1>1, <1>3
  <2>2. (s - es.firstSlot) \div es.slots \in Nat
    BY <1>1, <2>1, QuotientType
  <2> QED
    BY <1>1, <1>3, <2>2 DEF EpochOf
<1> QED
  BY <1>2, <1>3

\* The warps give clocks.
LEMMA WarpTypes ==
    ASSUME NEW c \in Clock, NEW es \in EpochSchedule
    PROVE  /\ \A s \in U64 : WarpToSlot(c, es, s) \in Clock
           /\ \A t \in Int : WarpToTimestamp(c, es, t).slot \in U64 =>
                  WarpToTimestamp(c, es, t) \in Clock
<1>1. c.slot \in Nat /\ c.time \in Int
  BY Numbers DEF Clock
<1>2. ASSUME NEW s \in U64
      PROVE  WarpToSlot(c, es, s) \in Clock
  <2>1. s \in Nat /\ SatSub(s, c.slot) \in Nat
    BY <1>1, Numbers DEF SatSub
  <2>2. c.time + (400 * SatSub(s, c.slot)) \div 1000 \in Int
    BY <1>1, <2>1
  <2> QED
    BY <1>2, <2>1, <2>2, EpochOfType DEF WarpToSlot, Clock
<1>3. ASSUME NEW t \in Int, WarpToTimestamp(c, es, t).slot \in U64
      PROVE  WarpToTimestamp(c, es, t) \in Clock
  <2> DEFINE new == WarpToTimestamp(c, es, t)
  <2>1. /\ new = [slot |-> new.slot, time |-> new.time, epoch |-> new.epoch]
        /\ new.time = (IF t < 0 THEN 0 ELSE t) /\ new.epoch = EpochOf(es, new.slot)
    BY DEF WarpToTimestamp
  <2>2. new.slot \in Nat /\ new.time \in Int
    BY <1>3, <2>1, Numbers
  <2>3. new.epoch \in Nat
    BY <2>1, <2>2, EpochOfType
  <2> HIDE DEF new
  <2> QED
    BY <1>3, <2>1, <2>2, <2>3 DEF Clock, new
<1> QED
  BY <1>2, <1>3

\* Metas, keys and homes of an instruction with so many metas.
LEMMA Copies ==
    ASSUME NEW ix \in Instructions
    PROVE  /\ ix \in Instruction
           /\ Len(ix.metas) >= 1 => 1 \in DOMAIN ix.metas /\ Home[Key(ix, 1)] = ix.program
           /\ Len(ix.metas) >= 2 => 2 \in DOMAIN ix.metas
           /\ Len(ix.metas) >= 3 => 3 \in DOMAIN ix.metas
           /\ \A i \in DOMAIN ix.metas : Key(ix, i) \in Addr /\ Home[Key(ix, i)] \in Addr
           /\ Keys(ix.metas) \subseteq Addr
<1>1. ix \in Instruction /\ ix.metas \in Seq(Meta)
  BY EpochAssumption DEF Instruction
<1>2. /\ DOMAIN ix.metas = 1..Len(ix.metas) /\ Len(ix.metas) \in Nat
      /\ \A i \in DOMAIN ix.metas : ix.metas[i] \in Meta
      /\ Keys(ix.metas) \subseteq Addr
  BY <1>1, MetaList
<1>3. \A i \in DOMAIN ix.metas : Key(ix, i) \in Addr
  BY <1>2 DEF Key, Meta
<1>4. /\ \A i \in DOMAIN ix.metas : Home[Key(ix, i)] \in Addr
      /\ Len(ix.metas) >= 1 => Home[Key(ix, 1)] = ix.program
  BY <1>3, EpochAssumption DEF OwnBuffers
<1> QED
  BY <1>1, <1>2, <1>3, <1>4

-----------------------------------------------------------------------------
(* Copies no instruction works on, and copies lamports are moved to.       *)

\* A copy on which other lamports were put, of which nothing is taken where
\* the stake or the vote program works.
LEMMA Moved ==
    ASSUME NEW ix, NEW p, NEW acct, Sound(p, acct), NEW n \in U64,
           n >= acct.lamports \/ p \notin {StakeId, VoteId}
    PROVE  Fate(ix, p, acct, [acct EXCEPT !.lamports = n])
<1> DEFINE new == [acct EXCEPT !.lamports = n]
<1>1. acct \in Account /\ acct.data \in Data /\ Fits(p, acct.data) /\ Backed(acct)
  BY DEF Sound, Account, AccountOver
<1>2. acct.lamports \in Nat /\ n \in Nat
  BY <1>1, Numbers DEF Account, AccountOver
<1>3. new \in Account /\ new.lamports = n /\ new.data = acct.data
  BY <1>1 DEF Account, AccountOver
<1> HIDE DEF new
<1>4. IsStake(acct.data) \/ IsVote(acct.data) => ~(n < acct.lamports)
  BY <1>1, <1>2 DEF Fits
<1>5. Backed(new)
  <2>1. ASSUME IsStake(acct.data)
        PROVE  /\ acct.data.reserve \in Nat /\ acct.data.stake \in Nat
               /\ n >= acct.lamports
    <3>1. acct.data \in StakeData
      BY <1>1, <2>1, DataKinds
    <3>2. acct.data.reserve \in U64 /\ acct.data.stake \in U64
      BY <3>1 DEF StakeData
    <3>3. n >= acct.lamports
      BY <1>2, <1>4, <2>1
    <3> QED
      BY <3>2, <3>3, Numbers
  <2> QED
    BY <1>1, <1>2, <1>3, <2>1 DEF Backed
<1>6. Sound(p, new)
  BY <1>1, <1>3, <1>5 DEF Sound
<1>7. TableFate(ix, acct, new)
  <2>1. IsTable(acct.data) => Len(acct.data.addrs) <= Len(acct.data.addrs)
    <3>1. ASSUME IsTable(acct.data)
          PROVE  acct.data.addrs \in Seq(Addr)
      BY <1>1, <3>1, DataKinds DEF TableData
    <3> QED
      BY <3>1, LenProperties
  <2> QED
    BY <1>3, <2>1 DEF TableFate, TableKeeps
<1>8. StakeFate(ix, acct, new)
  <2>1. IsStake(acct.data) =>
            [acct.data EXCEPT !.staker = acct.data.staker,
                              !.withdrawer = acct.data.withdrawer] = acct.data
    BY <1>1, DataKinds DEF StakeData
  <2> QED
    BY <1>3, <1>4, <2>1 DEF StakeFate
<1>9. VoteFate(ix, acct, new)
  <2>1. IsVote(acct.data) => [acct.data EXCEPT !.voter = acct.data.voter] = acct.data
    BY <1>1, DataKinds DEF VoteData
  <2> QED
    BY <1>3, <1>4, <2>1 DEF VoteFate
<1> QED
  BY <1>6, <1>7, <1>8, <1>9 DEF Fate, new

\* A copy that stays as it is.
LEMMA Untouched ==
    ASSUME NEW ix, NEW p, NEW acct, Sound(p, acct)
    PROVE  Fate(ix, p, acct, acct)
<1>1. acct \in Account /\ acct.lamports \in U64
  BY DEF Sound, Account, AccountOver
<1>2. [acct EXCEPT !.lamports = acct.lamports] = acct
  BY <1>1 DEF Account, AccountOver
<1>3. acct.lamports \in Nat
  BY <1>1, Numbers
<1>4. acct.lamports >= acct.lamports
  BY <1>3
<1>5. Fate(ix, p, acct, [acct EXCEPT !.lamports = acct.lamports])
  BY <1>1, <1>4, Moved
<1> QED
  BY <1>2, <1>5

\* saturating_add leaves no less.
LEMMA Credited ==
    ASSUME NEW ix, NEW p, NEW acct, Sound(p, acct), NEW n \in U64
    PROVE  Fate(ix, p, acct, [acct EXCEPT !.lamports = SatAdd(acct.lamports, n)])
<1>1. acct.lamports \in U64 /\ acct.lamports \in Nat /\ n \in Nat
  BY Numbers DEF Sound, Account, AccountOver
<1>2. SatAdd(acct.lamports, n) \in U64 /\ SatAdd(acct.lamports, n) >= acct.lamports
  BY <1>1, SatAddType
<1> QED
  BY <1>2, Moved

\* The copies a dispatch works on: one for every meta, each at home.
WorksOn(ix, w) ==
    /\ DOMAIN w = DOMAIN ix.metas
    /\ \A i \in DOMAIN w : Sound(Home[Key(ix, i)], w[i])

\* An instruction that works on its first copy.
LEMMA OneCopy ==
    ASSUME NEW ix \in Instructions, NEW w, WorksOn(ix, w), Len(ix.metas) >= 1,
           NEW new, Fate(ix, ix.program, w[1], new)
    PROVE  LET v == [w EXCEPT ![1] = new]
           IN  \A i \in DOMAIN w : Fate(ix, Home[Key(ix, i)], w[i], v[i])
<1>1. 1 \in DOMAIN w /\ Home[Key(ix, 1)] = ix.program
  BY Copies DEF WorksOn
<1>2. ASSUME NEW i \in DOMAIN w, i # 1
      PROVE  Fate(ix, Home[Key(ix, i)], w[i], w[i])
  BY <1>2, Untouched DEF WorksOn
<1> QED
  BY <1>1, <1>2

\* An instruction that works on its first copy and on another.
LEMMA FirstAndOther ==
    ASSUME NEW ix \in Instructions, NEW w, WorksOn(ix, w), Len(ix.metas) >= 1,
           NEW new, Fate(ix, ix.program, w[1], new),
           NEW k \in DOMAIN w, k # 1,
           NEW other, Fate(ix, Home[Key(ix, k)], w[k], other),
           NEW v, \/ v = [w EXCEPT ![1] = new, ![k] = other]
                  \/ v = [w EXCEPT ![k] = other, ![1] = new]
    PROVE  \A i \in DOMAIN w : Fate(ix, Home[Key(ix, i)], w[i], v[i])
<1>1. 1 \in DOMAIN w /\ Home[Key(ix, 1)] = ix.program
  BY Copies DEF WorksOn
<1>2. ASSUME NEW i \in DOMAIN w, i # 1
      PROVE  Fate(ix, Home[Key(ix, i)], w[i], w[i])
  BY <1>2, Untouched DEF WorksOn
<1>3. /\ v[1] = new /\ v[k] = other
      /\ \A i \in DOMAIN w : i # 1 /\ i # k => v[i] = w[i]
  BY <1>1
<1> QED
  BY <1>1, <1>2, <1>3

-----------------------------------------------------------------------------
(* The lookup-table program.                                               *)

\* Beside a copy at the table program's addresses nothing is at stake.
LEMMA TableCopy ==
    ASSUME NEW ix, NEW old, Sound(TableId, old), NEW new \in Account,
           new.data \in TableData \cup BlankData, TableFate(ix, old, new)
    PROVE  Fate(ix, TableId, old, new)
<1>1. old.data \in Data /\ ~IsStake(old.data) /\ ~IsVote(old.data)
  BY EpochAssumption DEF Sound, Fits, Account, AccountOver
<1>2. ~IsStake(new.data) /\ ~IsVote(new.data) /\ new.data.kind # "config"
  BY DEF TableData, BlankData, IsStake, IsVote
<1>3. Sound(TableId, new)
  BY <1>2 DEF Sound, Fits, Backed
<1> QED
  BY <1>1, <1>3 DEF Fate, StakeFate, VoteFate

\* What the table program asks of an instruction on a table with an authority.
LEMMA TableCalled ==
    ASSUME NEW ix \in Instructions, ix.program = TableId, NEW w, WorksOn(ix, w),
           Len(ix.metas) >= 2, TableAuthority(ix, w)
    PROVE  /\ 1 \in DOMAIN w /\ Sound(TableId, w[1]) /\ w[1] \in Account
           /\ w[1].data \in TableData /\ w[1].data.addrs \in Seq(Addr)
           /\ Len(w[1].data.addrs) \in Nat
           /\ w[1].data.authority # NoKey /\ Signs(ix.metas, w[1].data.authority)
           /\ SubSeq(w[1].data.addrs, 1, Len(w[1].data.addrs)) = w[1].data.addrs
<1>1. Len(ix.metas) >= 1
  BY Copies, MetaList DEF Instruction
<1>2. 1 \in DOMAIN w /\ Sound(TableId, w[1])
  BY <1>1, Copies DEF WorksOn
<1>3. w[1] \in Account /\ w[1].data \in TableData /\ w[1].data.addrs \in Seq(Addr)
  BY <1>2, DataKinds DEF Sound, Account, AccountOver, TableAuthority, TableData
<1>4. Key(ix, 2) \in Addr
  BY Copies
<1> QED
  BY <1>2, <1>3, <1>4, LenProperties, SubSeqFull, NativeAssumption
  DEF TableAuthority, AuthoritySigns

\* FreezeLookupTable: the authority signs, the addresses stay.
LEMMA Frozen ==
    ASSUME NEW ix \in Instructions, ix.program = TableId, NEW w, WorksOn(ix, w),
           FreezeOk(ix, w)
    PROVE  \A i \in DOMAIN w : Fate(ix, Home[Key(ix, i)], w[i], FreezePost(ix, w)[i])
<1> DEFINE old == w[1]
           data == [old.data EXCEPT !.authority = NoKey]
           new == [old EXCEPT !.data = data]
<1>1. /\ 1 \in DOMAIN w /\ Sound(TableId, old) /\ old \in Account
      /\ old.data \in TableData /\ old.data.addrs \in Seq(Addr)
      /\ Len(old.data.addrs) \in Nat
      /\ old.data.authority # NoKey /\ Signs(ix.metas, old.data.authority)
      /\ SubSeq(old.data.addrs, 1, Len(old.data.addrs)) = old.data.addrs
  BY TableCalled DEF FreezeOk
<1>2. FreezePost(ix, w) = [w EXCEPT ![1] = new]
  BY DEF FreezePost
<1>3. /\ data \in TableData /\ data.addrs = old.data.addrs
      /\ data.deactivation = old.data.deactivation /\ data.authority = NoKey
  BY <1>1 DEF TableData
<1>4. new \in Account /\ new.data = data
  BY <1>1, <1>3 DEF Account, AccountOver, Data
<1> HIDE DEF old, data, new
<1>5. IsTable(data)
  BY <1>3 DEF IsTable, TableData
<1>6. TableChange(ix, old.data, data)
  BY <1>1, <1>3, <1>5 DEF TableChange
<1>7. TableKeeps(old.data, data)
  BY <1>1, <1>3, <1>5 DEF TableKeeps, Closeable
<1>8. Fate(ix, TableId, old, new)
  BY <1>1, <1>3, <1>4, <1>6, <1>7, TableCopy DEF TableFate
<1>9. Len(ix.metas) >= 1
  BY Copies, MetaList DEF Instruction, FreezeOk
<1> QED
  BY <1>2, <1>8, <1>9, OneCopy DEF old

\* DeactivateLookupTable: the table resolves for the cooldown still.
LEMMA DeactivatedTable ==
    ASSUME clock \in Clock,
           NEW ix \in Instructions, ix.program = TableId, NEW w, WorksOn(ix, w),
           DeactivateTableOk(ix, w)
    PROVE  \A i \in DOMAIN w :
               Fate(ix, Home[Key(ix, i)], w[i], DeactivateTablePost(ix, w, clock)[i])
<1> DEFINE old == w[1]
           data == [old.data EXCEPT !.deactivation = clock.slot]
           new == [old EXCEPT !.data = data]
<1>1. /\ 1 \in DOMAIN w /\ Sound(TableId, old) /\ old \in Account
      /\ old.data \in TableData /\ old.data.addrs \in Seq(Addr)
      /\ Len(old.data.addrs) \in Nat
      /\ old.data.authority # NoKey /\ Signs(ix.metas, old.data.authority)
      /\ SubSeq(old.data.addrs, 1, Len(old.data.addrs)) = old.data.addrs
  BY TableCalled DEF DeactivateTableOk
<1>2. DeactivateTablePost(ix, w, clock) = [w EXCEPT ![1] = new]
  BY DEF DeactivateTablePost
<1>3. /\ data \in TableData /\ data.addrs = old.data.addrs
      /\ data.deactivation = clock.slot /\ data.authority = old.data.authority
  BY <1>1 DEF TableData, Clock
<1>4. new \in Account /\ new.data = data
  BY <1>1, <1>3 DEF Account, AccountOver, Data
<1>5. old.data.deactivation = Never
  BY DEF DeactivateTableOk
<1> HIDE DEF old, data, new
<1>6. IsTable(data)
  BY <1>3 DEF IsTable, TableData
<1>7. TableChange(ix, old.data, data)
  BY <1>1, <1>3, <1>5, <1>6 DEF TableChange
<1>8. ~Closeable(data, clock.slot)
  <2>1. clock.slot \in Nat
    BY Numbers DEF Clock
  <2>2. SatSub(clock.slot, clock.slot) = 0
    BY <2>1 DEF SatSub
  <2> QED
    BY <1>3, <2>2, TableAssumption DEF Closeable
<1>9. TableKeeps(old.data, data)
  BY <1>1, <1>3, <1>6, <1>8 DEF TableKeeps
<1>10. Fate(ix, TableId, old, new)
  BY <1>1, <1>3, <1>4, <1>7, <1>9, TableCopy DEF TableFate
<1>11. Len(ix.metas) >= 1
  BY Copies, MetaList DEF Instruction, DeactivateTableOk
<1> QED
  BY <1>2, <1>10, <1>11, OneCopy DEF old

\* Addresses put behind others leave those where they are.
LEMMA Appended ==
    ASSUME NEW s \in Seq(Addr), NEW t \in Seq(Addr)
    PROVE  /\ s \o t \in Seq(Addr) /\ Len(s \o t) = Len(s) + Len(t)
           /\ Len(s) \in Nat /\ Len(t) \in Nat
           /\ \A j \in 1..Len(s) : (s \o t)[j] = s[j]
           /\ SubSeq(s \o t, 1, Len(s)) = s
<1>1. /\ s \o t \in Seq(Addr) /\ Len(s \o t) = Len(s) + Len(t)
      /\ Len(s) \in Nat /\ Len(t) \in Nat
  BY ConcatProperties, LenProperties
<1>2. \A j \in 1..Len(s) : j \in 1..Len(s) + Len(t) /\ (s \o t)[j] = s[j]
  BY <1>1, ConcatProperties
<1>3. SubSeq(s \o t, 1, Len(s)) = s
  <2>1. CASE Len(s) = 0
    <3>1. s = <<>>
      BY <2>1, EmptySeq
    <3> QED
      BY <2>1, <3>1, SubSeqEmpty
  <2>2. CASE Len(s) # 0
    <3>1. 1 \in 1..Len(s) /\ Len(s) \in 1..Len(s)
      BY <1>1, <2>2
    <3>2. SubSeq(s \o t, 1, Len(s)) = SubSeq(s, 1, Len(s))
      BY <3>1, SubSeqOfConcat1
    <3> QED
      BY <3>2, SubSeqFull
  <2> QED
    BY <2>1, <2>2
<1> QED
  BY <1>1, <1>2, <1>3

\* ExtendLookupTable: the addresses go behind those that are there.
LEMMA Extended ==
    ASSUME NEW ix \in Instructions, ix.program = TableId, NEW w, WorksOn(ix, w),
           ExtendOk(ix, w)
    PROVE  \A i \in DOMAIN w : Fate(ix, Home[Key(ix, i)], w[i], ExtendPost(ix, w)[i])
<1> DEFINE old == w[1]
           addrs == old.data.addrs \o ix.keys
           len == old.data.len + 32 * Len(ix.keys)
           data == [old.data EXCEPT !.addrs = addrs, !.len = len]
           new == [old EXCEPT !.data = data]
<1>1. Len(ix.metas) >= 1 /\ Len(ix.metas) >= 2
  BY Copies, MetaList DEF Instruction, ExtendOk
<1>2. /\ 1 \in DOMAIN w /\ Sound(TableId, old) /\ old \in Account
      /\ old.data \in TableData /\ old.data.addrs \in Seq(Addr)
      /\ Len(old.data.addrs) \in Nat
      /\ old.data.authority # NoKey /\ Signs(ix.metas, old.data.authority)
  BY <1>1, TableCalled DEF ExtendOk
<1>3. ExtendPost(ix, w) = [w EXCEPT ![1] = new]
  BY DEF ExtendPost
<1>4. ix.keys \in Seq(Addr)
  BY Copies DEF Instruction
<1>5. /\ addrs \in Seq(Addr) /\ Len(addrs) = Len(old.data.addrs) + Len(ix.keys)
      /\ Len(ix.keys) \in Nat
      /\ \A j \in 1..Len(old.data.addrs) : addrs[j] = old.data.addrs[j]
      /\ SubSeq(addrs, 1, Len(old.data.addrs)) = old.data.addrs
  BY <1>2, <1>4, Appended
<1>6. old.data.deactivation = Never /\ Len(addrs) <= MaxAddresses
  BY <1>5 DEF ExtendOk
<1> HIDE DEF addrs
<1>7. len \in Nat /\ len = MetaLen + 32 * Len(addrs)
  <2>1. old.data.len = 56 + 32 * Len(old.data.addrs)
    BY <1>2 DEF TableData, MetaLen
  <2> DEFINE m == Len(old.data.addrs)
             n == Len(ix.keys)
             k == old.data.len
  <2>2. m \in Nat /\ n \in Nat /\ k = 56 + 32 * m /\ Len(addrs) = m + n
    BY <1>2, <1>5, <2>1
  <2> HIDE DEF m, n, k
  <2>3. k + 32 * n \in Nat /\ k + 32 * n = 56 + 32 * (m + n)
    BY <2>2
  <2> QED
    BY <2>2, <2>3 DEF MetaLen, n, k
<1> HIDE DEF len
<1>8. /\ data \in TableData /\ data.addrs = addrs
      /\ data.deactivation = Never /\ data.authority = old.data.authority
  BY <1>2, <1>5, <1>6, <1>7 DEF TableData
<1>9. new \in Account /\ new.data = data
  BY <1>2, <1>8 DEF Account, AccountOver, Data
<1> HIDE DEF old, data, new
<1>10. IsTable(data)
  BY <1>8 DEF IsTable, TableData
<1>11. TableChange(ix, old.data, data)
  BY <1>2, <1>5, <1>6, <1>8, <1>10 DEF TableChange
<1>12. TableKeeps(old.data, data)
  <2>1. \A m, n \in Nat : m <= m + n
    OBVIOUS
  <2>2. Len(old.data.addrs) <= Len(addrs)
    BY <1>2, <1>5, <2>1
  <2> QED
    BY <1>5, <1>8, <1>10, <2>2 DEF TableKeeps, Closeable
<1>13. Fate(ix, TableId, old, new)
  BY <1>2, <1>8, <1>9, <1>11, <1>12, TableCopy DEF TableFate
<1> QED
  BY <1>1, <1>3, <1>13, OneCopy DEF old

\* CreateLookupTable: the buffer was empty, and the payer is nobody's stake.
LEMMA CreatedTable ==
    ASSUME NEW ix \in Instructions, ix.program = TableId, ix.op = "CreateLookupTable",
           NEW w, WorksOn(ix, w), CreateOk(ix, w)
    PROVE  \A i \in DOMAIN w : Fate(ix, Home[Key(ix, i)], w[i], CreatePost(ix, w)[i])
<1> DEFINE new == [lamports |-> TableRent, data |-> NewTable(Key(ix, 2)),
                   owner |-> ix.program, executable |-> FALSE]
           payer == [w[3] EXCEPT !.lamports = w[3].lamports - TableRent]
<1>1. Len(ix.metas) >= 1 /\ Len(ix.metas) >= 2 /\ Len(ix.metas) >= 3
  BY Copies, MetaList DEF Instruction, CreateOk
<1>2. 1 \in DOMAIN w /\ 3 \in DOMAIN w /\ Sound(TableId, w[1])
      /\ Sound(Home[Key(ix, 3)], w[3])
  BY <1>1, Copies DEF WorksOn
<1>3. CreatePost(ix, w) = [w EXCEPT ![3] = payer, ![1] = new]
  BY DEF CreatePost
<1>4. Fate(ix, Home[Key(ix, 3)], w[3], payer)
  <2>1. Home[Key(ix, 3)] \notin {StakeId, VoteId}
    BY <1>1, EpochAssumption DEF OwnBuffers
  <2>2. w[3].lamports \in Nat /\ w[3].lamports \in U64 /\ TableRent \in Nat
    BY <1>2, Numbers, TableAssumption DEF Sound, Account, AccountOver
  <2>3. w[3].lamports - TableRent \in U64
    BY <2>2, AccountsAssumption DEF U64, CreateOk
  <2> QED
    BY <1>2, <2>1, <2>3, Moved
<1>5. Fate(ix, TableId, w[1], new)
  <2>1. NewTable(Key(ix, 2)) \in TableData
    <3>1. Key(ix, 2) \in Addr /\ <<>> \in Seq(Addr) /\ Len(<<>>) = 0
      BY <1>1, Copies, EmptySeq
    <3> QED
      BY <3>1, Numbers, TableAssumption DEF NewTable, TableData, MetaLen
  <2>2. new \in Account /\ new.data \in TableData
    <3>1. ix.program \in Addr
      BY TableAssumption
    <3> QED
      BY <2>1, <3>1, TableAssumption DEF Account, AccountOver, Data
  <2> HIDE DEF new
  <2>3. ~IsTable(w[1].data)
    <3>1. ASSUME IsTable(w[1].data)
          PROVE  FALSE
      <4>1. w[1].data \in TableData /\ w[1].data.len = 0
        BY <1>2, <3>1, DataKinds DEF Sound, Account, AccountOver, CreateOk
      <4>2. Len(w[1].data.addrs) \in Nat /\ 0 = 56 + 32 * Len(w[1].data.addrs)
        BY <4>1, LenProperties DEF TableData, MetaLen
      <4> QED
        BY <4>2
    <3> QED
      BY <3>1
  <2> QED
    BY <1>2, <2>2, <2>3, TableCopy DEF TableFate
<1> HIDE DEF new, payer
<1>6. Fate(ix, ix.program, w[1], new)
  BY <1>5
<1> DEFINE v == CreatePost(ix, w)
           k == 3
<1>7. v = [w EXCEPT ![k] = payer, ![1] = new]
  BY <1>3
<1>8. k \in DOMAIN w /\ k # 1 /\ Fate(ix, Home[Key(ix, k)], w[k], payer)
  BY <1>2, <1>4
<1> HIDE DEF v, k
<1>9. \A i \in DOMAIN w : Fate(ix, Home[Key(ix, i)], w[i], v[i])
  BY <1>1, <1>6, <1>7, <1>8, FirstAndOther
<1> QED
  BY <1>9 DEF v

\* CloseLookupTable: nothing resolves in the table any more.
LEMMA Closed ==
    ASSUME NEW ix \in Instructions, ix.program = TableId, NEW w, WorksOn(ix, w),
           CloseOk(ix, w, clock)
    PROVE  \A i \in DOMAIN w : Fate(ix, Home[Key(ix, i)], w[i], ClosePost(ix, w)[i])
<1> DEFINE old == w[1]
           new == [old EXCEPT !.lamports = 0, !.data = Blank(0), !.owner = SystemId]
           paid == [w[3] EXCEPT !.lamports = SatAdd(w[3].lamports, old.lamports)]
<1>1. Len(ix.metas) >= 1 /\ Len(ix.metas) >= 2 /\ Len(ix.metas) >= 3
  BY Copies, MetaList DEF Instruction, CloseOk
<1>2. /\ 1 \in DOMAIN w /\ Sound(TableId, old) /\ old \in Account
      /\ old.data \in TableData
      /\ old.data.authority # NoKey /\ Signs(ix.metas, old.data.authority)
  BY <1>1, TableCalled DEF CloseOk
<1>3. 3 \in DOMAIN w /\ Sound(Home[Key(ix, 3)], w[3])
  BY <1>1, Copies DEF WorksOn
<1>4. ClosePost(ix, w) = [w EXCEPT ![3] = paid, ![1] = new]
  BY DEF ClosePost
<1>5. Fate(ix, Home[Key(ix, 3)], w[3], paid)
  BY <1>2, <1>3, Credited DEF Account, AccountOver
<1>6. new \in Account /\ new.data = Blank(0)
  BY <1>2, Numbers, BlankIsData, NativeAssumption, AccountsAssumption
  DEF Account, AccountOver
<1>7. Blank(0) \in BlankData
  BY NativeAssumption DEF Blank, BlankData
<1>8. Closeable(old.data, clock.slot)
  BY DEF CloseOk
<1> HIDE DEF old, new, paid
<1>9. TableFate(ix, old, new)
  BY <1>2, <1>6, <1>8 DEF TableFate, TableChange, TableKeeps
<1>10. Fate(ix, TableId, old, new)
  BY <1>2, <1>6, <1>7, <1>9, TableCopy
<1>11. Fate(ix, ix.program, w[1], new)
  BY <1>10 DEF old
<1> DEFINE v == ClosePost(ix, w)
           k == 3
<1>12. v = [w EXCEPT ![k] = paid, ![1] = new]
  BY <1>4
<1>13. k \in DOMAIN w /\ k # 1 /\ Fate(ix, Home[Key(ix, k)], w[k], paid)
  BY <1>3, <1>5
<1> HIDE DEF v, k
<1>14. \A i \in DOMAIN w : Fate(ix, Home[Key(ix, i)], w[i], v[i])
  BY <1>1, <1>11, <1>12, <1>13, FirstAndOther
<1> QED
  BY <1>14 DEF v

\* Each of the table program's instructions keeps to the fates.
LEMMA TableWorks ==
    ASSUME clock \in Clock,
           NEW ix \in Instructions, ix.program = TableId, NEW w, WorksOn(ix, w),
           TableOk(ix, w, clock)
    PROVE  \A i \in DOMAIN w :
               Fate(ix, Home[Key(ix, i)], w[i], TablePost(ix, w, clock)[i])
<1>1. CASE ix.op = "CreateLookupTable" /\ CreateOk(ix, w)
  BY <1>1, CreatedTable DEF TablePost
<1>2. CASE ix.op = "FreezeLookupTable" /\ FreezeOk(ix, w)
  BY <1>2, Frozen DEF TablePost
<1>3. CASE ix.op = "ExtendLookupTable" /\ ExtendOk(ix, w)
  BY <1>3, Extended DEF TablePost
<1>4. CASE ix.op = "DeactivateLookupTable" /\ DeactivateTableOk(ix, w)
  BY <1>4, DeactivatedTable DEF TablePost
<1>5. CASE ix.op = "CloseLookupTable" /\ CloseOk(ix, w, clock)
  BY <1>5, Closed DEF TablePost
<1> QED
  BY <1>1, <1>2, <1>3, <1>4, <1>5 DEF TableOk

-----------------------------------------------------------------------------
(* The stake program.                                                      *)

\* Beside a copy at the stake program's addresses no table and no vote is at stake.
LEMMA StakeCopy ==
    ASSUME NEW ix, NEW old, Sound(StakeId, old), NEW new \in Account,
           new.data \in StakeData \cup BlankData, Backed(new), StakeFate(ix, old, new)
    PROVE  Fate(ix, StakeId, old, new)
<1>1. ~IsTable(old.data) /\ ~IsVote(old.data)
  BY EpochAssumption DEF Sound, Fits
<1>2. ~IsTable(new.data) /\ ~IsVote(new.data) /\ new.data.kind # "config"
  BY DEF StakeData, BlankData, IsTable, IsVote
<1>3. Sound(StakeId, new)
  BY <1>2 DEF Sound, Fits
<1> QED
  BY <1>1, <1>3 DEF Fate, TableFate, VoteFate

\* What a stake account holds, in numbers.
LEMMA StakeHeld ==
    ASSUME NEW acct, Sound(StakeId, acct), IsStake(acct.data)
    PROVE  /\ acct \in Account /\ acct.data \in StakeData
           /\ acct.lamports \in U64 /\ acct.lamports \in Nat
           /\ acct.data.reserve \in Nat /\ acct.data.stake \in Nat
           /\ acct.lamports >= acct.data.reserve
           /\ acct.data.delegated /\ acct.data.deactivation = Never =>
                  acct.lamports >= acct.data.reserve + acct.data.stake
<1>1. acct \in Account /\ acct.data \in StakeData /\ acct.lamports \in U64
  BY DataKinds DEF Sound, Account, AccountOver
<1>2. acct.data.reserve \in U64 /\ acct.data.stake \in U64
  BY <1>1 DEF StakeData
<1> QED
  BY <1>1, <1>2, Numbers DEF Sound, Backed

\* An instruction on one stake account that leaves its lamports.
LEMMA StakeRewritten ==
    ASSUME NEW ix \in Instructions, ix.program = StakeId, NEW w, WorksOn(ix, w),
           Len(ix.metas) >= 1, NEW data \in StakeData,
           LET new == [w[1] EXCEPT !.data = data]
           IN  Backed(new) /\ StakeFate(ix, w[1], new),
           NEW v, v = [w EXCEPT ![1].data = data]
    PROVE  \A i \in DOMAIN w : Fate(ix, Home[Key(ix, i)], w[i], v[i])
<1> DEFINE new == [w[1] EXCEPT !.data = data]
<1>1. Sound(StakeId, w[1])
  BY Copies DEF WorksOn
<1>2. new \in Account /\ new.data = data
  BY <1>1 DEF Sound, Account, AccountOver, Data
<1>3. v = [w EXCEPT ![1] = new] /\ Backed(new) /\ StakeFate(ix, w[1], new)
  OBVIOUS
<1> HIDE DEF new
<1>4. Fate(ix, ix.program, w[1], new)
  BY <1>1, <1>2, <1>3, StakeCopy
<1> QED
  BY <1>3, <1>4, OneCopy

\* Initialize: the buffer was zeroed, and the reserve is there.
LEMMA InitializedStake ==
    ASSUME rent \in Rent,
           NEW ix \in Instructions, ix.program = StakeId, NEW w, WorksOn(ix, w),
           InitializeStakeOk(ix, w, rent)
    PROVE  \A i \in DOMAIN w :
               Fate(ix, Home[Key(ix, i)], w[i], InitializeStakePost(ix, w, rent)[i])
<1> DEFINE data == NewStake(MinimumBalance(rent, StakeLen), ix.keys[1], ix.keys[2])
           new == [w[1] EXCEPT !.data = data]
           v == InitializeStakePost(ix, w, rent)
<1>1. Len(ix.metas) >= 1 /\ Sound(StakeId, w[1]) /\ w[1] \in Account
  BY Copies DEF InitializeStakeOk, WorksOn, Sound
<1>2. data \in StakeData
  <2>1. ix.keys \in Seq(Addr) /\ Len(ix.keys) = 2
    BY Copies DEF Instruction, InitializeStakeOk
  <2>2. ix.keys[1] \in Addr /\ ix.keys[2] \in Addr
    BY <2>1, ElementOfSeq
  <2>3. MinimumBalance(rent, StakeLen) \in U64
    BY MinimumBalanceType DEF StakeLen
  <2> QED
    BY <2>2, <2>3, Numbers DEF NewStake, StakeData
<1>3. v = [w EXCEPT ![1].data = data]
  BY DEF InitializeStakePost
<1>4. Backed(new)
  <2>1. new.data = data /\ new.lamports = w[1].lamports
    BY <1>1 DEF Account, AccountOver
  <2>2. data.reserve = MinimumBalance(rent, StakeLen) /\ data.delegated = FALSE
    BY DEF NewStake
  <2>3. w[1].lamports >= MinimumBalance(rent, StakeLen)
    BY DEF InitializeStakeOk
  <2> HIDE DEF new, data
  <2> QED
    BY <2>1, <2>2, <2>3 DEF Backed
<1>5. StakeFate(ix, w[1], new)
  BY DEF StakeFate, InitializeStakeOk, Blank, IsStake
<1> HIDE DEF data, v
<1> QED
  BY <1>1, <1>2, <1>3, <1>4, <1>5, StakeRewritten DEF v

\* Authorize: each authority is replaced by its own signature.
LEMMA AuthorizedStake ==
    ASSUME NEW ix \in Instructions, ix.program = StakeId, NEW w, WorksOn(ix, w),
           AuthorizeOk(ix, w)
    PROVE  \A i \in DOMAIN w : Fate(ix, Home[Key(ix, i)], w[i], AuthorizePost(ix, w)[i])
<1> DEFINE old == w[1]
           data == IF ix.amount = 0 THEN [old.data EXCEPT !.staker = ix.key]
                                    ELSE [old.data EXCEPT !.withdrawer = ix.key]
           new == [old EXCEPT !.data = data]
           v == AuthorizePost(ix, w)
<1>1. Len(ix.metas) >= 1 /\ Sound(StakeId, old) /\ IsStake(old.data)
  BY Copies DEF AuthorizeOk, WorksOn
<1>2. /\ old \in Account /\ old.data \in StakeData
      /\ old.lamports \in Nat /\ Backed(old)
  BY <1>1, StakeHeld DEF Sound
<1>3. ix.key \in Addr
  BY Copies DEF Instruction
<1>4. v = [w EXCEPT ![1].data = data]
  BY DEF AuthorizePost
<1>5. /\ data \in StakeData
      /\ data.reserve = old.data.reserve /\ data.delegated = old.data.delegated
      /\ data.stake = old.data.stake /\ data.deactivation = old.data.deactivation
      /\ [data EXCEPT !.staker = old.data.staker,
                      !.withdrawer = old.data.withdrawer] = old.data
  BY <1>2, <1>3 DEF StakeData
<1>6. /\ data.staker # old.data.staker => Signs(ix.metas, old.data.staker)
      /\ data.withdrawer # old.data.withdrawer => Signs(ix.metas, old.data.withdrawer)
  BY <1>2 DEF AuthorizeOk, StakeData
<1>7. new.data = data /\ new.lamports = old.lamports
  BY <1>2 DEF Account, AccountOver
<1> HIDE DEF data, new
<1>8. IsStake(data)
  BY <1>5 DEF StakeData, IsStake
<1>9. Backed(new)
  BY <1>1, <1>2, <1>5, <1>7 DEF Backed
<1>10. StakeFate(ix, old, new)
  BY <1>2, <1>5, <1>6, <1>7, <1>8 DEF StakeFate
<1> HIDE DEF v
<1> QED
  BY <1>1, <1>4, <1>5, <1>9, <1>10, StakeRewritten DEF v, new

\* DelegateStake: what is above the reserve becomes stake, and no more.
LEMMA DelegatedStake ==
    ASSUME NEW ix \in Instructions, ix.program = StakeId, NEW w, WorksOn(ix, w),
           DelegateOk(ix, w)
    PROVE  \A i \in DOMAIN w : Fate(ix, Home[Key(ix, i)], w[i], DelegatePost(ix, w)[i])
<1> DEFINE old == w[1]
           data == Delegated(old.data, Key(ix, 2), old.lamports)
           new == [old EXCEPT !.data = data]
           v == DelegatePost(ix, w)
<1>1. /\ Len(ix.metas) >= 1 /\ Len(ix.metas) >= 2
      /\ Sound(StakeId, old) /\ IsStake(old.data) /\ Signs(ix.metas, old.data.staker)
  BY Copies, MetaList DEF DelegateOk, WorksOn, Instruction
<1>2. /\ old \in Account /\ old.data \in StakeData
      /\ old.lamports \in U64 /\ old.lamports \in Nat /\ old.data.reserve \in Nat
      /\ old.lamports >= old.data.reserve
  BY <1>1, StakeHeld
<1>3. Key(ix, 2) \in Addr
  BY <1>1, Copies
<1>4. v = [w EXCEPT ![1].data = data]
  BY DEF DelegatePost
<1>5. /\ SatSub(old.lamports, old.data.reserve) \in U64
      /\ old.lamports >= old.data.reserve + SatSub(old.lamports, old.data.reserve)
  <2> DEFINE m == old.lamports
             n == old.data.reserve
  <2>1. m \in U64 /\ m \in Nat /\ n \in Nat /\ m >= n
    BY <1>2
  <2> HIDE DEF m, n
  <2>2. SatSub(m, n) \in U64 /\ m >= n + SatSub(m, n)
    BY <2>1, AccountsAssumption DEF SatSub, U64
  <2> QED
    BY <2>2 DEF m, n
<1>6. /\ data \in StakeData /\ data.reserve = old.data.reserve
      /\ data.stake = SatSub(old.lamports, old.data.reserve)
      /\ data.staker = old.data.staker /\ data.withdrawer = old.data.withdrawer
  BY <1>2, <1>3, <1>5, Numbers DEF Delegated, StakeData
<1>7. new.data = data /\ new.lamports = old.lamports
  BY <1>2 DEF Account, AccountOver
<1> HIDE DEF data, new
<1>8. IsStake(data)
  BY <1>6 DEF StakeData, IsStake
<1>9. Backed(new)
  BY <1>2, <1>5, <1>6, <1>7 DEF Backed
<1>10. StakeFate(ix, old, new)
  BY <1>1, <1>2, <1>6, <1>7, <1>8 DEF StakeFate
<1> HIDE DEF v
<1> QED
  BY <1>1, <1>4, <1>6, <1>9, <1>10, StakeRewritten DEF v, new

\* Deactivate: the amounts stay as they are.
LEMMA DeactivatedStake ==
    ASSUME clock \in Clock,
           NEW ix \in Instructions, ix.program = StakeId, NEW w, WorksOn(ix, w),
           DeactivateStakeOk(ix, w)
    PROVE  \A i \in DOMAIN w :
               Fate(ix, Home[Key(ix, i)], w[i], DeactivateStakePost(ix, w, clock)[i])
<1> DEFINE old == w[1]
           data == [old.data EXCEPT !.deactivation = clock.epoch]
           new == [old EXCEPT !.data = data]
           v == DeactivateStakePost(ix, w, clock)
<1>1. /\ Len(ix.metas) >= 1 /\ Sound(StakeId, old) /\ IsStake(old.data)
      /\ old.data.delegated /\ old.data.deactivation = Never
      /\ Signs(ix.metas, old.data.staker)
  BY Copies DEF DeactivateStakeOk, IsDelegated, WorksOn
<1>2. /\ old \in Account /\ old.data \in StakeData /\ old.lamports \in Nat
      /\ Backed(old)
  BY <1>1, StakeHeld DEF Sound
<1>3. v = [w EXCEPT ![1].data = data]
  BY DEF DeactivateStakePost
<1>4. /\ data \in StakeData /\ data.reserve = old.data.reserve
      /\ data.stake = old.data.stake
      /\ data.staker = old.data.staker /\ data.withdrawer = old.data.withdrawer
  BY <1>2 DEF StakeData, Clock
<1>5. new.data = data /\ new.lamports = old.lamports
  BY <1>2 DEF Account, AccountOver
<1> HIDE DEF data, new
<1>6. IsStake(data)
  BY <1>4 DEF StakeData, IsStake
<1>7. Backed(new)
  BY <1>1, <1>2, <1>4, <1>5 DEF Backed
<1>8. StakeFate(ix, old, new)
  BY <1>1, <1>2, <1>4, <1>5, <1>6 DEF StakeFate
<1> HIDE DEF v
<1> QED
  BY <1>1, <1>3, <1>4, <1>7, <1>8, StakeRewritten DEF v, new

\* What a withdrawal takes leaves the floor under it.
LEMMA LeftOver ==
    ASSUME NEW balance \in U64, NEW floor \in Nat, NEW amount \in Nat,
           amount <= SatSub(balance, floor)
    PROVE  /\ balance - amount \in U64 /\ amount \in U64
           /\ balance - amount < balance => balance - amount >= floor
           /\ balance >= floor => balance - amount >= floor
           /\ balance - amount <= balance
           /\ ~(balance - amount < balance) => amount = 0
  BY AccountsAssumption DEF SatSub, U64

\* Lamports leave an account for another.
LEMMA PaidOut ==
    ASSUME NEW ix \in Instructions, NEW w, WorksOn(ix, w), Len(ix.metas) >= 2,
           NEW new, Fate(ix, ix.program, w[1], new),
           NEW n \in U64,
           NEW v, v = [w EXCEPT ![1] = new, ![2].lamports = SatAdd(w[2].lamports, n)]
    PROVE  \A i \in DOMAIN w : Fate(ix, Home[Key(ix, i)], w[i], v[i])
<1> DEFINE paid == [w[2] EXCEPT !.lamports = SatAdd(w[2].lamports, n)]
           k == 2
<1>1. Len(ix.metas) >= 1
  BY Copies, MetaList DEF Instruction
<1>2. 2 \in DOMAIN w /\ Sound(Home[Key(ix, 2)], w[2])
  BY Copies DEF WorksOn
<1>3. Fate(ix, Home[Key(ix, 2)], w[2], paid)
  BY <1>2, Credited
<1>4. \/ v = [w EXCEPT ![1] = new, ![k] = paid]
      \/ v = [w EXCEPT ![k] = paid, ![1] = new]
  OBVIOUS
<1>5. k \in DOMAIN w /\ k # 1 /\ Fate(ix, Home[Key(ix, k)], w[k], paid)
  BY <1>2, <1>3
<1> HIDE DEF paid, k
<1>6. WorksOn(ix, w) /\ Fate(ix, ix.program, w[1], new)
  OBVIOUS
<1> QED
  BY ONLY ix \in Instructions, <1>1, <1>4, <1>5, <1>6, FirstAndOther

\* The floor under a withdrawal is the reserve, and the stake while it is active.
LEMMA FloorHeld ==
    ASSUME clock \in Clock, NEW acct, Sound(StakeId, acct), IsStake(acct.data)
    PROVE  /\ LockedFloor(acct.data, clock.epoch) \in Nat
           /\ LockedFloor(acct.data, clock.epoch) >= acct.data.reserve
           /\ acct.data.delegated /\ acct.data.deactivation = Never =>
                  LockedFloor(acct.data, clock.epoch) = acct.data.reserve + acct.data.stake
<1> DEFINE m == acct.data.reserve
           n == acct.data.stake
           b == acct.lamports
<1>1. /\ b \in U64 /\ m \in U64 /\ m \in Nat /\ n \in Nat /\ b >= m
      /\ acct.data.delegated /\ acct.data.deactivation = Never => b >= m + n
  BY StakeHeld DEF StakeData
<1>2. LockedFloor(acct.data, clock.epoch) \in {SatAdd(m, n), m}
      /\ (acct.data.delegated /\ acct.data.deactivation = Never =>
             LockedFloor(acct.data, clock.epoch) = SatAdd(m, n))
  BY DEF LockedFloor
<1> HIDE DEF m, n, b
<1>3. SatAdd(m, n) \in Nat /\ SatAdd(m, n) >= m
      /\ (b >= m + n => SatAdd(m, n) = m + n)
  BY <1>1, AccountsAssumption DEF SatAdd, U64
<1>4. LockedFloor(acct.data, clock.epoch) \in Nat
      /\ LockedFloor(acct.data, clock.epoch) >= m
  BY <1>1, <1>2, <1>3
<1> QED
  BY <1>1, <1>2, <1>3, <1>4 DEF m, n

\* Withdraw: the floor stays, or nothing was asked for.
LEMMA WithdrawnStake ==
    ASSUME clock \in Clock,
           NEW ix \in Instructions, ix.program = StakeId, NEW w, WorksOn(ix, w),
           WithdrawStakeOk(ix, w, clock)
    PROVE  \A i \in DOMAIN w :
               Fate(ix, Home[Key(ix, i)], w[i], WithdrawStakePost(ix, w)[i])
<1> DEFINE old == w[1]
           left == old.lamports - ix.amount
           floor == LockedFloor(old.data, clock.epoch)
           data == IF left = 0 THEN Blank(StakeLen) ELSE old.data
           new == [old EXCEPT !.lamports = left, !.data = data]
           v == WithdrawStakePost(ix, w)
<1>1. /\ Len(ix.metas) >= 1 /\ Len(ix.metas) >= 2
      /\ Sound(StakeId, old) /\ IsStake(old.data)
      /\ Signs(ix.metas, old.data.withdrawer)
      /\ ix.amount <= SatSub(old.lamports, floor)
  BY Copies, MetaList DEF WithdrawStakeOk, WorksOn, Instruction
<1>2. /\ old \in Account /\ old.data \in StakeData
      /\ old.lamports \in U64 /\ old.lamports \in Nat
      /\ old.data.reserve \in Nat /\ old.data.stake \in Nat
      /\ old.lamports >= old.data.reserve
      /\ old.data.delegated /\ old.data.deactivation = Never =>
             old.lamports >= old.data.reserve + old.data.stake
  BY <1>1, StakeHeld
<1>3. /\ floor \in Nat /\ floor >= old.data.reserve
      /\ old.data.delegated /\ old.data.deactivation = Never =>
             floor = old.data.reserve + old.data.stake
  BY <1>1, FloorHeld
<1>4. ix.amount \in Nat
  BY Copies DEF Instruction
<1>5. v = [w EXCEPT ![1] = new, ![2].lamports = SatAdd(w[2].lamports, ix.amount)]
  BY DEF WithdrawStakePost
<1> HIDE DEF floor
<1>6. /\ left \in U64 /\ ix.amount \in U64
      /\ left < old.lamports => left >= floor
      /\ old.lamports >= floor => left >= floor
      /\ ~(left < old.lamports) => left = old.lamports
  <2>1. /\ left \in U64 /\ ix.amount \in U64
        /\ left < old.lamports => left >= floor
        /\ old.lamports >= floor => left >= floor
        /\ left <= old.lamports
    BY <1>1, <1>2, <1>3, <1>4, LeftOver
  <2> HIDE DEF left
  <2>2. left \in Nat
    BY <2>1, Numbers
  <2> QED
    BY <1>2, <2>1, <2>2
<1> HIDE DEF left
<1>7. Blank(StakeLen) \in BlankData
  BY StakeAssumption DEF Blank, BlankData, StakeLen
<1>8. data \in StakeData \cup BlankData /\ (left = 0 => data = Blank(StakeLen))
      /\ (left # 0 => data = old.data)
  BY <1>2, <1>7
<1>9. new \in Account /\ new.data = data /\ new.lamports = left
  BY <1>2, <1>6, <1>8 DEF Account, AccountOver, Data
<1> HIDE DEF data, new
<1>10. ~IsStake(Blank(StakeLen))
  BY DEF IsStake, Blank
<1>11. left \in Nat
  BY <1>6, Numbers
<1>12. Backed(new)
  <2>1. ASSUME left # 0
        PROVE  /\ left >= old.data.reserve
               /\ old.data.delegated /\ old.data.deactivation = Never =>
                      left >= old.data.reserve + old.data.stake
    <3>1. CASE left < old.lamports
      BY <1>2, <1>3, <1>6, <1>11, <3>1
    <3>2. CASE ~(left < old.lamports)
      BY <1>2, <1>6, <3>2
    <3> QED
      BY <3>1, <3>2
  <2> QED
    BY <1>8, <1>9, <1>10, <2>1 DEF Backed
<1>13. StakeFate(ix, old, new)
  <2>1. [old.data EXCEPT !.staker = old.data.staker,
                         !.withdrawer = old.data.withdrawer] = old.data
    BY <1>2 DEF StakeData
  <2>2. new.lamports < old.lamports => new.lamports >= floor
    BY <1>6, <1>9
  <2>3. CASE left = 0
    BY <1>1, <1>8, <1>9, <1>10, <2>2, <2>3 DEF StakeFate, floor
  <2>4. CASE left # 0
    BY <1>1, <1>8, <1>9, <2>1, <2>2, <2>4 DEF StakeFate, floor
  <2> QED
    BY <2>3, <2>4
<1>14. Fate(ix, StakeId, old, new)
  BY <1>1, <1>8, <1>9, <1>12, <1>13, StakeCopy
<1>15. Fate(ix, ix.program, w[1], new)
  BY <1>14
<1> HIDE DEF v
<1> QED
  BY <1>1, <1>5, <1>6, <1>15, PaidOut DEF v

\* Each of the stake program's instructions keeps to the fates.
LEMMA StakeWorks ==
    ASSUME clock \in Clock, rent \in Rent,
           NEW ix \in Instructions, ix.program = StakeId, NEW w, WorksOn(ix, w),
           StakeOk(ix, w, clock, rent)
    PROVE  \A i \in DOMAIN w :
               Fate(ix, Home[Key(ix, i)], w[i], StakePost(ix, w, clock, rent)[i])
<1>1. CASE ix.op = "InitializeStake" /\ InitializeStakeOk(ix, w, rent)
  BY <1>1, InitializedStake DEF StakePost
<1>2. CASE ix.op = "AuthorizeStake" /\ AuthorizeOk(ix, w)
  BY <1>2, AuthorizedStake DEF StakePost
<1>3. CASE ix.op = "DelegateStake" /\ DelegateOk(ix, w)
  BY <1>3, DelegatedStake DEF StakePost
<1>4. CASE ix.op = "WithdrawStake" /\ WithdrawStakeOk(ix, w, clock)
  BY <1>4, WithdrawnStake DEF StakePost
<1>5. CASE ix.op = "DeactivateStake" /\ DeactivateStakeOk(ix, w)
  BY <1>5, DeactivatedStake DEF StakePost
<1> QED
  BY <1>1, <1>2, <1>3, <1>4, <1>5 DEF StakeOk

-----------------------------------------------------------------------------
(* The vote program.                                                       *)

\* Beside a copy at the vote program's addresses no table and no stake is at stake.
LEMMA VoteCopy ==
    ASSUME NEW ix, NEW old, Sound(VoteId, old), NEW new \in Account,
           new.data \in VoteData \cup BlankData, VoteFate(ix, old, new)
    PROVE  Fate(ix, VoteId, old, new)
<1>1. ~IsTable(old.data) /\ ~IsStake(old.data)
  BY EpochAssumption DEF Sound, Fits
<1>2. ~IsTable(new.data) /\ ~IsStake(new.data) /\ new.data.kind # "config"
  BY DEF VoteData, BlankData, IsTable, IsStake
<1>3. Sound(VoteId, new)
  BY <1>2 DEF Sound, Fits, Backed
<1> QED
  BY <1>1, <1>3 DEF Fate, TableFate, StakeFate

\* What a vote account holds, in numbers.
LEMMA VoteHeld ==
    ASSUME NEW acct, Sound(VoteId, acct), IsVote(acct.data)
    PROVE  /\ acct \in Account /\ acct.data \in VoteData
           /\ acct.lamports \in U64 /\ acct.lamports \in Nat
           /\ acct.data.len \in Lengths /\ acct.data.len \in Nat
<1>1. acct \in Account /\ acct.data \in VoteData /\ acct.lamports \in U64
  BY DataKinds DEF Sound, Account, AccountOver
<1> QED
  BY <1>1, Numbers, NativeAssumption DEF VoteData

\* An instruction on one vote account that leaves its lamports.
LEMMA VoteRewritten ==
    ASSUME NEW ix \in Instructions, ix.program = VoteId, NEW w, WorksOn(ix, w),
           Len(ix.metas) >= 1, NEW data \in VoteData,
           VoteFate(ix, w[1], [w[1] EXCEPT !.data = data]),
           NEW v, v = [w EXCEPT ![1].data = data]
    PROVE  \A i \in DOMAIN w : Fate(ix, Home[Key(ix, i)], w[i], v[i])
<1> DEFINE new == [w[1] EXCEPT !.data = data]
<1>1. Sound(VoteId, w[1])
  BY Copies DEF WorksOn
<1>2. new \in Account /\ new.data = data
  BY <1>1 DEF Sound, Account, AccountOver, Data
<1>3. v = [w EXCEPT ![1] = new] /\ VoteFate(ix, w[1], new)
  OBVIOUS
<1> HIDE DEF new
<1>4. Fate(ix, ix.program, w[1], new)
  BY <1>1, <1>2, <1>3, VoteCopy
<1> QED
  BY <1>3, <1>4, OneCopy

\* InitializeAccount: the buffer was zeroed.
LEMMA InitializedVote ==
    ASSUME NEW ix \in Instructions, ix.program = VoteId, NEW w, WorksOn(ix, w),
           InitializeVoteOk(ix, w, rent)
    PROVE  \A i \in DOMAIN w :
               Fate(ix, Home[Key(ix, i)], w[i], InitializeVotePost(ix, w)[i])
<1> DEFINE data == NewVote(w[1].data.len, ix.keys, ix.amount)
           new == [w[1] EXCEPT !.data = data]
           v == InitializeVotePost(ix, w)
<1>1. Len(ix.metas) >= 1 /\ Sound(VoteId, w[1])
  BY Copies DEF InitializeVoteOk, WorksOn
<1>2. data \in VoteData
  <2>1. ix.keys \in Seq(Addr) /\ Len(ix.keys) = 3
    BY Copies DEF Instruction, InitializeVoteOk
  <2>2. ix.keys[1] \in Addr /\ ix.keys[2] \in Addr /\ ix.keys[3] \in Addr
    BY <2>1, ElementOfSeq
  <2>3. w[1].data \in Data /\ w[1].data.kind = "blank"
    BY <1>1 DEF Sound, Account, AccountOver, InitializeVoteOk, Blank
  <2>4. w[1].data.len \in Lengths
    BY <2>3, DataKinds DEF BlankData
  <2> QED
    BY <2>2, <2>4 DEF NewVote, VoteData, InitializeVoteOk
<1>3. v = [w EXCEPT ![1].data = data]
  BY DEF InitializeVotePost
<1>4. VoteFate(ix, w[1], new)
  BY DEF VoteFate, InitializeVoteOk, Blank, IsVote
<1> HIDE DEF data, v
<1> QED
  BY <1>1, <1>2, <1>3, <1>4, VoteRewritten DEF v

\* Authorize: each authority is replaced by its own signature.
LEMMA AuthorizedVote ==
    ASSUME NEW ix \in Instructions, ix.program = VoteId, NEW w, WorksOn(ix, w),
           AuthorizeVoteOk(ix, w)
    PROVE  \A i \in DOMAIN w :
               Fate(ix, Home[Key(ix, i)], w[i], AuthorizeVotePost(ix, w)[i])
<1> DEFINE old == w[1]
           data == IF ix.amount = 0 THEN [old.data EXCEPT !.voter = ix.key]
                                    ELSE [old.data EXCEPT !.withdrawer = ix.key]
           new == [old EXCEPT !.data = data]
           v == AuthorizeVotePost(ix, w)
<1>1. Len(ix.metas) >= 1 /\ Sound(VoteId, old) /\ IsVote(old.data)
  BY Copies DEF AuthorizeVoteOk, WorksOn
<1>2. old \in Account /\ old.data \in VoteData /\ old.lamports \in Nat
  BY <1>1, VoteHeld
<1>3. ix.key \in Addr
  BY Copies DEF Instruction
<1>4. v = [w EXCEPT ![1].data = data]
  BY DEF AuthorizeVotePost
<1>5. data \in VoteData /\ data.node = old.data.node
  BY <1>2, <1>3 DEF VoteData
<1>6. /\ data.voter # old.data.voter => Signs(ix.metas, old.data.voter)
      /\ [data EXCEPT !.voter = old.data.voter] # old.data =>
             Signs(ix.metas, old.data.withdrawer)
  BY <1>2 DEF AuthorizeVoteOk, VoteData
<1>7. new.data = data /\ new.lamports = old.lamports
  BY <1>2 DEF Account, AccountOver
<1> HIDE DEF data, new
<1>8. IsVote(data)
  BY <1>5 DEF VoteData, IsVote
<1>9. VoteFate(ix, old, new)
  BY <1>2, <1>5, <1>6, <1>7, <1>8 DEF VoteFate
<1> HIDE DEF v
<1> QED
  BY <1>1, <1>4, <1>5, <1>9, VoteRewritten DEF v, new

\* UpdateValidatorIdentity: the new node signs.
LEMMA UpdatedIdentity ==
    ASSUME NEW ix \in Instructions, ix.program = VoteId, NEW w, WorksOn(ix, w),
           UpdateIdentityOk(ix, w)
    PROVE  \A i \in DOMAIN w :
               Fate(ix, Home[Key(ix, i)], w[i], UpdateIdentityPost(ix, w)[i])
<1> DEFINE old == w[1]
           data == [old.data EXCEPT !.node = Key(ix, 2)]
           new == [old EXCEPT !.data = data]
           v == UpdateIdentityPost(ix, w)
<1>1. /\ Len(ix.metas) >= 1 /\ Len(ix.metas) >= 2
      /\ Sound(VoteId, old) /\ IsVote(old.data)
      /\ Signs(ix.metas, Key(ix, 2)) /\ Signs(ix.metas, old.data.withdrawer)
  BY Copies, MetaList DEF UpdateIdentityOk, AuthoritySigns, WorksOn, Instruction
<1>2. old \in Account /\ old.data \in VoteData /\ old.lamports \in Nat
  BY <1>1, VoteHeld
<1>3. Key(ix, 2) \in Addr
  BY <1>1, Copies
<1>4. v = [w EXCEPT ![1].data = data]
  BY DEF UpdateIdentityPost
<1>5. data \in VoteData /\ data.node = Key(ix, 2) /\ data.voter = old.data.voter
  BY <1>2, <1>3 DEF VoteData
<1>6. new.data = data /\ new.lamports = old.lamports
  BY <1>2 DEF Account, AccountOver
<1> HIDE DEF data, new
<1>7. IsVote(data)
  BY <1>5 DEF VoteData, IsVote
<1>8. VoteFate(ix, old, new)
  BY <1>1, <1>2, <1>5, <1>6, <1>7 DEF VoteFate
<1> HIDE DEF v
<1> QED
  BY <1>1, <1>4, <1>5, <1>8, VoteRewritten DEF v, new

\* UpdateCommission: the withdrawer signs.
LEMMA UpdatedCommission ==
    ASSUME NEW ix \in Instructions, ix.program = VoteId, NEW w, WorksOn(ix, w),
           UpdateCommissionOk(ix, w)
    PROVE  \A i \in DOMAIN w :
               Fate(ix, Home[Key(ix, i)], w[i], UpdateCommissionPost(ix, w)[i])
<1> DEFINE old == w[1]
           data == [old.data EXCEPT !.commission = ix.amount]
           new == [old EXCEPT !.data = data]
           v == UpdateCommissionPost(ix, w)
<1>1. /\ Len(ix.metas) >= 1 /\ Sound(VoteId, old) /\ IsVote(old.data)
      /\ Signs(ix.metas, old.data.withdrawer)
  BY Copies DEF UpdateCommissionOk, WorksOn
<1>2. old \in Account /\ old.data \in VoteData /\ old.lamports \in Nat
  BY <1>1, VoteHeld
<1>3. ix.amount \in 0..255
  <2>1. ix.amount \in Nat
    BY Copies DEF Instruction
  <2>2. ix.amount <= 100
    BY DEF UpdateCommissionOk
  <2>3. \A n \in Nat : n <= 100 => n \in 0..255
    OBVIOUS
  <2> HIDE DEF old, data, new, v
  <2> QED
    BY ONLY <2>1, <2>2, <2>3
<1>4. v = [w EXCEPT ![1].data = data]
  BY DEF UpdateCommissionPost
<1>5. /\ data \in VoteData
      /\ data.node = old.data.node /\ data.voter = old.data.voter
  BY <1>2, <1>3 DEF VoteData
<1>6. new.data = data /\ new.lamports = old.lamports
  BY <1>2 DEF Account, AccountOver
<1> HIDE DEF data, new
<1>7. IsVote(data)
  BY <1>5 DEF VoteData, IsVote
<1>8. VoteFate(ix, old, new)
  BY <1>1, <1>2, <1>5, <1>6, <1>7 DEF VoteFate
<1> HIDE DEF v
<1> QED
  BY <1>1, <1>4, <1>5, <1>8, VoteRewritten DEF v, new

\* Withdraw: today's rent stays.
LEMMA WithdrawnVote ==
    ASSUME rent \in Rent,
           NEW ix \in Instructions, ix.program = VoteId, NEW w, WorksOn(ix, w),
           WithdrawVoteOk(ix, w, rent)
    PROVE  \A i \in DOMAIN w :
               Fate(ix, Home[Key(ix, i)], w[i], WithdrawVotePost(ix, w)[i])
<1> DEFINE old == w[1]
           left == old.lamports - ix.amount
           floor == MinimumBalance(rent, old.data.len)
           data == IF left = 0 THEN Blank(old.data.len) ELSE old.data
           new == [old EXCEPT !.lamports = left, !.data = data]
           v == WithdrawVotePost(ix, w)
<1>1. /\ Len(ix.metas) >= 1 /\ Len(ix.metas) >= 2
      /\ Sound(VoteId, old) /\ IsVote(old.data)
      /\ Signs(ix.metas, old.data.withdrawer)
      /\ ix.amount <= SatSub(old.lamports, floor)
  BY Copies, MetaList DEF WithdrawVoteOk, WorksOn, Instruction
<1>2. /\ old \in Account /\ old.data \in VoteData
      /\ old.lamports \in U64 /\ old.lamports \in Nat
      /\ old.data.len \in Lengths /\ old.data.len \in Nat
  BY <1>1, VoteHeld
<1>3. floor \in Nat /\ ix.amount \in Nat
  BY <1>2, MinimumBalanceType, Numbers, Copies DEF Instruction
<1>4. v = [w EXCEPT ![1] = new, ![2].lamports = SatAdd(w[2].lamports, ix.amount)]
  BY DEF WithdrawVotePost
<1> HIDE DEF floor
<1>5. /\ left \in U64 /\ ix.amount \in U64
      /\ left < old.lamports => left >= floor
  BY <1>1, <1>2, <1>3, LeftOver
<1> HIDE DEF left
<1>6. Blank(old.data.len) \in BlankData
  BY <1>2 DEF Blank, BlankData
<1>7. data \in VoteData \cup BlankData /\ (left = 0 => data = Blank(old.data.len))
      /\ (left # 0 => data = old.data)
  BY <1>2, <1>6
<1>8. new \in Account /\ new.data = data /\ new.lamports = left
  BY <1>2, <1>5, <1>7 DEF Account, AccountOver, Data
<1> HIDE DEF data, new
<1>9. ~IsVote(Blank(old.data.len))
  BY DEF IsVote, Blank
<1>10. VoteFate(ix, old, new)
  <2>1. [old.data EXCEPT !.voter = old.data.voter] = old.data
    BY <1>2 DEF VoteData
  <2>2. new.lamports < old.lamports => new.lamports >= floor
    BY <1>5, <1>8
  <2>3. CASE left = 0
    BY <1>1, <1>7, <1>8, <1>9, <2>2, <2>3 DEF VoteFate, floor
  <2>4. CASE left # 0
    BY <1>1, <1>7, <1>8, <2>1, <2>2, <2>4 DEF VoteFate, floor
  <2> QED
    BY <2>3, <2>4
<1>11. Fate(ix, VoteId, old, new)
  BY <1>1, <1>7, <1>8, <1>10, VoteCopy
<1>12. Fate(ix, ix.program, w[1], new)
  BY <1>11
<1> HIDE DEF v
<1> QED
  BY <1>1, <1>4, <1>5, <1>12, PaidOut DEF v

\* Each of the vote program's instructions keeps to the fates.
LEMMA VoteWorks ==
    ASSUME rent \in Rent,
           NEW ix \in Instructions, ix.program = VoteId, NEW w, WorksOn(ix, w),
           VoteOk(ix, w, rent)
    PROVE  \A i \in DOMAIN w : Fate(ix, Home[Key(ix, i)], w[i], VotePost(ix, w)[i])
<1>1. CASE ix.op = "InitializeVote" /\ InitializeVoteOk(ix, w, rent)
  BY <1>1, InitializedVote DEF VotePost
<1>2. CASE ix.op = "AuthorizeVote" /\ AuthorizeVoteOk(ix, w)
  BY <1>2, AuthorizedVote DEF VotePost
<1>3. CASE ix.op = "WithdrawVote" /\ WithdrawVoteOk(ix, w, rent)
  BY <1>3, WithdrawnVote DEF VotePost
<1>4. CASE ix.op = "UpdateIdentity" /\ UpdateIdentityOk(ix, w)
  BY <1>4, UpdatedIdentity DEF VotePost
<1>5. CASE ix.op = "UpdateCommission" /\ UpdateCommissionOk(ix, w)
  BY <1>5, UpdatedCommission DEF VotePost
<1> QED
  BY <1>1, <1>2, <1>3, <1>4, <1>5 DEF VoteOk

-----------------------------------------------------------------------------
(* The config program.                                                     *)

\* Store: whatever is written, it is no other program's state.
LEMMA ConfigWorks ==
    ASSUME NEW ix \in Instructions, ix.program = ConfigId, NEW w, WorksOn(ix, w),
           ConfigOk(ix, w)
    PROVE  \A i \in DOMAIN w : Fate(ix, Home[Key(ix, i)], w[i], StorePost(ix, w)[i])
<1> DEFINE old == w[1]
           data == Written(old.data.len, ix.key, ix.amount)
           new == [old EXCEPT !.data = data]
           v == StorePost(ix, w)
<1>1. Len(ix.metas) >= 1 /\ Sound(ConfigId, old)
  BY Copies DEF ConfigOk, StoreOk, WorksOn
<1>2. /\ old \in Account /\ old.data \in Data
      /\ ~IsTable(old.data) /\ ~IsStake(old.data) /\ ~IsVote(old.data)
  BY <1>1, EpochAssumption DEF Sound, Fits, Account, AccountOver
<1>3. old.data.len \in Lengths
  BY <1>2, DataKinds DEF Data, ConfigData, BlankData
<1>4. ix.key \in Addr /\ ix.amount \in Nat
  BY Copies DEF Instruction
<1>5. data \in ConfigData \cup BlankData
  BY <1>3, <1>4 DEF Written, Blank, ConfigData, BlankData
<1>6. v = [w EXCEPT ![1] = new]
  BY DEF StorePost
<1>7. new \in Account /\ new.data = data
  BY <1>2, <1>5 DEF Account, AccountOver, Data
<1> HIDE DEF data, new
<1>8. ~IsTable(data) /\ ~IsStake(data) /\ ~IsVote(data)
  BY <1>5 DEF ConfigData, BlankData, IsTable, IsStake, IsVote
<1>9. Fate(ix, ConfigId, old, new)
  BY <1>2, <1>7, <1>8 DEF Fate, Sound, Fits, Backed, TableFate, StakeFate, VoteFate
<1>10. Fate(ix, ix.program, w[1], new)
  BY <1>9
<1> HIDE DEF v
<1>11. \A i \in DOMAIN w : Fate(ix, Home[Key(ix, i)], w[i], v[i])
  BY <1>1, <1>6, <1>10, OneCopy
<1> QED
  BY <1>11 DEF v

-----------------------------------------------------------------------------
(* A dispatch.                                                             *)

\* The accounts of an instruction that waits are in the caller's list.
Listed == \A j \in DOMAIN todo : Keys(todo[j].metas) \subseteq DOMAIN slice

\* Inductive: an instruction finds its accounts, and each of them is sound.
IInv == TypeOK /\ StakeBacked /\ Listed

\* A sound account list, of which an instruction works on copies.
SoundSlice(s) == s \in [DOMAIN s -> Account] /\ \A a \in DOMAIN s : Sound(Home[a], s[a])

\* The invariant says that the caller's list is sound.
LEMMA InvIsSound ==
    ASSUME IInv
    PROVE  SoundSlice(slice) /\ DOMAIN slice \subseteq Addr
<1>1. slice \in [DOMAIN slice -> Account] /\ AtHome(slice) /\ DOMAIN slice \subseteq Addr
  BY DEF IInv, TypeOK
<1>2. ASSUME NEW a \in DOMAIN slice
      PROVE  Sound(Home[a], slice[a])
  BY <1>1 DEF Sound, Fits, AtHome, IInv, StakeBacked
<1> QED
  BY <1>1, <1>2 DEF SoundSlice

\* Every copy an instruction works on is sound.
LEMMA CopiesAreSound ==
    ASSUME IInv, NEW ix \in Instructions, Keys(ix.metas) \subseteq DOMAIN slice
    PROVE  WorksOn(ix, Resolve(ix.metas, slice))
<1>1. SoundSlice(slice)
  BY InvIsSound
<1>2. ASSUME NEW i \in DOMAIN ix.metas
      PROVE  Key(ix, i) \in DOMAIN slice /\ Resolve(ix.metas, slice)[i] = slice[Key(ix, i)]
  BY DEF Keys, Key, Resolve
<1> QED
  BY <1>1, <1>2 DEF WorksOn, SoundSlice, Resolve

\* What an instruction makes of its copies.
LEMMA InvokedFate ==
    ASSUME IInv, NEW ix \in Instructions, NEW w, WorksOn(ix, w), Invoked(ix, w).ok
    PROVE  \A i \in DOMAIN w : Fate(ix, Home[Key(ix, i)], w[i], Invoked(ix, w).w[i])
<1>1. clock \in Clock /\ rent \in Rent
  BY DEF IInv, TypeOK
<1>2. CASE ix.program = TableId
  <2>1. TableOk(ix, w, clock) /\ Invoked(ix, w).w = TablePost(ix, w, clock)
    BY <1>2, EpochAssumption DEF Invoked
  <2> QED
    BY <1>1, <1>2, <2>1, TableWorks
<1>3. CASE ix.program = StakeId
  <2>1. StakeOk(ix, w, clock, rent) /\ Invoked(ix, w).w = StakePost(ix, w, clock, rent)
    BY <1>3, EpochAssumption DEF Invoked
  <2> QED
    BY <1>1, <1>3, <2>1, StakeWorks
<1>4. CASE ix.program = VoteId
  <2>1. VoteOk(ix, w, rent) /\ Invoked(ix, w).w = VotePost(ix, w)
    BY <1>4, EpochAssumption DEF Invoked
  <2> QED
    BY <1>1, <1>4, <2>1, VoteWorks
<1>5. CASE ix.program = ConfigId
  <2>1. ConfigOk(ix, w) /\ Invoked(ix, w).w = StorePost(ix, w)
    BY <1>5, EpochAssumption DEF Invoked
  <2> QED
    BY <1>5, <2>1, ConfigWorks
<1>6. ix.program \in ProgramIds
  BY Copies DEF Instruction
<1> QED
  BY <1>2, <1>3, <1>4, <1>5, <1>6 DEF ProgramIds

\* What becomes of each account of the list.
LEMMA AccountFate ==
    ASSUME IInv, NEW ix \in Instructions, Keys(ix.metas) \subseteq DOMAIN slice
    PROVE  /\ DOMAIN Outcome(ix).accts = DOMAIN slice
           /\ Outcome(ix).accts \in [DOMAIN slice -> Account]
           /\ \A a \in DOMAIN slice : Fate(ix, Home[a], slice[a], Outcome(ix).accts[a])
<1> DEFINE w == Resolve(ix.metas, slice)
           r == Invoked(ix, w)
           M == Merge(ix.metas, slice, r.w)
<1>1. \/ Outcome(ix).accts = slice
      \/ r.ok /\ Outcome(ix).accts = M
  BY DEF Outcome, Concluded, Validated, Failed
<1>2. SoundSlice(slice)
  BY InvIsSound
<1>3. ASSUME Outcome(ix).accts = slice
      PROVE  /\ Outcome(ix).accts \in [DOMAIN slice -> Account]
             /\ \A a \in DOMAIN slice : Fate(ix, Home[a], slice[a], Outcome(ix).accts[a])
  BY <1>2, <1>3, Untouched DEF SoundSlice
<1>4. ASSUME r.ok, Outcome(ix).accts = M
      PROVE  /\ Outcome(ix).accts \in [DOMAIN slice -> Account]
             /\ \A a \in DOMAIN slice : Fate(ix, Home[a], slice[a], Outcome(ix).accts[a])
  <2>1. WorksOn(ix, w) /\ DOMAIN w = DOMAIN ix.metas
    BY CopiesAreSound DEF WorksOn
  <2>2. \A i \in DOMAIN w : Fate(ix, Home[Key(ix, i)], w[i], r.w[i])
    <3> HIDE DEF w
    <3> QED
      BY <1>4, <2>1, InvokedFate
  <2>3. ASSUME NEW a \in DOMAIN slice
        PROVE  Fate(ix, Home[a], slice[a], M[a])
    <3>1. CASE a \in Keys(ix.metas)
      <4> DEFINE i == LastMeta(ix.metas, a)
      <4>1. i \in DOMAIN ix.metas /\ ix.metas[i].key = a
        BY <3>1, Copies, LastMetaOfKey DEF Instruction
      <4>2. w[i] = slice[a] /\ Key(ix, i) = a
        BY <4>1 DEF Resolve, Key
      <4>3. M[a] = r.w[i]
        BY <3>1 DEF Merge
      <4> HIDE DEF w, r, M, i
      <4> QED
        BY <2>1, <2>2, <4>1, <4>2, <4>3
    <3>2. CASE a \notin Keys(ix.metas)
      <4>1. M[a] = slice[a]
        BY <3>2 DEF Merge
      <4> QED
        BY <1>2, <4>1, Untouched DEF SoundSlice
    <3> QED
      BY <3>1, <3>2
  <2>4. M = [a \in DOMAIN slice |-> M[a]]
    BY DEF Merge
  <2> HIDE DEF w, r, M
  <2>5. \A a \in DOMAIN slice : M[a] \in Account
    BY <2>3 DEF Fate, Sound
  <2>6. M \in [DOMAIN slice -> Account]
    BY <2>4, <2>5
  <2> QED
    BY <1>4, <2>3, <2>6
<1> HIDE DEF w, r, M
<1>5. /\ Outcome(ix).accts \in [DOMAIN slice -> Account]
      /\ \A a \in DOMAIN slice : Fate(ix, Home[a], slice[a], Outcome(ix).accts[a])
  BY <1>1, <1>3, <1>4
<1> QED
  BY <1>5

\* A dispatch, seen from the accounts.
LEMMA DispatchFate ==
    ASSUME IInv, Dispatch
    PROVE  /\ Head(todo) \in Instructions
           /\ DOMAIN slice' = DOMAIN slice /\ slice' \in [DOMAIN slice -> Account]
           /\ \A a \in DOMAIN slice : Fate(Head(todo), Home[a], slice[a], slice'[a])
<1>1. todo \in Seq(Instructions) /\ todo # <<>>
  BY DEF IInv, TypeOK, Dispatch
<1>2. Head(todo) \in Instructions /\ 1 \in DOMAIN todo /\ Head(todo) = todo[1]
  BY <1>1
<1>3. Keys(Head(todo).metas) \subseteq DOMAIN slice
  BY <1>2 DEF IInv, Listed
<1>4. slice' = Outcome(Head(todo)).accts
  BY DEF Dispatch
<1> QED
  BY <1>2, <1>3, <1>4, AccountFate

-----------------------------------------------------------------------------
(* The invariants.                                                         *)

\* The invariant holds at the start.
LEMMA InitInv == Init => IInv
  BY EpochAssumption DEF Init, IInv, TypeOK, StakeBacked, Listed

\* No step breaks the invariant.
LEMMA NextInv == IInv /\ [Next]_vars => IInv'
<1> SUFFICES ASSUME IInv, [Next]_vars
             PROVE  IInv'
  OBVIOUS
<1> USE DEF IInv
<1>1. CASE \E ix \in Instructions : Submit(ix)
  <2>1. PICK ix \in Instructions : Submit(ix)
    BY <1>1
  <2>2. <<ix>> \in Seq(Instructions) /\ Len(<<ix>>) = 1 /\ DOMAIN <<ix>> = {1}
        /\ <<ix>>[1] = ix
    OBVIOUS
  <2>3. TypeOK' /\ StakeBacked'
    BY <2>1, <2>2 DEF Submit, TypeOK, StakeBacked, sysvars
  <2>4. Listed'
    BY <2>1, <2>2 DEF Submit, Listed
  <2> QED
    BY <2>3, <2>4
<1>2. CASE Dispatch
  <2>1. /\ DOMAIN slice' = DOMAIN slice /\ slice' \in [DOMAIN slice -> Account]
        /\ \A a \in DOMAIN slice : Sound(Home[a], slice'[a])
    BY <1>2, DispatchFate DEF Fate
  <2>2. AtHome(slice')
    BY <2>1 DEF AtHome, Sound, Fits
  <2>3. StakeBacked'
    BY <2>1 DEF StakeBacked, Sound
  <2>4. todo' \in Seq(Instructions) /\ Len(todo') <= 1 /\ DOMAIN todo' = {}
    BY <1>2 DEF Dispatch
  <2>5. DOMAIN slice' \subseteq Addr /\ slice' \in [DOMAIN slice' -> Account]
    BY <2>1 DEF TypeOK
  <2>6. TypeOK'
    BY <1>2, <2>2, <2>4, <2>5 DEF TypeOK, Dispatch, sysvars
  <2> QED
    BY <2>3, <2>4, <2>6 DEF Listed
<1>3. CASE \E p \in PolicyChoices : SetValidationPolicy(p)
  BY <1>3, EpochAssumption
  DEF SetValidationPolicy, TypeOK, StakeBacked, Listed, sysvars
<1>4. ASSUME NEW c, Warp(c), c \in Clock
      PROVE  IInv'
  BY <1>4 DEF Warp, TypeOK, StakeBacked, Listed
<1>5. clock \in Clock /\ schedule \in EpochSchedule
  BY DEF TypeOK
<1>6. CASE \E s \in Slots : Warp(WarpToSlot(clock, schedule, s))
  <2>1. PICK s \in Slots : Warp(WarpToSlot(clock, schedule, s))
    BY <1>6
  <2>2. WarpToSlot(clock, schedule, s) \in Clock
    BY <1>5, WarpTypes, EpochAssumption
  <2> QED
    BY <1>4, <2>1, <2>2
<1>7. CASE \E t \in Timestamps : Warp(WarpToTimestamp(clock, schedule, t))
  <2>1. PICK t \in Timestamps : Warp(WarpToTimestamp(clock, schedule, t))
    BY <1>7
  <2>2. t \in Int /\ WarpToTimestamp(clock, schedule, t).slot \in U64
    BY <2>1, EpochAssumption DEF Warp
  <2>3. WarpToTimestamp(clock, schedule, t) \in Clock
    BY <1>5, <2>2, WarpTypes
  <2> QED
    BY <1>4, <2>1, <2>3
<1>8. CASE \E c \in Clocks : Warp(c)
  BY <1>4, <1>8, EpochAssumption
<1>9. CASE \E es \in Schedules : SetEpochSchedule(es)
  BY <1>9, EpochAssumption DEF SetEpochSchedule, TypeOK, StakeBacked, Listed
<1>10. CASE \E r \in Rents : SetRent(r)
  BY <1>10, EpochAssumption DEF SetRent, TypeOK, StakeBacked, Listed
<1>11. CASE UNCHANGED vars
  BY <1>11 DEF vars, sysvars, TypeOK, StakeBacked, Listed
<1> QED
  BY <1>1, <1>2, <1>3, <1>6, <1>7, <1>8, <1>9, <1>10, <1>11 DEF Next

\* The invariant holds in every state.
LEMMA Inductive == Spec => []IInv
  BY InitInv, NextInv, PTL DEF Spec

\* Every variable keeps its type; no program writes over another's state.
THEOREM EpochTypes == Spec => []TypeOK
<1>1. IInv => TypeOK
  BY DEF IInv
<1> QED
  BY <1>1, Inductive, PTL

\* Stake is backed by lamports, whatever is done to it and to the sysvars.
THEOREM BackedStake == Spec => []StakeBacked
<1>1. IInv => StakeBacked
  BY DEF IInv
<1> QED
  BY <1>1, Inductive, PTL

-----------------------------------------------------------------------------
(* What a step may do to tables, stake and votes.                          *)

\* Only a dispatch empties the caller's queue.
LEMMA DispatchingIsDispatch ==
    ASSUME [Next]_vars, Dispatching
    PROVE  Dispatch
  BY DEF Next, vars, sysvars, Dispatching, Submit, Dispatch, SetValidationPolicy, Warp,
         SetEpochSchedule, SetRent

\* Any other step leaves the account list.
LEMMA OthersLeaveSlice ==
    ASSUME [Next]_vars, ~Dispatch
    PROVE  slice' = slice
  BY DEF Next, vars, sysvars, Submit, SetValidationPolicy, Warp, SetEpochSchedule, SetRent

\* A table changes only with its authority's signature, in one direction.
THEOREM TablesAuthorized == Spec => TablesNeedAuthority
<1>1. IInv /\ [Next]_vars =>
          [Dispatching => \A a \in DOMAIN slice :
              IsTable(slice[a].data) /\ slice'[a].data # slice[a].data =>
                  TableChange(Head(todo), slice[a].data, slice'[a].data)]_vars
  BY DispatchingIsDispatch, DispatchFate DEF Fate, TableFate
<1> QED
  BY <1>1, Inductive, PTL DEF Spec, TablesNeedAuthority

\* Staker and withdrawer answer for their own parts of a stake account.
THEOREM StakesAuthorized == Spec => StakesNeedAuthority
<1>1. ASSUME IInv, [Next]_vars, Dispatching, NEW a \in DOMAIN slice, IsStake(slice[a].data)
      PROVE  StakeStep(Head(todo), a)
  BY <1>1, DispatchingIsDispatch, DispatchFate DEF Fate, StakeFate, StakeStep
<1>2. IInv /\ [Next]_vars =>
          [Dispatching => \A a \in DOMAIN slice :
              IsStake(slice[a].data) => StakeStep(Head(todo), a)]_vars
  BY <1>1
<1> QED
  BY <1>2, Inductive, PTL DEF Spec, StakesNeedAuthority

\* Voter, withdrawer and new node answer for theirs of a vote account.
THEOREM VotesAuthorized == Spec => VotesNeedAuthority
<1>1. ASSUME IInv, [Next]_vars, Dispatching, NEW a \in DOMAIN slice, IsVote(slice[a].data)
      PROVE  VoteStep(Head(todo), a)
  BY <1>1, DispatchingIsDispatch, DispatchFate DEF Fate, VoteFate, VoteStep
<1>2. IInv /\ [Next]_vars =>
          [Dispatching => \A a \in DOMAIN slice :
              IsVote(slice[a].data) => VoteStep(Head(todo), a)]_vars
  BY <1>1
<1> QED
  BY <1>2, Inductive, PTL DEF Spec, VotesNeedAuthority

-----------------------------------------------------------------------------
(* What was looked up.                                                     *)

\* The lookup of one index.
LEMMA LookupOfOne ==
    ASSUME NEW s, NEW a, NEW i, NEW slot
    PROVE  Lookup(s, a, <<i>>, slot) =
               IF Resolvable(s, a, slot) /\ InBounds(s, a, i)
               THEN [ok |-> TRUE, addrs |-> [j \in {1} |-> s[a].data.addrs[i + 1]]]
               ELSE [ok |-> FALSE, addrs |-> <<>>]
<1>1. DOMAIN <<i>> = {1} /\ <<i>>[1] = i
  OBVIOUS
<1>2. (\A j \in DOMAIN <<i>> : InBounds(s, a, <<i>>[j])) <=> InBounds(s, a, i)
  BY <1>1
<1>3. [j \in DOMAIN <<i>> |-> s[a].data.addrs[<<i>>[j] + 1]] =
          [j \in {1} |-> s[a].data.addrs[i + 1]]
  BY <1>1
<1> QED
  BY <1>2, <1>3 DEF Lookup

\* When the lookup of one index succeeds.
LEMMA LookupSucceeds ==
    ASSUME NEW s, NEW a, NEW i, NEW slot
    PROVE  Lookup(s, a, <<i>>, slot).ok <=> Resolvable(s, a, slot) /\ InBounds(s, a, i)
<1> DEFINE found == [j \in {1} |-> s[a].data.addrs[i + 1]]
           r == Lookup(s, a, <<i>>, slot)
<1>1. CASE Resolvable(s, a, slot) /\ InBounds(s, a, i)
  <2>1. r = [ok |-> TRUE, addrs |-> found]
    BY <1>1, LookupOfOne
  <2> HIDE DEF found, r
  <2>2. r.ok = TRUE
    BY <2>1
  <2> QED
    BY <1>1, <2>2 DEF r
<1>2. CASE ~(Resolvable(s, a, slot) /\ InBounds(s, a, i))
  <2>1. r = [ok |-> FALSE, addrs |-> <<>>]
    BY <1>2, LookupOfOne
  <2> HIDE DEF r
  <2>2. r.ok = FALSE
    BY <2>1
  <2> QED
    BY <1>2, <2>2 DEF r
<1> QED
  BY <1>1, <1>2

\* A dispatch leaves every index that resolves.
LEMMA DispatchKeepsLookup ==
    ASSUME IInv, Dispatch, NEW a \in DOMAIN slice, IsTable(slice[a].data),
           NEW i \in Nat, Lookup(slice, a, <<i>>, clock.slot).ok
    PROVE  Lookup(slice', a, <<i>>, clock'.slot) = Lookup(slice, a, <<i>>, clock.slot)
<1> DEFINE old == slice[a].data
           new == slice'[a].data
<1>1. Resolvable(slice, a, clock.slot) /\ InBounds(slice, a, i)
  BY LookupSucceeds
<1>2. ~Closeable(old, clock.slot) /\ i < Len(old.addrs)
  BY <1>1 DEF Resolvable, InBounds
<1>3. /\ a \in DOMAIN slice' /\ slice'[a].data \in Data
      /\ TableKeeps(old, new)
  BY DispatchFate DEF Fate, TableFate, Account, AccountOver
<1>4. old \in TableData /\ old.addrs \in Seq(Addr)
  BY InvIsSound, DataKinds DEF SoundSlice, Account, AccountOver, TableData
<1>5. IsTable(new) /\ new.addrs \in Seq(Addr)
  BY <1>2, <1>3, DataKinds DEF TableKeeps, TableData
<1> HIDE DEF old, new
<1>6. Len(old.addrs) \in Nat /\ Len(new.addrs) \in Nat
  BY <1>4, <1>5, LenProperties
<1>7. /\ ~Closeable(new, clock.slot) /\ Len(old.addrs) <= Len(new.addrs)
      /\ \A j \in 1..Len(old.addrs) : new.addrs[j] = old.addrs[j]
  BY <1>2, <1>3 DEF TableKeeps
<1>8. i + 1 \in 1..Len(old.addrs) /\ i < Len(new.addrs)
  BY <1>2, <1>6, <1>7
<1>9. new.addrs[i + 1] = old.addrs[i + 1]
  BY <1>7, <1>8
<1>10. clock' = clock
  BY DEF Dispatch, sysvars
<1>11. Resolvable(slice', a, clock'.slot) /\ InBounds(slice', a, i)
  BY <1>3, <1>5, <1>7, <1>8, <1>10 DEF Resolvable, InBounds, new
<1> QED
  BY <1>1, <1>9, <1>11, LookupOfOne DEF old, new

\* An index never shifts, and stops resolving only in a deactivated table.
THEOREM StableLookups == Spec => LookupsAreStable
<1>1. ASSUME IInv, [Next]_vars, NEW a \in DOMAIN slice, IsTable(slice[a].data),
             NEW i \in 0..Len(slice[a].data.addrs)
      PROVE  LookupStep(a, i)
  <2> DEFINE before == Lookup(slice, a, <<i>>, clock.slot)
             after == Lookup(slice', a, <<i>>, clock'.slot)
  <2>1. i \in Nat
    <3>1. slice[a].data.addrs \in Seq(Addr)
      BY <1>1, InvIsSound, DataKinds DEF SoundSlice, Account, AccountOver, TableData
    <3> QED
      BY <3>1
  <2>2. ASSUME Dispatch, before.ok
        PROVE  after = before
    BY <1>1, <2>1, <2>2, DispatchKeepsLookup
  <2>3. ASSUME slice' = slice, before.ok
        PROVE  \/ after = before
               \/ /\ ~after.ok /\ IsTable(slice'[a].data)
                  /\ slice'[a].data.deactivation # Never
    <3>1. InBounds(slice, a, i)
      BY <2>3, LookupSucceeds
    <3>2. Resolvable(slice, a, clock.slot)
      BY <2>3, LookupSucceeds
    <3>3. CASE Closeable(slice[a].data, clock'.slot)
      <4>1. ~Resolvable(slice', a, clock'.slot)
        BY <2>3, <3>3 DEF Resolvable
      <4>2. ~after.ok
        BY <4>1, LookupSucceeds
      <4>3. slice[a].data.deactivation # Never
        BY <3>3 DEF Closeable
      <4> QED
        BY <1>1, <2>3, <4>2, <4>3
    <3>4. CASE ~Closeable(slice[a].data, clock'.slot)
      <4>1. Resolvable(slice', a, clock'.slot) /\ InBounds(slice', a, i)
        BY <1>1, <2>3, <3>1, <3>4 DEF Resolvable, InBounds
      <4> QED
        BY <2>3, <3>1, <3>2, <4>1, LookupOfOne
    <3> QED
      BY <3>3, <3>4
  <2>4. Dispatch \/ slice' = slice
    BY <1>1, OthersLeaveSlice
  <2> QED
    BY <2>2, <2>3, <2>4 DEF LookupStep
<1>2. IInv /\ [Next]_vars =>
          [\A a \in DOMAIN slice : IsTable(slice[a].data) =>
              \A i \in 0..Len(slice[a].data.addrs) : LookupStep(a, i)]_vars
  BY <1>1
<1> QED
  BY <1>2, Inductive, PTL DEF Spec, LookupsAreStable

-----------------------------------------------------------------------------
(* The warps.                                                              *)

\* Seconds become slots of 400 milliseconds and seconds again.
LEMMA ThereAndBack ==
    ASSUME NEW d \in Nat
    PROVE  /\ (1000 * d) \div 400 \in Nat
           /\ (400 * ((1000 * d) \div 400)) \div 1000 \in {d - 1, d}
<1> DEFINE q == (1000 * d) \div 400
<1>1. q \in Nat /\ 400 * q <= 1000 * d /\ 1000 * d < 400 * q + 400
  OBVIOUS
<1> HIDE DEF q
<1> DEFINE r == (400 * q) \div 1000
<1>2. r \in Nat /\ 1000 * r <= 400 * q /\ 400 * q < 1000 * r + 1000
  BY <1>1
<1> HIDE DEF r
<1>3. r \in {d - 1, d}
  BY <1>1, <1>2
<1> QED
  BY <1>1, <1>3 DEF q, r

\* A warp to a timestamp and a warp to its slot agree but for a second.
THEOREM AgreeingWarps == Spec => []WarpsAgree
<1>1. ASSUME IInv, NEW t \in Timestamps, NEW es \in Schedules,
             t >= clock.time, t >= 0,
             WarpToTimestamp(clock, es, t).slot < U64Max
      PROVE  LET byTime == WarpToTimestamp(clock, es, t)
                 bySlot == WarpToSlot(clock, es, byTime.slot)
             IN  /\ bySlot.epoch = byTime.epoch
                 /\ bySlot.time \in {byTime.time - 1, byTime.time}
  <2> DEFINE byTime == WarpToTimestamp(clock, es, t)
             bySlot == WarpToSlot(clock, es, byTime.slot)
             d == t - clock.time
             q == (1000 * d) \div 400
  <2>1. t \in Int /\ clock.time \in Int /\ clock.slot \in Nat
    BY <1>1, EpochAssumption, Numbers DEF IInv, TypeOK, Clock
  <2>2. d \in Nat
    BY <1>1, <2>1
  <2>3. q \in Nat /\ (400 * q) \div 1000 \in {d - 1, d} /\ 1000 * d >= 0
    BY <2>2, ThereAndBack
  <2>4. Quotient(1000 * (t - clock.time), 400) = q
    BY <2>3 DEF Quotient
  <2>5. byTime.slot = SatAdd(clock.slot, q) /\ byTime.time = t
        /\ byTime.epoch = EpochOf(es, byTime.slot)
    <3> HIDE DEF q
    <3>1. /\ byTime.slot = (IF q >= 0 THEN SatAdd(clock.slot, q)
                                     ELSE SatSub(clock.slot, -q))
          /\ byTime.time = (IF t < 0 THEN 0 ELSE t)
          /\ byTime.epoch = EpochOf(es, byTime.slot)
      BY <2>4 DEF WarpToTimestamp
    <3> HIDE DEF byTime
    <3>2. q >= 0 /\ ~(t < 0)
      BY <1>1, <2>1, <2>3
    <3> QED
      BY <3>1, <3>2
  <2>6. bySlot.time = clock.time + (400 * SatSub(byTime.slot, clock.slot)) \div 1000
        /\ bySlot.epoch = EpochOf(es, byTime.slot)
    BY DEF WarpToSlot
  <2> HIDE DEF byTime, bySlot, q
  <2>7. byTime.slot < U64Max
    BY <1>1 DEF byTime
  <2>8. SatSub(byTime.slot, clock.slot) = q
    BY <2>1, <2>3, <2>5, <2>7, AccountsAssumption DEF SatAdd, SatSub
  <2>9. bySlot.time \in {t - 1, t}
    BY <2>1, <2>3, <2>6, <2>8
  <2> QED
    BY <2>5, <2>6, <2>9 DEF byTime, bySlot
<1>2. IInv => WarpsAgree
  BY <1>1 DEF WarpsAgree
<1> QED
  BY <1>2, Inductive, PTL

-----------------------------------------------------------------------------
(* Lamports.                                                               *)

\* The lamports of the copies w and v: one may pay another.
Exchanged(w, v) ==
    \/ \A i \in DOMAIN w : v[i].lamports = w[i].lamports
    \/ \E i, j \in DOMAIN w : \E n \in Nat :
          /\ i # j
          /\ v[i].lamports = w[i].lamports - n
          /\ v[j].lamports = SatAdd(w[j].lamports, n)
          /\ \A k \in DOMAIN w \ {i, j} : v[k].lamports = w[k].lamports

\* No copy is an account that was made out of an empty one and left to the
\* system program.
NoneFilled(w, v) ==
    \A i \in DOMAIN w :
        EmptySystemOwned(w[i]) => v[i].data.len = 0 \/ v[i].owner # SystemId

\* Buffers in use are not empty.
LEMMA EpochBuffers ==
    ASSUME NEW d \in Data, IsTable(d) \/ IsStake(d)
    PROVE  d.len # 0
<1>1. CASE IsTable(d)
  <2>1. d.addrs \in Seq(Addr) /\ d.len = 56 + 32 * Len(d.addrs)
    BY <1>1, DataKinds DEF TableData, MetaLen
  <2>2. Len(d.addrs) \in Nat
    BY <2>1, LenProperties
  <2> HIDE DEF Data
  <2> QED
    BY <2>1, <2>2
<1>2. CASE IsStake(d)
  BY <1>2, DataKinds DEF StakeData, StakeLen
<1> QED
  BY <1>1, <1>2

\* An instruction that rewrites its first copy and lets it keep its lamports.
LEMMA FirstRewritten ==
    ASSUME NEW n, NEW w \in [1..n -> Account], NEW d,
           NEW v, v = [w EXCEPT ![1].data = d],
           1 \in 1..n /\ w[1].data.len = 0 => d.len = 0
    PROVE  Exchanged(w, v) /\ NoneFilled(w, v)
<1>1. ASSUME NEW i \in DOMAIN w
      PROVE  v[i].lamports = w[i].lamports /\ v[i].owner = w[i].owner
             /\ v[i].data = IF i = 1 THEN d ELSE w[i].data
  <2>1. w[i] \in Account
    OBVIOUS
  <2>2. CASE i = 1
    <3>1. v[1] = [w[1] EXCEPT !.data = d]
      BY <2>2
    <3> QED
      BY <2>1, <2>2, <3>1 DEF Account, AccountOver
  <2>3. CASE i # 1
    BY <2>3
  <2> QED
    BY <2>2, <2>3
<1>2. Exchanged(w, v)
  BY <1>1 DEF Exchanged
<1>3. ASSUME NEW i \in DOMAIN w, EmptySystemOwned(w[i])
      PROVE  v[i].data.len = 0
  BY <1>1, <1>3 DEF EmptySystemOwned
<1> QED
  BY <1>2, <1>3 DEF NoneFilled

\* A withdrawal from the first copy to the second.
LEMMA SecondPaid ==
    ASSUME NEW n, NEW w \in [1..n -> Account], 1 \in 1..n, 2 \in 1..n,
           NEW m \in Nat, NEW d, w[1].data.len = 0 => d.len = 0,
           NEW v, v = [w EXCEPT ![1] = [w[1] EXCEPT !.lamports = w[1].lamports - m, !.data = d],
                                ![2].lamports = SatAdd(w[2].lamports, m)]
    PROVE  Exchanged(w, v) /\ NoneFilled(w, v)
<1> DEFINE left == w[1].lamports - m
           paid == SatAdd(w[2].lamports, m)
           new == [w[1] EXCEPT !.lamports = left, !.data = d]
           other == [w[2] EXCEPT !.lamports = paid]
<1>1. w[1] \in Account /\ w[2] \in Account
  OBVIOUS
<1>2. v = [w EXCEPT ![1] = new, ![2] = other]
  OBVIOUS
<1> HIDE DEF left, paid
<1>3. /\ new.lamports = left /\ new.data = d
      /\ other.lamports = paid /\ other.data = w[2].data
  BY <1>1 DEF Account, AccountOver
<1> HIDE DEF new, other
<1>4. /\ v[1] = new /\ v[2] = other
      /\ \A k \in DOMAIN w \ {1, 2} : v[k] = w[k]
  BY <1>2
<1>5. Exchanged(w, v)
  <2>1. /\ 1 \in DOMAIN w /\ 2 \in DOMAIN w /\ 1 # 2
        /\ v[1].lamports = w[1].lamports - m
        /\ v[2].lamports = SatAdd(w[2].lamports, m)
        /\ \A k \in DOMAIN w \ {1, 2} : v[k].lamports = w[k].lamports
    BY <1>3, <1>4 DEF left, paid
  <2> QED
    BY <2>1 DEF Exchanged
<1>6. ASSUME NEW i \in DOMAIN w, EmptySystemOwned(w[i])
      PROVE  v[i].data.len = 0
  BY <1>3, <1>4, <1>6 DEF EmptySystemOwned
<1> QED
  BY <1>5, <1>6 DEF NoneFilled

\* The lookup-table program: a payer pays for a new table, a recipient gets
\* what a closed one held.
LEMMA TableLamports ==
    ASSUME NEW ix \in Instructions, ix.program = TableId,
           NEW w \in [DOMAIN ix.metas -> Account], TableOk(ix, w, clock),
           NEW v, v = TablePost(ix, w, clock)
    PROVE  Exchanged(w, v) /\ NoneFilled(w, v)
<1>0. /\ DOMAIN ix.metas = 1..Len(ix.metas) /\ Len(ix.metas) \in Nat
      /\ ix.metas \in Seq(Meta)
  BY Copies, MetaList DEF Instruction
<1>1. CASE ix.op = "CreateLookupTable"
  <2> DEFINE new == [lamports |-> TableRent, data |-> NewTable(Key(ix, 2)),
                     owner |-> ix.program, executable |-> FALSE]
             payer == [w[3] EXCEPT !.lamports = w[3].lamports - TableRent]
  <2>1. CreateOk(ix, w) /\ v = CreatePost(ix, w)
    BY <1>1 DEF TableOk, TablePost
  <2>2. /\ 1 \in DOMAIN w /\ 3 \in DOMAIN w /\ w[1].lamports = 0
        /\ TableRent \in Nat /\ TableRent <= U64Max
    BY <1>0, <2>1, TableAssumption, AccountsAssumption DEF CreateOk, U64
  <2>3. v = [w EXCEPT ![3] = payer, ![1] = new]
    BY <2>1 DEF CreatePost
  <2>4. /\ payer.lamports = w[3].lamports - TableRent /\ payer.data = w[3].data
        /\ new.lamports = TableRent /\ new.owner = TableId
    BY <2>2 DEF Account, AccountOver
  <2> HIDE DEF new, payer
  <2>5. /\ v[1] = new /\ v[3] = payer
        /\ \A k \in DOMAIN w \ {1, 3} : v[k] = w[k]
    BY <2>2, <2>3
  <2>6. TableRent = SatAdd(w[1].lamports, TableRent)
    BY <2>2, AccountsAssumption DEF SatAdd
  <2>7. /\ 3 # 1
        /\ v[3].lamports = w[3].lamports - TableRent
        /\ v[1].lamports = SatAdd(w[1].lamports, TableRent)
        /\ \A k \in DOMAIN w \ {3, 1} : v[k].lamports = w[k].lamports
    BY <2>4, <2>5, <2>6
  <2>8. Exchanged(w, v)
    BY <2>2, <2>7 DEF Exchanged
  <2>9. NoneFilled(w, v)
    BY <2>4, <2>5, TableAssumption DEF NoneFilled, EmptySystemOwned
  <2> QED
    BY <2>8, <2>9
<1>2. CASE ix.op = "FreezeLookupTable"
  <2> DEFINE d == [w[1].data EXCEPT !.authority = NoKey]
  <2>1. FreezeOk(ix, w) /\ v = [w EXCEPT ![1].data = d]
    BY <1>2 DEF TableOk, TablePost, FreezePost
  <2>2. 1 \in DOMAIN w /\ IsTable(w[1].data)
    BY <1>0, <2>1 DEF FreezeOk, TableAuthority
  <2>3. w[1].data.len # 0
    BY <2>2, EpochBuffers DEF Account, AccountOver
  <2> HIDE DEF d
  <2> QED
    BY <1>0, <2>1, <2>3, FirstRewritten
<1>3. CASE ix.op = "ExtendLookupTable"
  <2> DEFINE d == [w[1].data EXCEPT !.addrs = w[1].data.addrs \o ix.keys,
                                    !.len = w[1].data.len + 32 * Len(ix.keys)]
  <2>1. ExtendOk(ix, w) /\ v = [w EXCEPT ![1].data = d]
    BY <1>3 DEF TableOk, TablePost, ExtendPost
  <2>2. 1 \in DOMAIN w /\ IsTable(w[1].data)
    BY <1>0, <2>1 DEF ExtendOk, TableAuthority
  <2>3. w[1].data.len # 0
    BY <2>2, EpochBuffers DEF Account, AccountOver
  <2> HIDE DEF d
  <2> QED
    BY <1>0, <2>1, <2>3, FirstRewritten
<1>4. CASE ix.op = "DeactivateLookupTable"
  <2> DEFINE d == [w[1].data EXCEPT !.deactivation = clock.slot]
  <2>1. DeactivateTableOk(ix, w) /\ v = [w EXCEPT ![1].data = d]
    BY <1>4 DEF TableOk, TablePost, DeactivateTablePost
  <2>2. 1 \in DOMAIN w /\ IsTable(w[1].data)
    BY <1>0, <2>1 DEF DeactivateTableOk, TableAuthority
  <2>3. w[1].data.len # 0
    BY <2>2, EpochBuffers DEF Account, AccountOver
  <2> HIDE DEF d
  <2> QED
    BY <1>0, <2>1, <2>3, FirstRewritten
<1>5. CASE ix.op = "CloseLookupTable"
  <2> DEFINE m == w[1].lamports
             paid == [w[3] EXCEPT !.lamports = SatAdd(w[3].lamports, m)]
             new == [w[1] EXCEPT !.lamports = 0, !.data = Blank(0), !.owner = SystemId]
  <2>1. CloseOk(ix, w, clock) /\ v = [w EXCEPT ![3] = paid, ![1] = new]
    BY <1>5 DEF TableOk, TablePost, ClosePost
  <2>2. 1 \in DOMAIN w /\ 3 \in DOMAIN w
    BY <1>0, <2>1 DEF CloseOk
  <2>3. m \in Nat
    BY <2>2, Numbers DEF Account, AccountOver
  <2>4. /\ paid.lamports = SatAdd(w[3].lamports, m) /\ paid.data = w[3].data
        /\ new.lamports = 0 /\ new.data.len = 0
    BY <2>2 DEF Account, AccountOver, Blank
  <2> HIDE DEF paid, new
  <2>5. /\ v[1] = new /\ v[3] = paid
        /\ \A k \in DOMAIN w \ {1, 3} : v[k] = w[k]
    BY <2>1, <2>2
  <2>6. /\ 1 # 3
        /\ v[1].lamports = w[1].lamports - m
        /\ v[3].lamports = SatAdd(w[3].lamports, m)
        /\ \A k \in DOMAIN w \ {1, 3} : v[k].lamports = w[k].lamports
    BY <2>3, <2>4, <2>5
  <2>7. Exchanged(w, v)
    BY <2>2, <2>3, <2>6 DEF Exchanged
  <2>8. NoneFilled(w, v)
    BY <2>4, <2>5 DEF NoneFilled, EmptySystemOwned
  <2> QED
    BY <2>7, <2>8
<1> QED
  BY <1>1, <1>2, <1>3, <1>4, <1>5 DEF TableOk

\* The stake program moves lamports in a withdrawal only.
LEMMA StakeLamports ==
    ASSUME NEW ix \in Instructions, ix.program = StakeId,
           NEW w \in [DOMAIN ix.metas -> Account], StakeOk(ix, w, clock, rent),
           NEW v, v = StakePost(ix, w, clock, rent)
    PROVE  Exchanged(w, v) /\ NoneFilled(w, v)
<1>0. /\ DOMAIN ix.metas = 1..Len(ix.metas) /\ Len(ix.metas) \in Nat
      /\ ix.metas \in Seq(Meta) /\ ix.amount \in Nat
  BY Copies, MetaList DEF Instruction
<1>1. 1 \in DOMAIN w /\ w[1].data.len # 0
  <2>1. /\ 1 \in DOMAIN w
        /\ w[1].data = Blank(StakeLen) \/ IsStake(w[1].data)
    BY <1>0 DEF StakeOk, InitializeStakeOk, AuthorizeOk, DelegateOk, WithdrawStakeOk,
                DeactivateStakeOk, IsDelegated
  <2> QED
    BY <2>1, EpochBuffers DEF Account, AccountOver, Blank, StakeLen
<1>2. CASE ix.op = "InitializeStake"
  <2> DEFINE d == NewStake(MinimumBalance(rent, StakeLen), ix.keys[1], ix.keys[2])
  <2>1. v = [w EXCEPT ![1].data = d]
    BY <1>2 DEF StakePost, InitializeStakePost
  <2> HIDE DEF d
  <2> QED
    BY <1>0, <1>1, <2>1, FirstRewritten
<1>3. CASE ix.op = "AuthorizeStake"
  <2> DEFINE d == IF ix.amount = 0 THEN [w[1].data EXCEPT !.staker = ix.key]
                                   ELSE [w[1].data EXCEPT !.withdrawer = ix.key]
  <2>1. v = [w EXCEPT ![1].data = d]
    BY <1>3 DEF StakePost, AuthorizePost
  <2> HIDE DEF d
  <2> QED
    BY <1>0, <1>1, <2>1, FirstRewritten
<1>4. CASE ix.op = "DelegateStake"
  <2> DEFINE d == Delegated(w[1].data, Key(ix, 2), w[1].lamports)
  <2>1. v = [w EXCEPT ![1].data = d]
    BY <1>4 DEF StakePost, DelegatePost
  <2> HIDE DEF d
  <2> QED
    BY <1>0, <1>1, <2>1, FirstRewritten
<1>5. CASE ix.op = "DeactivateStake"
  <2> DEFINE d == [w[1].data EXCEPT !.deactivation = clock.epoch]
  <2>1. v = [w EXCEPT ![1].data = d]
    BY <1>5 DEF StakePost, DeactivateStakePost
  <2> HIDE DEF d
  <2> QED
    BY <1>0, <1>1, <2>1, FirstRewritten
<1>6. CASE ix.op = "WithdrawStake"
  <2> DEFINE d == IF w[1].lamports - ix.amount = 0 THEN Blank(StakeLen) ELSE w[1].data
             m == ix.amount
  <2>1. 2 \in DOMAIN w
    BY <1>0, <1>6 DEF StakeOk, WithdrawStakeOk
  <2>2. v = [w EXCEPT ![1] = [w[1] EXCEPT !.lamports = w[1].lamports - m, !.data = d],
                      ![2].lamports = SatAdd(w[2].lamports, m)]
    BY <1>6 DEF StakePost, WithdrawStakePost
  <2>3. m \in Nat
    BY <1>0
  <2> HIDE DEF d, m
  <2> QED
    BY <1>0, <1>1, <2>1, <2>2, <2>3, SecondPaid
<1> QED
  BY <1>2, <1>3, <1>4, <1>5, <1>6 DEF StakeOk

\* Nor does the vote program otherwise.
LEMMA VoteLamports ==
    ASSUME NEW ix \in Instructions, ix.program = VoteId,
           NEW w \in [DOMAIN ix.metas -> Account], VoteOk(ix, w, rent),
           NEW v, v = VotePost(ix, w)
    PROVE  Exchanged(w, v) /\ NoneFilled(w, v)
<1>0. /\ DOMAIN ix.metas = 1..Len(ix.metas) /\ Len(ix.metas) \in Nat
      /\ ix.metas \in Seq(Meta) /\ ix.amount \in Nat
  BY Copies, MetaList DEF Instruction
<1>1. 1 \in DOMAIN w /\ w[1] \in Account /\ w[1].data \in Data
  BY <1>0 DEF VoteOk, InitializeVoteOk, AuthorizeVoteOk, WithdrawVoteOk,
              UpdateIdentityOk, UpdateCommissionOk, Account, AccountOver
<1>2. CASE ix.op = "InitializeVote"
  <2> DEFINE d == NewVote(w[1].data.len, ix.keys, ix.amount)
  <2>1. v = [w EXCEPT ![1].data = d] /\ d.len = w[1].data.len
    BY <1>2 DEF VotePost, InitializeVotePost, NewVote
  <2> HIDE DEF d
  <2> QED
    BY <1>0, <2>1, FirstRewritten
<1>3. CASE ix.op \in {"AuthorizeVote", "UpdateIdentity", "UpdateCommission"}
  <2>1. w[1].data \in VoteData
    BY <1>1, <1>3, DataKinds DEF VoteOk, AuthorizeVoteOk, UpdateIdentityOk, UpdateCommissionOk
  <2>2. PICK d : /\ v = [w EXCEPT ![1].data = d]
                 /\ \/ d = [w[1].data EXCEPT !.voter = ix.key]
                    \/ d = [w[1].data EXCEPT !.withdrawer = ix.key]
                    \/ d = [w[1].data EXCEPT !.node = Key(ix, 2)]
                    \/ d = [w[1].data EXCEPT !.commission = ix.amount]
    BY <1>3 DEF VotePost, AuthorizeVotePost, UpdateIdentityPost, UpdateCommissionPost
  <2>3. d.len = w[1].data.len
    BY <2>1, <2>2 DEF VoteData
  <2> QED
    BY <1>0, <2>2, <2>3, FirstRewritten
<1>4. CASE ix.op = "WithdrawVote"
  <2> DEFINE d == IF w[1].lamports - ix.amount = 0 THEN Blank(w[1].data.len) ELSE w[1].data
             m == ix.amount
  <2>1. 2 \in DOMAIN w
    BY <1>0, <1>4 DEF VoteOk, WithdrawVoteOk
  <2>2. v = [w EXCEPT ![1] = [w[1] EXCEPT !.lamports = w[1].lamports - m, !.data = d],
                      ![2].lamports = SatAdd(w[2].lamports, m)]
    BY <1>4 DEF VotePost, WithdrawVotePost
  <2>3. m \in Nat
    BY <1>0
  <2>4. d.len = w[1].data.len
    BY DEF Blank
  <2> HIDE DEF d, m
  <2> QED
    BY <1>0, <1>1, <2>1, <2>2, <2>3, <2>4, SecondPaid
<1> QED
  BY <1>2, <1>3, <1>4 DEF VoteOk

\* And the config program moves none.
LEMMA ConfigLamports ==
    ASSUME NEW ix \in Instructions,
           NEW w \in [DOMAIN ix.metas -> Account], NEW v, v = StorePost(ix, w)
    PROVE  Exchanged(w, v) /\ NoneFilled(w, v)
<1> DEFINE d == Written(w[1].data.len, ix.key, ix.amount)
<1>1. DOMAIN ix.metas = 1..Len(ix.metas)
  BY Copies, MetaList DEF Instruction
<1>2. v = [w EXCEPT ![1].data = d] /\ d.len = w[1].data.len
  BY DEF StorePost, Written, Blank
<1> HIDE DEF d
<1> QED
  BY <1>1, <1>2, FirstRewritten

\* So every instruction moves its lamports, if any, from one copy to another.
LEMMA InvokedLamports ==
    ASSUME IInv, NEW ix \in Instructions, NEW w \in [DOMAIN ix.metas -> Account],
           Invoked(ix, w).ok
    PROVE  Exchanged(w, Invoked(ix, w).w) /\ NoneFilled(w, Invoked(ix, w).w)
<1>1. CASE ix.program = TableId
  <2>1. TableOk(ix, w, clock) /\ Invoked(ix, w).w = TablePost(ix, w, clock)
    BY <1>1, EpochAssumption DEF Invoked
  <2> QED
    BY <1>1, <2>1, TableLamports
<1>2. CASE ix.program = StakeId
  <2>1. StakeOk(ix, w, clock, rent) /\ Invoked(ix, w).w = StakePost(ix, w, clock, rent)
    BY <1>2, EpochAssumption DEF Invoked
  <2> QED
    BY <1>2, <2>1, StakeLamports
<1>3. CASE ix.program = VoteId
  <2>1. VoteOk(ix, w, rent) /\ Invoked(ix, w).w = VotePost(ix, w)
    BY <1>3, EpochAssumption DEF Invoked
  <2> QED
    BY <1>3, <2>1, VoteLamports
<1>4. CASE ix.program = ConfigId
  <2>1. Invoked(ix, w).w = StorePost(ix, w)
    BY <1>4, EpochAssumption DEF Invoked
  <2> QED
    BY <2>1, ConfigLamports
<1>5. ix.program \in ProgramIds
  BY Copies DEF Instruction
<1> QED
  BY <1>1, <1>2, <1>3, <1>4, <1>5 DEF ProgramIds

\* What a dispatch that changes the list ran, and what validation saw.
LEMMA Changed ==
    ASSUME IInv, Dispatch, slice' # slice
    PROVE  LET ix == Head(todo)
               w == Resolve(ix.metas, slice)
               v == Invoked(ix, w).w
           IN  /\ ix \in Instructions /\ ix.metas \in Seq(Meta)
               /\ ix.program # SystemId
               /\ Keys(ix.metas) \subseteq DOMAIN slice
               /\ DOMAIN w = DOMAIN ix.metas
               /\ Exchanged(w, v) /\ NoneFilled(w, v)
               /\ slice' = Merge(ix.metas, slice, v)
               /\ ValidPostState(ix.program, ix.metas, slice, slice', policy)
<1> DEFINE ix == Head(todo)
           w == Resolve(ix.metas, slice)
<1>1. ix \in Instructions /\ Keys(ix.metas) \subseteq DOMAIN slice
  BY DEF Dispatch, IInv, TypeOK, Listed
<1>2. ix.metas \in Seq(Meta) /\ ix.program # SystemId
  BY <1>1, Copies, TableAssumption, StakeAssumption, VoteAssumption, ConfigAssumption
     DEF Instruction, ProgramIds
<1>3. slice' = Concluded(ix, slice, Invoked(ix, w), policy).accts
  BY DEF Dispatch, Outcome
<1>4. /\ Invoked(ix, w).ok
      /\ slice' = Validated(ix, slice, Merge(ix.metas, slice, Invoked(ix, w).w), policy).accts
  BY <1>3 DEF Concluded, Failed
<1>5. /\ slice' = Merge(ix.metas, slice, Invoked(ix, w).w)
      /\ ValidPostState(ix.program, ix.metas, slice, slice', policy)
  BY <1>4 DEF Validated, Failed
<1>6. w \in [DOMAIN ix.metas -> Account]
  <2>1. \A i \in DOMAIN ix.metas : ix.metas[i].key \in DOMAIN slice
    BY <1>1 DEF Keys
  <2> QED
    BY <2>1 DEF Resolve, IInv, TypeOK
<1> HIDE DEF ix, w
<1>7. Exchanged(w, Invoked(ix, w).w) /\ NoneFilled(w, Invoked(ix, w).w)
  BY <1>1, <1>4, <1>6, InvokedLamports
<1> QED
  BY <1>1, <1>2, <1>5, <1>6, <1>7 DEF ix, w

\* The lists before and after a dispatch.
LEMMA Ledgers ==
    ASSUME IInv, Dispatch
    PROVE  Ledger(slice) /\ Ledger(slice') /\ DOMAIN slice' = DOMAIN slice
<1>1. slice \in [DOMAIN slice -> Account] /\ IsFiniteSet(DOMAIN slice)
  BY FS_Subset, AccountsAssumption DEF IInv, TypeOK
<1>2. \A p \in Account : p.lamports \in Nat
  BY Numbers DEF Account, AccountOver
<1>3. DOMAIN slice' = DOMAIN slice /\ slice' \in [DOMAIN slice -> Account]
  BY DispatchFate
<1> QED
  BY <1>1, <1>2, <1>3 DEF Ledger

\* Under strict validation the sum stays: rule 2 could only be deceived by an
\* account made in the instruction, and rule 4 leaves that to the system
\* program, so that lookup tables cannot be created at all.
LEMMA StrictLamports ==
    ASSUME IInv, Dispatch, policy = "Strict"
    PROVE  Lamports(slice', DOMAIN slice) = Lamports(slice, DOMAIN slice)
<1> DEFINE ix == Head(todo)
           ms == ix.metas
           w == Resolve(ms, slice)
           v == Invoked(ix, w).w
<1>1. CASE slice' = slice
  BY <1>1
<1>2. CASE slice' # slice
  <2>1. /\ ms \in Seq(Meta) /\ ix.program # SystemId
        /\ Keys(ms) \subseteq DOMAIN slice
        /\ DOMAIN w = DOMAIN ms /\ NoneFilled(w, v)
        /\ slice' = Merge(ms, slice, v)
        /\ ValidPostState(ix.program, ms, slice, slice', "Strict")
    BY <1>2, Changed
  <2>2. Ledger(slice) /\ Ledger(slice') /\ DOMAIN slice' = DOMAIN slice
    BY Ledgers
  <2>3. ASSUME NEW a \in Created(slice, slice') PROVE FALSE
    <3>1. /\ a \in DOMAIN slice /\ EmptySystemOwned(slice[a])
          /\ slice'[a].owner # slice[a].owner \/ slice'[a].data.len # 0
      BY <2>3 DEF Created
    <3>2. slice'[a] # slice[a]
      BY <3>1 DEF EmptySystemOwned
    <3>3. a \in Keys(ms) /\ slice'[a] = v[LastMeta(ms, a)]
      BY <2>1, <3>1, <3>2 DEF Merge
    <3>4. /\ LastMeta(ms, a) \in DOMAIN ms
          /\ ms[LastMeta(ms, a)].key = a
      BY <2>1, <3>3, LastMetaOfKey
    <3>5. w[LastMeta(ms, a)] = slice[a]
      BY <3>4 DEF Resolve
    <3>6. AccountRules(ix.program, Writable(ms, a), slice[a], slice'[a])
      BY <2>1, <3>3 DEF ValidPostState
    <3>7. OwnerChangeAllowed(ix.program, slice[a], slice'[a])
      BY <3>2, <3>6 DEF AccountRules, ReadOnlyKept
    <3>8. slice[a].owner = SystemId /\ slice'[a].owner = SystemId
      BY <2>1, <3>1, <3>7 DEF OwnerChangeAllowed, EmptySystemOwned
    <3> HIDE DEF ix, ms, w, v
    <3>9. slice'[a].data.len = 0 \/ slice'[a].owner # SystemId
      BY <2>1, <3>1, <3>3, <3>4, <3>5 DEF NoneFilled
    <3> QED
      BY <3>1, <3>8, <3>9
  <2>4. Created(slice, slice') = {}
    BY <2>3
  <2>5. \A a \in DOMAIN slice \ Keys(ms) : slice'[a] = slice[a]
    BY <2>1 DEF Merge
  <2>6. Lamports(slice', {}) = 0
    BY <2>2, LamportsFew
  <2> HIDE DEF ix, ms, w, v
  <2>7. /\ Lamports(slice', DOMAIN slice')
             = Lamports(slice, DOMAIN slice) + Lamports(slice', Created(slice, slice'))
        /\ Lamports(slice, DOMAIN slice) \in Nat
    BY <2>1, <2>2, <2>5, StrictTotal
  <2> QED
    BY <2>2, <2>4, <2>6, <2>7
<1> QED
  BY <1>1, <1>2

\* Without validation the programs see to it themselves, unless what is paid
\* is more than the recipient has room for.
LEMMA LaxLamports ==
    ASSUME IInv, Dispatch, NoRepeats(Head(todo).metas)
    PROVE  \/ Lamports(slice', DOMAIN slice) = Lamports(slice, DOMAIN slice)
           \/ /\ Lamports(slice', DOMAIN slice) < Lamports(slice, DOMAIN slice)
              /\ \E a \in DOMAIN slice : slice'[a].lamports = U64Max
<1> DEFINE ix == Head(todo)
           ms == ix.metas
           w == Resolve(ms, slice)
           v == Invoked(ix, w).w
           before == Lamports(slice, DOMAIN slice)
           after == Lamports(slice', DOMAIN slice)
<1>1. CASE slice' = slice
  BY <1>1
<1>2. CASE slice' # slice
  <2>1. /\ ms \in Seq(Meta)
        /\ Keys(ms) \subseteq DOMAIN slice
        /\ DOMAIN w = DOMAIN ms /\ Exchanged(w, v)
        /\ slice' = Merge(ms, slice, v)
    BY <1>2, Changed
  <2>2. Ledger(slice) /\ Ledger(slice') /\ DOMAIN slice' = DOMAIN slice
    BY Ledgers
  <2>3. \A i, j \in DOMAIN ms : ms[i].key = ms[j].key => i = j
    BY DEF NoRepeats
  <2> HIDE DEF ix, ms, v
  <2>4. CASE \A i \in DOMAIN w : v[i].lamports = w[i].lamports
    <3>1. LET t == Merge(ms, slice, v)
          IN  Lamports(t, DOMAIN t) = Lamports(slice, DOMAIN slice)
      BY <2>1, <2>2, <2>4, CopiesAlike
    <3> QED
      BY <2>1, <2>2, <3>1
  <2>5. ASSUME NEW i \in DOMAIN ms, NEW j \in DOMAIN ms, NEW n \in Nat, i # j,
               v[i].lamports = w[i].lamports - n,
               v[j].lamports = SatAdd(w[j].lamports, n),
               \A k \in DOMAIN ms \ {i, j} : v[k].lamports = w[k].lamports
        PROVE  \/ after = before
               \/ after < before /\ \E a \in DOMAIN slice : slice'[a].lamports = U64Max
    <3>1. PairChanged(ms, slice, v, slice', i, j)
      BY <2>1, <2>2, <2>3, <2>5 DEF PairChanged
    <3>2. /\ v[i].lamports = Resolve(ms, slice)[i].lamports - n
          /\ v[j].lamports = SatAdd(Resolve(ms, slice)[j].lamports, n)
      BY <2>5
    <3> QED
      BY <2>2, <3>1, <3>2, OnePays
  <2> HIDE DEF w, before, after
  <2> QED
    BY <2>1, <2>4, <2>5 DEF Exchanged, before, after
<1> QED
  BY <1>1, <1>2

\* Lamports are kept, by validation whatever the metas, and without it by the
\* programs, up to what a full account has no room for.
THEOREM EpochLamportsKept == Spec => LamportsAddUp
<1>1. ASSUME IInv, [Next]_vars
      PROVE  LamportStep
  <2>1. SUFFICES ASSUME Dispatch
                 PROVE  LET before == Lamports(slice, DOMAIN slice)
                            after == Lamports(slice', DOMAIN slice)
                        IN  \/ after = before
                            \/ /\ policy = "Lax" /\ NoRepeats(Head(todo).metas)
                               /\ after < before
                               /\ \E a \in DOMAIN slice : slice'[a].lamports = U64Max
                            \/ policy = "Lax" /\ ~NoRepeats(Head(todo).metas)
    BY <1>1, DispatchingIsDispatch DEF LamportStep
  <2>2. policy \in {"Strict", "Lax"}
    BY <1>1 DEF IInv, TypeOK, Policies
  <2>3. CASE policy = "Strict"
    BY <1>1, <2>1, <2>3, StrictLamports
  <2>4. CASE policy = "Lax"
    BY <1>1, <2>1, <2>4, LaxLamports
  <2> QED
    BY <2>2, <2>3, <2>4
<1>2. IInv /\ [Next]_vars => [LamportStep]_vars
  BY <1>1
<1> QED
  BY <1>2, Inductive, PTL DEF Spec, LamportsAddUp
=============================================================================
