---------------------------- MODULE ForeignProofs ----------------------------
(***************************************************************************)
(* The C interface for any number of threads, any requests and any limit:  *)
(* its types, the one entry of an address, and that the calls of all       *)
(* threads are linearizable, step by step a refinement of AtomicInterface. *)
(*                                                                         *)
(* Only the holder of the mutex is past Acquire and before Release; so     *)
(* there is one call at most of which the others could see a half.         *)
(***************************************************************************)
EXTENDS ForeignInterface, EngineProofs

-----------------------------------------------------------------------------
(* Account lists.                                                          *)

\* No address has two entries.
Unique(list) == \A i, j \in DOMAIN list : list[i].addr = list[j].addr => i = j

\* A list's positions and entries.
LEMMA Listed ==
    ASSUME NEW list \in Seq(Entry)
    PROVE  /\ DOMAIN list = 1..Len(list) /\ Len(list) \in Nat
           /\ \A i \in DOMAIN list : /\ list[i] \in Entry
                                     /\ list[i].addr \in Addr /\ list[i].acct \in Account
<1>1. DOMAIN list = 1..Len(list) /\ Len(list) \in Nat
  BY LenProperties
<1>2. \A i \in DOMAIN list : list[i] \in Entry
  BY <1>1, ElementOfSeq
<1>3. \A e \in Entry : e.addr \in Addr /\ e.acct \in Account
  BY DEF Entry
<1> QED
  BY <1>1, <1>2, <1>3

\* A set of positions that is not empty has a first one.
LEMMA FirstExists ==
    ASSUME NEW n \in Nat, NEW I, I \subseteq 1..n, I # {}
    PROVE  Min(I) \in I
<1>1. I \subseteq Nat
  OBVIOUS
<1>2. PICK i \in I : \A j \in I : ~(<<j, i>> \in OpToRel(<, Nat))
  BY <1>1, WFMin, NatLessThanWellFounded
<1>3. \A j \in I : i <= j
  <2> SUFFICES ASSUME NEW j \in I
               PROVE  i <= j
    OBVIOUS
  <2>1. i \in Nat /\ j \in Nat /\ ~(j < i)
    BY <1>1, <1>2 DEF OpToRel
  <2> QED
    BY <2>1
<1> QED
  BY <1>3 DEF Min

\* What is found is the account of an entry.
LEMMA FoundType ==
    ASSUME NEW list \in Seq(Entry), NEW a, Places(list, a) # {}
    PROVE  /\ Min(Places(list, a)) \in DOMAIN list /\ list[Min(Places(list, a))].addr = a
           /\ Found(list, a) \in Account
<1> DEFINE I == Places(list, a)
<1>1. I \subseteq 1..Len(list) /\ Len(list) \in Nat
  BY Listed DEF Places
<1>2. Min(I) \in I
  BY <1>1, FirstExists
<1>3. Min(I) \in DOMAIN list /\ list[Min(I)].addr = a
  BY <1>2 DEF Places
<1> HIDE DEF I
<1> QED
  BY <1>3, Listed DEF Found, I

\* Seeding leaves a list, and one entry for an address.
LEMMA SeededType ==
    ASSUME NEW list \in Seq(Entry), NEW a \in Addr, NEW acct \in Account
    PROVE  /\ Seeded(list, a, acct) \in Seq(Entry)
           /\ Unique(list) => Unique(Seeded(list, a, acct))
<1> DEFINE e == [addr |-> a, acct |-> acct]
           i == Min(Places(list, a))
<1>1. e \in Entry /\ e.addr = a
  BY DEF Entry
<1>2. CASE Places(list, a) = {}
  <2>1. /\ Append(list, e) \in Seq(Entry)
        /\ Len(Append(list, e)) = Len(list) + 1
        /\ \A j \in 1..Len(list) : Append(list, e)[j] = list[j]
        /\ Append(list, e)[Len(list) + 1] = e
    BY <1>1, AppendProperties
  <2>2. /\ DOMAIN Append(list, e) = 1..(Len(list) + 1)
        /\ DOMAIN list = 1..Len(list) /\ Len(list) \in Nat
    BY <2>1, Listed
  <2>3. \A j \in DOMAIN list : list[j].addr # a
    BY <1>2 DEF Places
  <2> DEFINE new == Append(list, e)
  <2> HIDE DEF e, new
  <2>4. ASSUME Unique(list), NEW j \in DOMAIN new, NEW k \in DOMAIN new,
               new[j].addr = new[k].addr
        PROVE  j = k
    <3>1. /\ j \in DOMAIN list \/ j = Len(list) + 1
          /\ k \in DOMAIN list \/ k = Len(list) + 1
      BY <2>2 DEF new
    <3>2. \A m \in DOMAIN list : new[m] = list[m] /\ new[m].addr # a
      BY <2>1, <2>2, <2>3 DEF new
    <3>3. new[Len(list) + 1].addr = a
      BY <1>1, <2>1 DEF new
    <3> QED
      BY <2>4, <3>1, <3>2, <3>3 DEF Unique
  <2>5. Seeded(list, a, acct) = new
    BY <1>2 DEF Seeded, new, e
  <2> QED
    BY <2>1, <2>4, <2>5 DEF Unique, new
<1>3. CASE Places(list, a) # {}
  <2>1. i \in 1..Len(list) /\ i \in DOMAIN list
    BY <1>3, FoundType, Listed
  <2>2. Seeded(list, a, acct) = [list EXCEPT ![i] = [list[i] EXCEPT !.acct = acct]]
    BY <1>3 DEF Seeded
  <2>3. [list[i] EXCEPT !.acct = acct] \in Entry
        /\ [list[i] EXCEPT !.acct = acct].addr = list[i].addr
    BY <2>1, Listed DEF Entry
  <2> DEFINE f == [list[i] EXCEPT !.acct = acct]
             new == [list EXCEPT ![i] = f]
  <2> HIDE DEF i, f
  <2>4. /\ new \in Seq(Entry) /\ Len(new) = Len(list)
        /\ \A j \in 1..Len(list) : new[j] = IF j = i THEN f ELSE list[j]
    BY <2>1, <2>3, ExceptSeq DEF f
  <2>5. DOMAIN new = DOMAIN list /\ \A j \in DOMAIN list : new[j].addr = list[j].addr
    BY <2>1, <2>3, <2>4, Listed DEF f
  <2> QED
    BY <2>2, <2>4, <2>5 DEF Unique, f
<1> QED
  BY <1>2, <1>3

\* The list a dispatch leaves has the entries it had, with other accounts.
LEMMA RefilledType ==
    ASSUME NEW list \in Seq(Entry), NEW accts \in [DOMAIN AsSlice(list) -> Account]
    PROVE  /\ Refilled(list, accts) \in Seq(Entry)
           /\ Unique(list) => Unique(Refilled(list, accts))
<1> DEFINE new == Refilled(list, accts)
<1>1. /\ DOMAIN list = 1..Len(list) /\ Len(list) \in Nat
      /\ \A i \in DOMAIN list : list[i] \in Entry
  BY Listed
<1>2. \A i \in DOMAIN list : /\ list[i].addr \in DOMAIN AsSlice(list)
                             /\ accts[list[i].addr] \in Account
  BY DEF AsSlice
<1>3. DOMAIN new = DOMAIN list
  BY DEF Refilled
<1>4. \A i \in DOMAIN list : new[i] = [list[i] EXCEPT !.acct = accts[list[i].addr]]
  BY DEF Refilled
<1>5. new = [i \in 1..Len(list) |-> new[i]]
  BY <1>1 DEF Refilled
<1> HIDE DEF new
<1>6. \A i \in DOMAIN list : new[i] \in Entry /\ new[i].addr = list[i].addr
  BY <1>1, <1>2, <1>4 DEF Entry
<1>7. new \in [1..Len(list) -> Entry]
  BY <1>1, <1>5, <1>6
<1>8. new \in Seq(Entry)
  BY <1>1, <1>7
<1> QED
  BY <1>3, <1>6, <1>8 DEF Unique, new

\* What a dispatch may come to.
LEMMA RunType ==
    ASSUME NEW s \in Svm, NEW q \in Requests, NEW list \in Seq(Entry),
           NEW r \in Runs(s, q.ix, list)
    PROVE  /\ r.svm \in Svm /\ r.error \in Errors /\ r.list \in Seq(Entry)
           /\ Unique(list) => Unique(r.list)
<1> DEFINE S == AsSlice(list)
           ix == q.ix
<1>1. ix \in Instruction
  BY RequestAssumption DEF Request
<1>2. S \in [DOMAIN S -> Account]
  <2>1. ASSUME NEW i \in DOMAIN list
        PROVE  Found(list, list[i].addr) \in Account
    <3>1. Places(list, list[i].addr) # {}
      BY DEF Places
    <3> QED
      BY <3>1, FoundType
  <2> QED
    BY <2>1 DEF AsSlice
<1>3. PICK out : /\ r = [svm |-> Budgeted(s, ix, out.error), error |-> out.error,
                         list |-> Refilled(list, out.accts)]
                 /\ \/ out \in Outcomes(ix, S, Slot, EffectiveLimit(s), Policy)
                    \/ out = Failed(S, "UnknownProgram")
  BY DEF Runs
<1>4. out.accts \in [DOMAIN S -> Account] /\ out.error \in Errors
  <2> HIDE DEF S, ix
  <2>1. CASE out \in Outcomes(ix, S, Slot, EffectiveLimit(s), Policy)
    BY <1>1, <1>2, <2>1, OutcomeType, ForeignAssumption
  <2>2. CASE out = Failed(S, "UnknownProgram")
    BY <1>2, <2>2 DEF Failed, Errors
  <2> QED
    BY <1>3, <2>1, <2>2
<1>5. Budgeted(s, ix, out.error) \in Svm
  <2>1. ix.amount \in Nat
    BY <1>1, AccountsAssumption DEF Instruction, U64
  <2> HIDE DEF ix
  <2> QED
    BY <2>1 DEF Budgeted, Svm
<1>6. /\ Refilled(list, out.accts) \in Seq(Entry)
      /\ Unique(list) => Unique(Refilled(list, out.accts))
  BY <1>4, RefilledType
<1> QED
  BY <1>3, <1>4, <1>5, <1>6

\* Numbers that answer.
LEMMA AnswerTypes ==
    ASSUME NEW list \in Seq(Entry), NEW a, NEW n \in Nat
    PROVE  /\ Balance(list, a) \in Int /\ Copied(list, a, n) \in Int
           /\ \A m \in Int : Number(m) \in Answer
           /\ \A e \in Errors, l \in Seq(Entry) : Dispatched(e, l) \in Answer
<1>1. ASSUME Places(list, a) # {}
      PROVE  Found(list, a).lamports \in Nat /\ Found(list, a).data.len \in Nat
  <2>1. Found(list, a) \in Account
    BY <1>1, FoundType
  <2>2. Found(list, a).lamports \in U64 /\ Found(list, a).data.len \in Sizes
    BY <2>1 DEF Account, AccountOver, Data
  <2>3. Sizes \subseteq Nat
    BY SystemAssumption
  <2>4. U64 \subseteq Nat
    BY AccountsAssumption DEF U64
  <2> QED
    BY <2>2, <2>3, <2>4
<1>2. Balance(list, a) \in Int
  BY <1>1, AccountsAssumption DEF Balance, LamportsOf, Unknown
<1>3. \A m \in Nat : Min({m, n}) \in Int
  <2> SUFFICES ASSUME NEW m \in Nat
               PROVE  Min({m, n}) \in Int
    OBVIOUS
  <2> DEFINE I == {m, n}
  <2>1. I \subseteq Int /\ \E x \in I : \A y \in I : x <= y
    OBVIOUS
  <2> HIDE DEF I
  <2>2. Min(I) \in I
    BY <2>1 DEF Min
  <2> QED
    BY <2>1, <2>2 DEF I
<1>4. Copied(list, a, n) \in Int
  BY <1>1, <1>3 DEF Copied, Unknown
<1>5. <<>> \in Seq(Entry)
  OBVIOUS
<1> QED
  BY <1>2, <1>4, <1>5 DEF Number, Dispatched, Answer, Errors

-----------------------------------------------------------------------------
(* The inductive invariant.                                                *)

\* The stages at which the mutex is held.
Busy == {"inside", "halfway", "ran", "leaving"}

\* Who is past Acquire and before Release holds the mutex.
GuardHeld == \A t \in Threads : call[t].at \in Busy => guard = t

\* A handle is not freed under a call.
OpenForCalls == \A t \in Threads : call[t].at # "idle" => open

\* A call is half done only in the verbs that take two steps, and reads its
\* outcome from the start.
CallKeeps(c, out) ==
    /\ c.at = "halfway" => c.req.verb = "with_solana_runtime"
    /\ c.at = "ran" => c.req.verb = "dispatch" /\ Unique(c.post.list)
    /\ c.at # "reading" => c.read = <<>>
    /\ c.at = "reading" =>
           /\ Len(c.read) <= Len(out.list)
           /\ \A i \in 1..Len(c.read) : c.read[i] = out.list[i]

CallsKeep == \A t \in Threads : CallKeeps(call[t], outcome[t])

IInv ==
    /\ TypeOK /\ Unique(cache)
    /\ GuardHeld /\ OpenForCalls /\ CallsKeep

\* What a fresh handle and a fresh call are.
LEMMA FreshTypes ==
    /\ FreshSvm \in Svm /\ NoOutcome \in Outcome
    /\ Idle \in CallRecord /\ Idle.at = "idle" /\ Idle.read = <<>>
    /\ Number(0) \in Answer /\ Number(1) \in Answer
<1>1. FreshSvm \in Svm
  BY AccountsAssumption, ForeignAssumption DEF FreshSvm, Svm
<1>2. NoOutcome \in Outcome
  BY DEF NoOutcome, Outcome, Errors
<1>3. Number(0) \in Answer /\ Number(1) \in Answer
  BY DEF Number, Answer, Errors
<1>4. (CHOOSE q \in Requests : TRUE) \in Requests
  BY RequestAssumption
<1> QED
  BY <1>1, <1>2, <1>3, <1>4 DEF Idle, CallRecord, Stages

\* A call that goes from one record to another, with whatever else changes.
LEMMA CallSteps ==
    ASSUME IInv, NEW t \in Threads, NEW c \in CallRecord,
           call' = [call EXCEPT ![t] = c],
           svm' \in Svm, cache' \in Seq(Entry), Unique(cache'),
           open' = open, c.at # "idle" => open,
           guard' \in Threads \cup {Nobody},
           c.at \in Busy => guard' = t,
           guard' = guard \/ guard = Nobody \/ (guard = t /\ guard' = Nobody),
           outcome' = outcome \/ \E o \in Outcome : outcome' = [outcome EXCEPT ![t] = o],
           got' = got \/ \E a \in Answer : got' = [got EXCEPT ![t] = a],
           CallKeeps(c, outcome'[t])
    PROVE  IInv'
<1>1. TypeOK
  BY DEF IInv
<1>2. /\ call' \in [Threads -> CallRecord] /\ call'[t] = c
      /\ \A u \in Threads \ {t} : call'[u] = call[u]
  BY <1>1 DEF TypeOK
<1>3. /\ outcome' \in [Threads -> Outcome]
      /\ \A u \in Threads \ {t} : outcome'[u] = outcome[u]
  BY <1>1 DEF TypeOK
<1>4. got' \in [Threads -> Answer]
  BY <1>1 DEF TypeOK
<1>5. TypeOK'
  BY <1>1, <1>2, <1>3, <1>4 DEF TypeOK
<1>6. GuardHeld'
  <2>1. ASSUME NEW u \in Threads, u # t, call'[u].at \in Busy
        PROVE  guard' = u
    <3>1. guard = u
      BY <1>2, <2>1 DEF IInv, GuardHeld
    <3> QED
      BY <2>1, <3>1, NobodyAssumption
  <2> QED
    BY <1>2, <2>1 DEF GuardHeld
<1>7. OpenForCalls'
  BY <1>2 DEF OpenForCalls, IInv
<1>8. CallsKeep'
  BY <1>2, <1>3 DEF CallsKeep, IInv
<1> QED
  BY <1>5, <1>6, <1>7, <1>8 DEF IInv

\* What is known of a call.
LEMMA CallHas ==
    ASSUME IInv, NEW t \in Threads
    PROVE  /\ call[t] \in CallRecord /\ call[t].at \in Stages
           /\ call[t].req \in Requests /\ call[t].owned \in Svm
           /\ call[t].post \in Outcome /\ call[t].post.list \in Seq(Entry)
           /\ call[t].post.error \in Errors
           /\ call[t].answer \in Answer /\ call[t].read \in Seq(Entry)
           /\ outcome[t] \in Outcome /\ outcome[t].list \in Seq(Entry)
           /\ outcome[t].error \in Errors
           /\ CallKeeps(call[t], outcome[t])
<1>1. call[t] \in CallRecord /\ outcome[t] \in Outcome
  BY DEF IInv, TypeOK
<1>2. /\ call[t].at \in Stages /\ call[t].req \in Requests /\ call[t].owned \in Svm
      /\ call[t].post \in Outcome /\ call[t].answer \in Answer
      /\ call[t].read \in Seq(Entry)
  BY <1>1 DEF CallRecord
<1>3. \A o \in Outcome : o.list \in Seq(Entry) /\ o.error \in Errors
  BY DEF Outcome
<1> QED
  BY <1>1, <1>2, <1>3 DEF IInv, CallsKeep

\* Some fields of the request.
LEMMA RequestHas ==
    ASSUME NEW q \in Requests
    PROVE  q.addr \in Addr /\ q.acct \in Account /\ q.n \in Nat /\ q.verb \in Verbs
  BY RequestAssumption DEF Request

\* The work of a verb keeps the invariant.
LEMMA WorksKeeps ==
    ASSUME IInv, NEW t \in Threads, call[t].at \in {"inside", "halfway"},
           NEW s \in Svm, NEW list \in Seq(Entry), Unique(list), NEW answer \in Answer,
           Works(t, s, list, answer)
    PROVE  IInv'
<1> DEFINE c == [call[t] EXCEPT !.at = "leaving", !.answer = answer]
<1>1. call' = [call EXCEPT ![t] = c]
  BY DEF Works
<1>2. c \in CallRecord /\ c.at = "leaving" /\ c.read = call[t].read
  BY CallHas DEF CallRecord, Stages
<1>3. /\ svm' = s /\ cache' = list
      /\ open' = open /\ guard' = guard /\ outcome' = outcome /\ got' = got
  BY DEF Works
<1>4. guard = t /\ open /\ call[t].read = <<>>
  BY CallHas DEF IInv, GuardHeld, OpenForCalls, Busy, CallKeeps
<1> HIDE DEF c
<1>5. CallKeeps(c, outcome'[t])
  BY <1>2, <1>4 DEF CallKeeps
<1>6. guard' \in Threads \cup {Nobody}
  BY <1>3, <1>4
<1> QED
  BY <1>1, <1>2, <1>3, <1>4, <1>5, <1>6, CallSteps

\* A call that begins.
LEMMA CallInv ==
    ASSUME IInv, NEW t \in Threads, NEW q \in Requests, Call(t, q)
    PROVE  IInv'
<1> DEFINE c == [Idle EXCEPT !.at = "waiting", !.req = q]
<1>1. call' = [call EXCEPT ![t] = c]
  BY DEF Call
<1>2. c \in CallRecord /\ c.at = "waiting" /\ c.read = <<>>
  BY FreshTypes DEF CallRecord, Stages
<1>3. /\ svm' = svm /\ cache' = cache
      /\ open' = open /\ guard' = guard /\ outcome' = outcome /\ open
      /\ got' = [got EXCEPT ![t] = Number(0)]
  BY DEF Call
<1>4. \E a \in Answer : got' = [got EXCEPT ![t] = a]
  BY <1>3, FreshTypes
<1>5. /\ svm \in Svm /\ cache \in Seq(Entry) /\ Unique(cache)
      /\ guard \in Threads \cup {Nobody}
  BY DEF IInv, TypeOK
<1> HIDE DEF c
<1>6. CallKeeps(c, outcome'[t]) /\ c.at \notin Busy
  BY <1>2 DEF CallKeeps, Busy
<1> QED
  BY <1>1, <1>2, <1>3, <1>4, <1>5, <1>6, CallSteps

\* A thread that gets the mutex.
LEMMA AcquireInv ==
    ASSUME IInv, NEW t \in Threads, Acquire(t)
    PROVE  IInv'
<1> DEFINE c == [call[t] EXCEPT !.at = "inside"]
<1>1. call' = [call EXCEPT ![t] = c]
  BY DEF Acquire
<1>2. c \in CallRecord /\ c.at = "inside" /\ c.read = call[t].read
  BY CallHas DEF CallRecord, Stages
<1>3. /\ svm' = svm /\ cache' = cache
      /\ open' = open /\ guard = Nobody /\ guard' = t
      /\ outcome' = outcome /\ got' = got /\ call[t].at = "waiting"
  BY DEF Acquire, At
<1>4. /\ svm \in Svm /\ cache \in Seq(Entry) /\ Unique(cache) /\ open
      /\ call[t].read = <<>>
  BY <1>3, CallHas DEF IInv, TypeOK, OpenForCalls, CallKeeps
<1> HIDE DEF c
<1>5. CallKeeps(c, outcome'[t])
  BY <1>2, <1>4 DEF CallKeeps
<1> QED
  BY <1>1, <1>2, <1>3, <1>4, <1>5, CallSteps

\* A harness taken out of its handle.
LEMMA TakeInv ==
    ASSUME IInv, NEW t \in Threads, TakeHarness(t)
    PROVE  IInv'
<1> DEFINE c == [call[t] EXCEPT !.at = "halfway", !.owned = svm]
<1>1. call' = [call EXCEPT ![t] = c]
  BY DEF TakeHarness
<1>2. /\ call[t].at = "inside" /\ call[t].req.verb = "with_solana_runtime"
      /\ svm' = FreshSvm /\ cache' = cache
      /\ open' = open /\ guard' = guard /\ outcome' = outcome /\ got' = got
  BY DEF TakeHarness, Asked, At
<1>3. /\ svm \in Svm /\ cache \in Seq(Entry) /\ Unique(cache) /\ open
      /\ guard = t /\ call[t].read = <<>>
  BY <1>2, CallHas DEF IInv, TypeOK, GuardHeld, OpenForCalls, CallKeeps, Busy
<1>4. c \in CallRecord /\ c.at = "halfway" /\ c.read = <<>> /\ c.req = call[t].req
  BY <1>3, CallHas DEF CallRecord, Stages
<1> HIDE DEF c
<1>5. CallKeeps(c, outcome'[t])
  BY <1>2, <1>4 DEF CallKeeps
<1>6. guard' \in Threads \cup {Nobody}
  BY <1>2, <1>3
<1> QED
  BY <1>1, <1>2, <1>3, <1>4, <1>5, <1>6, FreshTypes, CallSteps

\* A dispatch's run.
LEMMA RunInv ==
    ASSUME IInv, NEW t \in Threads, Run(t)
    PROVE  IInv'
<1>1. /\ call[t].at = "inside" /\ call[t].req.verb = "dispatch"
      /\ cache' = cache
      /\ open' = open /\ guard' = guard /\ outcome' = outcome /\ got' = got
  BY DEF Run, Asked, At
<1>2. PICK r \in Runs(svm, call[t].req.ix, cache) :
          /\ svm' = r.svm
          /\ call' = [call EXCEPT ![t].at = "ran",
                          ![t].post = [error |-> r.error, list |-> r.list]]
  BY DEF Run
<1> DEFINE post == [error |-> r.error, list |-> r.list]
           c == [call[t] EXCEPT !.at = "ran", !.post = post]
<1>3. call' = [call EXCEPT ![t] = c]
  BY <1>2
<1>4. /\ svm \in Svm /\ cache \in Seq(Entry) /\ Unique(cache) /\ open
      /\ guard = t /\ call[t].read = <<>>
  BY <1>1, CallHas DEF IInv, TypeOK, GuardHeld, OpenForCalls, CallKeeps, Busy
<1>5. r.svm \in Svm /\ r.error \in Errors /\ r.list \in Seq(Entry) /\ Unique(r.list)
  BY <1>4, CallHas, RunType
<1>6. post \in Outcome /\ post.list = r.list
  BY <1>5 DEF Outcome
<1> HIDE DEF post
<1>7. /\ c \in CallRecord /\ c.at = "ran" /\ c.read = <<>> /\ c.req = call[t].req
      /\ c.post = post
  BY <1>4, <1>6, CallHas DEF CallRecord, Stages
<1> HIDE DEF c
<1>8. CallKeeps(c, outcome'[t])
  BY <1>1, <1>5, <1>6, <1>7 DEF CallKeeps
<1>9. guard' \in Threads \cup {Nobody}
  BY <1>1, <1>4
<1> QED
  BY <1>1, <1>2, <1>3, <1>4, <1>5, <1>7, <1>8, <1>9, CallSteps

\* A dispatch's cache and outcome.
LEMMA PublishInv ==
    ASSUME IInv, NEW t \in Threads, Publish(t)
    PROVE  IInv'
<1> DEFINE c == [call[t] EXCEPT !.at = "leaving"]
<1>1. call' = [call EXCEPT ![t] = c]
  BY DEF Publish
<1>2. /\ call[t].at = "ran" /\ cache' = call[t].post.list
      /\ outcome' = [outcome EXCEPT ![t] = call[t].post]
      /\ svm' = svm /\ open' = open /\ guard' = guard /\ got' = got
  BY DEF Publish, At
<1>3. /\ svm \in Svm /\ open /\ guard = t /\ call[t].read = <<>>
      /\ call[t].post.list \in Seq(Entry) /\ Unique(call[t].post.list)
      /\ call[t].post \in Outcome
  BY <1>2, CallHas DEF IInv, TypeOK, GuardHeld, OpenForCalls, CallKeeps, Busy
<1>4. c \in CallRecord /\ c.at = "leaving" /\ c.read = <<>>
  BY <1>3, CallHas DEF CallRecord, Stages
<1> HIDE DEF c
<1>5. CallKeeps(c, outcome'[t])
  BY <1>4 DEF CallKeeps
<1>6. guard' \in Threads \cup {Nobody}
  BY <1>2, <1>3
<1>7. \E o \in Outcome : outcome' = [outcome EXCEPT ![t] = o]
  BY <1>2, <1>3
<1> QED
  BY <1>1, <1>2, <1>3, <1>4, <1>5, <1>6, <1>7, CallSteps

\* A call that lets go of the mutex.
LEMMA ReleaseInv ==
    ASSUME IInv, NEW t \in Threads, Release(t)
    PROVE  IInv'
<1>1. /\ call[t].at = "leaving" /\ guard' = Nobody
      /\ svm' = svm /\ cache' = cache /\ open' = open /\ outcome' = outcome
  BY DEF Release, At
<1>2. /\ svm \in Svm /\ cache \in Seq(Entry) /\ Unique(cache) /\ open
      /\ guard = t /\ call[t].read = <<>>
  BY <1>1, CallHas DEF IInv, TypeOK, GuardHeld, OpenForCalls, CallKeeps, Busy
<1>3. CASE call[t].req.verb = "dispatch"
  <2> DEFINE c == [call[t] EXCEPT !.at = "reading"]
  <2>1. call' = [call EXCEPT ![t] = c] /\ got' = got
    BY <1>3 DEF Release
  <2>2. c \in CallRecord /\ c.at = "reading" /\ c.read = <<>>
    BY <1>2, CallHas DEF CallRecord, Stages
  <2> HIDE DEF c
  <2>3. Len(<<>>) = 0 /\ Len(outcome[t].list) \in Nat
    BY CallHas, LenProperties
  <2>4. CallKeeps(c, outcome'[t]) /\ c.at \notin Busy
    BY <1>1, <2>2, <2>3 DEF CallKeeps, Busy
  <2> QED
    BY <1>1, <1>2, <2>1, <2>2, <2>4, CallSteps
<1>4. CASE call[t].req.verb # "dispatch"
  <2>1. call' = [call EXCEPT ![t] = Idle] /\ got' = [got EXCEPT ![t] = call[t].answer]
    BY <1>4 DEF Release
  <2>2. \E a \in Answer : got' = [got EXCEPT ![t] = a]
    BY <2>1, CallHas
  <2>3. CallKeeps(Idle, outcome'[t]) /\ Idle.at \notin Busy
    BY FreshTypes DEF CallKeeps, Busy
  <2> QED
    BY <1>1, <1>2, <2>1, <2>2, <2>3, FreshTypes, CallSteps
<1> QED
  BY <1>3, <1>4

\* An account more that is read.
LEMMA ReadInv ==
    ASSUME IInv, NEW t \in Threads, ReadAccount(t)
    PROVE  IInv'
<1> DEFINE read == call[t].read
           list == outcome[t].list
           next == Append(read, list[Len(read) + 1])
           c == [call[t] EXCEPT !.read = next]
<1>1. call' = [call EXCEPT ![t] = c]
  BY DEF ReadAccount, AccountAt
<1>2. /\ call[t].at = "reading" /\ Len(read) < Len(list)
      /\ svm' = svm /\ cache' = cache /\ open' = open /\ guard' = guard
      /\ outcome' = outcome /\ got' = got
  BY DEF ReadAccount, At, AccountCount
<1>3. /\ svm \in Svm /\ cache \in Seq(Entry) /\ Unique(cache) /\ open
      /\ guard \in Threads \cup {Nobody}
  BY <1>2 DEF IInv, TypeOK, OpenForCalls
<1>4. /\ read \in Seq(Entry) /\ list \in Seq(Entry)
      /\ \A i \in 1..Len(read) : read[i] = list[i]
  BY <1>2, CallHas DEF CallKeeps
<1>5. Len(read) \in Nat /\ Len(list) \in Nat /\ Len(read) + 1 \in 1..Len(list)
  BY <1>2, <1>4, LenProperties
<1>6. list[Len(read) + 1] \in Entry
  BY <1>4, <1>5, ElementOfSeq
<1>7. /\ next \in Seq(Entry) /\ Len(next) = Len(read) + 1
      /\ \A i \in 1..Len(next) : next[i] = list[i]
  <2>1. /\ next \in Seq(Entry) /\ Len(next) = Len(read) + 1
        /\ \A i \in 1..Len(read) : next[i] = read[i]
        /\ next[Len(read) + 1] = list[Len(read) + 1]
    BY <1>4, <1>6, AppendProperties
  <2> HIDE DEF read, list, next
  <2>2. ASSUME NEW i \in 1..Len(next)
        PROVE  next[i] = list[i]
    <3>1. i \in 1..Len(read) \/ i = Len(read) + 1
      BY <1>5, <2>1
    <3> QED
      BY <1>4, <2>1, <3>1
  <2> QED
    BY <2>1, <2>2
<1> HIDE DEF next
<1>8. c \in CallRecord /\ c.at = "reading" /\ c.read = next
  BY <1>2, <1>7, CallHas DEF CallRecord
<1>9. outcome'[t].list = list
  BY <1>2
<1> HIDE DEF c, read, list
<1>10. CallKeeps(c, outcome'[t]) /\ c.at \notin Busy
  BY <1>5, <1>7, <1>8, <1>9 DEF CallKeeps, Busy
<1> QED
  BY <1>1, <1>2, <1>3, <1>8, <1>10, CallSteps

\* An outcome that is closed.
LEMMA CloseInv ==
    ASSUME IInv, NEW t \in Threads, CloseOutcome(t)
    PROVE  IInv'
<1>1. /\ call' = [call EXCEPT ![t] = Idle]
      /\ got' = [got EXCEPT ![t] = Dispatched(outcome[t].error, call[t].read)]
      /\ outcome' = [outcome EXCEPT ![t] = NoOutcome]
      /\ svm' = svm /\ cache' = cache /\ open' = open /\ guard' = guard
  BY DEF CloseOutcome
<1>2. /\ svm \in Svm /\ cache \in Seq(Entry) /\ Unique(cache)
      /\ guard \in Threads \cup {Nobody}
  BY DEF IInv, TypeOK
<1>3. Dispatched(outcome[t].error, call[t].read) \in Answer
  BY CallHas DEF Dispatched, Answer
<1>4. \E a \in Answer : got' = [got EXCEPT ![t] = a]
  BY <1>1, <1>3
<1>5. \E o \in Outcome : outcome' = [outcome EXCEPT ![t] = o]
  BY <1>1, FreshTypes
<1>6. CallKeeps(Idle, outcome'[t]) /\ Idle.at \notin Busy
  BY FreshTypes DEF CallKeeps, Busy
<1> QED
  BY <1>1, <1>2, <1>4, <1>5, <1>6, FreshTypes, CallSteps


\* One step of a verb that needs no second, and the second of the one that does.
LEMMA ServeInv ==
    ASSUME IInv, NEW t \in Threads,
           \/ SetAccount(t) \/ GetLamports(t) \/ GetAccountData(t)
           \/ SetComputeBudget(t) \/ PutHarness(t)
    PROVE  IInv'
<1> DEFINE q == call[t].req
<1>1. /\ svm \in Svm /\ cache \in Seq(Entry) /\ Unique(cache)
      /\ q.addr \in Addr /\ q.acct \in Account /\ q.n \in Nat
      /\ call[t].owned \in Svm
  BY CallHas, RequestHas DEF IInv, TypeOK
<1>2. CASE SetAccount(t)
  <2>1. call[t].at \in {"inside", "halfway"}
    BY <1>2 DEF SetAccount, Asked, At
  <2>2. /\ Seeded(cache, q.addr, q.acct) \in Seq(Entry)
        /\ Unique(Seeded(cache, q.addr, q.acct))
    BY <1>1, SeededType
  <2>3. Works(t, svm, Seeded(cache, q.addr, q.acct), Number(1))
    BY <1>2 DEF SetAccount
  <2> QED
    BY <1>1, <2>1, <2>2, <2>3, FreshTypes, WorksKeeps
<1>3. CASE GetLamports(t)
  <2>1. call[t].at \in {"inside", "halfway"}
    BY <1>3 DEF GetLamports, Asked, At
  <2>2. Number(Balance(cache, q.addr)) \in Answer
    BY <1>1, AnswerTypes
  <2>3. Works(t, svm, cache, Number(Balance(cache, q.addr)))
    BY <1>3 DEF GetLamports
  <2> QED
    BY <1>1, <2>1, <2>2, <2>3, WorksKeeps
<1>4. CASE GetAccountData(t)
  <2>1. call[t].at \in {"inside", "halfway"}
    BY <1>4 DEF GetAccountData, Asked, At
  <2>2. Number(Copied(cache, q.addr, q.n)) \in Answer
    BY <1>1, AnswerTypes
  <2>3. Works(t, svm, cache, Number(Copied(cache, q.addr, q.n)))
    BY <1>4 DEF GetAccountData
  <2> QED
    BY <1>1, <2>1, <2>2, <2>3, WorksKeeps
<1>5. CASE SetComputeBudget(t)
  <2>1. call[t].at \in {"inside", "halfway"}
    BY <1>5 DEF SetComputeBudget, Asked, At
  <2>2. [svm EXCEPT !.limit = q.n] \in Svm
    BY <1>1 DEF Svm
  <2>3. Works(t, [svm EXCEPT !.limit = q.n], cache, Number(0))
    BY <1>5 DEF SetComputeBudget
  <2> QED
    BY <1>1, <2>1, <2>2, <2>3, FreshTypes, WorksKeeps
<1>6. CASE PutHarness(t)
  <2>1. call[t].at \in {"inside", "halfway"}
    BY <1>6 DEF PutHarness, At
  <2>2. WithRuntime(call[t].owned) \in Svm
    BY <1>1, EngineAssumption, AccountsAssumption DEF WithRuntime, Svm
  <2>3. Works(t, WithRuntime(call[t].owned), cache, Number(0))
    BY <1>6 DEF PutHarness
  <2> QED
    BY <1>1, <2>1, <2>2, <2>3, FreshTypes, WorksKeeps
<1> QED
  BY <1>2, <1>3, <1>4, <1>5, <1>6

\* A handle that is freed.
LEMMA FreeInv ==
    ASSUME IInv, Free
    PROVE  IInv'
<1>1. /\ open' = FALSE /\ \A t \in Threads : call[t].at = "idle"
      /\ svm' = svm /\ cache' = cache /\ guard' = guard /\ call' = call
      /\ outcome' = outcome /\ got' = got
  BY DEF Free, At
<1> QED
  BY <1>1 DEF IInv, TypeOK, GuardHeld, OpenForCalls, CallsKeep

\* A fresh handle.
LEMMA InitInv == Init => IInv
<1> SUFFICES ASSUME Init
             PROVE  IInv
  OBVIOUS
<1>1. /\ svm = FreshSvm /\ cache = <<>> /\ open = TRUE /\ guard = Nobody
      /\ call = [t \in Threads |-> Idle]
      /\ outcome = [t \in Threads |-> NoOutcome]
      /\ got = [t \in Threads |-> Number(0)]
  BY DEF Init
<1>2. /\ svm \in Svm /\ open \in BOOLEAN /\ guard \in Threads \cup {Nobody}
      /\ call \in [Threads -> CallRecord] /\ outcome \in [Threads -> Outcome]
      /\ got \in [Threads -> Answer]
  BY <1>1, FreshTypes
<1>3. cache \in Seq(Entry) /\ Unique(cache)
  BY <1>1 DEF Unique
<1>4. \A t \in Threads : call[t].at = "idle" /\ call[t].read = <<>>
  BY <1>1, FreshTypes
<1>5. GuardHeld /\ OpenForCalls /\ CallsKeep
  BY <1>4 DEF GuardHeld, OpenForCalls, CallsKeep, CallKeeps, Busy
<1> QED
  BY <1>2, <1>3, <1>5 DEF IInv, TypeOK

\* Every step keeps the invariant.
LEMMA NextInv == IInv /\ [Next]_vars => IInv'
<1> SUFFICES ASSUME IInv, [Next]_vars
             PROVE  IInv'
  OBVIOUS
<1>1. ASSUME NEW t \in Threads, NEW q \in Requests, Call(t, q)
      PROVE  IInv'
  BY <1>1, CallInv
<1>2. ASSUME NEW t \in Threads, Acquire(t)
      PROVE  IInv'
  BY <1>2, AcquireInv
<1>3. ASSUME NEW t \in Threads, Proceed(t)
      PROVE  IInv'
  BY <1>3, ServeInv, TakeInv, RunInv, PublishInv, ReleaseInv, ReadInv, CloseInv
     DEF Proceed
<1>4. ASSUME Free
      PROVE  IInv'
  BY <1>4, FreeInv
<1>5. ASSUME UNCHANGED vars
      PROVE  IInv'
  BY <1>5 DEF vars, IInv, TypeOK, GuardHeld, OpenForCalls, CallsKeep
<1> QED
  BY <1>1, <1>2, <1>3, <1>4, <1>5 DEF Next

\* The invariant holds throughout.
LEMMA Inductive == Spec => []IInv
  BY InitInv, NextInv, PTL DEF Spec

\* Every variable keeps its type, whatever the threads call: every list that
\* a dispatch leaves in the cache or in an outcome holds accounts.
THEOREM ForeignTypes == Spec => []TypeOK
<1>1. IInv => TypeOK
  BY DEF IInv
<1> QED
  BY <1>1, Inductive, PTL

\* No address ever has two entries in the cached accounts (lib.rs:229-230).
THEOREM OneEntry == Spec => []OneEntryPerAddress
<1>1. IInv => OneEntryPerAddress
  BY DEF IInv, Unique, OneEntryPerAddress
<1> QED
  BY <1>1, Inductive, PTL

-----------------------------------------------------------------------------
(* The refinement.  What the others would see is written over the values   *)
(* of the variables, so that it can be said of a step's both states.       *)

SvmSeen(c, s) ==
    IF \E t \in Threads : c[t].at = "halfway"
    THEN c[CHOOSE t \in Threads : c[t].at = "halfway"].owned ELSE s

CacheSeen(c, list) ==
    IF \E t \in Threads : c[t].at = "ran"
    THEN c[CHOOSE t \in Threads : c[t].at = "ran"].post.list ELSE list

DueOf(c, out, last) ==
    IF c.at = "ran" THEN Dispatched(c.post.error, c.post.list)
    ELSE IF c.at = "leaving" /\ c.req.verb # "dispatch" THEN c.answer
    ELSE IF c.at = "leaving" \/ c.at = "reading" THEN Dispatched(out.error, out.list)
    ELSE last

Dues == [t \in Threads |-> Due(t)]

\* The calls of all threads but t.
Apart(t) == \A u \in Threads \ {t} :
                call'[u] = call[u] /\ outcome'[u] = outcome[u] /\ got'[u] = got[u]

\* Where only one call can be half done, it is the one that is seen.
LEMMA SeenAlone ==
    ASSUME NEW c, NEW s, NEW list, NEW t \in Threads,
           \A u \in Threads \ {t} : c[u].at \notin {"halfway", "ran"}
    PROVE  /\ SvmSeen(c, s) = IF c[t].at = "halfway" THEN c[t].owned ELSE s
           /\ CacheSeen(c, list) = IF c[t].at = "ran" THEN c[t].post.list ELSE list
<1>1. \A u \in Threads : c[u].at = "halfway" \/ c[u].at = "ran" => u = t
  OBVIOUS
<1>2. SvmSeen(c, s) = IF c[t].at = "halfway" THEN c[t].owned ELSE s
  <2>1. CASE c[t].at = "halfway"
    <3>1. (CHOOSE u \in Threads : c[u].at = "halfway") = t
      BY <1>1, <2>1
    <3> QED
      BY <2>1, <3>1 DEF SvmSeen
  <2>2. CASE c[t].at # "halfway"
    BY <1>1, <2>2 DEF SvmSeen
  <2> QED
    BY <2>1, <2>2
<1>3. CacheSeen(c, list) = IF c[t].at = "ran" THEN c[t].post.list ELSE list
  <2>1. CASE c[t].at = "ran"
    <3>1. (CHOOSE u \in Threads : c[u].at = "ran") = t
      BY <1>1, <2>1
    <3> QED
      BY <2>1, <3>1 DEF CacheSeen
  <2>2. CASE c[t].at # "ran"
    BY <1>1, <2>2 DEF CacheSeen
  <2> QED
    BY <2>1, <2>2
<1> QED
  BY <1>2, <1>3

\* A step of the mutex's holder.
LEMMA HolderView ==
    ASSUME IInv, NEW t \in Threads, guard = t, Apart(t)
    PROVE  /\ SeenSvm = IF call[t].at = "halfway" THEN call[t].owned ELSE svm
           /\ SeenCache = IF call[t].at = "ran" THEN call[t].post.list ELSE cache
           /\ SeenSvm' = IF call'[t].at = "halfway" THEN call'[t].owned ELSE svm'
           /\ SeenCache' = IF call'[t].at = "ran" THEN call'[t].post.list ELSE cache'
<1>1. \A u \in Threads \ {t} : /\ call[u].at \notin {"halfway", "ran"}
                               /\ call'[u].at \notin {"halfway", "ran"}
  BY DEF IInv, GuardHeld, Apart, Busy
<1>2. SeenSvm = SvmSeen(call, svm) /\ SeenCache = CacheSeen(call, cache)
  BY DEF SeenSvm, SeenCache, SvmSeen, CacheSeen, At
<1>3. SeenSvm' = SvmSeen(call', svm') /\ SeenCache' = CacheSeen(call', cache')
  BY DEF SeenSvm, SeenCache, SvmSeen, CacheSeen, At
<1> QED
  BY <1>1, <1>2, <1>3, SeenAlone

\* A step of another thread shows no half of a call and hides none.
LEMMA BystanderView ==
    ASSUME IInv, NEW t \in Threads, Apart(t), svm' = svm, cache' = cache,
           call[t].at \notin {"halfway", "ran"}, call'[t].at \notin {"halfway", "ran"}
    PROVE  SeenSvm' = SeenSvm /\ SeenCache' = SeenCache
<1>1. \A u \in Threads : u # t => call'[u] = call[u]
  BY DEF Apart
<1>2. \A u, v \in Threads : call[u].at \in Busy /\ call[v].at \in Busy => u = v
  BY DEF IInv, GuardHeld
<1>3. SeenSvm = SvmSeen(call, svm) /\ SeenCache = CacheSeen(call, cache)
  BY DEF SeenSvm, SeenCache, SvmSeen, CacheSeen, At
<1>4. SeenSvm' = SvmSeen(call', svm') /\ SeenCache' = CacheSeen(call', cache')
  BY DEF SeenSvm, SeenCache, SvmSeen, CacheSeen, At
<1>5. CASE \E h \in Threads : call[h].at \in {"halfway", "ran"}
  <2>1. PICK h \in Threads : call[h].at \in {"halfway", "ran"}
    BY <1>5
  <2>2. h # t /\ call'[h] = call[h] /\ call[h].at \in Busy
    BY <1>1, <2>1 DEF Busy
  <2>3. \A u \in Threads \ {h} : call[u].at \notin {"halfway", "ran"}
    BY <1>2, <2>2 DEF Busy
  <2>4. /\ SvmSeen(call, svm) = IF call[h].at = "halfway" THEN call[h].owned ELSE svm
        /\ CacheSeen(call, cache) = IF call[h].at = "ran" THEN call[h].post.list ELSE cache
    BY <2>3, SeenAlone
  <2>5. \A u \in Threads \ {h} : call'[u].at \notin {"halfway", "ran"}
    BY <1>1, <2>3
  <2>6. /\ SvmSeen(call', svm') = IF call'[h].at = "halfway" THEN call'[h].owned ELSE svm'
        /\ CacheSeen(call', cache')
             = IF call'[h].at = "ran" THEN call'[h].post.list ELSE cache'
    BY <2>5, SeenAlone
  <2> QED
    BY <1>3, <1>4, <2>2, <2>4, <2>6
<1>6. CASE \A h \in Threads : call[h].at \notin {"halfway", "ran"}
  <2>1. \A u \in Threads : call'[u].at \notin {"halfway", "ran"}
    BY <1>1, <1>6
  <2> QED
    BY <1>3, <1>4, <1>6, <2>1 DEF SvmSeen, CacheSeen
<1> QED
  BY <1>5, <1>6

\* What is due to the threads changes for the one that takes the step.
LEMMA DueStep ==
    ASSUME NEW t \in Threads, Apart(t)
    PROVE  /\ Dues[t] = DueOf(call[t], outcome[t], got[t])
           /\ Dues' = [Dues EXCEPT ![t] = DueOf(call'[t], outcome'[t], got'[t])]
<1>1. \A u \in Threads : Due(u) = DueOf(call[u], outcome[u], got[u])
  BY DEF Due, DueOf, At
<1>2. \A u \in Threads : Due(u)' = DueOf(call'[u], outcome'[u], got'[u])
  BY DEF Due, DueOf, At
<1>3. \A u \in Threads \ {t} : Due(u)' = Due(u)
  BY <1>1, <1>2 DEF Apart
<1>4. Dues' = [u \in Threads |-> Due(u)']
  BY DEF Dues
<1>5. Dues = [u \in Threads |-> Due(u)]
  BY DEF Dues
<1> QED
  BY <1>1, <1>2, <1>3, <1>4, <1>5

\* A step the others cannot see.
Hidden ==
    SeenSvm' = SeenSvm /\ SeenCache' = SeenCache /\ open' = open /\ Dues' = Dues

\* A step in which a call of t takes effect.
TakesHere(t, s, list, answer) ==
    /\ open /\ open' = open
    /\ SeenSvm' = s /\ SeenCache' = list
    /\ Dues' = [Dues EXCEPT ![t] = answer]

\* A step that leaves due what was due.
LEMMA DueKept ==
    ASSUME NEW t \in Threads, Apart(t),
           DueOf(call'[t], outcome'[t], got'[t]) = DueOf(call[t], outcome[t], got[t])
    PROVE  Dues' = Dues
<1>1. Dues' = [Dues EXCEPT ![t] = Dues[t]]
  BY DueStep
<1>2. Dues = [u \in Threads |-> Dues[u]]
  BY DEF Dues
<1> QED
  BY <1>1, <1>2

\* Whose step it is when a call's record changes.
LEMMA OneApart ==
    ASSUME IInv, NEW t \in Threads, NEW c, call' = [call EXCEPT ![t] = c],
           outcome' = outcome \/ \E o : outcome' = [outcome EXCEPT ![t] = o],
           got' = got \/ \E a : got' = [got EXCEPT ![t] = a]
    PROVE  Apart(t) /\ call'[t] = c
<1>1. /\ call \in [Threads -> CallRecord] /\ outcome \in [Threads -> Outcome]
      /\ got \in [Threads -> Answer]
  BY DEF IInv, TypeOK
<1>2. call'[t] = c /\ \A u \in Threads \ {t} : call'[u] = call[u]
  BY <1>1
<1>3. \A u \in Threads \ {t} : outcome'[u] = outcome[u]
  BY <1>1
<1>4. \A u \in Threads \ {t} : got'[u] = got[u]
  BY <1>1
<1> QED
  BY <1>2, <1>3, <1>4 DEF Apart

\* A thread that calls drops its last answer.
LEMMA CallSeen ==
    ASSUME IInv, NEW t \in Threads, NEW q \in Requests, Call(t, q)
    PROVE  /\ open /\ open' = open /\ SeenSvm' = SeenSvm /\ SeenCache' = SeenCache
           /\ Dues' = [Dues EXCEPT ![t] = Number(0)]
<1> DEFINE c == [Idle EXCEPT !.at = "waiting", !.req = q]
<1>1. /\ call' = [call EXCEPT ![t] = c] /\ got' = [got EXCEPT ![t] = Number(0)]
      /\ svm' = svm /\ cache' = cache /\ outcome' = outcome
      /\ call[t].at = "idle" /\ open /\ open' = open
  BY DEF Call, At
<1>2. c.at = "waiting"
  BY FreshTypes DEF CallRecord
<1> HIDE DEF c
<1>3. Apart(t) /\ call'[t] = c
  BY <1>1, OneApart
<1>4. got'[t] = Number(0)
  BY <1>1 DEF IInv, TypeOK
<1>5. DueOf(call'[t], outcome'[t], got'[t]) = Number(0)
  BY <1>2, <1>3, <1>4 DEF DueOf
<1> QED
  BY <1>1, <1>2, <1>3, <1>5, BystanderView, DueStep

\* To get the mutex shows nothing.
LEMMA AcquireSeen ==
    ASSUME IInv, NEW t \in Threads, Acquire(t)
    PROVE  Hidden
<1> DEFINE c == [call[t] EXCEPT !.at = "inside"]
<1>1. /\ call' = [call EXCEPT ![t] = c] /\ call[t].at = "waiting"
      /\ svm' = svm /\ cache' = cache /\ open' = open /\ outcome' = outcome /\ got' = got
  BY DEF Acquire, At
<1>2. c.at = "inside"
  BY CallHas DEF CallRecord
<1> HIDE DEF c
<1>3. Apart(t) /\ call'[t] = c
  BY <1>1, OneApart
<1>4. DueOf(call'[t], outcome'[t], got'[t]) = DueOf(call[t], outcome[t], got[t])
  BY <1>1, <1>2, <1>3 DEF DueOf
<1> QED
  BY <1>1, <1>2, <1>3, <1>4, BystanderView, DueKept DEF Hidden

\* The work of a verb is what the others see of its call.
LEMMA WorksSeen ==
    ASSUME IInv, NEW t \in Threads, call[t].at \in {"inside", "halfway"},
           call[t].req.verb # "dispatch",
           NEW s, NEW list, NEW answer, Works(t, s, list, answer)
    PROVE  TakesHere(t, s, list, answer)
<1> DEFINE c == [call[t] EXCEPT !.at = "leaving", !.answer = answer]
<1>1. /\ call' = [call EXCEPT ![t] = c] /\ svm' = s /\ cache' = list
      /\ open' = open /\ outcome' = outcome /\ got' = got
  BY DEF Works
<1>2. c.at = "leaving" /\ c.answer = answer /\ c.req = call[t].req
  BY CallHas DEF CallRecord
<1>3. guard = t /\ open
  BY DEF IInv, GuardHeld, OpenForCalls, Busy
<1> HIDE DEF c
<1>4. Apart(t) /\ call'[t] = c
  BY <1>1, OneApart
<1>5. DueOf(call'[t], outcome'[t], got'[t]) = answer
  BY <1>2, <1>4 DEF DueOf
<1>6. SeenSvm' = s /\ SeenCache' = list
  BY <1>1, <1>2, <1>3, <1>4, HolderView
<1> QED
  BY <1>1, <1>3, <1>4, <1>5, <1>6, DueStep DEF TakesHere

\* What a call that is inside finds is what the others see.
LEMMA InsideSees ==
    ASSUME IInv, NEW t \in Threads, call[t].at \in Busy
    PROVE  /\ call[t].at # "halfway" => SeenSvm = svm
           /\ call[t].at = "halfway" => SeenSvm = call[t].owned
           /\ call[t].at # "ran" => SeenCache = cache
<1>1. \A u \in Threads \ {t} : call[u].at \notin {"halfway", "ran"}
  BY DEF IInv, GuardHeld, Busy
<1>2. SeenSvm = SvmSeen(call, svm) /\ SeenCache = CacheSeen(call, cache)
  BY DEF SeenSvm, SeenCache, SvmSeen, CacheSeen, At
<1> QED
  BY <1>1, <1>2, SeenAlone

\* The harness that is away is the one that is seen.
LEMMA TakeSeen ==
    ASSUME IInv, NEW t \in Threads, TakeHarness(t)
    PROVE  Hidden
<1> DEFINE c == [call[t] EXCEPT !.at = "halfway", !.owned = svm]
<1>1. /\ call' = [call EXCEPT ![t] = c] /\ call[t].at = "inside"
      /\ cache' = cache /\ open' = open /\ outcome' = outcome /\ got' = got
  BY DEF TakeHarness, Asked, At
<1>2. c.at = "halfway" /\ c.owned = svm
  BY CallHas DEF CallRecord
<1> HIDE DEF c
<1>3. Apart(t) /\ call'[t] = c
  BY <1>1, OneApart
<1>4. DueOf(call'[t], outcome'[t], got'[t]) = DueOf(call[t], outcome[t], got[t])
  BY <1>1, <1>2, <1>3 DEF DueOf
<1>5. guard = t
  BY <1>1 DEF IInv, GuardHeld, Busy
<1> QED
  BY <1>1, <1>2, <1>3, <1>4, <1>5, HolderView, DueKept DEF Hidden

\* A dispatch takes effect when it has run.
LEMMA RunSeen ==
    ASSUME IInv, NEW t \in Threads, Run(t)
    PROVE  \E r \in Runs(SeenSvm, call[t].req.ix, SeenCache) :
               TakesHere(t, r.svm, r.list, Dispatched(r.error, r.list))
<1>1. /\ call[t].at = "inside" /\ cache' = cache
      /\ open' = open /\ outcome' = outcome /\ got' = got
  BY DEF Run, Asked, At
<1>2. PICK r \in Runs(svm, call[t].req.ix, cache) :
          /\ svm' = r.svm
          /\ call' = [call EXCEPT ![t].at = "ran",
                          ![t].post = [error |-> r.error, list |-> r.list]]
  BY DEF Run
<1> DEFINE post == [error |-> r.error, list |-> r.list]
           c == [call[t] EXCEPT !.at = "ran", !.post = post]
<1>3. call' = [call EXCEPT ![t] = c]
  BY <1>2
<1>4. c.at = "ran" /\ c.post = post
  BY CallHas DEF CallRecord
<1>5. post.error = r.error /\ post.list = r.list
  OBVIOUS
<1> HIDE DEF c, post
<1>6. guard = t /\ open
  BY <1>1 DEF IInv, GuardHeld, OpenForCalls, Busy
<1>7. Apart(t) /\ call'[t] = c
  BY <1>1, <1>3, OneApart
<1>8. DueOf(call'[t], outcome'[t], got'[t]) = Dispatched(r.error, r.list)
  BY <1>4, <1>5, <1>7 DEF DueOf
<1>9. SeenSvm' = r.svm /\ SeenCache' = r.list
  BY <1>2, <1>4, <1>5, <1>6, <1>7, HolderView
<1>10. SeenSvm = svm /\ SeenCache = cache
  BY <1>1, InsideSees DEF Busy
<1>11. TakesHere(t, r.svm, r.list, Dispatched(r.error, r.list))
  BY <1>1, <1>6, <1>7, <1>8, <1>9, DueStep DEF TakesHere
<1> QED
  BY <1>2, <1>10, <1>11

\* The cache and the outcome get what was seen already.
LEMMA PublishSeen ==
    ASSUME IInv, NEW t \in Threads, Publish(t)
    PROVE  Hidden
<1> DEFINE c == [call[t] EXCEPT !.at = "leaving"]
<1>1. /\ call' = [call EXCEPT ![t] = c] /\ call[t].at = "ran"
      /\ cache' = call[t].post.list /\ outcome' = [outcome EXCEPT ![t] = call[t].post]
      /\ svm' = svm /\ open' = open /\ got' = got
  BY DEF Publish, At
<1>2. c.at = "leaving" /\ c.req = call[t].req /\ c.req.verb = "dispatch"
  BY <1>1, CallHas DEF CallRecord, CallKeeps
<1> HIDE DEF c
<1>3. Apart(t) /\ call'[t] = c
  BY <1>1, OneApart
<1>4. outcome'[t] = call[t].post
  BY <1>1 DEF IInv, TypeOK
<1>5. DueOf(call'[t], outcome'[t], got'[t]) = DueOf(call[t], outcome[t], got[t])
  BY <1>1, <1>2, <1>3, <1>4 DEF DueOf
<1>6. guard = t
  BY <1>1 DEF IInv, GuardHeld, Busy
<1> QED
  BY <1>1, <1>2, <1>3, <1>5, <1>6, HolderView, DueKept DEF Hidden

\* To let go of the mutex shows nothing.
LEMMA ReleaseSeen ==
    ASSUME IInv, NEW t \in Threads, Release(t)
    PROVE  Hidden
<1>1. /\ call[t].at = "leaving" /\ svm' = svm /\ cache' = cache
      /\ open' = open /\ outcome' = outcome
  BY DEF Release, At
<1>2. guard = t
  BY <1>1 DEF IInv, GuardHeld, Busy
<1>3. CASE call[t].req.verb = "dispatch"
  <2> DEFINE c == [call[t] EXCEPT !.at = "reading"]
  <2>1. call' = [call EXCEPT ![t] = c] /\ got' = got
    BY <1>3 DEF Release
  <2>2. c.at = "reading"
    BY CallHas DEF CallRecord
  <2> HIDE DEF c
  <2>3. Apart(t) /\ call'[t] = c
    BY <1>1, <2>1, OneApart
  <2>4. DueOf(call'[t], outcome'[t], got'[t]) = DueOf(call[t], outcome[t], got[t])
    BY <1>1, <1>3, <2>2, <2>3 DEF DueOf
  <2> QED
    BY <1>1, <1>2, <2>2, <2>3, <2>4, HolderView, DueKept DEF Hidden
<1>4. CASE call[t].req.verb # "dispatch"
  <2>1. call' = [call EXCEPT ![t] = Idle] /\ got' = [got EXCEPT ![t] = call[t].answer]
    BY <1>4 DEF Release
  <2>2. Apart(t) /\ call'[t] = Idle
    BY <1>1, <2>1, OneApart
  <2>3. got'[t] = call[t].answer
    BY <2>1 DEF IInv, TypeOK
  <2>4. DueOf(call'[t], outcome'[t], got'[t]) = DueOf(call[t], outcome[t], got[t])
    BY <1>1, <1>4, <2>2, <2>3, FreshTypes DEF DueOf
  <2> QED
    BY <1>1, <1>2, <2>2, <2>4, FreshTypes, HolderView, DueKept DEF Hidden
<1> QED
  BY <1>3, <1>4

\* The answer is due while it is read.
LEMMA ReadSeen ==
    ASSUME IInv, NEW t \in Threads, ReadAccount(t)
    PROVE  Hidden
<1> DEFINE c == [call[t] EXCEPT !.read = Append(@, AccountAt(t, Len(@) + 1))]
<1>1. /\ call' = [call EXCEPT ![t] = c] /\ call[t].at = "reading"
      /\ svm' = svm /\ cache' = cache /\ open' = open /\ outcome' = outcome /\ got' = got
  BY DEF ReadAccount, At
<1>2. c.at = "reading"
  BY <1>1, CallHas DEF CallRecord
<1> HIDE DEF c
<1>3. Apart(t) /\ call'[t] = c
  BY <1>1, OneApart
<1>4. DueOf(call'[t], outcome'[t], got'[t]) = DueOf(call[t], outcome[t], got[t])
  BY <1>1, <1>2, <1>3 DEF DueOf
<1> QED
  BY <1>1, <1>2, <1>3, <1>4, BystanderView, DueKept DEF Hidden

\* What has been read one by one is what the outcome held.
LEMMA CloseSeen ==
    ASSUME IInv, NEW t \in Threads, CloseOutcome(t)
    PROVE  Hidden
<1> DEFINE read == call[t].read
           list == outcome[t].list
<1>1. /\ call' = [call EXCEPT ![t] = Idle] /\ call[t].at = "reading"
      /\ Len(read) = Len(list)
      /\ got' = [got EXCEPT ![t] = Dispatched(outcome[t].error, read)]
      /\ outcome' = [outcome EXCEPT ![t] = NoOutcome]
      /\ svm' = svm /\ cache' = cache /\ open' = open
  BY DEF CloseOutcome, At, AccountCount
<1>2. /\ read \in Seq(Entry) /\ list \in Seq(Entry)
      /\ \A i \in 1..Len(read) : read[i] = list[i]
  BY <1>1, CallHas DEF CallKeeps
<1>3. read = list
  <2> HIDE DEF read, list
  <2> QED
    BY <1>1, <1>2, SeqEqual
<1>4. Apart(t) /\ call'[t] = Idle
  BY <1>1, OneApart
<1>5. got'[t] = Dispatched(outcome[t].error, list)
  BY <1>1, <1>3 DEF IInv, TypeOK
<1>6. DueOf(call'[t], outcome'[t], got'[t]) = DueOf(call[t], outcome[t], got[t])
  BY <1>1, <1>4, <1>5, FreshTypes DEF DueOf
<1> QED
  BY <1>1, <1>4, <1>6, FreshTypes, BystanderView, DueKept DEF Hidden

\* The verbs that work in one visible step.
LEMMA ServeSeen ==
    ASSUME IInv, NEW t \in Threads,
           \/ SetAccount(t) \/ GetLamports(t) \/ GetAccountData(t)
           \/ SetComputeBudget(t) \/ PutHarness(t)
    PROVE  Atomic!Serve(t, call[t].req)
<1> DEFINE q == call[t].req
<1>1. CASE SetAccount(t)
  <2>1. /\ call[t].at = "inside" /\ q.verb = "set_account"
        /\ Works(t, svm, Seeded(cache, q.addr, q.acct), Number(1))
    BY <1>1 DEF SetAccount, Asked, At
  <2>2. TakesHere(t, svm, Seeded(cache, q.addr, q.acct), Number(1))
    BY <2>1, WorksSeen
  <2>3. SeenSvm = svm /\ SeenCache = cache
    BY <2>1, InsideSees DEF Busy
  <2> QED
    BY <2>1, <2>2, <2>3
       DEF TakesHere, Dues, Atomic!Serve, Atomic!SetAccount, Atomic!Takes
<1>2. CASE GetLamports(t)
  <2>1. /\ call[t].at = "inside" /\ q.verb = "get_lamports"
        /\ Works(t, svm, cache, Number(Balance(cache, q.addr)))
    BY <1>2 DEF GetLamports, Asked, At
  <2>2. TakesHere(t, svm, cache, Number(Balance(cache, q.addr)))
    BY <2>1, WorksSeen
  <2>3. SeenSvm = svm /\ SeenCache = cache
    BY <2>1, InsideSees DEF Busy
  <2> QED
    BY <2>1, <2>2, <2>3
       DEF TakesHere, Dues, Atomic!Serve, Atomic!GetLamports, Atomic!Takes
<1>3. CASE GetAccountData(t)
  <2>1. /\ call[t].at = "inside" /\ q.verb = "get_account_data"
        /\ Works(t, svm, cache, Number(Copied(cache, q.addr, q.n)))
    BY <1>3 DEF GetAccountData, Asked, At
  <2>2. TakesHere(t, svm, cache, Number(Copied(cache, q.addr, q.n)))
    BY <2>1, WorksSeen
  <2>3. SeenSvm = svm /\ SeenCache = cache
    BY <2>1, InsideSees DEF Busy
  <2> QED
    BY <2>1, <2>2, <2>3
       DEF TakesHere, Dues, Atomic!Serve, Atomic!GetAccountData, Atomic!Takes
<1>4. CASE SetComputeBudget(t)
  <2>1. /\ call[t].at = "inside" /\ q.verb = "set_compute_budget"
        /\ Works(t, [svm EXCEPT !.limit = q.n], cache, Number(0))
    BY <1>4 DEF SetComputeBudget, Asked, At
  <2>2. TakesHere(t, [svm EXCEPT !.limit = q.n], cache, Number(0))
    BY <2>1, WorksSeen
  <2>3. SeenSvm = svm /\ SeenCache = cache
    BY <2>1, InsideSees DEF Busy
  <2> QED
    BY <2>1, <2>2, <2>3
       DEF TakesHere, Dues, Atomic!Serve, Atomic!SetComputeBudget, Atomic!Takes
<1>5. CASE PutHarness(t)
  <2>1. /\ call[t].at = "halfway" /\ q.verb = "with_solana_runtime"
        /\ Works(t, WithRuntime(call[t].owned), cache, Number(0))
    BY <1>5, CallHas DEF PutHarness, At, CallKeeps
  <2>2. TakesHere(t, WithRuntime(call[t].owned), cache, Number(0))
    BY <2>1, WorksSeen
  <2>3. SeenSvm = call[t].owned /\ SeenCache = cache
    BY <2>1, InsideSees DEF Busy
  <2> QED
    BY <2>1, <2>2, <2>3
       DEF TakesHere, Dues, Atomic!Serve, Atomic!WithSolanaRuntime, Atomic!Takes
<1> QED
  BY <1>1, <1>2, <1>3, <1>4, <1>5

\* A dispatch, likewise.
LEMMA DispatchSeen ==
    ASSUME IInv, NEW t \in Threads, Run(t)
    PROVE  Atomic!Serve(t, call[t].req)
<1> DEFINE q == call[t].req
<1>1. q.verb = "dispatch"
  BY DEF Run, Asked
<1>2. PICK r \in Runs(SeenSvm, q.ix, SeenCache) :
          TakesHere(t, r.svm, r.list, Dispatched(r.error, r.list))
  BY RunSeen
<1>3. Atomic!Dispatch(t, q)
  BY <1>2 DEF TakesHere, Dues, Atomic!Dispatch, Atomic!Takes
<1> QED
  BY <1>1, <1>3 DEF Atomic!Serve

\* Every step is a step of the atomic interface, or a stutter.
LEMMA StepSeen == IInv /\ [Next]_vars => [Atomic!Next]_(Atomic!vars)
<1> SUFFICES ASSUME IInv, [Next]_vars
             PROVE  [Atomic!Next]_(Atomic!vars)
  OBVIOUS
<1>1. Hidden => UNCHANGED Atomic!vars
  BY DEF Hidden, Dues, Atomic!vars
<1>2. ASSUME NEW t \in Threads, NEW q \in Requests, Call(t, q)
      PROVE  Atomic!Next
  <2>1. Atomic!Ask(t)
    BY <1>2, CallSeen DEF Dues, Atomic!Ask
  <2> QED
    BY <2>1 DEF Atomic!Next
<1>3. ASSUME NEW t \in Threads, Acquire(t)
      PROVE  Hidden
  BY <1>3, AcquireSeen
<1>4. ASSUME NEW t \in Threads, Proceed(t)
      PROVE  Hidden \/ Atomic!Next
  <2>1. CASE Atomic!Serve(t, call[t].req)
    <3>1. call[t].req \in Requests
      BY CallHas
    <3> QED
      BY <2>1, <3>1 DEF Atomic!Next
  <2>2. CASE ~Atomic!Serve(t, call[t].req)
    BY <1>4, <2>2, ServeSeen, DispatchSeen,
       TakeSeen, PublishSeen, ReleaseSeen, ReadSeen, CloseSeen DEF Proceed
  <2> QED
    BY <2>1, <2>2
<1>5. ASSUME Free
      PROVE  Atomic!Next
  <2>1. /\ open' = FALSE /\ svm' = svm /\ cache' = cache /\ call' = call
        /\ outcome' = outcome /\ got' = got
    BY <1>5 DEF Free
  <2>2. SeenSvm' = SeenSvm /\ SeenCache' = SeenCache
    BY <2>1 DEF SeenSvm, SeenCache, At
  <2>3. Dues' = Dues
    BY <2>1 DEF Dues, Due, At
  <2>4. Atomic!Free
    BY <2>1, <2>2, <2>3 DEF Dues, Atomic!Free
  <2> QED
    BY <2>4 DEF Atomic!Next
<1>6. ASSUME UNCHANGED vars
      PROVE  Hidden
  <2>1. /\ open' = open /\ svm' = svm /\ cache' = cache /\ call' = call
        /\ outcome' = outcome /\ got' = got
    BY <1>6 DEF vars
  <2>2. SeenSvm' = SeenSvm /\ SeenCache' = SeenCache
    BY <2>1 DEF SeenSvm, SeenCache, At
  <2>3. Dues' = Dues
    BY <2>1 DEF Dues, Due, At
  <2> QED
    BY <2>1, <2>2, <2>3 DEF Hidden
<1> QED
  BY <1>1, <1>2, <1>3, <1>4, <1>5, <1>6 DEF Next

\* A fresh handle looks like one.
LEMMA InitSeen == Init => Atomic!Init
<1> SUFFICES ASSUME Init
             PROVE  Atomic!Init
  OBVIOUS
<1>1. \A t \in Threads : call[t] = Idle /\ got[t] = Number(0)
  BY DEF Init
<1>2. \A t \in Threads : call[t].at = "idle"
  BY <1>1, FreshTypes
<1>3. SeenSvm = svm /\ SeenCache = cache /\ \A t \in Threads : Due(t) = Number(0)
  BY <1>1, <1>2 DEF SeenSvm, SeenCache, Due, At
<1> QED
  BY <1>3 DEF Init, Atomic!Init

\* The calls of all threads on a handle are linearizable, for any number of
\* threads and whatever they call: a dispatch takes effect when it has run,
\* with_solana_runtime when the harness is back, and an outcome read account
\* by account is the cache as its dispatch left it (lib.rs:363-368).
THEOREM CallsLinearizable == Spec => Linearizable
  BY Inductive, InitSeen, StepSeen, PTL DEF Spec, Linearizable
=============================================================================
