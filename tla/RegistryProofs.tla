--------------------------- MODULE RegistryProofs ---------------------------
(***************************************************************************)
(* What a dispatch finds can run, and a known program does not fall        *)
(* between the layers, for any number of clones, programs and engines.     *)
(*                                                                         *)
(* No table is ever emptied (Grows), so what a call has read stays true    *)
(* while the call is on its way; Staged says, step by step, what that is.  *)
(***************************************************************************)
EXTENDS ProgramRegistries, TLAPS

\* The types of the tables and of the calls, with the history that TypeOK
\* leaves out.
Typed ==
    /\ TypeOK
    /\ last \in [AllEngines -> [Ids -> Reply]]

\* What the tables promise each other.
Tables ==
    /\ \A e \in AllEngines, i \in Ids : kinds[e][i] # NoKind => cache[e][i] # NoProgram
    /\ \A i \in Ids : elfs[i].loaded => cache[Inner][i] # NoProgram

\* What a call knows of the program and the engine it is about.
Placed(t) ==
    /\ Registering(t) =>
           /\ call[t].program \in Programs /\ call[t].engine \in AllEngines
           /\ call[t].kind \in Kinds
           /\ call[t].engine = Inner => call[t].kind \in Loaders
    /\ call[t].at = "insert" => call[t].engine = Inner
    /\ call[t].at \in {"route", "owner", "execute"} => call[t].engine \in AllEngines

\* What it relies on in the cache.
Cached(t) ==
    /\ call[t].at \in {"kind", "owner", "execute"} =>
           cache[call[t].engine][call[t].id] # NoProgram
    /\ call[t].at = "insert" /\ call[t].program \notin Broken =>
           cache[Inner][call[t].id] # NoProgram

\* What a dispatch of a known program has left to find.
Findable(t) ==
    call[t].known =>
        /\ call[t].at = "route" =>
               \/ kinds[call[t].engine][call[t].id] # NoKind
               \/ registry[call[t].id] # NoProgram
               \/ elfs[call[t].id] # Missing
        /\ call[t].at = "registry" =>
               registry[call[t].id] # NoProgram \/ elfs[call[t].id] # Missing
        /\ call[t].at = "bpf" => elfs[call[t].id] # Missing

Stage(t) == Placed(t) /\ Cached(t) /\ Findable(t)

IInv == Typed /\ Tables /\ \A t \in Threads : Stage(t)

\* No entry of a table is ever taken back.
Grows ==
    /\ \A e \in AllEngines, i \in Ids : cache[e][i] # NoProgram => cache'[e][i] # NoProgram
    /\ \A e \in AllEngines, i \in Ids : kinds[e][i] # NoKind => kinds'[e][i] # NoKind
    /\ \A i \in Ids : registry[i] # NoProgram => registry'[i] # NoProgram
    /\ \A i \in Ids : elfs[i] # Missing => elfs'[i] # Missing

\* The call of u stays where it is, about what it is about.
Stays(u) ==
    /\ call'[u].at = call[u].at /\ call'[u].engine = call[u].engine
    /\ call'[u].id = call[u].id /\ call'[u].program = call[u].program
    /\ call'[u].kind = call[u].kind /\ call'[u].known = call[u].known

-----------------------------------------------------------------------------

\* Strings and the records made of them.
LEMMA Constants ==
    /\ NoKind \notin Kinds /\ Loaders \subseteq Kinds /\ "Builtin" \in Kinds
    /\ Elfs \subseteq Programs /\ Functions \subseteq Programs
    /\ NoProgram \notin Programs
    /\ Inner \in AllEngines /\ Engines \subseteq AllEngines
    /\ Inner \notin Engines /\ NoEngine \notin AllEngines
BY RegistriesAssumption DEF Kinds, NoKind, Loaders, Programs, AllEngines

\* A reply of a program or of the loader is not the one of nobody.
LEMMA NotUnknown ==
    /\ LoadError # Unknown
    /\ \A p, k : /\ Runs("agave", p, k) # Unknown /\ Runs("bpf", p, k) # Unknown
                 /\ Runs("builtin", p, k) # Unknown
<1>1. /\ Unknown.by = "nobody" /\ LoadError.by = "loader"
      /\ \A p, k : /\ Runs("agave", p, k).by = "agave" /\ Runs("bpf", p, k).by = "bpf"
                   /\ Runs("builtin", p, k).by = "builtin"
  BY DEF Unknown, LoadError, Runs
<1> QED
  BY <1>1

\* What the tables answer is a reply.
LEMMA Replies ==
    /\ Unknown \in Reply /\ LoadError \in Reply
    /\ Unsettled \in Reply /\ Contested \in Reply
    /\ \A p \in Programs \cup {NoProgram}, k \in Kinds \cup {NoKind} :
           /\ Runs("agave", p, k) \in Reply /\ Runs("bpf", p, k) \in Reply
           /\ Runs("builtin", p, k) \in Reply
BY DEF Unknown, LoadError, Unsettled, Contested, Runs, Reply

\* A call that is not under way is the record of a call.
LEMMA IdleTyped == Idle \in CallRecord /\ Idle.at = "idle" /\ ~Idle.known
<1>1. Unknown \in Reply
  BY Replies
<1>2. SystemId \in Ids
  BY RegistriesAssumption
<1>3. Idle \in CallRecord
  BY <1>1, <1>2 DEF Idle, CallRecord
<1>4. Idle.at = "idle" /\ Idle.known = FALSE
  BY DEF Idle
<1> QED
  BY <1>3, <1>4

\* A call that stays where it is keeps its stage when the tables only grow.
LEMMA StageStays ==
    ASSUME Typed, NEW u \in Threads, Stage(u), Stays(u), Grows
    PROVE  Stage(u)'
<1>1. /\ call[u].id \in Ids /\ Inner \in AllEngines
  BY Constants DEF Typed, TypeOK, CallRecord
<1>2. Placed(u)'
  BY DEF Stage, Placed, Stays, Registering
<1>3. Cached(u)'
  <2>1. CASE call[u].at \in {"kind", "owner", "execute"}
    BY <1>1, <2>1 DEF Stage, Cached, Placed, Stays, Grows, Registering
  <2>2. CASE call[u].at = "insert"
    BY <1>1, <2>2 DEF Stage, Cached, Placed, Stays, Grows, Registering
  <2> QED
    BY <2>1, <2>2 DEF Stays, Cached
<1>4. Findable(u)'
  <2>1. CASE call[u].at = "route"
    BY <1>1, <2>1 DEF Stage, Placed, Findable, Stays, Grows
  <2>2. CASE call[u].at = "registry"
    BY <1>1, <2>2 DEF Stage, Findable, Stays, Grows
  <2>3. CASE call[u].at = "bpf"
    BY <1>1, <2>3 DEF Stage, Findable, Stays, Grows
  <2> QED
    BY <2>1, <2>2, <2>3 DEF Stays, Findable
<1> QED
  BY <1>2, <1>3, <1>4 DEF Stage

\* A thread that is idle is at no stage.
LEMMA StageIdle ==
    ASSUME NEW u \in Threads, call[u].at = "idle"
    PROVE  Stage(u)
BY DEF Stage, Placed, Cached, Findable, Registering

\* What is left to show of a step of t that changes no other call.
LEMMA StepOfOne ==
    ASSUME IInv, NEW t \in Threads, Grows, Typed', Tables', Stage(t)',
           \A u \in Threads \ {t} : Stays(u)
    PROVE  IInv'
<1> SUFFICES ASSUME NEW u \in Threads PROVE Stage(u)'
  BY DEF IInv
<1>1. CASE u = t
  BY <1>1
<1>2. CASE u # t
  BY <1>2, StageStays DEF IInv
<1> QED
  BY <1>1, <1>2

\* A step that changes no table.
LEMMA TablesStay ==
    ASSUME IInv, UNCHANGED tables
    PROVE  Grows /\ Tables'
BY DEF IInv, Tables, Grows, tables

\* The initial tables hold the two system programs and nothing else.
LEMMA InitIInv == Init => IInv
<1> SUFFICES ASSUME Init PROVE IInv
  OBVIOUS
<1> USE RegistriesAssumption, Constants, Replies
<1>1. SystemVm \in Programs /\ SystemSim \in Programs
  BY DEF Programs
<1>2. cache \in [AllEngines -> [Ids -> Programs \cup {NoProgram}]]
  BY <1>1 DEF Init
<1>3. kinds \in [AllEngines -> [Ids -> Kinds \cup {NoKind}]]
  BY DEF Init
<1>4. elfs \in [Ids -> [loader : Loaders \cup {NoKind}, loaded : BOOLEAN]]
  BY DEF Init, Missing
<1>5. call \in [Threads -> CallRecord] /\ \A t \in Threads : call[t].at = "idle"
  BY IdleTyped DEF Init
<1>6. /\ agave \in Engines \cup {NoEngine} /\ ran \in Reply
      /\ registry \in [Ids -> Programs \cup {NoProgram}]
      /\ last \in [AllEngines -> [Ids -> Reply]]
  BY <1>1 DEF Init
<1>7. Tables
  BY <1>1 DEF Tables, Init, Missing, NoKind
<1> QED
  BY <1>2, <1>3, <1>4, <1>5, <1>6, <1>7, StageIdle DEF IInv, Typed, TypeOK

-----------------------------------------------------------------------------
(* Registrations.                                                          *)

\* Starting one, wherever it goes.
LEMMA StartsStep ==
    ASSUME IInv, NEW t \in Threads, NEW e \in AllEngines, NEW i \in Ids,
           NEW p \in Programs, NEW k \in Kinds, e = Inner => k \in Loaders,
           Starts(t, e, i, p, k)
    PROVE  IInv' /\ call'[t].at = "load"
<1> DEFINE c == [Idle EXCEPT !.at = "load", !.engine = e, !.id = i, !.program = p,
                    !.kind = k, !.before = IF Rivals(e, i) = {} THEN last[e][i] ELSE Contested]
<1>1. Grows /\ Tables'
  BY TablesStay DEF Starts
<1>2. /\ c \in CallRecord
      /\ c.at = "load" /\ c.engine = e /\ c.program = p /\ c.kind = k /\ ~c.known
  <2>1. last[e][i] \in Reply /\ Contested \in Reply
    BY Replies DEF IInv, Typed
  <2>2. (IF Rivals(e, i) = {} THEN last[e][i] ELSE Contested) \in Reply
    BY <2>1
  <2> QED
    BY <2>2, IdleTyped DEF CallRecord, Idle
<1>3. call' = [call EXCEPT ![t] = c]
  BY DEF Starts
<1> HIDE DEF c
<1>4. call' \in [Threads -> CallRecord]
  BY <1>2, <1>3 DEF IInv, Typed, TypeOK
<1>5. call'[t] = c /\ \A u \in Threads \ {t} : call'[u] = call[u]
  BY <1>3 DEF IInv, Typed, TypeOK
<1>6. Typed'
  <2>1. last' \in [AllEngines -> [Ids -> Reply]]
    BY Replies DEF IInv, Typed, Starts
  <2> QED
    BY <1>4, <2>1, Replies DEF IInv, Typed, TypeOK, Starts, tables
<1>7. Stage(t)'
  BY <1>2, <1>5 DEF Stage, Placed, Cached, Findable, Registering
<1>8. \A u \in Threads \ {t} : Stays(u)
  BY <1>5 DEF Stays
<1> QED
  BY <1>1, <1>2, <1>5, <1>6, <1>7, <1>8, StepOfOne

\* The end of a registration, but for the tables.
LEMMA EndsStep ==
    ASSUME IInv, NEW t \in Threads, Registering(t), NEW what \in Reply, Ends(t, what)
    PROVE  /\ call' \in [Threads -> CallRecord]
           /\ last' \in [AllEngines -> [Ids -> Reply]]
           /\ call'[t] = Idle
           /\ \A u \in Threads \ {t} : Stays(u)
<1>1. call \in [Threads -> CallRecord] /\ call[t].engine \in AllEngines /\ call[t].id \in Ids
  BY DEF IInv, Typed, TypeOK, CallRecord, Stage, Placed
<1> DEFINE beaten(u) == IF u \in Rivals(call[t].engine, call[t].id)
                        THEN [call[u] EXCEPT !.before = Contested] ELSE call[u]
<1>2. ASSUME NEW u \in Threads
      PROVE  /\ beaten(u) \in CallRecord
             /\ beaten(u).at = call[u].at /\ beaten(u).engine = call[u].engine
             /\ beaten(u).id = call[u].id /\ beaten(u).program = call[u].program
             /\ beaten(u).kind = call[u].kind /\ beaten(u).known = call[u].known
  <2>1. call[u] \in CallRecord
    BY <1>1
  <2>2. [call[u] EXCEPT !.before = Contested] \in CallRecord
    BY <2>1, Replies DEF CallRecord
  <2> QED
    BY <2>1, <2>2 DEF CallRecord
<1>3. call' = [u \in Threads |-> IF u = t THEN Idle ELSE beaten(u)]
  BY DEF Ends
<1> HIDE DEF beaten
<1>4. call' \in [Threads -> CallRecord]
  BY <1>2, <1>3, IdleTyped
<1>5. call'[t] = Idle
  BY <1>3
<1>6. \A u \in Threads \ {t} : Stays(u)
  BY <1>2, <1>3 DEF Stays
<1>7. last' \in [AllEngines -> [Ids -> Reply]]
  BY <1>1 DEF Ends, IInv, Typed
<1> QED
  BY <1>4, <1>5, <1>6, <1>7

\* The bytes do not load.
LEMMA RefuseStep == ASSUME IInv, NEW t \in Threads, Refuse(t) PROVE IInv'
<1>1. Grows /\ Tables'
  BY TablesStay DEF Refuse
<1>2. Registering(t) /\ call[t] \in CallRecord /\ call[t].program \in Broken
  BY DEF Refuse, At, Registering, IInv, Typed, TypeOK
<1>3. CASE call[t].engine = Inner
  <2>1. call' = [call EXCEPT ![t].at = "insert"] /\ UNCHANGED last
    BY <1>3 DEF Refuse
  <2>2. /\ call'[t] \in CallRecord
        /\ call'[t].at = "insert" /\ call'[t].engine = Inner /\ call'[t].id = call[t].id
        /\ call'[t].program = call[t].program /\ call'[t].kind = call[t].kind
        /\ call'[t].known = call[t].known
        /\ call' \in [Threads -> CallRecord]
        /\ \A u \in Threads \ {t} : call'[u] = call[u]
    BY <1>2, <1>3, <2>1 DEF IInv, Typed, TypeOK, CallRecord
  <2>3. Typed'
    BY <2>1, <2>2, Replies DEF Refuse, IInv, Typed, TypeOK, tables
  <2>4. Stage(t)'
    <3>1. Placed(t)
      BY DEF IInv, Stage
    <3>2. Placed(t)'
      BY <1>2, <1>3, <2>2, <3>1 DEF Placed, Registering
    <3>3. Cached(t)' /\ Findable(t)'
      BY <1>2, <2>2 DEF Cached, Findable
    <3> QED
      BY <3>2, <3>3 DEF Stage
  <2> QED
    <3>1. \A u \in Threads \ {t} : Stays(u)
      BY <2>2 DEF Stays
    <3> QED
      BY <1>1, <2>3, <2>4, <3>1, StepOfOne
<1>4. CASE call[t].engine # Inner
  <2>1. Ends(t, call[t].before) /\ call[t].before \in Reply
    BY <1>2, <1>4 DEF Refuse, CallRecord
  <2>2. /\ call' \in [Threads -> CallRecord]
        /\ last' \in [AllEngines -> [Ids -> Reply]]
        /\ call'[t] = Idle
        /\ \A u \in Threads \ {t} : Stays(u)
    BY <1>2, <2>1, EndsStep
  <2>3. Typed'
    BY <2>2, Replies DEF Refuse, IInv, Typed, TypeOK, tables
  <2>4. Stage(t)'
    BY <2>2, IdleTyped DEF Stage, Placed, Cached, Findable, Registering
  <2> QED
    BY <1>1, <2>2, <2>3, <2>4, StepOfOne
<1> QED
  BY <1>3, <1>4

\* Entering a program in the cache or its kind, and leaving the engine.
LEMMA EnterStep == ASSUME IInv, NEW t \in Threads, Enter(t) PROVE IInv'
<1>1. /\ Registering(t) /\ call[t] \in CallRecord /\ call \in [Threads -> CallRecord]
      /\ call[t].engine \in AllEngines /\ call[t].id \in Ids
      /\ call[t].program \in Programs /\ call[t].kind \in Kinds
  <2>1. Registering(t)
    BY DEF Enter, At, Registering
  <2> QED
    BY <2>1 DEF IInv, Typed, TypeOK, CallRecord, Stage, Placed
<1>2. UNCHANGED <<agave, registry, elfs>> /\ ran' = Unknown
  BY DEF Enter
<1>3. CASE At(t, "load")
  <2>1. /\ call[t].at = "load" /\ call[t].program \notin Broken
        /\ cache' = [cache EXCEPT ![call[t].engine][call[t].id] = call[t].program]
        /\ UNCHANGED <<kinds, last>>
        /\ call' = [call EXCEPT ![t].at = "kind"]
    BY <1>3 DEF Enter, EnterCache, At
  <2>2. /\ cache' \in [AllEngines -> [Ids -> Programs \cup {NoProgram}]]
        /\ cache'[call[t].engine][call[t].id] # NoProgram
        /\ \A e \in AllEngines, i \in Ids : cache[e][i] # NoProgram => cache'[e][i] # NoProgram
    BY <1>1, <2>1, Constants DEF IInv, Typed, TypeOK
  <2>3. Grows /\ Tables'
    BY <1>2, <2>1, <2>2, Constants DEF Grows, Tables, IInv
  <2>4. /\ call'[t].at = "kind" /\ call'[t].engine = call[t].engine
        /\ call'[t].id = call[t].id /\ call'[t].program = call[t].program
        /\ call'[t].kind = call[t].kind
        /\ call' \in [Threads -> CallRecord]
        /\ \A u \in Threads \ {t} : call'[u] = call[u]
    BY <1>1, <2>1 DEF CallRecord
  <2>5. Typed'
    BY <1>2, <2>1, <2>2, <2>4, Replies DEF IInv, Typed, TypeOK
  <2>6. Stage(t)'
    BY <1>1, <2>2, <2>4 DEF IInv, Stage, Placed, Cached, Findable, Registering
  <2>7. \A u \in Threads \ {t} : Stays(u)
    BY <2>4 DEF Stays
  <2> QED
    BY <2>3, <2>5, <2>6, <2>7, StepOfOne
<1>4. CASE At(t, "kind")
  <2>1. /\ call[t].at = "kind"
        /\ kinds' = [kinds EXCEPT ![call[t].engine][call[t].id] = call[t].kind]
        /\ UNCHANGED cache
        /\ Entered(t)
    BY <1>4 DEF Enter, EnterKind, At
  <2>2. cache[call[t].engine][call[t].id] # NoProgram
    BY <2>1 DEF IInv, Stage, Cached
  <2>3. /\ kinds' \in [AllEngines -> [Ids -> Kinds \cup {NoKind}]]
        /\ \A e \in AllEngines, i \in Ids : kinds[e][i] # NoKind => kinds'[e][i] # NoKind
        /\ \A e \in AllEngines, i \in Ids :
               kinds'[e][i] # kinds[e][i] => e = call[t].engine /\ i = call[t].id
    BY <1>1, <2>1, Constants DEF IInv, Typed, TypeOK
  <2>4. Grows
    BY <1>2, <2>1, <2>3 DEF Grows
  <2>5. Tables'
    BY <1>2, <2>1, <2>2, <2>3, Constants DEF Tables, IInv
  <2>6. CASE call[t].engine = Inner
    <3>1. call' = [call EXCEPT ![t].at = "insert"] /\ UNCHANGED last
      BY <2>1, <2>6 DEF Entered
    <3>2. /\ call'[t].at = "insert" /\ call'[t].engine = call[t].engine
          /\ call'[t].id = call[t].id /\ call'[t].program = call[t].program
          /\ call'[t].kind = call[t].kind
          /\ call' \in [Threads -> CallRecord]
          /\ \A u \in Threads \ {t} : call'[u] = call[u]
      BY <1>1, <3>1 DEF CallRecord
    <3>3. Typed'
      BY <1>2, <2>1, <2>3, <3>1, <3>2, Replies DEF IInv, Typed, TypeOK
    <3>4. Stage(t)'
      BY <1>1, <2>1, <2>2, <2>6, <3>2 DEF IInv, Stage, Placed, Cached, Findable, Registering
    <3>5. \A u \in Threads \ {t} : Stays(u)
      BY <3>2 DEF Stays
    <3> QED
      BY <2>4, <2>5, <3>3, <3>4, <3>5, StepOfOne
  <2>7. CASE call[t].engine # Inner
    <3>1. /\ Ends(t, Runs("agave", call[t].program, call[t].kind))
          /\ Runs("agave", call[t].program, call[t].kind) \in Reply
      BY <1>1, <2>1, <2>7, Replies DEF Entered
    <3>2. /\ call' \in [Threads -> CallRecord]
          /\ last' \in [AllEngines -> [Ids -> Reply]]
          /\ call'[t] = Idle
          /\ \A u \in Threads \ {t} : Stays(u)
      BY <1>1, <3>1, EndsStep
    <3>3. Typed'
      BY <1>2, <2>1, <2>3, <3>2, Replies DEF IInv, Typed, TypeOK
    <3>4. Stage(t)'
      BY <3>2, IdleTyped DEF Stage, Placed, Cached, Findable, Registering
    <3> QED
      BY <2>4, <2>5, <3>2, <3>3, <3>4, StepOfOne
  <2> QED
    BY <2>6, <2>7
<1> QED
  BY <1>3, <1>4 DEF Enter

\* Writing the record of an ELF.
LEMMA InsertElfStep == ASSUME IInv, NEW t \in Threads, InsertElf(t) PROVE IInv'
<1>1. /\ Registering(t) /\ call[t].at = "insert" /\ call[t].engine = Inner
      /\ call[t].id \in Ids /\ call[t].program \in Programs
      /\ call[t].kind \in Loaders
  <2>1. call[t].at = "insert" /\ Registering(t)
    BY DEF InsertElf, At, Registering
  <2> QED
    BY <2>1 DEF IInv, Typed, TypeOK, CallRecord, Stage, Placed
<1> DEFINE elf == ElfRecord(call[t].program, call[t].kind, elfs[call[t].id])
<1>2. /\ elf \in [loader : Loaders \cup {NoKind}, loaded : BOOLEAN]
      /\ elf # Missing
      /\ elf.loaded => cache[Inner][call[t].id] # NoProgram
  <2>1. elf.loader = call[t].kind /\ elf.loaded = (call[t].program \notin Broken)
    BY DEF ElfRecord
  <2>2. Missing.loader \notin Loaders
    BY Constants DEF Missing
  <2>3. elf \in [loader : Loaders \cup {NoKind}, loaded : BOOLEAN]
    BY <1>1 DEF ElfRecord
  <2>4. call[t].program \notin Broken => cache[Inner][call[t].id] # NoProgram
    BY <1>1 DEF IInv, Stage, Cached
  <2> HIDE DEF elf
  <2> QED
    BY <1>1, <2>1, <2>2, <2>3, <2>4
<1>3. /\ elfs' = [elfs EXCEPT ![call[t].id] = elf]
      /\ UNCHANGED <<agave, cache, kinds, registry>> /\ ran' = Unknown
  BY DEF InsertElf
<1> HIDE DEF elf
<1>4. elfs' \in [Ids -> [loader : Loaders \cup {NoKind}, loaded : BOOLEAN]]
  BY <1>2, <1>3 DEF IInv, Typed, TypeOK
<1>5. \A i \in Ids : elfs'[i] = (IF i = call[t].id THEN elf ELSE elfs[i])
  BY <1>3 DEF IInv, Typed, TypeOK
<1>6. Grows /\ Tables'
  BY <1>2, <1>3, <1>5 DEF Grows, Tables, IInv
<1>7. /\ call' \in [Threads -> CallRecord]
      /\ last' \in [AllEngines -> [Ids -> Reply]]
      /\ call'[t] = Idle
      /\ \A u \in Threads \ {t} : Stays(u)
  <2>1. Runs("bpf", call[t].program, call[t].kind) \in Reply /\ LoadError \in Reply
    BY <1>1, Replies, Constants
  <2>2. PICK what \in Reply : Ends(t, what)
    BY <2>1 DEF InsertElf
  <2> QED
    BY <1>1, <2>2, EndsStep
<1>8. Typed'
  BY <1>3, <1>4, <1>7, Replies DEF IInv, Typed, TypeOK
<1>9. Stage(t)'
  BY <1>7, IdleTyped DEF Stage, Placed, Cached, Findable, Registering
<1> QED
  BY <1>6, <1>7, <1>8, <1>9, StepOfOne

-----------------------------------------------------------------------------
(* The layers.                                                             *)

\* A step of a dispatch: t's call moves, and nothing else.
LEMMA Moves ==
    ASSUME IInv, NEW t \in Threads, UNCHANGED <<tables, last>>, ran' \in Reply,
           NEW c \in CallRecord, call' = [call EXCEPT ![t] = c],
           call'[t] = c => Stage(t)'
    PROVE  IInv'
<1>1. /\ call' \in [Threads -> CallRecord] /\ call'[t] = c
      /\ \A u \in Threads \ {t} : call'[u] = call[u]
  BY DEF IInv, Typed, TypeOK
<1>2. Grows /\ Tables'
  BY TablesStay
<1>3. Typed'
  BY <1>1 DEF IInv, Typed, TypeOK, tables
<1>4. \A u \in Threads \ {t} : Stays(u)
  BY <1>1 DEF Stays
<1> QED
  BY <1>1, <1>2, <1>3, <1>4, StepOfOne

\* with_builtin and set_agave_engine.
LEMMA WithBuiltinStep ==
    ASSUME IInv, NEW t \in Threads, NEW i \in Ids, NEW p \in Functions, WithBuiltin(t, i, p)
    PROVE  IInv'
<1>1. /\ registry' = [registry EXCEPT ![i] = p] /\ ran' = Unknown
      /\ UNCHANGED <<agave, cache, kinds, elfs, call, last>>
  BY DEF WithBuiltin
<1>2. p \in Programs /\ p # NoProgram
  BY Constants
<1>3. /\ registry' \in [Ids -> Programs \cup {NoProgram}]
      /\ \A j \in Ids : registry[j] # NoProgram => registry'[j] # NoProgram
  BY <1>1, <1>2 DEF IInv, Typed, TypeOK
<1>4. Grows /\ Tables'
  BY <1>1, <1>3 DEF Grows, Tables, IInv
<1>5. Typed'
  BY <1>1, <1>3, Replies DEF IInv, Typed, TypeOK
<1>6. \A u \in Threads : Stays(u)
  BY <1>1 DEF Stays
<1> QED
  BY <1>4, <1>5, <1>6, StageStays DEF IInv

\* Another engine is installed: nobody's place in the tables is lost.
LEMMA SetAgaveEngineStep ==
    ASSUME IInv, NEW t \in Threads, NEW e \in Engines, SetAgaveEngine(t, e)
    PROVE  IInv'
<1>1. /\ agave' = e /\ ran' = Unknown
      /\ UNCHANGED <<cache, kinds, registry, elfs, call, last>>
  BY DEF SetAgaveEngine
<1>2. Grows /\ Tables'
  BY <1>1 DEF Grows, Tables, IInv
<1>3. Typed'
  BY <1>1, Replies DEF IInv, Typed, TypeOK
<1>4. \A u \in Threads : Stays(u)
  BY <1>1 DEF Stays
<1> QED
  BY <1>2, <1>3, <1>4, StageStays DEF IInv

\* The engine is cloned; what is known of the id is in the layers to come.
LEMMA DispatchStep ==
    ASSUME IInv, NEW t \in Threads, NEW i \in Ids, Dispatch(t, i)
    PROVE  IInv'
<1> DEFINE c == [Idle EXCEPT !.at = IF agave = NoEngine THEN "registry" ELSE "route",
                             !.engine = agave, !.id = i, !.known = Known(i)]
<1>1. call' = [call EXCEPT ![t] = c] /\ UNCHANGED <<tables, last>> /\ ran' = Unknown
  BY DEF Dispatch
<1>2. agave \in AllEngines \cup {NoEngine} /\ Known(i) \in BOOLEAN
  BY Constants DEF IInv, Typed, TypeOK, Known
<1>3. /\ c \in CallRecord
      /\ c.at = (IF agave = NoEngine THEN "registry" ELSE "route")
      /\ c.engine = agave /\ c.id = i /\ c.known = Known(i)
  BY <1>2, IdleTyped DEF CallRecord, Dispatching, Idle
<1> HIDE DEF c
<1>4. ASSUME call'[t] = c PROVE Stage(t)'
  <2>1. CASE agave = NoEngine
    BY <1>1, <1>3, <1>4, <2>1 DEF Stage, Placed, Cached, Findable, Registering, Known, tables
  <2>2. CASE agave # NoEngine
    BY <1>1, <1>2, <1>3, <1>4, <2>2
       DEF Stage, Placed, Cached, Findable, Registering, Known, tables
  <2> QED
    BY <2>1, <2>2
<1> QED
  BY <1>1, <1>3, <1>4, Moves, Replies

\* A call that changes its place only.
LEMMA GoesTo ==
    ASSUME IInv, NEW t \in Threads, NEW where \in {"owner", "registry", "bpf"},
           Goes(t, where)
    PROVE  \E c \in CallRecord :
               /\ call' = [call EXCEPT ![t] = c] /\ ran' \in Reply
               /\ c.at = where /\ c.engine = call[t].engine /\ c.id = call[t].id
               /\ c.known = call[t].known
<1>1. call[t] \in CallRecord /\ call \in [Threads -> CallRecord]
  BY DEF IInv, Typed, TypeOK
<1> DEFINE c == [call[t] EXCEPT !.at = where]
<1>2. /\ c \in CallRecord
      /\ c.at = where /\ c.engine = call[t].engine /\ c.id = call[t].id
      /\ c.known = call[t].known
  BY <1>1 DEF CallRecord, Dispatching
<1>3. call' = [call EXCEPT ![t] = c] /\ ran' \in Reply
  BY <1>1, Replies DEF Goes
<1> QED
  BY <1>2, <1>3

\* A call that returns.
LEMMA AnswersStep ==
    ASSUME IInv, NEW t \in Threads, NEW answer \in Reply, Answers(t, answer),
           UNCHANGED <<tables, last>>
    PROVE  IInv'
<1>1. call' = [call EXCEPT ![t] = Idle] /\ ran' \in Reply
  BY DEF Answers
<1>2. ASSUME call'[t] = Idle PROVE Stage(t)'
  BY <1>2, IdleTyped DEF Stage, Placed, Cached, Findable, Registering
<1> QED
  BY <1>1, <1>2, IdleTyped, Moves

\* A dispatch asks the engine's table of kinds first.
LEMMA RouteStep == ASSUME IInv, NEW t \in Threads, Route(t) PROVE IInv'
<1>1. /\ call[t].at = "route" /\ call[t].engine \in AllEngines /\ call[t].id \in Ids
      /\ Stage(t) /\ UNCHANGED <<tables, last>>
  BY DEF Route, At, IInv, Stage, Placed, Typed, TypeOK, CallRecord
<1>2. CASE kinds[call[t].engine][call[t].id] # NoKind
  <2>1. Goes(t, "owner")
    BY <1>2 DEF Route
  <2>2. PICK c \in CallRecord :
            /\ call' = [call EXCEPT ![t] = c] /\ ran' \in Reply
            /\ c.at = "owner" /\ c.engine = call[t].engine /\ c.id = call[t].id
            /\ c.known = call[t].known
    BY <2>1, GoesTo
  <2>3. cache[call[t].engine][call[t].id] # NoProgram
    BY <1>1, <1>2 DEF IInv, Tables
  <2>4. ASSUME call'[t] = c PROVE Stage(t)'
    BY <1>1, <2>2, <2>3, <2>4 DEF Stage, Placed, Cached, Findable, Registering, tables
  <2> QED
    BY <1>1, <2>2, <2>4, Moves
<1>3. CASE kinds[call[t].engine][call[t].id] = NoKind
  <2>1. Goes(t, "registry")
    BY <1>3 DEF Route
  <2>2. PICK c \in CallRecord :
            /\ call' = [call EXCEPT ![t] = c] /\ ran' \in Reply
            /\ c.at = "registry" /\ c.engine = call[t].engine /\ c.id = call[t].id
            /\ c.known = call[t].known
    BY <2>1, GoesTo
  <2>3. ASSUME call'[t] = c PROVE Stage(t)'
    BY <1>1, <1>3, <2>2, <2>3 DEF Stage, Placed, Cached, Findable, Registering, tables
  <2> QED
    BY <1>1, <2>2, <2>3, Moves
<1> QED
  BY <1>2, <1>3

\* It reads the owner of a program that is there.
LEMMA ReadOwnerStep == ASSUME IInv, NEW t \in Threads, ReadOwner(t) PROVE IInv'
<1>1. /\ call[t].at = "owner" /\ call[t].engine \in AllEngines /\ call[t].id \in Ids
      /\ call[t] \in CallRecord /\ call \in [Threads -> CallRecord]
      /\ cache[call[t].engine][call[t].id] # NoProgram
      /\ UNCHANGED <<tables, last>>
  BY DEF ReadOwner, At, IInv, Stage, Placed, Cached, Typed, TypeOK, CallRecord
<1> DEFINE c == [call[t] EXCEPT !.at = "execute",
                                !.kind = kinds[call[t].engine][call[t].id]]
<1>2. kinds[call[t].engine][call[t].id] \in Kinds \cup {NoKind}
  BY <1>1 DEF IInv, Typed, TypeOK
<1>3. /\ c \in CallRecord
      /\ c.at = "execute" /\ c.engine = call[t].engine /\ c.id = call[t].id
  BY <1>1, <1>2 DEF CallRecord, Dispatching
<1>4. call' = [call EXCEPT ![t] = c] /\ ran' = Unknown
  BY <1>1 DEF ReadOwner
<1> HIDE DEF c
<1>5. ASSUME call'[t] = c PROVE Stage(t)'
  BY <1>1, <1>3, <1>5 DEF Stage, Placed, Cached, Findable, Registering, tables
<1> QED
  BY <1>1, <1>3, <1>4, <1>5, Moves, Replies

\* It asks the registry of built-in programs next.
LEMMA FindBuiltinStep == ASSUME IInv, NEW t \in Threads, FindBuiltin(t) PROVE IInv'
<1>1. /\ call[t].at = "registry" /\ call[t].id \in Ids /\ Stage(t)
      /\ registry[call[t].id] \in Programs \cup {NoProgram}
      /\ UNCHANGED <<tables, last>>
  BY DEF FindBuiltin, At, IInv, Typed, TypeOK, CallRecord
<1>2. CASE registry[call[t].id] # NoProgram
  <2>1. /\ Answers(t, Runs("builtin", registry[call[t].id], NoKind))
        /\ Runs("builtin", registry[call[t].id], NoKind) \in Reply
    BY <1>1, <1>2, Replies DEF FindBuiltin
  <2> QED
    BY <1>1, <2>1, AnswersStep
<1>3. CASE registry[call[t].id] = NoProgram
  <2>1. Goes(t, "bpf")
    BY <1>3 DEF FindBuiltin
  <2>2. PICK c \in CallRecord :
            /\ call' = [call EXCEPT ![t] = c] /\ ran' \in Reply
            /\ c.at = "bpf" /\ c.engine = call[t].engine /\ c.id = call[t].id
            /\ c.known = call[t].known
    BY <2>1, GoesTo
  <2>3. ASSUME call'[t] = c PROVE Stage(t)'
    BY <1>1, <1>3, <2>2, <2>3 DEF Stage, Placed, Cached, Findable, Registering, tables
  <2> QED
    BY <1>1, <2>2, <2>3, Moves
<1> QED
  BY <1>2, <1>3

\* And the BPF engine last.
LEMMA FindElfStep == ASSUME IInv, NEW t \in Threads, FindElf(t) PROVE IInv'
<1>1. /\ call[t].at = "bpf" /\ call[t].id \in Ids
      /\ call[t] \in CallRecord /\ call \in [Threads -> CallRecord]
      /\ elfs[call[t].id] \in [loader : Loaders \cup {NoKind}, loaded : BOOLEAN]
      /\ UNCHANGED <<tables, last>>
  BY DEF FindElf, At, IInv, Typed, TypeOK, CallRecord
<1>2. CASE elfs[call[t].id] = Missing
  BY <1>1, <1>2, AnswersStep, Replies DEF FindElf
<1>3. CASE elfs[call[t].id] # Missing /\ ~elfs[call[t].id].loaded
  BY <1>1, <1>3, AnswersStep, Replies DEF FindElf
<1>4. CASE elfs[call[t].id] # Missing /\ elfs[call[t].id].loaded
  <2> DEFINE c == [call[t] EXCEPT !.at = "execute", !.engine = Inner,
                                  !.kind = elfs[call[t].id].loader]
  <2>1. /\ c \in CallRecord
        /\ c.at = "execute" /\ c.engine = Inner /\ c.id = call[t].id
    BY <1>1, Constants DEF CallRecord, Dispatching
  <2>2. call' = [call EXCEPT ![t] = c] /\ ran' = Unknown
    BY <1>1, <1>4 DEF FindElf
  <2> HIDE DEF c
  <2>3. cache[Inner][call[t].id] # NoProgram
    BY <1>1, <1>4 DEF IInv, Tables
  <2>4. ASSUME call'[t] = c PROVE Stage(t)'
    BY <1>1, <2>1, <2>3, <2>4, Constants
       DEF Stage, Placed, Cached, Findable, Registering, tables
  <2> QED
    BY <1>1, <2>1, <2>2, <2>4, Moves, Replies
<1> QED
  BY <1>2, <1>3, <1>4

\* It runs what it has found.
LEMMA ExecuteStep == ASSUME IInv, NEW t \in Threads, Execute(t) PROVE IInv'
<1>1. /\ call[t].engine \in AllEngines /\ call[t].id \in Ids
      /\ call[t].kind \in Kinds \cup {NoKind}
      /\ UNCHANGED <<tables, last>>
  BY DEF Execute, At, IInv, Stage, Placed, Typed, TypeOK, CallRecord
<1>2. cache[call[t].engine][call[t].id] \in Programs \cup {NoProgram}
  BY <1>1 DEF IInv, Typed, TypeOK
<1>3. PICK answer \in Reply : Answers(t, answer)
  <2>1. CASE call[t].engine = Inner
    BY <1>1, <1>2, <2>1, Replies DEF Execute
  <2>2. CASE call[t].engine # Inner
    BY <1>1, <1>2, <2>2, Replies DEF Execute
  <2> QED
    BY <2>1, <2>2
<1> QED
  BY <1>1, <1>3, AnswersStep

-----------------------------------------------------------------------------

\* Whatever a thread does, the tables fill as they should.
LEMMA StepIInv == ASSUME IInv, NEW t \in Threads, Step(t) PROVE IInv'
<1> USE Constants
<1>1. ASSUME NEW i \in Ids, NEW o \in Offers, LoadThroughAgave(t, i, o[1], o[2])
      PROVE  IInv'
  <2>1. o[1] \in Programs /\ o[2] \in Loaders
    BY RegistriesAssumption
  <2>2. agave \in AllEngines /\ agave # Inner /\ Starts(t, agave, i, o[1], o[2])
    BY <1>1 DEF LoadThroughAgave, IInv, Typed, TypeOK
  <2> QED
    BY <2>1, <2>2, StartsStep
<1>2. ASSUME NEW e \in Engines, NEW i \in Ids, NEW p \in Functions, AddBuiltin(t, e, i, p)
      PROVE  IInv'
  BY <1>2, StartsStep DEF AddBuiltin
<1>3. ASSUME NEW i \in Ids, NEW o \in Offers, AddElf(t, i, o[1], o[2])
      PROVE  IInv'
  <2>1. o[1] \in Programs /\ o[2] \in Loaders
    BY RegistriesAssumption
  <2> QED
    BY <1>3, <2>1, StartsStep DEF AddElf
<1> QED
  BY <1>1, <1>2, <1>3, RefuseStep, EnterStep, InsertElfStep, WithBuiltinStep,
     SetAgaveEngineStep, DispatchStep, RouteStep, ReadOwnerStep, FindBuiltinStep,
     FindElfStep, ExecuteStep DEF Step

\* Stuttering.
LEMMA StutterIInv == IInv /\ UNCHANGED vars => IInv'
<1> SUFFICES ASSUME IInv, UNCHANGED vars PROVE IInv'
  OBVIOUS
<1>1. Grows /\ Tables'
  BY TablesStay DEF vars
<1>2. Typed'
  BY DEF IInv, Typed, TypeOK, vars, tables
<1>3. \A u \in Threads : Stays(u)
  BY DEF Stays, vars
<1> QED
  BY <1>1, <1>2, <1>3, StageStays DEF IInv

\* They always do.
LEMMA Invariance == Spec => []IInv
<1>1. IInv /\ [Next]_vars => IInv'
  BY StepIInv, StutterIInv DEF Next
<1> QED
  BY <1>1, InitIInv, PTL DEF Spec

\* Every variable keeps its type (the tables of agave/engine.rs and
\* bpf/engine.rs, and the calls of the clones that read and write them).
THEOREM TypeCorrect == Spec => []TypeOK
<1>1. IInv => TypeOK
  BY DEF IInv, Typed
<1> QED
  BY <1>1, Invariance, PTL

\* Whoever finds a program by its kind, or by the record of its ELF, finds it
\* in the cache as well, whatever the clones register and dispatch meanwhile
\* (agave/engine.rs:164-168 and 231-235, bpf/engine.rs:115-195).
THEOREM FoundIsCached == Spec => []RegisteredIsCached
<1>1. IInv => RegisteredIsCached
  BY DEF IInv, Tables, Stage, Cached, RegisteredIsCached, At
<1> QED
  BY <1>1, Invariance, PTL

-----------------------------------------------------------------------------
(* Known programs.                                                         *)

\* A thread's step leaves the others where they are.
LEMMA OthersStay ==
    ASSUME IInv, NEW t \in Threads, Step(t), NEW u \in Threads \ {t}
    PROVE  Stays(u)
<1>1. call \in [Threads -> CallRecord] /\ call[u] \in CallRecord
  BY DEF IInv, Typed, TypeOK
<1>2. ASSUME NEW c, call' = [call EXCEPT ![t] = c]
      PROVE  Stays(u)
  BY <1>1, <1>2 DEF Stays
<1>3. ASSUME NEW what, Ends(t, what)
      PROVE  Stays(u)
  BY <1>1, <1>3 DEF Ends, CallRecord, Stays
<1>4. (\E c : call' = [call EXCEPT ![t] = c]) \/ (\E what : Ends(t, what)) \/ call' = call
  BY DEF Step, LoadThroughAgave, AddBuiltin, AddElf, Starts, Refuse, Enter, Entered,
     InsertElf, WithBuiltin, SetAgaveEngine, Dispatch, Route, ReadOwner, FindBuiltin,
     FindElf, Execute, Goes, Answers
<1>5. call' = call => Stays(u)
  BY DEF Stays
<1> QED
  BY <1>2, <1>3, <1>4, <1>5

\* A step that answers a dispatch of a known program says so.
LEMMA StepAnswers ==
    ASSUME IInv, NEW t \in Threads, Step(t), Answered(t), call[t].known
    PROVE  ran' # Unknown
<1>1. /\ call[t].at \in Dispatching /\ call'[t].at = "idle"
      /\ call[t] \in CallRecord /\ call \in [Threads -> CallRecord] /\ call[t].id \in Ids
      /\ Findable(t)
  BY IdleTyped DEF Answered, IInv, Stage, Typed, TypeOK, CallRecord
<1>2. Route(t) \/ ReadOwner(t) \/ FindBuiltin(t) \/ FindElf(t) \/ Execute(t)
  BY <1>1 DEF Step, LoadThroughAgave, AddBuiltin, AddElf, Starts, Refuse, Enter,
     InsertElf, WithBuiltin, SetAgaveEngine, Dispatch, At, Dispatching
<1>3. \A where : Goes(t, where) => call'[t].at = where
  BY <1>1 DEF Goes
<1>4. CASE Route(t)
  BY <1>1, <1>3, <1>4 DEF Route
<1>5. CASE ReadOwner(t)
  BY <1>1, <1>5 DEF ReadOwner
<1>6. CASE FindBuiltin(t)
  <2>1. registry[call[t].id] # NoProgram
    BY <1>1, <1>3, <1>6 DEF FindBuiltin
  <2> QED
    BY <1>6, <2>1, Replies, NotUnknown DEF FindBuiltin, Answers
<1>7. CASE FindElf(t)
  <2>1. elfs[call[t].id] # Missing
    BY <1>1, <1>7 DEF FindElf, At, Findable
  <2>2. ASSUME elfs[call[t].id].loaded PROVE FALSE
    <3>1. call' = [call EXCEPT ![t].at = "execute", ![t].engine = Inner,
                               ![t].kind = elfs[call[t].id].loader]
      BY <1>7, <2>1, <2>2 DEF FindElf
    <3>2. call'[t].at = "execute"
      BY <1>1, <3>1 DEF CallRecord
    <3> QED
      BY <1>1, <3>2
  <2> QED
    BY <1>7, <2>1, <2>2, NotUnknown DEF FindElf, Answers
<1>8. CASE Execute(t)
  BY <1>8, NotUnknown DEF Execute, Answers
<1> QED
  BY <1>2, <1>4, <1>5, <1>6, <1>7, <1>8

\* A dispatch of a program that some layer has when it begins is answered by
\* a program or by a load error, whatever is registered or installed while
\* the layers are asked (lib.rs:1563-1641).
THEOREM KnownAnswered == Spec => KnownIsAnswered
<1>1. ASSUME IInv, [Next]_vars
      PROVE  [\A t \in Threads : Answered(t) /\ call[t].known => ran' # Unknown]_vars
  <2> SUFFICES ASSUME Next, NEW t \in Threads, Answered(t), call[t].known
               PROVE  ran' # Unknown
    BY <1>1
  <2>1. PICK u \in Threads : Step(u)
    BY DEF Next
  <2>2. u = t
    <3>1. call[t].at # "idle" /\ call'[t].at = "idle"
      BY IdleTyped DEF Answered, Dispatching
    <3> QED
      BY <1>1, <2>1, <3>1, OthersStay DEF Stays
  <2> QED
    BY <1>1, <2>1, <2>2, StepAnswers
<1> QED
  BY <1>1, Invariance, PTL DEF Spec, KnownIsAnswered

-----------------------------------------------------------------------------
(* The last registration.                                                  *)

\* What the tables hold for an id, in the layers that are Agave engines.
Held(e, i) ==
    IF e = Inner
    THEN IF elfs[i] = Missing THEN Unknown
         ELSE IF ~elfs[i].loaded THEN LoadError
         ELSE Runs("bpf", cache[Inner][i], elfs[i].loader)
    ELSE IF kinds[e][i] = NoKind THEN Unknown
         ELSE Runs("agave", cache[e][i], kinds[e][i])

\* The history is silent while a registration is under way, and else it is
\* what the tables hold.
Settled(e, i) ==
    last[e][i] # Unsettled => Rivals(e, i) = {} /\ last[e][i] = Held(e, i)

\* A registration that has met no other finds what it left.
Fresh(t) ==
    LET c == call[t]
    IN  Registering(t) /\ c.before # Contested /\ Rivals(c.engine, c.id) = {t} =>
            /\ c.at = "load" /\ c.before # Unsettled => c.before = Held(c.engine, c.id)
            /\ c.at = "kind" => cache[c.engine][c.id] = c.program
            /\ c.at = "insert" /\ c.program \notin Broken => cache[Inner][c.id] = c.program

History ==
    /\ \A e \in AllEngines, i \in Ids : Settled(e, i)
    /\ \A t \in Threads : Fresh(t)

\* A step of t touches what engine e holds of i, and no more; whom it meets
\* there is told when it leaves.
Touches(t, e, i) ==
    /\ \A f \in AllEngines, j \in Ids : f # e \/ j # i =>
           cache'[f][j] = cache[f][j] /\ kinds'[f][j] = kinds[f][j] /\ last'[f][j] = last[f][j]
    /\ \A j \in Ids : e # Inner \/ j # i => elfs'[j] = elfs[j]
    /\ \A u \in Threads \ {t} :
           /\ Stays(u)
           /\ \/ call'[u].before = call[u].before
              \/ u \in Rivals(e, i) /\ call'[u].before = Contested
    /\ Registering(t) => call[t].engine = e /\ call[t].id = i
    /\ Registering(t)' => call'[t].engine = e /\ call'[t].id = i

\* A registration leaves alone what is said of other ids and engines.
LEMMA Elsewhere ==
    ASSUME NEW t \in Threads, NEW e \in AllEngines, NEW i \in Ids, Touches(t, e, i),
           NEW f \in AllEngines, NEW j \in Ids, f # e \/ j # i, Inner \in AllEngines
    PROVE  /\ Rivals(f, j)' = Rivals(f, j)
           /\ Held(f, j)' = Held(f, j)
           /\ last'[f][j] = last[f][j]
           /\ cache'[f][j] = cache[f][j]
<1>1. \A u \in Threads : u \in Rivals(f, j)' <=> u \in Rivals(f, j)
  <2> SUFFICES ASSUME NEW u \in Threads PROVE u \in Rivals(f, j)' <=> u \in Rivals(f, j)
    OBVIOUS
  <2>1. CASE u = t
    BY <2>1 DEF Touches, Rivals
  <2>2. CASE u # t
    BY <2>2 DEF Touches, Stays, Rivals, Registering
  <2> QED
    BY <2>1, <2>2
<1>2. Rivals(f, j)' = Rivals(f, j)
  BY <1>1 DEF Rivals
<1>3. cache'[f][j] = cache[f][j] /\ kinds'[f][j] = kinds[f][j] /\ last'[f][j] = last[f][j]
  BY DEF Touches
<1>4. f = Inner => elfs'[j] = elfs[j]
  BY DEF Touches
<1>5. Held(f, j)' = Held(f, j)
  BY <1>3, <1>4 DEF Held
<1> QED
  BY <1>2, <1>3, <1>5

\* What is left to show of a step of a registration.
LEMMA HistoryStep ==
    ASSUME IInv, IInv', History, NEW t \in Threads, NEW e \in AllEngines, NEW i \in Ids,
           Touches(t, e, i), Registering(t) \/ Registering(t)',
           Settled(e, i)', Fresh(t)',
           ~Registering(t)' =>
               \A u \in Rivals(e, i) \ {t} : call'[u].before = Contested
    PROVE  History'
<1>1. ASSUME NEW f \in AllEngines, NEW j \in Ids
      PROVE  Settled(f, j)'
  <2>1. CASE f = e /\ j = i
    BY <2>1
  <2>2. CASE f # e \/ j # i
    BY <2>2, Elsewhere, Constants DEF History, Settled
  <2> QED
    BY <2>1, <2>2
<1>2. ASSUME NEW u \in Threads \ {t}
      PROVE  Fresh(u)'
  <2>1. SUFFICES ASSUME Registering(u)', call'[u].before # Contested,
                        Rivals(call[u].engine, call[u].id)' = {u}
                 PROVE  Fresh(u)'
    BY DEF Fresh
  <2>2. /\ Stays(u) /\ Registering(u) /\ Fresh(u)
        /\ call'[u].before = call[u].before
    BY <2>1 DEF Touches, Stays, Registering, History
  <2>3. PICK f \in AllEngines, j \in Ids : f = call[u].engine /\ j = call[u].id
    BY <2>2 DEF IInv, Stage, Placed, Typed, TypeOK, CallRecord
  <2>4. /\ f = call'[u].engine /\ j = call'[u].id /\ Rivals(f, j)' = {u}
        /\ call[u].at = "insert" => f = Inner
    BY <2>1, <2>2, <2>3 DEF Stays, IInv, Stage, Placed
  <2>5. CASE f = e /\ j = i
    <3>1. Registering(t)' => t \in Rivals(e, i)'
      BY DEF Touches, Rivals
    <3>2. ~Registering(t)'
      BY <2>4, <2>5, <3>1
    <3>3. u \in Rivals(e, i) \ {t}
      BY <2>2, <2>3, <2>5 DEF Rivals
    <3> QED
      BY <2>1, <3>2, <3>3
  <2>6. CASE f # e \/ j # i
    <3>1. /\ Rivals(f, j)' = Rivals(f, j) /\ Held(f, j)' = Held(f, j)
          /\ cache'[f][j] = cache[f][j]
      BY <2>6, Elsewhere, Constants
    <3>2. Rivals(f, j) = {u}
      BY <2>4, <3>1
    <3>3. /\ call[u].at = "load" /\ call[u].before # Unsettled => call[u].before = Held(f, j)
          /\ call[u].at = "kind" => cache[f][j] = call[u].program
          /\ call[u].at = "insert" /\ call[u].program \notin Broken =>
                 cache[Inner][j] = call[u].program
      BY <2>1, <2>2, <2>3, <3>2 DEF Fresh
    <3>4. /\ call'[u].at = "load" /\ call'[u].before # Unsettled =>
                 call'[u].before = Held(f, j)'
          /\ call'[u].at = "kind" => cache'[f][j] = call'[u].program
          /\ call'[u].at = "insert" /\ call'[u].program \notin Broken =>
                 cache'[Inner][j] = call'[u].program
      BY <2>2, <2>4, <3>1, <3>3 DEF Stays
    <3> QED
      BY <2>4, <3>4 DEF Fresh
  <2> QED
    BY <2>5, <2>6
<1> QED
  BY <1>1, <1>2 DEF History

\* A step of something else than a registration.
LEMMA NoRegistration ==
    ASSUME IInv, IInv', History, NEW t \in Threads, ~Registering(t), ~Registering(t)',
           UNCHANGED <<cache, kinds, elfs, last>>,
           \A u \in Threads \ {t} : call'[u] = call[u]
    PROVE  History'
<1>1. ASSUME NEW f \in AllEngines, NEW j \in Ids
      PROVE  Rivals(f, j)' = Rivals(f, j) /\ Held(f, j)' = Held(f, j)
  <2>1. \A u \in Threads : u \in Rivals(f, j)' <=> u \in Rivals(f, j)
    BY DEF Rivals, Registering
  <2>2. Rivals(f, j)' = Rivals(f, j)
    BY <2>1 DEF Rivals
  <2> QED
    BY <2>2 DEF Held
<1>2. ASSUME NEW f \in AllEngines, NEW j \in Ids
      PROVE  Settled(f, j)'
  BY <1>1 DEF History, Settled
<1>3. ASSUME NEW u \in Threads
      PROVE  Fresh(u)'
  <2>1. CASE u = t
    BY <2>1 DEF Fresh
  <2>2. CASE u # t /\ Registering(u)
    <3>1. call'[u] = call[u] /\ Fresh(u)
      BY <2>2 DEF History
    <3>2. PICK f \in AllEngines, j \in Ids : f = call[u].engine /\ j = call[u].id
      BY <2>2 DEF IInv, Stage, Placed, Typed, TypeOK, CallRecord
    <3>3. Rivals(f, j)' = Rivals(f, j) /\ Held(f, j)' = Held(f, j)
      BY <1>1
    <3> QED
      BY <2>2, <3>1, <3>2, <3>3 DEF Fresh, Registering
  <2>3. CASE u # t /\ ~Registering(u)
    BY <2>3 DEF Fresh, Registering
  <2> QED
    BY <2>1, <2>2, <2>3
<1> QED
  BY <1>2, <1>3 DEF History

\* A registration starts.
LEMMA StartsHistory ==
    ASSUME IInv, IInv', History, NEW t \in Threads, NEW e \in AllEngines, NEW i \in Ids,
           NEW p, NEW k, Starts(t, e, i, p, k)
    PROVE  History'
<1> DEFINE c == [Idle EXCEPT !.at = "load", !.engine = e, !.id = i, !.program = p,
                    !.kind = k, !.before = IF Rivals(e, i) = {} THEN last[e][i] ELSE Contested]
<1>1. /\ call' = [call EXCEPT ![t] = c] /\ last' = [last EXCEPT ![e][i] = Unsettled]
      /\ UNCHANGED tables /\ call[t].at = "idle"
  BY DEF Starts, At
<1>2. /\ c.at = "load" /\ c.engine = e /\ c.id = i
      /\ c.before = IF Rivals(e, i) = {} THEN last[e][i] ELSE Contested
  BY DEF Idle
<1> HIDE DEF c
<1>3. /\ call'[t] = c /\ \A u \in Threads \ {t} : call'[u] = call[u]
      /\ last'[e][i] = Unsettled
      /\ \A f \in AllEngines, j \in Ids : f # e \/ j # i => last'[f][j] = last[f][j]
  BY <1>1 DEF IInv, Typed, TypeOK
<1>4. Touches(t, e, i)
  BY <1>1, <1>2, <1>3 DEF Touches, Stays, Registering, tables
<1>5. Registering(t)' /\ Settled(e, i)'
  BY <1>2, <1>3 DEF Registering, Settled
<1>6. c.before # Contested /\ c.before # Unsettled => c.before = Held(e, i)
  BY <1>2 DEF History, Settled
<1>7. Held(e, i)' = Held(e, i)
  BY <1>1 DEF Held, tables
<1>8. Fresh(t)'
  BY <1>2, <1>3, <1>6, <1>7 DEF Fresh
<1> QED
  BY <1>4, <1>5, <1>8, HistoryStep

\* A registration goes on: its place alone changes in the call.
MovesOn(t, e, i, where) ==
    /\ Registering(t) /\ call[t].engine = e /\ call[t].id = i
    /\ call' = [call EXCEPT ![t].at = where]
    /\ UNCHANGED <<elfs, last>>
    /\ \A f \in AllEngines, j \in Ids : f # e \/ j # i =>
           cache'[f][j] = cache[f][j] /\ kinds'[f][j] = kinds[f][j]
    /\ where = "kind" => cache'[e][i] = call[t].program
    /\ call[t].before # Contested /\ Rivals(e, i) = {t} /\ where = "insert" =>
           (call[t].program \notin Broken => cache'[Inner][i] = call[t].program)

\* A registration that is past one table and not at its end.
LEMMA GoesOn ==
    ASSUME IInv, IInv', History, NEW t \in Threads, NEW e \in AllEngines, NEW i \in Ids,
           NEW where \in {"kind", "insert"}, MovesOn(t, e, i, where)
    PROVE  History'
<1> USE DEF MovesOn
<1>1. /\ call'[t].at = where /\ call'[t].engine = e /\ call'[t].id = i
      /\ call'[t].before = call[t].before /\ call'[t].program = call[t].program
      /\ \A u \in Threads \ {t} : call'[u] = call[u]
  BY DEF IInv, Typed, TypeOK, CallRecord
<1>2. Touches(t, e, i)
  BY <1>1 DEF Touches, Stays
<1>3. Registering(t)'
  BY <1>1 DEF Registering
<1>4. \A u \in Threads : u \in Rivals(e, i)' <=> u \in Rivals(e, i)
  BY <1>1, <1>3 DEF Rivals, Registering
<1>5. Rivals(e, i)' = Rivals(e, i)
  BY <1>4 DEF Rivals
<1>6. t \in Rivals(e, i)
  BY DEF Rivals
<1>7. Settled(e, i)'
  BY <1>6 DEF Settled, History
<1>8. Fresh(t)'
  BY <1>1, <1>5 DEF Fresh
<1> QED
  BY <1>2, <1>3, <1>7, <1>8, HistoryStep

\* A registration ends, and the tables hold what it says unless it has met
\* another.
LEMMA EndsHistory ==
    ASSUME IInv, IInv', History, NEW t \in Threads, NEW e \in AllEngines, NEW i \in Ids,
           Registering(t), call[t].engine = e, call[t].id = i,
           NEW what, Ends(t, what),
           \A f \in AllEngines, j \in Ids : f # e \/ j # i =>
               cache'[f][j] = cache[f][j] /\ kinds'[f][j] = kinds[f][j],
           \A j \in Ids : e # Inner \/ j # i => elfs'[j] = elfs[j],
           call[t].before # Contested /\ Rivals(e, i) = {t} =>
               what = Unsettled \/ what = Held(e, i)'
    PROVE  History'
<1>1. /\ call'[t] = Idle /\ Idle.at = "idle"
      /\ \A u \in Threads \ {t} :
             call'[u] = IF u \in Rivals(e, i) THEN [call[u] EXCEPT !.before = Contested]
                        ELSE call[u]
      /\ last' = [last EXCEPT ![e][i] =
             IF Rivals(e, i) = {t} /\ call[t].before # Contested THEN what ELSE @]
  BY IdleTyped DEF Ends
<1>2. call \in [Threads -> CallRecord] /\ last \in [AllEngines -> [Ids -> Reply]]
  BY DEF IInv, Typed, TypeOK
<1>3. ASSUME NEW u \in Threads \ {t}
      PROVE  /\ Stays(u)
             /\ u \in Rivals(e, i) => call'[u].before = Contested
             /\ u \notin Rivals(e, i) => call'[u].before = call[u].before
  <2>1. call[u] \in CallRecord
    BY <1>2
  <2>2. CASE u \in Rivals(e, i)
    BY <1>1, <2>1, <2>2 DEF Stays, CallRecord
  <2>3. CASE u \notin Rivals(e, i)
    BY <1>1, <2>3 DEF Stays
  <2> QED
    BY <2>2, <2>3
<1>4. ~Registering(t)'
  BY <1>1 DEF Registering
<1>5. \A f \in AllEngines, j \in Ids : f # e \/ j # i => last'[f][j] = last[f][j]
  BY <1>1, <1>2
<1>6. Touches(t, e, i)
  BY <1>3, <1>4, <1>5 DEF Touches
<1>7. t \in Rivals(e, i) /\ last[e][i] = Unsettled
  BY DEF Rivals, History, Settled
<1>8. Settled(e, i)'
  <2>1. CASE Rivals(e, i) = {t} /\ call[t].before # Contested
    <3>1. \A u \in Threads : u \notin Rivals(e, i)'
      BY <1>3, <1>4, <2>1 DEF Rivals, Registering, Stays
    <3>2. Rivals(e, i)' = {}
      BY <3>1 DEF Rivals
    <3>3. last'[e][i] = what
      BY <1>1, <1>2, <2>1
    <3> QED
      BY <2>1, <3>2, <3>3 DEF Settled
  <2>2. CASE ~(Rivals(e, i) = {t} /\ call[t].before # Contested)
    <3>1. last'[e][i] = Unsettled
      BY <1>1, <1>2, <1>7, <2>2
    <3> QED
      BY <3>1 DEF Settled
  <2> QED
    BY <2>1, <2>2
<1>9. Fresh(t)'
  BY <1>4 DEF Fresh
<1>10. \A u \in Rivals(e, i) \ {t} : call'[u].before = Contested
  <2>1. Rivals(e, i) \subseteq Threads
    BY DEF Rivals
  <2> QED
    BY <1>3, <2>1
<1> QED
  BY <1>6, <1>8, <1>9, <1>10, HistoryStep

\* What is known of a registration's call.
LEMMA Registers ==
    ASSUME IInv, NEW t \in Threads, Registering(t)
    PROVE  /\ call[t] \in CallRecord /\ call[t].engine \in AllEngines /\ call[t].id \in Ids
           /\ call[t].program \in Programs /\ call[t].kind \in Kinds
           /\ call[t].engine = Inner => call[t].kind \in Loaders
BY DEF IInv, Typed, TypeOK, CallRecord, Stage, Placed

\* A program that does not load ends its registration.
LEMMA RefuseHistory ==
    ASSUME IInv, IInv', History, NEW t \in Threads, Refuse(t) PROVE History'
<1>1. /\ Registering(t) /\ call[t].at = "load" /\ call[t].program \in Broken
      /\ UNCHANGED tables
  BY DEF Refuse, At, Registering
<1>2. PICK e \in AllEngines, i \in Ids : e = call[t].engine /\ i = call[t].id
  BY <1>1, Registers
<1>3. CASE e = Inner
  <2>1. call' = [call EXCEPT ![t].at = "insert"] /\ UNCHANGED last
    BY <1>2, <1>3 DEF Refuse
  <2>2. MovesOn(t, e, i, "insert")
    <3>1. "insert" # "kind"
      OBVIOUS
    <3>2. call[t].program \in Broken
      BY <1>1
    <3> QED
      BY <1>1, <1>2, <2>1, <3>1, <3>2 DEF MovesOn, tables
  <2>3. "insert" \in {"kind", "insert"}
    OBVIOUS
  <2> QED
    BY <2>2, <2>3, GoesOn
<1>4. CASE e # Inner
  <2>1. Ends(t, call[t].before)
    BY <1>2, <1>4 DEF Refuse
  <2>2. Held(e, i)' = Held(e, i)
    BY <1>1 DEF Held, tables
  <2>3. call[t].before # Contested /\ Rivals(e, i) = {t} =>
            call[t].before = Unsettled \/ call[t].before = Held(e, i)'
    BY <1>1, <1>2, <2>2 DEF History, Fresh
  <2> QED
    BY <1>1, <1>2, <2>1, <2>3, EndsHistory DEF tables
<1> QED
  BY <1>3, <1>4

\* A program enters one of its engine's tables.
LEMMA EnterHistory ==
    ASSUME IInv, IInv', History, NEW t \in Threads, Enter(t) PROVE History'
<1>1. Registering(t) /\ UNCHANGED elfs
  BY DEF Enter, At, Registering
<1>2. PICK e \in AllEngines, i \in Ids : e = call[t].engine /\ i = call[t].id
  BY <1>1, Registers
<1>3. /\ cache \in [AllEngines -> [Ids -> Programs \cup {NoProgram}]]
      /\ kinds \in [AllEngines -> [Ids -> Kinds \cup {NoKind}]]
  BY DEF IInv, Typed, TypeOK
<1>4. CASE At(t, "load")
  <2>1. /\ cache' = [cache EXCEPT ![e][i] = call[t].program]
        /\ UNCHANGED <<kinds, last>>
        /\ call' = [call EXCEPT ![t].at = "kind"]
    BY <1>2, <1>4 DEF Enter, EnterCache, At
  <2>2. /\ cache'[e][i] = call[t].program
        /\ \A f \in AllEngines, j \in Ids : f # e \/ j # i =>
               cache'[f][j] = cache[f][j] /\ kinds'[f][j] = kinds[f][j]
    BY <1>3, <2>1
  <2>3. MovesOn(t, e, i, "kind")
    <3>1. "kind" # "insert"
      OBVIOUS
    <3> QED
      BY <1>1, <1>2, <2>1, <2>2, <3>1 DEF MovesOn
  <2>4. "kind" \in {"kind", "insert"}
    OBVIOUS
  <2> QED
    BY <2>3, <2>4, GoesOn
<1>5. CASE At(t, "kind")
  <2>1. /\ kinds' = [kinds EXCEPT ![e][i] = call[t].kind] /\ UNCHANGED cache
        /\ Entered(t) /\ call[t].at = "kind"
    BY <1>2, <1>5 DEF Enter, EnterKind, At
  <2>2. /\ kinds'[e][i] = call[t].kind
        /\ \A f \in AllEngines, j \in Ids : f # e \/ j # i =>
               cache'[f][j] = cache[f][j] /\ kinds'[f][j] = kinds[f][j]
    BY <1>3, <2>1
  <2>3. call[t].before # Contested /\ Rivals(e, i) = {t} => cache'[e][i] = call[t].program
    BY <1>1, <1>2, <2>1 DEF History, Fresh
  <2>4. CASE e = Inner
    <3>1. call' = [call EXCEPT ![t].at = "insert"] /\ UNCHANGED last
      BY <1>2, <2>1, <2>4 DEF Entered
    <3>2. "insert" \in {"kind", "insert"} /\ "kind" # "insert"
      OBVIOUS
    <3>3. MovesOn(t, e, i, "insert")
      <4>1. call[t].before # Contested /\ Rivals(e, i) = {t} =>
                (call[t].program \notin Broken => cache'[Inner][i] = call[t].program)
        BY <2>3, <2>4
      <4> QED
        BY <1>1, <1>2, <2>2, <3>1, <3>2, <4>1 DEF MovesOn
    <3> QED
      BY <3>2, <3>3, GoesOn
  <2>5. CASE e # Inner
    <3>1. Ends(t, Runs("agave", call[t].program, call[t].kind))
      BY <1>2, <2>1, <2>5 DEF Entered
    <3>2. call[t].kind # NoKind
      BY <1>1, Registers, Constants
    <3>3. call[t].before # Contested /\ Rivals(e, i) = {t} =>
              Runs("agave", call[t].program, call[t].kind) = Held(e, i)'
      BY <2>2, <2>3, <2>5, <3>2 DEF Held
    <3> QED
      BY <1>1, <1>2, <2>1, <2>2, <3>1, <3>3, EndsHistory
  <2> QED
    BY <2>4, <2>5
<1> QED
  BY <1>4, <1>5 DEF Enter

\* A program enters the records of the BPF engine.
LEMMA InsertElfHistory ==
    ASSUME IInv, IInv', History, NEW t \in Threads, InsertElf(t) PROVE History'
<1>1. /\ Registering(t) /\ call[t].at = "insert" /\ UNCHANGED <<cache, kinds>>
      /\ call[t].engine = Inner
  BY DEF InsertElf, At, Registering, IInv, Stage, Placed
<1>2. PICK i \in Ids : i = call[t].id
  BY <1>1, Registers
<1>3. Inner \in AllEngines /\ call[t].kind \in Loaders
  BY <1>1, Registers, Constants
<1>4. /\ elfs'[i].loader = call[t].kind
      /\ elfs'[i].loaded = (call[t].program \notin Broken)
      /\ \A j \in Ids : j # i => elfs'[j] = elfs[j]
  <2>1. elfs \in [Ids -> [loader : Loaders \cup {NoKind}, loaded : BOOLEAN]]
    BY DEF IInv, Typed, TypeOK
  <2>2. elfs' = [elfs EXCEPT ![i] = [loader |-> call[t].kind,
                                     loaded |-> call[t].program \notin Broken]]
    BY <1>2 DEF InsertElf, ElfRecord
  <2> QED
    BY <2>1, <2>2
<1>5. elfs'[i] # Missing
  <2>1. Missing.loader = NoKind
    BY DEF Missing
  <2> QED
    BY <1>3, <1>4, <2>1, Constants
<1>6. CASE call[t].program \in Broken
  <2>1. Ends(t, LoadError)
    BY <1>6 DEF InsertElf
  <2>2. LoadError = Held(Inner, i)'
    BY <1>4, <1>5, <1>6 DEF Held
  <2> QED
    BY <1>1, <1>2, <1>3, <1>4, <2>1, <2>2, EndsHistory
<1>7. CASE call[t].program \notin Broken
  <2>1. Ends(t, Runs("bpf", call[t].program, call[t].kind))
    BY <1>7 DEF InsertElf
  <2>2. call[t].before # Contested /\ Rivals(Inner, i) = {t} =>
            cache'[Inner][i] = call[t].program
    BY <1>1, <1>2, <1>7 DEF History, Fresh
  <2>3. call[t].before # Contested /\ Rivals(Inner, i) = {t} =>
            Runs("bpf", call[t].program, call[t].kind) = Held(Inner, i)'
    BY <1>4, <1>5, <1>7, <2>2 DEF Held
  <2> QED
    BY <1>1, <1>2, <1>3, <1>4, <2>1, <2>3, EndsHistory
<1> QED
  BY <1>6, <1>7

\* Every step keeps the history right.
LEMMA StepHistory ==
    ASSUME IInv, IInv', History, NEW t \in Threads, Step(t) PROVE History'
<1> USE Constants
<1>1. ASSUME NEW i \in Ids, NEW o \in Offers, LoadThroughAgave(t, i, o[1], o[2])
      PROVE  History'
  <2>1. agave \in AllEngines /\ Starts(t, agave, i, o[1], o[2])
    BY <1>1 DEF LoadThroughAgave, IInv, Typed, TypeOK
  <2>2. PICK e \in AllEngines : e = agave
    BY <2>1
  <2> QED
    BY <2>1, <2>2, StartsHistory
<1>2. ASSUME NEW e \in Engines, NEW i \in Ids, NEW p \in Functions, AddBuiltin(t, e, i, p)
      PROVE  History'
  BY <1>2, StartsHistory DEF AddBuiltin
<1>3. ASSUME NEW i \in Ids, NEW o \in Offers, AddElf(t, i, o[1], o[2])
      PROVE  History'
  BY <1>3, StartsHistory DEF AddElf
<1>4. ASSUME \/ \E i \in Ids, p \in Functions : WithBuiltin(t, i, p)
             \/ \E e \in Engines : SetAgaveEngine(t, e)
      PROVE  History'
  <2>1. call' = call /\ call[t].at = "idle" /\ UNCHANGED <<cache, kinds, elfs, last>>
    BY <1>4 DEF WithBuiltin, SetAgaveEngine, At
  <2>2. ~Registering(t) /\ ~Registering(t)'
    BY <2>1 DEF Registering
  <2> QED
    BY <2>1, <2>2, NoRegistration
<1>5. ASSUME \/ \E i \in Ids : Dispatch(t, i)
             \/ Route(t) \/ ReadOwner(t) \/ FindBuiltin(t) \/ FindElf(t) \/ Execute(t)
      PROVE  History'
  <2>1. /\ call[t].at \notin {"load", "kind", "insert"}
        /\ UNCHANGED <<cache, kinds, elfs, last>>
    BY <1>5 DEF Dispatch, Route, ReadOwner, FindBuiltin, FindElf, Execute, At, tables
  <2>2. call \in [Threads -> CallRecord] /\ call[t] \in CallRecord
    BY DEF IInv, Typed, TypeOK
  <2>3. \E c : call' = [call EXCEPT ![t] = c]
    BY <1>5 DEF Dispatch, Route, ReadOwner, FindBuiltin, FindElf, Execute, Goes, Answers
  <2>4. \A u \in Threads \ {t} : call'[u] = call[u]
    BY <2>2, <2>3
  <2>5. call'[t].at \in Dispatching \cup {"idle"}
    <3>1. \A where : Goes(t, where) => call'[t].at = where
      BY <2>2 DEF Goes
    <3>2. \A answer : Answers(t, answer) => call'[t].at = "idle"
      BY <2>2, IdleTyped DEF Answers
    <3>3. ASSUME NEW i \in Ids, Dispatch(t, i)
          PROVE  call'[t].at \in {"registry", "route"}
      BY <2>2, <3>3 DEF Dispatch, Idle
    <3>4. Route(t) => call'[t].at \in {"owner", "registry"}
      BY <3>1 DEF Route
    <3>5. ReadOwner(t) => call'[t].at = "execute"
      BY <2>2 DEF ReadOwner, CallRecord
    <3>6. FindBuiltin(t) => call'[t].at \in {"idle", "bpf"}
      BY <3>1, <3>2 DEF FindBuiltin
    <3>7. FindElf(t) => call'[t].at \in {"idle", "execute"}
      BY <2>2, <3>2 DEF FindElf, CallRecord
    <3>8. Execute(t) => call'[t].at = "idle"
      BY <3>2 DEF Execute
    <3> QED
      BY <1>5, <3>3, <3>4, <3>5, <3>6, <3>7, <3>8 DEF Dispatching
  <2>6. ~Registering(t) /\ ~Registering(t)'
    BY <2>1, <2>5 DEF Registering, Dispatching
  <2> QED
    BY <2>1, <2>4, <2>6, NoRegistration
<1> QED
  BY <1>1, <1>2, <1>3, <1>4, <1>5, RefuseHistory, EnterHistory, InsertElfHistory DEF Step

\* Where a dispatch is while the tables stay as they are: in the first layer
\* that has the id, with what that layer says of it.
InAgave(t) == call[t].at = "execute" /\ call[t].engine # Inner
InBpf(t) == call[t].at = "execute" /\ call[t].engine = Inner

NotInAgave(i) == agave = NoEngine \/ kinds[agave][i] = NoKind

Course(t) ==
    LET c == call[t]
    IN  /\ c.at \in {"route", "owner"} \/ InAgave(t) => c.engine = agave
        /\ c.at = "owner" \/ InAgave(t) => kinds[agave][c.id] # NoKind
        /\ InAgave(t) => c.kind = kinds[agave][c.id]
        /\ c.at \in {"registry", "bpf"} \/ InBpf(t) => NotInAgave(c.id)
        /\ c.at = "bpf" \/ InBpf(t) => registry[c.id] = NoProgram
        /\ InBpf(t) =>
               elfs[c.id] # Missing /\ elfs[c.id].loaded /\ c.kind = elfs[c.id].loader

OnCourse(t) == quiet[t] /\ call[t].at \in Dispatching => Course(t)

\* A call that stays put while the tables do stays on its course.
LEMMA CourseStays ==
    ASSUME NEW u \in Threads, Stays(u), UNCHANGED tables, Course(u)
    PROVE  Course(u)'
BY DEF Stays, tables, Course, InAgave, InBpf, NotInAgave

\* A step of a dispatch keeps it on its course.
LEMMA CourseStep ==
    ASSUME IInv, NEW t \in Threads, Step(t), call'[t].at \in Dispatching,
           call[t].at \in Dispatching => Course(t)
    PROVE  Course(t)'
<1>1. /\ call \in [Threads -> CallRecord] /\ call[t] \in CallRecord
      /\ Inner \notin Engines /\ agave \in Engines \cup {NoEngine} /\ NoEngine # Inner
      /\ call[t].at = "route" => call[t].engine \in AllEngines
  BY Constants DEF IInv, Typed, TypeOK, Stage, Placed
<1>2. (\E i \in Ids : Dispatch(t, i)) \/ Route(t) \/ ReadOwner(t) \/ FindBuiltin(t) \/ FindElf(t)
  <2>1. ASSUME NEW what, Ends(t, what) PROVE FALSE
    BY <2>1, IdleTyped DEF Ends, Dispatching
  <2>2. ASSUME NEW where \in {"load", "kind", "insert"}, call'[t].at = where PROVE FALSE
    BY <2>2 DEF Dispatching
  <2>3. ASSUME NEW e, NEW i, NEW p, NEW k, Starts(t, e, i, p, k) PROVE FALSE
    <3>1. call'[t].at = "load"
      BY <1>1, <2>3 DEF Starts, Idle
    <3> QED
      BY <2>2, <3>1
  <2>4. ~Refuse(t) /\ ~Enter(t) /\ ~InsertElf(t)
    <3>1. \A where : call' = [call EXCEPT ![t].at = where] => call'[t].at = where
      BY <1>1 DEF CallRecord
    <3> QED
      BY <2>1, <2>2, <3>1 DEF Refuse, Enter, Entered, InsertElf
  <2>5. ASSUME call' = call, At(t, "idle") PROVE FALSE
    BY <2>5 DEF At, Dispatching
  <2>6. ~Execute(t)
    BY <1>1, IdleTyped DEF Execute, Answers, Dispatching
  <2> QED
    BY <2>3, <2>4, <2>5, <2>6
       DEF Step, LoadThroughAgave, AddBuiltin, AddElf, WithBuiltin, SetAgaveEngine
<1>3. ASSUME NEW i \in Ids, Dispatch(t, i)
      PROVE  Course(t)'
  <2>1. /\ call'[t].at = (IF agave = NoEngine THEN "registry" ELSE "route")
        /\ call'[t].engine = agave /\ UNCHANGED tables
    BY <1>1, <1>3 DEF Dispatch, Idle
  <2> QED
    BY <2>1 DEF Course, InAgave, InBpf, NotInAgave, tables
<1>4. ASSUME NEW where \in {"owner", "registry", "bpf"}, Goes(t, where)
      PROVE  /\ call'[t].at = where /\ call'[t].engine = call[t].engine
             /\ call'[t].id = call[t].id
  BY <1>1, <1>4 DEF Goes, CallRecord
<1>5. CASE Route(t)
  <2>1. /\ call[t].engine = agave /\ UNCHANGED tables
        /\ call[t].at = "route"
    BY <1>5 DEF Route, At, Course, Dispatching
  <2>2. CASE kinds[agave][call[t].id] # NoKind
    <3>1. Goes(t, "owner")
      BY <1>5, <2>1, <2>2 DEF Route
    <3> QED
      BY <1>4, <2>1, <2>2, <3>1 DEF Course, InAgave, InBpf, NotInAgave, tables
  <2>3. CASE kinds[agave][call[t].id] = NoKind
    <3>1. Goes(t, "registry")
      BY <1>5, <2>1, <2>3 DEF Route
    <3> QED
      BY <1>4, <2>1, <2>3, <3>1 DEF Course, InAgave, InBpf, NotInAgave, tables
  <2> QED
    BY <2>2, <2>3
<1>6. CASE ReadOwner(t)
  <2>1. /\ call[t].engine = agave /\ UNCHANGED tables
        /\ kinds[agave][call[t].id] # NoKind
    BY <1>6 DEF ReadOwner, At, Course, Dispatching
  <2>2. /\ call'[t].at = "execute" /\ call'[t].engine = agave /\ call'[t].id = call[t].id
        /\ call'[t].kind = kinds[agave][call[t].id]
    BY <1>1, <1>6, <2>1 DEF ReadOwner, CallRecord
  <2>3. agave # Inner
    BY <1>1
  <2> QED
    BY <2>1, <2>2, <2>3 DEF Course, InAgave, InBpf, NotInAgave, tables
<1>7. CASE FindBuiltin(t)
  <2>1. NotInAgave(call[t].id) /\ UNCHANGED tables
    BY <1>7 DEF FindBuiltin, At, Course, Dispatching
  <2>2. registry[call[t].id] = NoProgram /\ Goes(t, "bpf")
    BY <1>1, <1>7, IdleTyped DEF FindBuiltin, Answers, Dispatching
  <2> QED
    BY <1>4, <2>1, <2>2 DEF Course, InAgave, InBpf, NotInAgave, tables
<1>8. CASE FindElf(t)
  <2>1. NotInAgave(call[t].id) /\ registry[call[t].id] = NoProgram /\ UNCHANGED tables
    BY <1>8 DEF FindElf, At, Course, Dispatching
  <2>2. /\ elfs[call[t].id] # Missing /\ elfs[call[t].id].loaded
        /\ call' = [call EXCEPT ![t].at = "execute", ![t].engine = Inner,
                                ![t].kind = elfs[call[t].id].loader]
    BY <1>1, <1>8, IdleTyped DEF FindElf, Answers, Dispatching
  <2>3. /\ call'[t].at = "execute" /\ call'[t].engine = Inner /\ call'[t].id = call[t].id
        /\ call'[t].kind = elfs[call[t].id].loader
    BY <1>1, <2>2 DEF CallRecord
  <2> QED
    BY <2>1, <2>2, <2>3 DEF Course, InAgave, InBpf, NotInAgave, tables
<1> QED
  BY <1>2, <1>3, <1>5, <1>6, <1>7, <1>8

HInv == IInv /\ History /\ \A t \in Threads : OnCourse(t)

\* The engines hold nothing at the start but the inner one's system program.
LEMMA InitHInv == Init => HInv
<1> SUFFICES ASSUME Init PROVE HInv
  OBVIOUS
<1>1. \A t \in Threads : call[t] = Idle
  BY DEF Init
<1>2. \A t \in Threads : ~Registering(t) /\ call[t].at \notin Dispatching
  BY <1>1, IdleTyped DEF Registering, Dispatching
<1>3. ASSUME NEW e \in AllEngines, NEW i \in Ids
      PROVE  Settled(e, i)
  <2>1. Rivals(e, i) = {}
    BY <1>2 DEF Rivals
  <2>2. last[e][i] = Unknown /\ elfs[i] = Missing /\ (e # Inner => kinds[e][i] = NoKind)
    BY <1>3 DEF Init
  <2> QED
    BY <2>1, <2>2 DEF Settled, Held
<1> QED
  BY <1>2, <1>3, InitIInv DEF HInv, History, Fresh, OnCourse

\* Every step keeps the history true and quiet dispatches on their course.
LEMMA NextHInv == HInv /\ [Next]_vars => HInv'
<1> SUFFICES ASSUME HInv, [Next]_vars PROVE HInv'
  OBVIOUS
<1>1. CASE Next
  <2>1. PICK t \in Threads :
            /\ Step(t)
            /\ quiet' = [u \in Threads |->
                   call'[u].at \in Dispatching => tables' = tables /\ quiet[u]]
    BY <1>1 DEF Next
  <2>2. IInv'
    BY <2>1, StepIInv DEF HInv
  <2>3. History'
    BY <2>1, <2>2, StepHistory DEF HInv
  <2>4. ASSUME NEW u \in Threads, quiet'[u], call'[u].at \in Dispatching
        PROVE  Course(u)'
    <3>1. tables' = tables /\ quiet[u]
      BY <2>1, <2>4
    <3>2. CASE u = t
      BY <2>1, <2>4, <3>1, <3>2, CourseStep DEF HInv, OnCourse
    <3>3. CASE u # t
      <4>1. Stays(u)
        BY <2>1, <3>3, OthersStay DEF HInv
      <4>2. Course(u)
        BY <2>4, <3>1, <4>1 DEF Stays, HInv, OnCourse
      <4> QED
        BY <3>1, <4>1, <4>2, CourseStays
    <3> QED
      BY <3>2, <3>3
  <2> QED
    BY <2>2, <2>3, <2>4 DEF HInv, OnCourse
<1>2. CASE UNCHANGED vars
  <2>1. IInv'
    BY <1>2, StutterIInv DEF HInv
  <2>2. UNCHANGED <<agave, cache, kinds, registry, elfs, call, ran, last, quiet>>
    BY <1>2 DEF vars, tables
  <2>3. History'
    BY <2>2 DEF HInv, History, Settled, Fresh, Held, Rivals, Registering
  <2>4. \A t \in Threads : OnCourse(t)'
    BY <2>2 DEF HInv, OnCourse, Course, InAgave, InBpf, NotInAgave
  <2> QED
    BY <2>1, <2>3, <2>4 DEF HInv
<1> QED
  BY <1>1, <1>2

\* Where the first layer does not have the id, the next ones are expected to
\* answer.
LEMMA ExpectedBelow ==
    ASSUME HInv, NEW i \in Ids, NotInAgave(i), Expected(i) # Unsettled
    PROVE  Expected(i) = IF registry[i] # NoProgram THEN Runs("builtin", registry[i], NoKind)
                         ELSE last[Inner][i]
<1>1. ASSUME agave # NoEngine, last[agave][i] # Unknown PROVE FALSE
  <2>1. last[agave][i] # Unsettled
    BY <1>1 DEF Expected
  <2>2. agave \in AllEngines /\ agave # Inner
    BY <1>1, Constants DEF HInv, IInv, Typed, TypeOK
  <2>3. last[agave][i] = Held(agave, i)
    BY <2>1, <2>2 DEF HInv, History, Settled
  <2> QED
    BY <1>1, <2>2, <2>3 DEF Held, NotInAgave
<1> QED
  BY <1>1 DEF Expected

\* A dispatch on its course answers what is expected.
LEMMA CourseAnswers ==
    ASSUME HInv, NEW t \in Threads, Step(t), Answered(t), quiet[t],
           Expected(call[t].id) # Unsettled
    PROVE  ran' = Expected(call[t].id)
<1>1. /\ call[t].at \in Dispatching /\ call'[t].at = "idle"
      /\ call[t] \in CallRecord /\ call \in [Threads -> CallRecord]
      /\ Course(t)
  BY IdleTyped DEF Answered, HInv, IInv, Typed, TypeOK, OnCourse
<1>2. PICK i \in Ids : i = call[t].id
  BY <1>1 DEF CallRecord
<1>3. Route(t) \/ ReadOwner(t) \/ FindBuiltin(t) \/ FindElf(t) \/ Execute(t)
  BY <1>1 DEF Step, LoadThroughAgave, AddBuiltin, AddElf, Starts, Refuse, Enter,
     InsertElf, WithBuiltin, SetAgaveEngine, Dispatch, At, Dispatching
<1>4. \A where : Goes(t, where) => call'[t].at = where
  BY <1>1 DEF Goes
<1>5. /\ Inner \in AllEngines
      /\ last[Inner][i] # Unsettled => last[Inner][i] = Held(Inner, i)
  BY Constants DEF HInv, History, Settled
<1>6. CASE Route(t)
  BY <1>1, <1>4, <1>6 DEF Route
<1>7. CASE ReadOwner(t)
  BY <1>1, <1>7 DEF ReadOwner
<1>8. CASE FindBuiltin(t)
  <2>1. registry[i] # NoProgram /\ NotInAgave(i)
    BY <1>1, <1>2, <1>4, <1>8 DEF FindBuiltin, At, Course
  <2>2. ran' = Runs("builtin", registry[i], NoKind)
    BY <1>2, <1>8, <2>1 DEF FindBuiltin, Answers
  <2> QED
    BY <1>2, <2>1, <2>2, ExpectedBelow
<1>9. CASE FindElf(t)
  <2>1. registry[i] = NoProgram /\ NotInAgave(i)
    BY <1>1, <1>2, <1>9 DEF FindElf, At, Course
  <2>2. Expected(i) = Held(Inner, i)
    BY <1>2, <1>5, <2>1, ExpectedBelow
  <2>3. CASE elfs[i] = Missing
    BY <1>2, <1>9, <2>2, <2>3 DEF FindElf, Answers, Held
  <2>4. CASE elfs[i] # Missing
    <3>1. ASSUME elfs[i].loaded PROVE FALSE
      <4>1. call' = [call EXCEPT ![t].at = "execute", ![t].engine = Inner,
                                 ![t].kind = elfs[i].loader]
        BY <1>2, <1>9, <2>4, <3>1 DEF FindElf
      <4>2. call'[t].at = "execute"
        BY <1>1, <4>1 DEF CallRecord
      <4> QED
        BY <1>1, <4>2
    <3> QED
      BY <1>2, <1>9, <2>2, <2>4, <3>1 DEF FindElf, Answers, Held
  <2> QED
    BY <2>3, <2>4
<1>10. CASE Execute(t) /\ call[t].engine = Inner
  <2>1. /\ registry[i] = NoProgram /\ NotInAgave(i)
        /\ elfs[i] # Missing /\ elfs[i].loaded /\ call[t].kind = elfs[i].loader
    BY <1>1, <1>2, <1>10 DEF Execute, At, Course, InBpf
  <2>2. Expected(i) = Held(Inner, i)
    BY <1>2, <1>5, <2>1, ExpectedBelow
  <2> QED
    BY <1>2, <1>10, <2>1, <2>2 DEF Execute, Answers, Held
<1>11. CASE Execute(t) /\ call[t].engine # Inner
  <2>1. /\ call[t].engine = agave /\ kinds[agave][i] # NoKind
        /\ call[t].kind = kinds[agave][i]
    BY <1>1, <1>2, <1>11 DEF Execute, At, Course, InAgave
  <2>2. agave \in AllEngines /\ agave # Inner /\ agave # NoEngine
    BY <1>11, <2>1, Constants DEF HInv, IInv, Typed, TypeOK, Stage, Placed, Execute, At
  <2>3. Held(agave, i) = Runs("agave", cache[agave][i], kinds[agave][i])
    BY <2>1, <2>2 DEF Held
  <2>4. last[agave][i] # Unsettled => last[agave][i] = Held(agave, i)
    BY <2>2 DEF HInv, History, Settled
  <2>5. Expected(i) = Held(agave, i)
    <3>1. last[agave][i] # Unknown
      <4>1. Unknown # Unsettled
        <5>1. Unknown.by = "nobody" /\ Unsettled.by = "somebody"
          BY DEF Unknown, Unsettled, Runs
        <5> QED
          BY <5>1
      <4> QED
        BY <2>3, <2>4, <4>1, NotUnknown
    <3> QED
      BY <1>2, <2>2, <2>4, <3>1 DEF Expected
  <2> QED
    BY <1>2, <1>11, <2>1, <2>3, <2>5 DEF Execute, Answers
<1> QED
  BY <1>3, <1>6, <1>7, <1>8, <1>9, <1>10, <1>11

\* A dispatch during which no table changes runs what was registered last, in
\* the first layer that has the id, under its loader, or fails because that
\* did not load (bpf/engine.rs:49-51, lib.rs:1563-1641): never an older
\* program in its stead.
THEOREM LastRuns == Spec => LastRegistrationRuns
<1>1. ASSUME HInv, [Next]_vars
      PROVE  [\A t \in Threads :
                  LET answer == Expected(call[t].id)
                  IN  Answered(t) /\ quiet[t] /\ answer # Unsettled => ran' = answer]_vars
  <2> SUFFICES ASSUME Next, NEW t \in Threads, Answered(t), quiet[t],
                      Expected(call[t].id) # Unsettled
               PROVE  ran' = Expected(call[t].id)
    BY <1>1
  <2>1. PICK u \in Threads : Step(u)
    BY DEF Next
  <2>2. u = t
    <3>1. call[t].at # "idle" /\ call'[t].at = "idle"
      BY IdleTyped DEF Answered, Dispatching
    <3> QED
      BY <1>1, <2>1, <3>1, OthersStay DEF Stays, HInv
  <2> QED
    BY <1>1, <2>1, <2>2, CourseAnswers
<1>2. Spec => []HInv
  BY InitHInv, NextHInv, PTL DEF Spec
<1> QED
  BY <1>1, <1>2, PTL DEF Spec, LastRegistrationRuns
=============================================================================
