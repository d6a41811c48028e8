------------------------- MODULE ProgramRegistries -------------------------
(***************************************************************************)
(* Where a harness looks for the program an instruction names, and how     *)
(* programs get there (lib.rs, agave/engine.rs, bpf/engine.rs).            *)
(*                                                                         *)
(* Three layers are asked in turn: the Agave engine, if one is installed   *)
(* and knows the program; the registry of built-in simulators; the BPF     *)
(* compatibility engine, which runs what it has in an Agave engine of its  *)
(* own.  Each layer is one or more tables behind locks of their own, which *)
(* all clones of a HopperSvm share.  Every critical section is a step; a   *)
(* program is a model value, and what it does to accounts is left out.     *)
(***************************************************************************)
EXTENDS Naturals

CONSTANTS
    Threads,    \* clones of the harness, each in a thread of its own
    Ids,        \* program ids
    SystemId,   \* the system program's
    Functions,  \* programs that are functions of the host
    SystemVm,   \* Agave's system processor, one of them
    SystemSim,  \* the harness's own system program, another
    Elfs,       \* programs that are the bytes of ELF files
    Broken,     \* those of them that do not load
    Offers,     \* ELF files and the loaders they are registered under
    Engines,    \* the Agave engines the user builds
    Inner,      \* the Agave engine inside the BpfEngine
    Mine,       \* the ids each thread registers programs under
    NoEngine, NoProgram

Programs == Functions \cup Elfs
Loaders == {"V2", "V3"}
Kinds == Loaders \cup {"Builtin"}
NoKind == "none"
AllEngines == Engines \cup {Inner}

ASSUME RegistriesAssumption ==
    /\ SystemId \in Ids
    /\ Broken \subseteq Elfs /\ Broken \cap Functions = {}
    /\ SystemVm \in Functions /\ SystemSim \in Functions
    /\ Offers \subseteq Elfs \X Loaders
    /\ Inner \notin Engines
    /\ NoEngine \notin AllEngines
    /\ NoProgram \notin Programs
    /\ Mine \in [Threads -> SUBSET Ids]

VARIABLES
    agave,      \* agave_engine: the engine installed, or NoEngine
    cache,      \* the program_cache of each engine
    kinds,      \* the kinds of each engine
    registry,   \* the built-in simulators
    elfs,       \* BpfEngine.programs: the loader, and whether it loaded
    call,       \* what each thread is doing
    ran,        \* the answer of the dispatch that has just returned
    last,       \* what is known of the last registration in each engine
    quiet       \* has no table changed since a thread's dispatch began?

tables == <<agave, cache, kinds, registry, elfs>>
vars == <<tables, call, ran, last, quiet>>

Missing == [loader |-> NoKind, loaded |-> FALSE]

\* Who answers for a program, with which code under which loader.
Runs(by, program, kind) == [by |-> by, program |-> program, kind |-> kind]
Unknown == Runs("nobody", NoProgram, NoKind)
LoadError == Runs("loader", NoProgram, NoKind)

\* A registration is under way, or two of them have met and none has come
\* after them; a registration has met another.
Unsettled == Runs("somebody", NoProgram, NoKind)
Contested == Runs("several", NoProgram, NoKind)

\* A call: where it is, the engine it has cloned, the id it is about, the
\* program it registers, the kind it registers or has read; the registration
\* before it; whether its id was known when it began.
Idle == [at |-> "idle", engine |-> NoEngine, id |-> SystemId, program |-> NoProgram,
         kind |-> NoKind, before |-> Unknown, known |-> FALSE]

\* HopperSvm::new registers its system program, BpfEngine::new installs Agave's
\* in the inner engine.
Init ==
    /\ agave = NoEngine
    /\ cache = [e \in AllEngines |-> [i \in Ids |->
                   IF e = Inner /\ i = SystemId THEN SystemVm ELSE NoProgram]]
    /\ kinds = [e \in AllEngines |-> [i \in Ids |->
                   IF e = Inner /\ i = SystemId THEN "Builtin" ELSE NoKind]]
    /\ registry = [i \in Ids |-> IF i = SystemId THEN SystemSim ELSE NoProgram]
    /\ elfs = [i \in Ids |-> Missing]
    /\ call = [t \in Threads |-> Idle]
    /\ ran = Unknown
    /\ last = [e \in AllEngines |-> [i \in Ids |-> Unknown]]
    /\ quiet = [t \in Threads |-> TRUE]

At(t, where) == call[t].at = where

-----------------------------------------------------------------------------
(* Registration in an Agave engine: the cache, then the kinds, then, for   *)
(* the inner engine, the record of the ELF, under a lock each.             *)

Registering(t) == call[t].at \in {"load", "kind", "insert"}

Rivals(e, i) == {t \in Threads : Registering(t) /\ call[t].engine = e /\ call[t].id = i}

Starts(t, e, i, p, k) ==
    /\ At(t, "idle") /\ i \in Mine[t]
    /\ call' = [call EXCEPT ![t] = [Idle EXCEPT !.at = "load", !.engine = e, !.id = i,
                    !.program = p, !.kind = k,
                    !.before = IF Rivals(e, i) = {} THEN last[e][i] ELSE Contested]]
    /\ last' = [last EXCEPT ![e][i] = Unsettled]
    /\ ran' = Unknown /\ UNCHANGED tables

\* The call returns.  Only a registration nobody has met settles anything.
Ends(t, what) ==
    LET c == call[t]
    IN  /\ call' = [u \in Threads |->
               IF u = t THEN Idle
               ELSE IF u \in Rivals(c.engine, c.id)
                    THEN [call[u] EXCEPT !.before = Contested] ELSE call[u]]
        /\ last' = [last EXCEPT ![c.engine][c.id] =
               IF Rivals(c.engine, c.id) = {t} /\ c.before # Contested THEN what ELSE @]

\* load_bpf_program_through_agave loads into the engine it finds installed.
LoadThroughAgave(t, i, p, k) ==
    agave # NoEngine /\ Starts(t, agave, i, p, k)

\* add_builtin and install_system_program, on an engine the user has at hand.
AddBuiltin(t, e, i, p) ==
    Starts(t, e, i, p, "Builtin")

\* BpfEngine::add_elf_with_loader
AddElf(t, i, p, k) == Starts(t, Inner, i, p, k)

\* The bytes do not load, and the engine keeps what it has.
Refuse(t) ==
    /\ At(t, "load") /\ call[t].program \in Broken
    /\ IF call[t].engine = Inner
       THEN call' = [call EXCEPT ![t].at = "insert"] /\ UNCHANGED last
       ELSE Ends(t, call[t].before)
    /\ ran' = Unknown /\ UNCHANGED tables

EnterCache(t) ==
    cache' = [cache EXCEPT ![call[t].engine][call[t].id] = call[t].program]
    /\ UNCHANGED kinds

EnterKind(t) ==
    kinds' = [kinds EXCEPT ![call[t].engine][call[t].id] = call[t].kind]
    /\ UNCHANGED cache

Entered(t) ==
    IF call[t].engine = Inner
    THEN call' = [call EXCEPT ![t].at = "insert"] /\ UNCHANGED last
    ELSE Ends(t, Runs("agave", call[t].program, call[t].kind))

\* Mutant of Enter: the kind goes first.
EnterKindFirst(t) ==
    /\ \/ /\ At(t, "load") /\ call[t].program \notin Broken
          /\ EnterKind(t)
          /\ call' = [call EXCEPT ![t].at = "kind"] /\ UNCHANGED last
       \/ At(t, "kind") /\ EnterCache(t) /\ Entered(t)
    /\ ran' = Unknown /\ UNCHANGED <<agave, registry, elfs>>

Enter(t) ==
    /\ \/ /\ At(t, "load") /\ call[t].program \notin Broken
          /\ EnterCache(t)
          /\ call' = [call EXCEPT ![t].at = "kind"] /\ UNCHANGED last
       \/ At(t, "kind") /\ EnterKind(t) /\ Entered(t)
    /\ ran' = Unknown /\ UNCHANGED <<agave, registry, elfs>>

\* Mutant of ElfRecord: the record of an earlier load that went well stays.
ElfRecordIfLoaded(p, k, before) ==
    IF p \in Broken /\ before # Missing THEN before
    ELSE [loader |-> k, loaded |-> p \notin Broken]

\* What goes in whether the bytes loaded or not.
ElfRecord(p, k, before) == [loader |-> k, loaded |-> p \notin Broken]

InsertElf(t) ==
    LET c == call[t]
    IN  /\ At(t, "insert")
        /\ elfs' = [elfs EXCEPT ![c.id] = ElfRecord(c.program, c.kind, @)]
        /\ Ends(t, IF c.program \in Broken THEN LoadError
                   ELSE Runs("bpf", c.program, c.kind))
        /\ ran' = Unknown /\ UNCHANGED <<agave, cache, kinds, registry>>

-----------------------------------------------------------------------------
(* What takes one step.                                                    *)

\* with_builtin, on a clone of the harness.
WithBuiltin(t, i, p) ==
    /\ At(t, "idle") /\ i \in Mine[t]
    /\ registry' = [registry EXCEPT ![i] = p]
    /\ ran' = Unknown /\ UNCHANGED <<agave, cache, kinds, elfs, call, last>>

\* set_agave_engine, and with_agave_runtime once it has built its engine.
SetAgaveEngine(t, e) ==
    /\ At(t, "idle")
    /\ agave' = e
    /\ ran' = Unknown /\ UNCHANGED <<cache, kinds, registry, elfs, call, last>>

-----------------------------------------------------------------------------
(* dispatch_one_inner, as far as finding the program goes.                 *)

Known(i) ==
    \/ agave # NoEngine /\ kinds[agave][i] # NoKind
    \/ registry[i] # NoProgram
    \/ elfs[i] # Missing

Goes(t, where) == call' = [call EXCEPT ![t].at = where] /\ ran' = Unknown

Answers(t, answer) ==
    ran' = answer /\ call' = [call EXCEPT ![t] = Idle]

\* It clones the engine installed, if there is one.
Dispatch(t, i) ==
    /\ At(t, "idle")
    /\ call' = [call EXCEPT ![t] = [Idle EXCEPT
                    !.at = IF agave = NoEngine THEN "registry" ELSE "route",
                    !.engine = agave, !.id = i, !.known = Known(i)]]
    /\ ran' = Unknown /\ UNCHANGED <<tables, last>>

\* Mutant of Route: the engine installed by now is asked, the clone runs.
RouteByInstalled(t) ==
    /\ At(t, "route")
    /\ Goes(t, IF kinds[agave][call[t].id] # NoKind THEN "owner" ELSE "registry")
    /\ UNCHANGED <<tables, last>>

\* is_registered, of the clone.
Route(t) ==
    /\ At(t, "route")
    /\ Goes(t, IF kinds[call[t].engine][call[t].id] # NoKind THEN "owner" ELSE "registry")
    /\ UNCHANGED <<tables, last>>

\* invocation_owner_for: the owner of the stub that stands for a program the
\* caller does not list.
ReadOwner(t) ==
    /\ At(t, "owner")
    /\ call' = [call EXCEPT ![t].at = "execute",
                            ![t].kind = kinds[call[t].engine][call[t].id]]
    /\ ran' = Unknown /\ UNCHANGED <<tables, last>>

FindBuiltin(t) ==
    /\ At(t, "registry")
    /\ LET p == registry[call[t].id]
       IN  IF p # NoProgram THEN Answers(t, Runs("builtin", p, NoKind)) ELSE Goes(t, "bpf")
    /\ UNCHANGED <<tables, last>>

\* BpfEngine::try_execute, up to the call of its inner engine.
FindElf(t) ==
    /\ At(t, "bpf")
    /\ LET elf == elfs[call[t].id]
       IN  IF elf = Missing THEN Answers(t, Unknown)
           ELSE IF ~elf.loaded THEN Answers(t, LoadError)
           ELSE /\ call' = [call EXCEPT ![t].at = "execute", ![t].engine = Inner,
                                        ![t].kind = elf.loader]
                /\ ran' = Unknown
    /\ UNCHANGED <<tables, last>>

\* process_instruction_raw copies the cache and runs what is in it.
Execute(t) ==
    /\ At(t, "execute")
    /\ Answers(t, Runs(IF call[t].engine = Inner THEN "bpf" ELSE "agave",
                       cache[call[t].engine][call[t].id], call[t].kind))
    /\ UNCHANGED <<tables, last>>

-----------------------------------------------------------------------------

Step(t) ==
    \/ \E i \in Ids, o \in Offers : LoadThroughAgave(t, i, o[1], o[2])
    \/ \E e \in Engines, i \in Ids, p \in Functions : AddBuiltin(t, e, i, p)
    \/ \E i \in Ids, o \in Offers : AddElf(t, i, o[1], o[2])
    \/ Refuse(t) \/ Enter(t) \/ InsertElf(t)
    \/ \E i \in Ids, p \in Functions : WithBuiltin(t, i, p)
    \/ \E e \in Engines : SetAgaveEngine(t, e)
    \/ \E i \in Ids : Dispatch(t, i)
    \/ Route(t) \/ ReadOwner(t) \/ FindBuiltin(t) \/ FindElf(t) \/ Execute(t)

Dispatching == {"route", "owner", "registry", "bpf", "execute"}

\* A dispatch stays quiet as long as the tables stay as they are.
Next ==
    \E t \in Threads :
        /\ Step(t)
        /\ quiet' = [u \in Threads |->
               call'[u].at \in Dispatching => tables' = tables /\ quiet[u]]

Spec == Init /\ [][Next]_vars
-----------------------------------------------------------------------------
(* Properties.                                                             *)

\* Every variable keeps its type.
Reply ==
    [by : {"agave", "builtin", "bpf", "loader", "nobody", "somebody", "several"},
     program : Programs \cup {NoProgram}, kind : Kinds \cup {NoKind}]

CallRecord ==
    [at : {"idle", "load", "kind", "insert"} \cup Dispatching,
     engine : AllEngines \cup {NoEngine}, id : Ids, program : Programs \cup {NoProgram},
     kind : Kinds \cup {NoKind}, before : Reply, known : BOOLEAN]

TypeOK ==
    /\ agave \in Engines \cup {NoEngine}
    /\ cache \in [AllEngines -> [Ids -> Programs \cup {NoProgram}]]
    /\ kinds \in [AllEngines -> [Ids -> Kinds \cup {NoKind}]]
    /\ registry \in [Ids -> Programs \cup {NoProgram}]
    /\ elfs \in [Ids -> [loader : Loaders \cup {NoKind}, loaded : BOOLEAN]]
    /\ call \in [Threads -> CallRecord]
    /\ ran \in Reply

\* Whoever finds a program by its kind, or by the record of its ELF, finds it
\* in the cache as well, however a registration and a dispatch interleave
\* (agave/engine.rs:164-168 and 231-235; try_execute reads two tables of two
\* structures): a dispatch never reaches the runtime for a program that is
\* not there.
RegisteredIsCached ==
    /\ \A e \in AllEngines, i \in Ids :
           kinds[e][i] # NoKind => cache[e][i] # NoProgram
    /\ \A i \in Ids : elfs[i].loaded => cache[Inner][i] # NoProgram
    /\ \A t \in Threads : At(t, "execute") => cache[call[t].engine][call[t].id] # NoProgram

\* What the layers in their order hold for an id, going by the registrations.
Expected(i) ==
    IF agave # NoEngine /\ last[agave][i] # Unknown THEN last[agave][i]
    ELSE IF registry[i] # NoProgram THEN Runs("builtin", registry[i], NoKind)
    ELSE last[Inner][i]

Answered(t) == call[t].at \in Dispatching /\ call'[t] = Idle

\* A dispatch during which no table changes runs the program registered last,
\* under the loader it was registered with, in the first layer that has it:
\* also after registrations by other clones, failed ones and ones in another
\* engine, and with an error when the bytes registered last did not load
\* (bpf/engine.rs:49-51), never with an older program in their stead.
LastRegistrationRuns ==
    [][\A t \in Threads :
        LET answer == Expected(call[t].id)
        IN  Answered(t) /\ quiet[t] /\ answer # Unsettled => ran' = answer]_vars

\* A dispatch of a program that some layer has when it begins is answered by
\* a program or by a load error: whatever is registered or installed while
\* the layers are asked, one after the other, it does not fall between them.
KnownIsAnswered ==
    [][\A t \in Threads : Answered(t) /\ call[t].known => ran' # Unknown]_vars
=============================================================================
