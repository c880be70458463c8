--------------------------- MODULE CommandsProofs ---------------------------
(***************************************************************************)
(* Proofs about module Commands, for every library of packages, catalogue  *)
(* of tools and set of overrides: what a run does with the servers of its  *)
(* toolboxes, and what its record says.                                    *)
(***************************************************************************)
EXTENDS Commands, SequenceTheorems, TLAPS

------------------------------------------------------------------------------
(* The servers (ServersStopped). *)

\* Nothing was started yet, or everything is closed again.
Idle == {"entry", "raw", "deps", "load", "recording", "returned"}

ServerStates == {"none", "started", "ready", "closed"}

\* A server that may run is among the closers, and the tools looked at are
\* those of a toolbox of the root.
ServerInv ==
  /\ server \in [Clients -> ServerStates]
  /\ closers \in Seq(Clients)
  /\ \A c \in Clients : server[c] \in {"started", "ready"} => c \in Range(closers)
  /\ pc \in Idle => closers = <<>>
  /\ unstarted # {} => /\ alias \in Dependencies("toolbox")
                       /\ unstarted \subseteq DOMAIN Tools(alias)

------------------------------------------------------------------------------
(* The tools (OwnToolsUp). *)

AtWork == {"entry", "raw", "deps", "load", "tools", "skills", "build", "running"}

\* The registry holds tools of servers that answered initialize, each under
\* the alias of its toolbox, and it is complete before anything is built.
RegistryInv ==
  /\ root \in Roots
  /\ unlisted \cup Range(registry) \subseteq Clients
  /\ pc \in AtWork => \A c \in unlisted \cup Range(registry) : server[c] = "ready"
  /\ \A c \in unlisted : c[1] = alias
  /\ alias = Nothing => unlisted = {}
  /\ \A ref \in DOMAIN registry : registry[ref][1] = ref[1]

\* What a component was given of the registry.
ToolsInv ==
  \A name \in DOMAIN built :
    /\ built[name].servers \subseteq Range(registry)
    /\ flat.components[name].type = "agent" =>
         \A ref \in flat.components[name].tools :
           ref \in DOMAIN registry /\ registry[ref] \in built[name].servers

\* Nothing is built before the registry and the skills are there.
BuildInv ==
  /\ pc \in {"entry", "raw", "deps", "load", "tools", "call", "skills"} =>
       built = <<>> /\ todo = {}
  /\ built # <<>> => command = "run" /\ composed = "ok"
  /\ command = "run" /\ pc \in {"tools", "skills", "build", "running"} => composed = "ok"

------------------------------------------------------------------------------
(* The record (RecordTruthful). *)

RecordInv ==
  /\ failed \in BOOLEAN
  /\ command # "run" => record = "none"
  /\ pc = "deps" => command = "deps"
  /\ pc = "raw" => command # "run"
  /\ pc = "recording" => record = (IF failed THEN "failed" ELSE "completed")
  /\ RecordTruthful

------------------------------------------------------------------------------
(* The models (RecordedBindings). *)

\* A frame, and what it has gathered, are the records they are made as.
IsFrame(frame) ==
  /\ frame = [name |-> frame.name, arch |-> frame.arch, seen |-> frame.seen,
              todo |-> frame.todo, out |-> frame.out,
              inputTargets |-> frame.inputTargets, outputSources |-> frame.outputSources]
  /\ frame.out = [components |-> frame.out.components,
                  connections |-> frame.out.connections, models |-> frame.out.models]

FrameInv(frame) ==
  /\ IsFrame(frame)
  /\ frame.name \in Names
  /\ DOMAIN frame.arch.components \subseteq Names
  /\ frame.todo \subseteq DOMAIN frame.arch.components
  /\ AreModels(frame.out.models)

\* Whatever is inlined, the models of the flat architecture are models.
StackInv(frames) ==
  /\ frames \in Seq(Range(frames))
  /\ \A i \in DOMAIN frames : FrameInv(frames[i])

FlatInv ==
  /\ AreModels(flat.models)
  /\ composed = "ok" => Validate(flat)
  /\ todo \subseteq DOMAIN flat.components

RecordedAs(models) == [slot \in DOMAIN models |-> RecordedModel(models[slot])]

\* The bindings are made when the architecture is known, and it changes no
\* more; what a component was built with is one of its models, or all.
BindingsMade ==
  record # "none" /\ (pc \in {"tools", "skills", "build", "running"} \/ built # <<>>)
    => bindings = RecordedAs(flat.models)

BuiltModels ==
  \A name \in DOMAIN built :
    \/ /\ flat.components[name].type = "agent"
       /\ flat.components[name].model \in DOMAIN flat.models
       /\ built[name].models = [slot \in {flat.components[name].model} |->
                                  AgentModel(flat.components[name])]
    \/ flat.components[name].type = "node" /\ built[name].models = flat.models

------------------------------------------------------------------------------
(* Steps. *)

\* The steps of module Commands itself.
CommandStep ==
  \/ Entry \/ Validated \/ ToolTestRegistered \/ CallTool
  \/ RawInvalid \/ Inspect \/ Deps \/ PrintDepsTree

\* Where they lead, and that they leave to a run what is a run's.
LEMMA CommandSteps ==
  ASSUME CommandStep
  PROVE  /\ Unmoved
         /\ \/ /\ pc \in {"entry", "raw", "deps", "load"}
               /\ pc' \in {"returned", "raw", "deps", "load", "panicked"}
            \/ pc = "entry" /\ pc' = "tools" /\ command = "tool test"
            \/ pc = "tools" /\ pc' = "call"
            \/ pc = "call" /\ pc' = "closing"
         /\ failed \in BOOLEAN => failed' \in BOOLEAN
         /\ pc' = "raw" => command # "run"
         /\ pc' = "deps" /\ pc # "deps" => command = "deps"
         /\ pc' = "returned" =>
              failed' = TRUE \/ pc = "deps" \/ command \in {"validate", "inspect"}
  <1>1. CASE Entry
    <2>1. CASE EntryFails
      BY <2>1 DEF EntryFails, Finish
    <2>2. CASE ResolveEntrypoint
      BY <2>2 DEF ResolveEntrypoint
    <2>3. CASE ValidatePackage
      BY <2>3 DEF ValidatePackage, Finish
    <2>4. CASE ValidateFile
      BY <2>4 DEF ValidateFile
    <2>5. CASE ToolTest
      BY <2>5 DEF ToolTest
    <2>6. QED
      BY <1>1, <2>1, <2>2, <2>3, <2>4, <2>5 DEF Entry
  <1>2. CASE Validated
    BY <1>2 DEF Validated, Finish
  <1>3. CASE ToolTestRegistered
    BY <1>3 DEF ToolTestRegistered
  <1>4. CASE CallTool
    BY <1>4 DEF CallTool, Return
  <1>5. CASE RawInvalid
    BY <1>5 DEF RawInvalid, Finish
  <1>6. CASE Inspect
    BY <1>6 DEF Inspect, Finish
  <1>7. CASE Deps
    BY <1>7 DEF Deps
  <1>8. CASE PrintDepsTree
    <2>1. CASE DepsReturn
      BY <2>1 DEF DepsReturn, Finish
    <2>2. ASSUME NEW dep, Descend(dep) \/ ResolvingFails(dep) \/ NilEntrypoint(dep), pc = "deps"
          PROVE  /\ Unmoved
                 /\ pc' \in {"deps", "returned", "panicked"}
                 /\ pc' = "returned" => failed' = TRUE
                 /\ failed \in BOOLEAN => failed' \in BOOLEAN
      BY <2>2 DEF Descend, ResolvingFails, NilEntrypoint, Finish
    <2>3. QED
      BY <1>8, <2>1, <2>2 DEF PrintDepsTree
  <1>9. QED
    BY <1>1, <1>2, <1>3, <1>4, <1>5, <1>6, <1>7, <1>8 DEF CommandStep

\* The steps of module Execution, those of `orh run` alone among them.
RunStep == (ExecutionNext \/ (command = "run" /\ RunNext)) /\ command' = command

LEMMA NextCases ==
  ASSUME [Next]_vars
  PROVE  CommandStep \/ RunStep \/ UNCHANGED <<executing, command>>
  BY DEF Next, CommandStep, RunStep, vars

\* Only loading touches the architecture, and nothing touches the root.
LEMMA OnlyLoadComposes ==
  ASSUME [Next]_vars
  PROVE  /\ UNCHANGED <<root, override, command>>
         /\ Load \/ UNCHANGED composition
  <1>1. CASE CommandStep
    BY <1>1, CommandSteps DEF Unmoved, composition
  <1>2. CASE RunStep
    <2>1. CASE Load
      BY <1>2, <2>1 DEF RunStep, Load, run, CompositionNext, LoadAndValidate, ReturnChild,
             CopyComponent, CircularDependency, Resolve, ResolveFails
    <2>2. CASE BuildToolRegistry \/ Fails
      BY <1>2, <2>2 DEF RunStep, BuildToolRegistry, Fails, ToolboxDone, PullDependency, StartServer,
             InitializeServer, ReuseServer, ListTools, Framed, composition
    <2>3. CASE Deferred
      BY <1>2, <2>3 DEF RunStep, Deferred, CloseServer, AllClosed, SaveRecord, SaveFails, Framed,
             composition
    <2>4. CASE RunNext
      BY <1>2, <2>4 DEF RunStep, RunNext, Loaded, LoadFailed, RegistryBuilt, SkillsRead,
             ComponentsBuilt, SchedulerReturns, PullSkill, BuildAgent, BuildNode, Framed,
             composition
    <2>5. QED
      BY <1>2, <2>1, <2>2, <2>3, <2>4 DEF RunStep, ExecutionNext
  <1>3. CASE UNCHANGED <<executing, command>>
    BY <1>3 DEF executing, composition, run
  <1>4. QED
    BY <1>1, <1>2, <1>3, NextCases

LEMMA RootKnown ==
  ASSUME root' = root
  PROVE  /\ Clients' = Clients /\ deps' = deps
         /\ \A kind : Dependencies(kind)' = Dependencies(kind)
         /\ \A a : Tools(a)' = Tools(a)
  BY DEF Clients, Dependencies, Tools, deps

------------------------------------------------------------------------------
(* ServersStopped. *)

LEMMA RangeHeadTail ==
  ASSUME NEW S, NEW s \in Seq(S), s # <<>>
  PROVE  /\ Head(s) \in S /\ Tail(s) \in Seq(S)
         /\ \A x \in Range(s) : x = Head(s) \/ x \in Range(Tail(s))
  <1>1. SUFFICES ASSUME NEW i \in 1..Len(s)
                 PROVE  s[i] = Head(s) \/ s[i] \in Range(Tail(s))
    BY HeadTailProperties DEF Range
  <1>2. CASE i = 1
    BY <1>2
  <1>3. CASE i # 1
    <2>1. i - 1 \in 1..Len(Tail(s)) /\ Tail(s)[i - 1] = s[i]
      BY <1>3, HeadTailProperties
    <2>2. Tail(s) \in Seq(S)
      BY HeadTailProperties
    <2>3. i - 1 \in DOMAIN Tail(s)
      BY <2>1, <2>2
    <2>4. QED
      BY <2>1, <2>3 DEF Range
  <1>4. QED
    BY <1>2, <1>3

LEMMA ClientIsClient ==
  ASSUME NEW t, t \in unstarted, ServerInv
  PROVE  Client(t) \in Clients
  BY DEF ServerInv, Client, Clients

LEMMA ServerStep ==
  ASSUME ServerInv, [Next]_vars
  PROVE  ServerInv'
  <1> USE OnlyLoadComposes, RootKnown
  <1>1. CASE CommandStep
    BY <1>1, CommandSteps DEF Unmoved, ServerInv, Idle
  <1>2. CASE RunStep
    <2>1. CASE Load
      BY <2>1 DEF Load, run, ServerInv, Idle
    <2>2. CASE ToolboxDone
      BY <2>2 DEF ToolboxDone, ServerInv, Idle
    <2>3. ASSUME NEW a \in aliases, PullDependency(a)
          PROVE  ServerInv'
      <3>1. CASE a \in Dependencies("toolbox")
        BY <2>3, <3>1 DEF PullDependency, ServerInv, Idle
      <3>2. CASE a \notin Dependencies("toolbox")
        BY <2>3, <3>2 DEF PullDependency, ServerInv, Idle
      <3>3. QED
        BY <3>1, <3>2
    <2>4. ASSUME NEW t \in unstarted, StartServer(t)
          PROVE  ServerInv'
      <3>1. Client(t) \in Clients
        BY ClientIsClient
      <3>2. /\ server' \in [Clients -> ServerStates] /\ closers' \in Seq(Clients)
        BY <2>4, <3>1 DEF StartServer, ServerInv, ServerStates
      <3>3. ASSUME NEW c \in Clients, server'[c] \in {"started", "ready"}
            PROVE  c \in Range(closers')
        <4>1. Range(closers') = Range(closers) \cup {Client(t)}
          BY <2>4, <3>1 DEF StartServer, ServerInv, Range
        <4>2. QED
          BY <2>4, <3>1, <3>3, <4>1 DEF StartServer, ServerInv
      <3>4. QED
        BY <2>4, <3>2, <3>3 DEF StartServer, loading, ServerInv, Idle
    <2>5. ASSUME NEW t \in unstarted, InitializeServer(t)
          PROVE  ServerInv'
      <3>1. Client(t) \in Clients
        BY ClientIsClient
      <3>2. QED
        BY <2>5, <3>1 DEF InitializeServer, ServerInv, ServerStates, Idle
    <2>6. ASSUME NEW t \in unstarted, ReuseServer(t)
          PROVE  ServerInv'
      BY <2>6 DEF ReuseServer, ServerInv, Idle
    <2>7. ASSUME NEW c \in unlisted, ListTools(c)
          PROVE  ServerInv'
      BY <2>7 DEF ListTools, ServerInv, Idle
    <2>8. CASE Fails
      BY <2>8 DEF Fails, loading, Return, ServerInv, Idle
    <2>9. CASE CloseServer
      <3>1. /\ closers # <<>> /\ closers \in Seq(Clients)
            /\ server \in [Clients -> ServerStates]
            /\ server' = [server EXCEPT ![Head(closers)] = "closed"]
            /\ closers' = Tail(closers)
            /\ UNCHANGED <<pc, alias, unstarted>> /\ pc = "closing"
        BY <2>9 DEF CloseServer, ServerInv, loading
      <3>2. /\ Head(closers) \in Clients /\ closers' \in Seq(Clients)
            /\ \A c \in Range(closers) : c = Head(closers) \/ c \in Range(closers')
        BY <3>1, RangeHeadTail
      <3>3. server' \in [Clients -> ServerStates]
        BY <3>1, <3>2 DEF ServerStates
      <3>4. QED
        BY <3>1, <3>2, <3>3 DEF ServerInv, Idle
    <2>10. CASE AllClosed
      BY <2>10 DEF AllClosed, loading, ServerInv, Idle
    <2>11. CASE SaveRecord \/ SaveFails
      BY <2>11 DEF SaveRecord, SaveFails, loading, ServerInv, Idle
    <2>12. CASE RunNext
      BY <2>12 DEF RunNext, Loaded, LoadFailed, RegistryBuilt, SkillsRead, ComponentsBuilt,
             SchedulerReturns, PullSkill, BuildAgent, BuildNode, Return, loading,
             ServerInv, Idle
    <2>13. QED
      BY <1>2, <2>1, <2>2, <2>3, <2>4, <2>5, <2>6, <2>7, <2>8, <2>9, <2>10, <2>11, <2>12
         DEF RunStep, ExecutionNext, BuildToolRegistry, Deferred
  <1>3. CASE UNCHANGED <<executing, command>>
    BY <1>3 DEF executing, run, ServerInv
  <1>4. QED
    BY <1>1, <1>2, <1>3, NextCases

\* Every server a command started is stopped or is still to be closed, so
\* none is left when it has closed them all, whatever failed on the way
\* (BuildToolRegistry hands over its closers with its error).
THEOREM ServersStoppedHolds == Spec => []ServersStopped
  <1>1. Init => ServerInv
    BY DEF Init, ExecutionInit, ServerInv, ServerStates, Idle
  <1>2. ServerInv /\ [Next]_vars => ServerInv'
    BY ServerStep
  <1>3. ServerInv => ServersStopped
    <2>1. SUFFICES ASSUME ServerInv, pc \in {"recording", "returned"}, NEW c \in Clients
                   PROVE  server[c] \in {"none", "closed"}
      BY DEF ServersStopped
    <2>2. closers = <<>>
      BY <2>1 DEF ServerInv, Idle
    <2>3. Range(closers) = {}
      BY <2>2 DEF Range
    <2>4. QED
      BY <2>1, <2>3 DEF ServerInv, ServerStates
  <1>4. QED
    BY <1>1, <1>2, <1>3, PTL DEF Spec

------------------------------------------------------------------------------
(* RecordTruthful. *)

LEMMA RecordStep ==
  ASSUME RecordInv, [Next]_vars
  PROVE  RecordInv'
  <1> USE OnlyLoadComposes
  <1>1. CASE CommandStep
    BY <1>1, CommandSteps DEF Unmoved, RecordInv, RecordTruthful
  <1>2. CASE RunStep
    <2>1. CASE Load
      BY <2>1 DEF Load, run, RecordInv, RecordTruthful
    <2>2. CASE BuildToolRegistry
      BY <2>2 DEF BuildToolRegistry, ToolboxDone, PullDependency, StartServer, InitializeServer,
             ReuseServer, ListTools, Framed, RecordInv, RecordTruthful
    <2>3. CASE Fails \/ CloseServer
      BY <2>3 DEF Fails, CloseServer, Return, Framed, RecordInv, RecordTruthful
    <2>4. CASE AllClosed
      BY <2>4 DEF AllClosed, RecordInv, RecordTruthful
    <2>5. CASE SaveRecord
      <3>1. CASE failed
        BY <2>5, <3>1 DEF SaveRecord, RecordInv, RecordTruthful
      <3>2. CASE ~failed
        BY <2>5, <3>2 DEF SaveRecord, RecordInv, RecordTruthful
      <3>3. QED
        BY <3>1, <3>2
    <2>6. CASE SaveFails
      BY <2>6 DEF SaveFails, Framed, RecordInv, RecordTruthful
    <2>7. CASE command = "run" /\ RunNext
      BY <2>7 DEF RunNext, Loaded, LoadFailed, RegistryBuilt, SkillsRead, ComponentsBuilt,
             SchedulerReturns, PullSkill, BuildAgent, BuildNode, Return, Framed,
             RecordInv, RecordTruthful
    <2>8. QED
      BY <1>2, <2>1, <2>2, <2>3, <2>4, <2>5, <2>6, <2>7 DEF RunStep, ExecutionNext, Deferred
  <1>3. CASE UNCHANGED <<executing, command>>
    BY <1>3 DEF executing, run, RecordInv, RecordTruthful
  <1>4. QED
    BY <1>1, <1>2, <1>3, NextCases

\* The record on disk is of a finished run, agrees with what that run
\* returned, and is missing only if its caller is told (the deferred
\* function of executor.Run).
THEOREM RecordTruthfulHolds == Spec => []RecordTruthful
  <1>1. Init => RecordInv
    BY DEF Init, ExecutionInit, RecordInv, RecordTruthful
  <1>2. RecordInv /\ [Next]_vars => RecordInv'
    BY RecordStep
  <1>3. RecordInv => RecordTruthful
    BY DEF RecordInv
  <1>4. QED
    BY <1>1, <1>2, <1>3, PTL DEF Spec

------------------------------------------------------------------------------
(* OwnToolsUp. *)

LEMMA RegistryStep ==
  ASSUME ServerInv, RegistryInv, [Next]_vars
  PROVE  RegistryInv'
  <1> USE OnlyLoadComposes, RootKnown
  <1>1. CASE CommandStep
    BY <1>1, CommandSteps DEF Unmoved, RegistryInv, AtWork
  <1>2. CASE RunStep
    <2>1. CASE Load
      BY <2>1 DEF Load, run, RegistryInv, AtWork
    <2>2. CASE ToolboxDone
      BY <2>2 DEF ToolboxDone, RegistryInv, AtWork
    <2>3. ASSUME NEW a \in aliases, PullDependency(a)
          PROVE  RegistryInv'
      <3>1. CASE a \in Dependencies("toolbox")
        BY <2>3, <3>1 DEF PullDependency, RegistryInv, AtWork
      <3>2. CASE a \notin Dependencies("toolbox")
        BY <2>3, <3>2 DEF PullDependency, RegistryInv, AtWork
      <3>3. QED
        BY <3>1, <3>2
    <2>4. ASSUME NEW t \in unstarted, StartServer(t)
          PROVE  RegistryInv'
      <3>1. \A c \in unlisted \cup Range(registry) : server'[c] = server[c]
        BY <2>4 DEF StartServer, ServerInv, RegistryInv, AtWork
      <3>2. QED
        BY <2>4, <3>1 DEF StartServer, loading, RegistryInv, AtWork
    <2>5. ASSUME NEW t \in unstarted, InitializeServer(t)
          PROVE  RegistryInv'
      <3>1. Client(t) \in Clients /\ Client(t)[1] = alias
        BY ClientIsClient DEF Client
      <3>2. alias # Nothing
        BY AliasAssumption DEF ServerInv, RegistryInv, Dependencies, deps
      <3>3. server'[Client(t)] = "ready" /\ \A c \in Clients : c # Client(t) => server'[c] = server[c]
        BY <2>5, <3>1 DEF InitializeServer, ServerInv
      <3>4. QED
        BY <2>5, <3>1, <3>2, <3>3 DEF InitializeServer, RegistryInv, AtWork
    <2>6. ASSUME NEW t \in unstarted, ReuseServer(t)
          PROVE  RegistryInv'
      BY <2>6 DEF ReuseServer, RegistryInv, AtWork
    <2>7. ASSUME NEW c \in unlisted, ListTools(c)
          PROVE  RegistryInv'
      <3> DEFINE listed == {<<alias, t>> : t \in Catalog[c[2]]}
      <3>1. /\ registry' = [ref \in DOMAIN registry \cup listed |->
                              IF ref \in listed THEN c ELSE registry[ref]]
            /\ unlisted' = unlisted \ {c} /\ UNCHANGED <<pc, alias, server>>
        BY <2>7 DEF ListTools, Assigned
      <3>2. c[1] = alias /\ \A ref \in listed : ref[1] = alias
        BY DEF RegistryInv
      <3>3. Range(registry') \subseteq Range(registry) \cup {c}
        BY <3>1 DEF Range
      <3>4. \A ref \in DOMAIN registry' : registry'[ref][1] = ref[1]
        BY <3>1, <3>2 DEF RegistryInv
      <3>5. QED
        BY <3>1, <3>3, <3>4 DEF RegistryInv, AtWork
    <2>8. CASE Fails \/ Deferred
      BY <2>8 DEF Fails, Deferred, CloseServer, AllClosed, SaveRecord, SaveFails, loading, Return,
             RegistryInv, AtWork
    <2>9. CASE RunNext
      BY <2>9 DEF RunNext, Loaded, LoadFailed, RegistryBuilt, SkillsRead, ComponentsBuilt,
             SchedulerReturns, PullSkill, BuildAgent, BuildNode, Return, loading,
             RegistryInv, AtWork
    <2>10. QED
      BY <1>2, <2>1, <2>2, <2>3, <2>4, <2>5, <2>6, <2>7, <2>8, <2>9
         DEF RunStep, ExecutionNext, BuildToolRegistry
  <1>3. CASE UNCHANGED <<executing, command>>
    BY <1>3 DEF executing, run, RegistryInv
  <1>4. QED
    BY <1>1, <1>2, <1>3, NextCases

LEMMA BuildStep ==
  ASSUME BuildInv, [Next]_vars
  PROVE  BuildInv'
  <1> USE OnlyLoadComposes
  <1>1. CASE CommandStep
    BY <1>1, CommandSteps DEF Unmoved, BuildInv, composition
  <1>2. CASE RunStep
    <2>1. CASE Load
      BY <2>1 DEF Load, run, BuildInv
    <2>2. CASE BuildToolRegistry \/ Fails \/ Deferred
      BY <2>2 DEF BuildToolRegistry, ToolboxDone, PullDependency, StartServer, InitializeServer,
             ReuseServer, ListTools, Fails, Deferred, CloseServer, AllClosed, SaveRecord,
             SaveFails, Return, Framed, composition, BuildInv
    <2>3. CASE command = "run" /\ RunNext
      BY <2>3 DEF RunNext, Loaded, LoadFailed, RegistryBuilt, SkillsRead, ComponentsBuilt,
             SchedulerReturns, PullSkill, BuildAgent, BuildNode, Return, Framed, composition,
             BuildInv
    <2>4. QED
      BY <1>2, <2>1, <2>2, <2>3 DEF RunStep, ExecutionNext
  <1>3. CASE UNCHANGED <<executing, command>>
    BY <1>3 DEF executing, run, composition, BuildInv
  <1>4. QED
    BY <1>1, <1>2, <1>3, NextCases

\* While something is built, a step builds one component more, or none; the
\* architecture and the registry stay as they are.
LEMMA BuiltSteps ==
  ASSUME BuildInv, [Next]_vars
  PROVE  \/ built' = <<>>
         \/ UNCHANGED <<built, flat, registry>>
         \/ /\ pc = "build" /\ command = "run" /\ UNCHANGED <<flat, registry, bindings, record>>
            /\ \E name \in todo : BuildAgent(name) \/ BuildNode(name)
  <1> USE OnlyLoadComposes
  <1>1. CASE CommandStep
    BY <1>1, CommandSteps DEF Unmoved, composition
  <1>2. CASE RunStep
    <2>1. CASE Load
      BY <2>1 DEF Load, run, BuildInv
    <2>2. CASE BuildToolRegistry \/ Fails \/ Deferred
      BY <2>2 DEF BuildToolRegistry, ToolboxDone, PullDependency, StartServer, InitializeServer,
             ReuseServer, ListTools, Fails, Deferred, CloseServer, AllClosed, SaveRecord,
             SaveFails, Return, Framed, composition, BuildInv
    <2>3. CASE command = "run" /\ RunNext
      BY <2>3 DEF RunNext, Loaded, LoadFailed, RegistryBuilt, SkillsRead, ComponentsBuilt,
             SchedulerReturns, PullSkill, BuildAgent, BuildNode, Return, Framed, composition
    <2>4. QED
      BY <1>2, <2>1, <2>2, <2>3 DEF RunStep, ExecutionNext
  <1>3. CASE UNCHANGED <<executing, command>>
    BY <1>3 DEF executing, run, composition
  <1>4. QED
    BY <1>1, <1>2, <1>3, NextCases

\* What a component is given of the registry.
LEMMA AgentGiven ==
  ASSUME NEW name, BuildAgent(name)
  PROVE  /\ flat.components[name].type = "agent"
         /\ flat.components[name].tools \subseteq DOMAIN registry
         /\ DOMAIN built' = DOMAIN built \cup {name}
         /\ \A other \in DOMAIN built : other # name => built'[other] = built[other]
         /\ built'[name].servers = {registry[ref] : ref \in flat.components[name].tools}
         /\ built'[name].models = [slot \in {flat.components[name].model} |->
                                     AgentModel(flat.components[name])]
  <1> DEFINE c == flat.components[name]
             given == [servers |-> {registry[ref] : ref \in c.tools},
                       models  |-> [slot \in {c.model} |-> AgentModel(c)]]
  <1>1. built' = Assigned(built, [n \in {name} |-> given])
    BY DEF BuildAgent
  <1>2. /\ given.servers = {registry[ref] : ref \in c.tools}
        /\ given.models = [slot \in {c.model} |-> AgentModel(c)]
    OBVIOUS
  <1>3. /\ DOMAIN built' = DOMAIN built \cup {name} /\ built'[name] = given
        /\ \A other \in DOMAIN built : other # name => built'[other] = built[other]
    <2> HIDE DEF given
    <2>1. QED
      BY <1>1 DEF Assigned
  <1>4. c.type = "agent" /\ c.tools \subseteq DOMAIN registry
    BY DEF BuildAgent
  <1>5. QED
    BY <1>2, <1>3, <1>4

LEMMA NodeGiven ==
  ASSUME NEW name, BuildNode(name)
  PROVE  /\ flat.components[name].type = "node"
         /\ DOMAIN built' = DOMAIN built \cup {name}
         /\ \A other \in DOMAIN built : other # name => built'[other] = built[other]
         /\ built'[name].servers = Range(registry)
         /\ built'[name].models = flat.models
  <1> DEFINE given == [servers |-> Range(registry), models |-> flat.models]
  <1>1. built' = Assigned(built, [n \in {name} |-> given])
    BY DEF BuildNode
  <1>2. given.servers = Range(registry) /\ given.models = flat.models
    OBVIOUS
  <1>3. /\ DOMAIN built' = DOMAIN built \cup {name} /\ built'[name] = given
        /\ \A other \in DOMAIN built : other # name => built'[other] = built[other]
    <2> HIDE DEF given
    <2>1. QED
      BY <1>1 DEF Assigned
  <1>4. QED
    BY <1>2, <1>3 DEF BuildNode

LEMMA ToolsStep ==
  ASSUME BuildInv, ToolsInv, [Next]_vars
  PROVE  ToolsInv'
  <1>1. CASE built' = <<>>
    BY <1>1 DEF ToolsInv
  <1>2. CASE UNCHANGED <<built, flat, registry>>
    BY <1>2 DEF ToolsInv, Range
  <1>3. ASSUME NEW name \in todo, BuildAgent(name) \/ BuildNode(name), UNCHANGED <<flat, registry>>
        PROVE  ToolsInv'
    <2>1. \/ /\ flat.components[name].tools \subseteq DOMAIN registry
             /\ built'[name].servers = {registry[ref] : ref \in flat.components[name].tools}
          \/ /\ flat.components[name].type = "node"
             /\ built'[name].servers = Range(registry)
      BY <1>3, AgentGiven, NodeGiven
    <2>2. /\ DOMAIN built' = DOMAIN built \cup {name}
          /\ \A other \in DOMAIN built : other # name => built'[other] = built[other]
      BY <1>3, AgentGiven, NodeGiven
    <2>3. built'[name].servers \subseteq Range(registry)
      BY <2>1 DEF Range
    <2>4. flat.components[name].type = "agent" =>
            \A ref \in flat.components[name].tools :
              ref \in DOMAIN registry /\ registry[ref] \in built'[name].servers
      BY <2>1
    <2>5. Range(registry)' = Range(registry)
      BY <1>3 DEF Range
    <2>6. QED
      BY <1>3, <2>2, <2>3, <2>4, <2>5 DEF ToolsInv
  <1>4. QED
    BY <1>1, <1>2, <1>3, BuiltSteps

\* An agent's tools run, while the components do, on servers that answered
\* initialize, each of the toolbox its alias names; an agent whose tool is
\* not in the registry is not built.
THEOREM OwnToolsUpHolds == Spec => []OwnToolsUp
  <1> DEFINE IInv == ServerInv /\ RegistryInv /\ BuildInv /\ ToolsInv
  <1>1. Init => IInv
    <2>1. SUFFICES ASSUME Init PROVE IInv
      OBVIOUS
    <2>2. ServerInv /\ BuildInv /\ ToolsInv
      BY <2>1 DEF Init, ExecutionInit, CompositionInit, ServerInv, ServerStates, Idle, BuildInv, ToolsInv
    <2>3. Range(registry) = {}
      BY <2>1 DEF Init, ExecutionInit, Range
    <2>4. RegistryInv
      BY <2>1, <2>3 DEF Init, ExecutionInit, CompositionInit, RegistryInv
    <2>5. QED
      BY <2>2, <2>4
  <1>2. IInv /\ [Next]_vars => IInv'
    BY ServerStep, RegistryStep, BuildStep, ToolsStep
  <1>3. IInv => OwnToolsUp
    <2>1. SUFFICES ASSUME IInv, pc = "running", NEW name \in DOMAIN built
                   PROVE  /\ \A c \in built[name].servers : server[c] = "ready"
                          /\ flat.components[name].type = "agent" =>
                               \A ref \in flat.components[name].tools :
                                 /\ registry[ref] \in built[name].servers
                                 /\ registry[ref][1] = ref[1]
      BY DEF OwnToolsUp
    <2>2. \A c \in built[name].servers : server[c] = "ready"
      BY <2>1 DEF RegistryInv, ToolsInv, AtWork
    <2>3. flat.components[name].type = "agent" =>
            \A ref \in flat.components[name].tools :
              registry[ref] \in built[name].servers /\ registry[ref][1] = ref[1]
      BY <2>1 DEF RegistryInv, ToolsInv
    <2>4. QED
      BY <2>2, <2>3
  <1>4. QED
    BY <1>1, <1>2, <1>3, PTL DEF Spec

------------------------------------------------------------------------------
(* RecordedBindings: what is inlined keeps its models. *)

LEMMA OwnRange ==
  ASSUME NEW S, NEW s \in Seq(S)
  PROVE  s \in Seq(Range(s))
  <1>1. \A i \in 1..Len(s) : s[i] \in Range(s)
    BY DEF Range
  <1>2. s = [i \in 1..Len(s) |-> s[i]] /\ Len(s) \in Nat
    OBVIOUS
  <1>3. s \in [1..Len(s) -> Range(s)]
    BY <1>1, <1>2
  <1>4. QED
    BY <1>2, <1>3, SeqDef

LEMMA StackPrefix ==
  ASSUME NEW s, StackInv(s), NEW n \in 0..Len(s)
  PROVE  StackInv(SubSeq(s, 1, n))
  <1> DEFINE t == SubSeq(s, 1, n)
             S == Range(s)
  <1>1. s \in Seq(S) /\ \A i \in DOMAIN s : FrameInv(s[i])
    BY DEF StackInv
  <1>2. Len(s) \in Nat /\ DOMAIN s = 1..Len(s)
    BY <1>1
  <1>3. t \in Seq(S) /\ Len(t) = n /\ \A i \in 1..n : t[i] = s[i]
    <2> HIDE DEF S
    <2>1. QED
      BY <1>1, <1>2
  <1>4. t \in Seq(Range(t))
    BY <1>3, OwnRange
  <1>5. \A i \in DOMAIN t : FrameInv(t[i])
    BY <1>1, <1>2, <1>3
  <1>6. QED
    BY <1>4, <1>5 DEF StackInv

LEMMA StackPush ==
  ASSUME NEW s, StackInv(s), NEW frame, FrameInv(frame)
  PROVE  StackInv(Append(s, frame))
  <1> DEFINE t == Append(s, frame)
             S == Range(s) \cup {frame}
  <1>1. s \in Seq(S) /\ \A i \in DOMAIN s : FrameInv(s[i])
    BY DEF StackInv
  <1>2. /\ t \in Seq(S) /\ Len(t) = Len(s) + 1 /\ Len(s) \in Nat
        /\ t[Len(s) + 1] = frame /\ \A i \in 1..Len(s) : t[i] = s[i]
    <2>1. frame \in S
      OBVIOUS
    <2> HIDE DEF S
    <2>2. QED
      BY <1>1, <2>1, AppendProperties
  <1>3. t \in Seq(Range(t))
    BY <1>2, OwnRange
  <1>4. \A i \in DOMAIN t : FrameInv(t[i])
    BY <1>1, <1>2
  <1>5. QED
    BY <1>3, <1>4 DEF StackInv

LEMMA StackTop ==
  ASSUME NEW s, StackInv(s), s # <<>>
  PROVE  /\ FrameInv(Last(s)) /\ StackInv(Front(s))
         /\ Len(s) \in Nat \ {0} /\ DOMAIN s = 1..Len(s)
  <1>1. s \in Seq(Range(s))
    BY DEF StackInv
  <1>2. Len(s) \in Nat \ {0} /\ DOMAIN s = 1..Len(s)
    BY <1>1
  <1>3. StackInv(SubSeq(s, 1, Len(s) - 1))
    BY <1>2, StackPrefix
  <1>4. QED
    BY <1>2, <1>3 DEF StackInv, Last, Front

LEMMA EmptyStack == StackInv(<<>>)
  <1>1. <<>> \in Seq(Range(<<>>)) /\ DOMAIN <<>> = {}
    OBVIOUS
  <1>2. QED
    BY <1>1 DEF StackInv

LEMMA AssignedModels ==
  ASSUME NEW f, NEW g, AreModels(f), AreModels(g)
  PROVE  AreModels(Assigned(f, g))
  BY DEF AreModels, Assigned

LEMMA PrefixedModels ==
  ASSUME NEW prefix \in Names, NEW models, AreModels(models)
  PROVE  AreModels(Prefixed(prefix, models))
  <1>1. ASSUME NEW n \in DOMAIN models
        PROVE  /\ prefix \o n \in Names
               /\ SubSeq(prefix \o n, Len(prefix) + 1, Len(prefix \o n)) = n
    <2>1. n \in Seq(STRING) /\ prefix \in Seq(STRING)
      BY DEF AreModels, Names
    <2>2. QED
      BY <2>1 DEF Names
  <1>2. \A name \in DOMAIN Prefixed(prefix, models) :
          \E n \in DOMAIN models : /\ name = prefix \o n
                                   /\ Prefixed(prefix, models)[name] = models[n]
    BY <1>1 DEF Prefixed
  <1>3. QED
    BY <1>1, <1>2 DEF AreModels

LEMMA ParsedIs ==
  ASSUME NEW p \in Roots \cup Range(Library)
  PROVE  DOMAIN ParseFile(p).components \subseteq Names /\ AreModels(ParseFile(p).models)
  BY ParsedAssumption DEF AreComponents

LEMMA ImportedIs ==
  ASSUME NEW key, Importable(key)
  PROVE  /\ DOMAIN Library[key].entry.components \subseteq Names
         /\ AreModels(Library[key].entry.models)
  <1>1. Library[key] \in Range(Library)
    BY DEF Importable, Resolvable, Range
  <1>2. ParseFile(Library[key]) = Library[key].entry
    BY DEF Importable, Resolvable, Kind, PackageValid, EntryValid, ParseFile
  <1>3. QED
    BY <1>1, <1>2, ParsedIs

LEMMA NewFrame ==
  ASSUME NEW name \in Names, NEW arch, NEW seen,
         DOMAIN arch.components \subseteq Names, AreModels(arch.models)
  PROVE  FrameInv(Frame(name, arch, seen))
  BY DEF FrameInv, IsFrame, Frame, NoArchitecture

LEMMA FlattenedModels ==
  ASSUME NEW frame, FrameInv(frame)
  PROVE  Flattened(frame).models = frame.out.models
  <1> DEFINE rewritten == FlattenSeq(
               [i \in DOMAIN frame.arch.connections |->
                  rewriteConnection(frame.arch.connections[i],
                                    frame.inputTargets, frame.outputSources)])
  <1>1. Flattened(frame) = [frame.out EXCEPT !.connections = @ \o rewritten]
    BY DEF Flattened
  <1>2. DOMAIN frame.out = {"components", "connections", "models"}
    BY DEF FrameInv, IsFrame
  <1> HIDE DEF rewritten
  <1>3. QED
    BY <1>1, <1>2

LEMMA Merged ==
  ASSUME NEW frame, FrameInv(frame), NEW prefix \in Names, NEW child, AreModels(child.models)
  PROVE  FrameInv(mergeChild(frame, prefix, child))
  <1> DEFINE m == Assigned(frame.out.models, Prefixed(prefix, child.models))
             c == Assigned(frame.out.components,
                           Prefixed(prefix, PrefixModels(prefix, child.components)))
             n == frame.out.connections \o Internal(prefix, child.connections)
             t == Recorded(frame.inputTargets, InputEntries(prefix, child.connections))
             s == Recorded(frame.outputSources, OutputEntries(prefix, child.connections))
             merged == mergeChild(frame, prefix, child)
  <1>1. AreModels(m)
    BY PrefixedModels, AssignedModels DEF FrameInv
  <1>2. merged = [frame EXCEPT !.out.models = m, !.out.components = c,
                               !.out.connections = n,
                               !.inputTargets = t, !.outputSources = s]
    BY DEF mergeChild
  <1> HIDE DEF m, c, n, t, s, merged
  <1>3. /\ DOMAIN frame = {"name", "arch", "seen", "todo", "out", "inputTargets", "outputSources"}
        /\ DOMAIN frame.out = {"components", "connections", "models"}
    BY DEF FrameInv, IsFrame
  <1>4. /\ merged.out = [components |-> c, connections |-> n, models |-> m]
        /\ merged = [name |-> frame.name, arch |-> frame.arch, seen |-> frame.seen,
                     todo |-> frame.todo, out |-> merged.out,
                     inputTargets |-> t, outputSources |-> s]
    BY <1>2, <1>3
  <1>5. IsFrame(merged)
    BY <1>4 DEF IsFrame
  <1>6. QED
    BY <1>1, <1>4, <1>5 DEF FrameInv, merged

LEMMA VisitedFrame ==
  ASSUME NEW frame, FrameInv(frame), NEW name
  PROVE  FrameInv(Visited(frame, name))
  <1>1. DOMAIN frame = {"name", "arch", "seen", "todo", "out", "inputTargets", "outputSources"}
    BY DEF FrameInv, IsFrame
  <1>2. Visited(frame, name) = [name |-> frame.name, arch |-> frame.arch, seen |-> frame.seen,
                                todo |-> frame.todo \ {name}, out |-> frame.out,
                                inputTargets |-> frame.inputTargets,
                                outputSources |-> frame.outputSources]
    BY <1>1 DEF Visited
  <1>3. QED
    BY <1>2 DEF FrameInv, IsFrame

LEMMA CopiedFrame ==
  ASSUME NEW frame, FrameInv(frame), NEW c
  PROVE  FrameInv([frame EXCEPT !.out.components = Assigned(@, c)])
  <1> DEFINE m == Assigned(frame.out.components, c)
             copied == [frame EXCEPT !.out.components = Assigned(@, c)]
  <1>1. copied = [frame EXCEPT !.out.components = m]
    OBVIOUS
  <1> HIDE DEF m, copied
  <1>2. /\ DOMAIN frame = {"name", "arch", "seen", "todo", "out", "inputTargets", "outputSources"}
        /\ DOMAIN frame.out = {"components", "connections", "models"}
    BY DEF FrameInv, IsFrame
  <1>3. /\ copied.out = [components |-> m, connections |-> frame.out.connections,
                         models |-> frame.out.models]
        /\ copied = [name |-> frame.name, arch |-> frame.arch, seen |-> frame.seen,
                     todo |-> frame.todo, out |-> copied.out,
                     inputTargets |-> frame.inputTargets,
                     outputSources |-> frame.outputSources]
    BY <1>1, <1>2
  <1>4. IsFrame(copied)
    BY <1>3 DEF IsFrame
  <1>5. QED
    BY <1>3, <1>4 DEF FrameInv, copied

\* What is composed is an architecture whose models are models, and it
\* validates if it is to be run.
LEMMA ComposeStep ==
  ASSUME root \in Roots, StackInv(stack), AreModels(flat.models), CompositionNext
  PROVE  /\ StackInv(stack')
         /\ AreModels(flat'.models)
         /\ composed' = "ok" => Validate(flat')
  <1>1. CASE LoadAndValidate
    <2> DEFINE arch == IF stack = <<>> THEN ParseFile(root) ELSE Flattened(Top)
    <2>1. flat' = arch /\ stack' = <<>> /\ (composed' = "ok" => Validate(arch))
      BY <1>1 DEF LoadAndValidate
    <2>2. AreModels(arch.models)
      <3>1. CASE stack = <<>>
        BY <3>1, ParsedIs
      <3>2. CASE stack # <<>>
        <4>1. FrameInv(Top)
          BY <3>2, StackTop DEF Top
        <4>2. QED
          BY <3>2, <4>1, FlattenedModels DEF FrameInv
      <3>3. QED
        BY <3>1, <3>2
    <2> HIDE DEF arch
    <2>3. QED
      BY <2>1, <2>2, EmptyStack
  <1>2. ASSUME stack # <<>>, ReturnChild
        PROVE  StackInv(stack') /\ UNCHANGED <<composed, flat>>
    <2>1. Len(stack) > 1 /\ Len(stack) \in Nat /\ DOMAIN stack = 1..Len(stack) /\ FrameInv(Top)
      BY <1>2, StackTop DEF ReturnChild, Top
    <2>2. FrameInv(stack[Len(stack) - 1])
      <3>1. Len(stack) - 1 \in DOMAIN stack
        BY <2>1
      <3>2. QED
        BY <3>1 DEF StackInv
    <2>3. AreModels(Flattened(Top).models) /\ Top.name \in Names
      BY <2>1, FlattenedModels DEF FrameInv
    <2>4. FrameInv(mergeChild(stack[Len(stack) - 1], Top.name, Flattened(Top)))
      BY <2>2, <2>3, Merged
    <2>5. StackInv(SubSeq(stack, 1, Len(stack) - 2))
      <3>1. Len(stack) - 2 \in 0..Len(stack)
        BY <2>1
      <3>2. QED
        BY <3>1, StackPrefix
    <2>6. QED
      BY <1>2, <2>4, <2>5, StackPush DEF ReturnChild
  <1>3. ASSUME stack # <<>>, NEW name \in Top.todo, CopyComponent(name)
        PROVE  StackInv(stack') /\ UNCHANGED <<composed, flat>>
    <2> DEFINE copied == [Visited(Top, name) EXCEPT
                            !.out.components = Assigned(@, [n \in {name} |-> Component(name)])]
    <2>1. FrameInv(Top) /\ StackInv(Front(stack))
      BY <1>3, StackTop DEF Top
    <2>2. FrameInv(copied)
      BY <2>1, VisitedFrame, CopiedFrame
    <2>3. stack' = Append(Front(stack), copied) /\ UNCHANGED <<composed, flat>>
      BY <1>3 DEF CopyComponent
    <2> HIDE DEF copied
    <2>4. QED
      BY <2>1, <2>2, <2>3, StackPush
  <1>4. ASSUME NEW name \in Top.todo, CircularDependency(name) \/ ResolveFails(name)
        PROVE  StackInv(stack') /\ UNCHANGED flat /\ composed' # "ok"
    BY <1>4, EmptyStack DEF CircularDependency, ResolveFails
  <1>5. ASSUME stack # <<>>, NEW name \in Top.todo, Resolve(name)
        PROVE  StackInv(stack') /\ UNCHANGED <<composed, flat>>
    <2> DEFINE key == Key(Component(name))
               called == Frame(name, Library[key].entry, Top.seen \cup {key})
    <2>1. FrameInv(Top) /\ StackInv(Front(stack))
      BY <1>5, StackTop DEF Top
    <2>2. name \in Names
      BY <2>1, <1>5 DEF FrameInv
    <2>3. FrameInv(called)
      <3>1. Importable(key)
        BY <1>5 DEF Resolve
      <3> HIDE DEF key
      <3>2. QED
        BY <2>2, <3>1, ImportedIs, NewFrame
    <2>4. FrameInv(Visited(Top, name))
      BY <2>1, VisitedFrame
    <2>5. /\ stack' = Append(Append(Front(stack), Visited(Top, name)), called)
          /\ UNCHANGED <<composed, flat>>
      BY <1>5 DEF Resolve
    <2> HIDE DEF called
    <2>6. QED
      BY <2>1, <2>3, <2>4, <2>5, StackPush
  <1>6. composed = "pending"
    BY DEF CompositionNext
  <1>7. QED
    BY <1>1, <1>2, <1>3, <1>4, <1>5, <1>6 DEF CompositionNext

ModelsInv == root \in Roots /\ StackInv(stack) /\ FlatInv

LEMMA ModelsStep ==
  ASSUME ModelsInv, BuildInv, [Next]_vars
  PROVE  ModelsInv'
  <1>1. root' \in Roots
    BY OnlyLoadComposes DEF ModelsInv
  <1>2. /\ StackInv(stack') /\ AreModels(flat'.models)
        /\ composed' = "ok" => Validate(flat')
    <2>1. CASE Load
      BY <2>1, ComposeStep DEF Load, ModelsInv, FlatInv
    <2>2. CASE UNCHANGED composition
      BY <2>2 DEF composition, ModelsInv, FlatInv
    <2>3. QED
      BY <2>1, <2>2, OnlyLoadComposes
  <1>3. todo' \subseteq DOMAIN flat'.components
    <2>1. CASE Load
      BY <2>1 DEF Load, run, BuildInv
    <2>2. CASE ~Load /\ UNCHANGED composition
      <3> USE <2>2 DEF composition, ModelsInv, FlatInv
      <3>1. CASE CommandStep
        BY <3>1, CommandSteps DEF Unmoved
      <3>2. CASE RunStep
        <4>1. CASE ExecutionNext
          BY <4>1 DEF ExecutionNext, BuildToolRegistry, ToolboxDone, PullDependency,
                 StartServer, InitializeServer, ReuseServer, ListTools, Fails, Deferred,
                 CloseServer, AllClosed, SaveRecord, SaveFails
        <4>2. CASE RunNext
          <5>1. CASE SkillsRead
            BY <5>1 DEF SkillsRead
          <5>2. ASSUME NEW name \in todo, BuildAgent(name) \/ BuildNode(name)
                PROVE  todo' \subseteq DOMAIN flat'.components
            BY <5>2 DEF BuildAgent, BuildNode
          <5>3. QED
            BY <4>2, <5>1, <5>2 DEF RunNext, Loaded, LoadFailed, RegistryBuilt, ComponentsBuilt,
                   SchedulerReturns, PullSkill
        <4>3. QED
          BY <3>2, <4>1, <4>2 DEF RunStep
      <3>3. CASE UNCHANGED <<executing, command>>
        BY <3>3 DEF executing, run
      <3>4. QED
        BY <3>1, <3>2, <3>3, NextCases
    <2>3. QED
      BY <2>1, <2>2, OnlyLoadComposes
  <1>4. QED
    BY <1>1, <1>2, <1>3 DEF ModelsInv, FlatInv


\* The record is given its bindings when the architecture is loaded, and
\* keeps them.
LEMMA RecordedStep ==
  ASSUME BuildInv, RecordInv, BindingsMade, [Next]_vars
  PROVE  BindingsMade'
  <1>1. override' = override
    BY OnlyLoadComposes
  <1>2. ASSUME UNCHANGED flat
        PROVE  RecordedAs(flat.models)' = RecordedAs(flat.models)
    BY <1>1, <1>2 DEF RecordedAs, RecordedModel
  <1>3. SUFFICES \/ record' = "none"
                 \/ built' = <<>> /\ pc' \notin {"tools", "skills", "build", "running"}
                 \/ bindings' = RecordedAs(flat.models) /\ UNCHANGED flat
                 \/ UNCHANGED <<bindings, flat>> /\ record # "none"
                    /\ (pc \in {"tools", "skills", "build", "running"} \/ built # <<>>)
    BY <1>2 DEF BindingsMade
  <1>4. CASE CommandStep
    BY <1>4, CommandSteps DEF Unmoved, composition, BuildInv, RecordInv
  <1>5. CASE RunStep
    <2>1. CASE Load
      BY <2>1 DEF Load, run, BuildInv
    <2>2. CASE Loaded
      <3>1. bindings' = RecordedAs(flat.models) \/ record' = "none"
        BY <2>2 DEF Loaded, RecordedAs
      <3>2. QED
        BY <2>2, <3>1 DEF Loaded, composition
    <2>3. CASE BuildToolRegistry
      BY <2>3 DEF BuildToolRegistry, ToolboxDone, PullDependency, StartServer, InitializeServer,
             ReuseServer, ListTools, Framed, composition
    <2>4. CASE Fails
      BY <2>4 DEF Fails, Return, Framed, composition, BuildInv
    <2>5. CASE Deferred
      BY <2>5 DEF Deferred, CloseServer, AllClosed, SaveRecord, SaveFails, Framed, composition
    <2>6. CASE LoadFailed
      BY <2>6 DEF LoadFailed, Return, BuildInv
    <2>7. CASE RunNext /\ ~Loaded /\ ~LoadFailed
      BY <2>7 DEF RunNext, RegistryBuilt, SkillsRead, ComponentsBuilt, SchedulerReturns,
             PullSkill, BuildAgent, BuildNode, Return, Framed, composition
    <2>8. QED
      BY <1>5, <2>1, <2>2, <2>3, <2>4, <2>5, <2>6, <2>7 DEF RunStep, ExecutionNext
  <1>6. CASE UNCHANGED <<executing, command>>
    BY <1>6 DEF executing, run, composition, BindingsMade
  <1>7. QED
    BY <1>4, <1>5, <1>6, NextCases

\* What a component was built with of the models of the architecture.
LEMMA BuiltModelsStep ==
  ASSUME BuildInv, ModelsInv, BuiltModels, [Next]_vars
  PROVE  BuiltModels'
  <1>1. CASE built' = <<>>
    BY <1>1 DEF BuiltModels
  <1>2. override' = override
    BY OnlyLoadComposes
  <1>3. CASE UNCHANGED <<built, flat, registry>>
    BY <1>2, <1>3 DEF BuiltModels, AgentModel
  <1>4. ASSUME NEW name \in todo, BuildAgent(name) \/ BuildNode(name), UNCHANGED flat,
               pc = "build", command = "run"
        PROVE  BuiltModels'
    <2>1. composed = "ok" /\ name \in DOMAIN flat.components
      BY <1>4 DEF BuildInv, ModelsInv, FlatInv
    <2>2. flat.components[name].type = "agent" =>
            flat.components[name].model \in DOMAIN flat.models
      BY <2>1 DEF ModelsInv, FlatInv, Validate, checkComponents
    <2>3. \/ /\ flat.components[name].type = "agent"
             /\ flat.components[name].model \in DOMAIN flat.models
             /\ built'[name].models = [slot \in {flat.components[name].model} |->
                                         AgentModel(flat.components[name])]
          \/ flat.components[name].type = "node" /\ built'[name].models = flat.models
      BY <1>4, <2>2, AgentGiven, NodeGiven
    <2>4. /\ DOMAIN built' = DOMAIN built \cup {name}
          /\ \A other \in DOMAIN built : other # name => built'[other] = built[other]
      BY <1>4, AgentGiven, NodeGiven
    <2>5. \A c : AgentModel(c)' = AgentModel(c)
      BY <1>2, <1>4 DEF AgentModel
    <2>6. QED
      BY <1>4, <2>3, <2>4, <2>5 DEF BuiltModels
  <1>5. QED
    BY <1>1, <1>3, <1>4, BuiltSteps

LEMMA ModelsStart ==
  ASSUME Init
  PROVE  ModelsInv
  <1>1. StackInv(stack)
    <2>1. CASE stack = <<>>
      BY <2>1, EmptyStack
    <2>2. CASE stack = <<Frame(NoName, ParseFile(root), {})>>
      <3> DEFINE frame == Frame(NoName, ParseFile(root), {})
      <3>1. root \in Roots /\ NoName \in Names
        BY DEF Init, ExecutionInit, CompositionInit, NoName, Names
      <3>2. FrameInv(frame)
        BY <3>1, ParsedIs, NewFrame
      <3>3. stack = Append(<<>>, frame)
        <4> HIDE DEF frame
        <4>1. <<frame>> = Append(<<>>, frame)
          OBVIOUS
        <4>2. QED
          BY <2>2, <4>1 DEF frame
      <3>4. QED
        BY <3>2, <3>3, EmptyStack, StackPush
    <2>3. QED
      BY <2>1, <2>2 DEF Init, ExecutionInit, CompositionInit
  <1>2. FlatInv /\ root \in Roots
    BY DEF Init, ExecutionInit, CompositionInit, FlatInv, NoArchitecture, AreModels
  <1>3. QED
    BY <1>1, <1>2 DEF ModelsInv

LEMMA ModelsHold == Spec => [](BuildInv /\ ModelsInv)
  <1>1. Init => BuildInv
    BY DEF Init, ExecutionInit, BuildInv
  <1>2. BuildInv /\ ModelsInv /\ [Next]_vars => BuildInv' /\ ModelsInv'
    BY BuildStep, ModelsStep
  <1>3. QED
    BY <1>1, <1>2, ModelsStart, PTL DEF Spec

\* The bindings of the run record are those the agents were built with, for
\* every architecture, whatever it imports, and every --model: each agent's
\* slot is one of the flat architecture (checkComponents), and the binding
\* recorded for it is worked out as its provider is.
THEOREM RecordedBindingsHolds == Spec => []RecordedBindings
  <1> DEFINE IInv == BuildInv /\ RecordInv /\ ModelsInv /\ BindingsMade /\ BuiltModels
  <1>1. Init => IInv
    <2>1. SUFFICES ASSUME Init PROVE IInv
      OBVIOUS
    <2>2. BuildInv /\ RecordInv /\ BindingsMade /\ BuiltModels
      <3>1. /\ pc = "entry" /\ built = <<>> /\ todo = {} /\ failed = FALSE
            /\ saved = "none" /\ (command # "run" => record = "none")
        BY <2>1 DEF Init, ExecutionInit
      <3>2. BuildInv /\ BindingsMade /\ BuiltModels
        BY <3>1 DEF BuildInv, BindingsMade, BuiltModels
      <3>3. RecordInv
        BY <3>1 DEF RecordInv, RecordTruthful
      <3>4. QED
        BY <3>2, <3>3
    <2>3. QED
      BY <2>1, <2>2, ModelsStart
  <1>2. IInv /\ [Next]_vars => IInv'
    BY BuildStep, RecordStep, ModelsStep, RecordedStep, BuiltModelsStep
  <1>3. IInv => RecordedBindings
    <2>1. SUFFICES ASSUME IInv, record # "none", NEW name \in DOMAIN built,
                          override = <<>> \/ flat.components[name].type = "agent",
                          NEW slot \in DOMAIN built[name].models
                   PROVE  bindings[slot] = built[name].models[slot]
      BY DEF RecordedBindings
    <2>2. bindings = RecordedAs(flat.models)
      BY <2>1 DEF BindingsMade
    <2>3. CASE /\ flat.components[name].type = "agent"
               /\ flat.components[name].model \in DOMAIN flat.models
               /\ built[name].models = [s \in {flat.components[name].model} |->
                                          AgentModel(flat.components[name])]
      BY <2>1, <2>2, <2>3 DEF RecordedAs, RecordedModel, AgentModel
    <2>4. CASE override = <<>> /\ built[name].models = flat.models
      <3>1. slot \in DOMAIN flat.models /\ Len(override) # 2
        BY <2>1, <2>4
      <3>2. flat.models[slot] = [provider |-> flat.models[slot].provider,
                                 name |-> flat.models[slot].name]
        BY <2>1, <3>1 DEF ModelsInv, FlatInv, AreModels
      <3>3. RecordedModel(flat.models[slot]) = flat.models[slot]
        BY <2>4, <3>1, <3>2 DEF RecordedModel
      <3>4. QED
        BY <2>2, <2>4, <3>1, <3>3 DEF RecordedAs
    <2>5. QED
      BY <2>1, <2>3, <2>4 DEF BuiltModels
  <1>4. QED
    BY <1>1, <1>2, <1>3, PTL DEF Spec

==============================================================================
