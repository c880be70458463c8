----------------------------- MODULE Execution -----------------------------
(***************************************************************************)
(* executor.Run: the architecture is loaded (module Composition), the MCP  *)
(* servers of its toolboxes are started, its skills are read and its       *)
(* components built and bound to models, the scheduler runs them (module   *)
(* Scheduler, here one step that may call tools), and on the way out,      *)
(* whatever went wrong, the deferred calls close the servers and write the *)
(* run record.  Module Commands puts the commands of orh around it.        *)
(*                                                                         *)
(* Pulling a package, a request to a server and writing the record are     *)
(* single steps that can fail; a client's own behaviour is module          *)
(* McpClient.  A model is a provider and a name; the value of --model is   *)
(* split at its colon, so it is one or two strings, or none.               *)
(***************************************************************************)
EXTENDS Composition

CONSTANTS
  Catalog,    \* server command -> the tools the server reports
  Overrides,  \* the values of --model, split
  Recording   \* whether the run may be asked for a record (--record)

VARIABLES
  pc,         \* where Run is
  aliases,    \* the dependencies the current loop has still to visit
  alias,      \* the dependency BuildToolRegistry is in
  unstarted,  \* its tools whose server is not looked at yet
  unlisted,   \* its servers whose tools are not listed yet
  server,     \* the state of each server process, by alias and command
  closers,    \* the clients to close, in the order they were started
  registry,   \* qualified tool name -> the server that runs it
  override,   \* the value of --model
  todo,       \* the components not built yet
  built,      \* component built -> the servers its tools run on, its models
  failed,     \* whether runErr is set
  record,     \* the status of the run record, "none" if there is none
  bindings,   \* what it says of the models, by slot
  saved       \* the status of the record on disk

loading == <<aliases, alias, unstarted, unlisted>>
run == <<pc, aliases, alias, unstarted, unlisted, server, closers, registry,
         override, todo, built, failed, record, bindings, saved>>
executing == <<composition, run>>

Nothing == "nothing"

ASSUME AliasAssumption == \A r \in Roots : Nothing \notin DOMAIN r.deps

deps == root.deps

\* The dependencies that are packages of a kind.
Dependencies(kind) ==
  {a \in DOMAIN deps : Resolvable(Key(deps[a])) /\ Kind(Key(deps[a])) = kind}

Tools(a) == Library[Key(deps[a])].entry.tools

\* A client is known by the dependency it was started for and its command.
Clients ==
  UNION {{<<a, Tools(a)[t].server>> : t \in DOMAIN Tools(a)} :
         a \in Dependencies("toolbox")}

Client(t) == <<alias, Tools(alias)[t].server>>

needsTools ==
  \E name \in DOMAIN flat.components :
    flat.components[name].tools # {} \/ flat.components[name].type = "node"

needsSkills ==
  \E name \in DOMAIN flat.components : flat.components[name].skills # {}

ExecutionInit ==
  /\ CompositionInit
  /\ pc = "entry"
  /\ aliases = {} /\ alias = Nothing /\ unstarted = {} /\ unlisted = {}
  /\ server = [c \in Clients |-> "none"]
  /\ closers = <<>>
  /\ registry = <<>>
  /\ override \in Overrides
  /\ todo = {} /\ built = <<>>
  /\ failed = FALSE
  /\ record \in (IF Recording THEN {"none", "running"} ELSE {"none"})
  /\ bindings = <<>>
  /\ saved = "none"

\* What only loading and the deferred calls of Run change.
Framed == UNCHANGED <<composition, override, record, bindings, saved>>

------------------------------------------------------------------------------
\* A return from the middle of Run: the deferred CloseAll comes next, and
\* the deferred record after it.
Return(failure) ==
  /\ pc' = "closing"
  /\ failed' = failure

Load ==
  /\ pc = "load"
  /\ CompositionNext
  /\ UNCHANGED run

LoadFailed ==
  /\ pc = "load" /\ composed \notin {"pending", "ok"}
  /\ Return(TRUE)
  /\ UNCHANGED <<loading, server, closers, registry, todo, built>>
  /\ Framed

\* A variant: the override replaces the whole binding.
RecordedModelWhole(model) ==
  IF override = <<>> THEN model
  ELSE [provider |-> override[1], name |-> IF Len(override) = 2 THEN override[2] ELSE ""]

\* The binding the record has of a slot with this model.
RecordedModel(model) ==
  [provider |-> IF override = <<>> THEN model.provider ELSE override[1],
   name     |-> IF Len(override) = 2 THEN override[2] ELSE model.name]

\* LoadAndValidate has returned, and the record is given the architecture;
\* without an agent's tool or a node there is no registry to build.
Loaded ==
  /\ pc = "load" /\ composed = "ok"
  /\ pc' = IF needsTools THEN "tools" ELSE "skills"
  /\ aliases' = IF needsTools \/ needsSkills THEN DOMAIN deps ELSE {}
  /\ bindings' = IF record = "none" THEN <<>>
                 ELSE [slot \in DOMAIN flat.models |-> RecordedModel(flat.models[slot])]
  /\ UNCHANGED <<alias, unstarted, unlisted, server, closers, registry, todo, built,
                 failed, composition, override, record, saved>>

------------------------------------------------------------------------------
\* The pull, request or lookup that comes next fails, or the record cannot
\* encode the architecture, and Run returns.
Fails ==
  /\ \/ pc = "load" /\ composed = "ok" /\ record # "none"
     \/ pc \in {"tools", "skills"} /\ alias = Nothing /\ aliases # {}
     \/ pc = "tools" /\ \E t \in unstarted : server[Client(t)] # "ready"
     \/ pc = "tools" /\ alias # Nothing /\ unstarted = {} /\ unlisted # {}
     \/ pc = "build" /\ todo # {}
  /\ Return(TRUE)
  /\ UNCHANGED <<loading, server, closers, registry, todo, built>>
  /\ Framed

(* BuildToolRegistry *)

\* The dependency is pulled; anything but a toolbox is skipped.
PullDependency(a) ==
  /\ pc = "tools" /\ alias = Nothing /\ a \in aliases
  /\ aliases' = aliases \ {a}
  /\ Resolvable(Key(deps[a]))
  /\ IF a \in Dependencies("toolbox")
       THEN alias' = a /\ unstarted' = DOMAIN Tools(a)
       ELSE UNCHANGED <<alias, unstarted>>
  /\ UNCHANGED <<pc, unlisted, server, closers, registry, todo, built, failed>>
  /\ Framed

\* A variant: the client is not handed to the caller for closing.
StartServerUntracked(t) ==
  /\ pc = "tools" /\ t \in unstarted /\ server[Client(t)] = "none"
  /\ \A c \in Clients : server[c] # "started"
  /\ server' = [server EXCEPT ![Client(t)] = "started"]
  /\ UNCHANGED <<pc, loading, closers, registry, todo, built, failed>>
  /\ Framed

\* One process per command; it is among the closers before it is asked
\* anything.
StartServer(t) ==
  /\ pc = "tools" /\ t \in unstarted /\ server[Client(t)] = "none"
  /\ \A c \in Clients : server[c] # "started"
  /\ server' = [server EXCEPT ![Client(t)] = "started"]
  /\ closers' = Append(closers, Client(t))
  /\ UNCHANGED <<pc, loading, registry, todo, built, failed>>
  /\ Framed

InitializeServer(t) ==
  /\ pc = "tools" /\ t \in unstarted /\ server[Client(t)] = "started"
  /\ server' = [server EXCEPT ![Client(t)] = "ready"]
  /\ unstarted' = unstarted \ {t}
  /\ unlisted' = unlisted \cup {Client(t)}
  /\ UNCHANGED <<pc, aliases, alias, closers, registry, todo, built, failed>>
  /\ Framed

\* A variant: a tool on a running server is looked at over and over.
ReuseServerSpins(t) ==
  /\ pc = "tools" /\ t \in unstarted /\ server[Client(t)] = "ready"
  /\ UNCHANGED executing

\* A server that runs for another tool of the toolbox already is reused.
ReuseServer(t) ==
  /\ pc = "tools" /\ t \in unstarted /\ server[Client(t)] = "ready"
  /\ \A c \in Clients : server[c] # "started"
  /\ unstarted' = unstarted \ {t}
  /\ UNCHANGED <<pc, aliases, alias, unlisted, server, closers, registry, todo,
                 built, failed>>
  /\ Framed

\* Every tool a server reports is registered, the declared ones or not.
ListTools(c) ==
  /\ pc = "tools" /\ alias # Nothing /\ unstarted = {} /\ c \in unlisted
  /\ registry' = Assigned(registry, [name \in {<<alias, t>> : t \in Catalog[c[2]]} |-> c])
  /\ unlisted' = unlisted \ {c}
  /\ UNCHANGED <<pc, aliases, alias, unstarted, server, closers, todo, built, failed>>
  /\ Framed

ToolboxDone ==
  /\ pc = "tools" /\ alias # Nothing /\ unstarted = {} /\ unlisted = {}
  /\ alias' = Nothing
  /\ UNCHANGED <<pc, aliases, unstarted, unlisted, server, closers, registry, todo,
                 built, failed>>
  /\ Framed

\* A variant: the servers are closed when the registry is built, as by a
\* defer in BuildToolRegistry.
RegistryBuiltClosing ==
  /\ pc = "tools" /\ alias = Nothing /\ aliases = {}
  /\ pc' = "skills"
  /\ aliases' = IF needsSkills THEN DOMAIN deps ELSE {}
  /\ server' = [c \in Clients |-> IF server[c] = "none" THEN "none" ELSE "closed"]
  /\ UNCHANGED <<alias, unstarted, unlisted, closers, registry, todo, built, failed>>
  /\ Framed

RegistryBuilt ==
  /\ pc = "tools" /\ alias = Nothing /\ aliases = {}
  /\ pc' = "skills"
  /\ aliases' = IF needsSkills THEN DOMAIN deps ELSE {}
  /\ UNCHANGED <<alias, unstarted, unlisted, server, closers, registry, todo, built,
                 failed>>
  /\ Framed

(* BuildSkillPrompts and buildComponents *)

PullSkill(a) ==
  /\ pc = "skills" /\ a \in aliases
  /\ Resolvable(Key(deps[a]))
  /\ aliases' = aliases \ {a}
  /\ UNCHANGED <<pc, alias, unstarted, unlisted, server, closers, registry, todo,
                 built, failed>>
  /\ Framed

SkillsRead ==
  /\ pc = "skills" /\ aliases = {}
  /\ pc' = "build"
  /\ todo' = DOMAIN flat.components
  /\ UNCHANGED <<loading, server, closers, registry, built, failed>>
  /\ Framed

\* The provider and name that an agent's provider is built from.
AgentModel(c) ==
  LET model == flat.models[c.model]
  IN  [provider |-> IF override = <<>> THEN model.provider ELSE override[1],
       name     |-> IF Len(override) = 2 THEN override[2] ELSE model.name]

\* resolve.Provider and ChatProvider
Supported(model) ==
  model.provider \in {"ollama", "openai", "openai-compatible"} /\ model.name # ""

\* An agent gets the tools and skills it names; one that is not there is an
\* error (Fails), as is a model without a provider.
BuildAgent(name) ==
  LET c == flat.components[name] IN
  /\ pc = "build" /\ name \in todo
  /\ c.type = "agent"
  /\ c.tools \subseteq DOMAIN registry
  /\ c.skills \subseteq Dependencies("skill")
  /\ Supported(AgentModel(c))
  /\ todo' = todo \ {name}
  /\ built' = Assigned(built, [n \in {name} |->
                 [servers |-> {registry[ref] : ref \in c.tools},
                  models  |-> [slot \in {c.model} |-> AgentModel(c)]]])
  /\ UNCHANGED <<pc, loading, server, closers, registry, failed>>
  /\ Framed

\* A node gets the whole registry, and the model slots as they are declared.
BuildNode(name) ==
  LET c == flat.components[name] IN
  /\ pc = "build" /\ name \in todo
  /\ c.type = "node"
  /\ Resolvable(Key(c)) /\ Kind(Key(c)) = "node"
  /\ todo' = todo \ {name}
  /\ built' = Assigned(built, [n \in {name} |->
                 [servers |-> Range(registry), models |-> flat.models]])
  /\ UNCHANGED <<pc, loading, server, closers, registry, failed>>
  /\ Framed

ComponentsBuilt ==
  /\ pc = "build" /\ todo = {}
  /\ pc' = "running"
  /\ UNCHANGED <<loading, server, closers, registry, todo, built, failed>>
  /\ Framed

------------------------------------------------------------------------------
\* The scheduler's Run returns, having shut its components down.
SchedulerReturns ==
  /\ pc = "running"
  /\ \E failure \in BOOLEAN : Return(failure)
  /\ UNCHANGED <<loading, server, closers, registry, todo, built>>
  /\ Framed

\* CloseAll waits for one server after another to exit.
CloseServer ==
  /\ pc = "closing" /\ closers # <<>>
  /\ server' = [server EXCEPT ![Head(closers)] = "closed"]
  /\ closers' = Tail(closers)
  /\ UNCHANGED <<pc, loading, registry, todo, built, failed>>
  /\ Framed

AllClosed ==
  /\ pc = "closing" /\ closers = <<>>
  /\ pc' = IF record = "none" THEN "returned" ELSE "recording"
  /\ record' = IF record = "none" THEN "none"
               ELSE IF failed THEN "failed" ELSE "completed"
  /\ UNCHANGED <<loading, server, closers, registry, todo, built, failed,
                 composition, override, bindings, saved>>

\* The record is written beside its path and renamed into place.
SaveRecord ==
  /\ pc = "recording"
  /\ pc' = "returned"
  /\ saved' = record
  /\ UNCHANGED <<loading, server, closers, registry, todo, built, failed,
                 composition, override, record, bindings>>

\* A variant: the caller is not told that the record is missing.
SaveFailsSilently ==
  /\ pc = "recording"
  /\ pc' = "returned"
  /\ UNCHANGED <<loading, server, closers, registry, todo, built, failed>>
  /\ Framed

SaveFails ==
  /\ pc = "recording"
  /\ pc' = "returned"
  /\ failed' = TRUE
  /\ UNCHANGED <<loading, server, closers, registry, todo, built>>
  /\ Framed

------------------------------------------------------------------------------
BuildToolRegistry ==
  \/ ToolboxDone
  \/ \E a \in aliases : PullDependency(a)
  \/ \E t \in unstarted : StartServer(t) \/ InitializeServer(t) \/ ReuseServer(t)
  \/ \E c \in unlisted : ListTools(c)

Deferred == CloseServer \/ AllClosed \/ SaveRecord \/ SaveFails

\* What other commands do as well, and what only `orh run` does.
ExecutionNext == Load \/ BuildToolRegistry \/ Fails \/ Deferred

RunNext ==
  \/ Loaded \/ LoadFailed \/ RegistryBuilt
  \/ SkillsRead \/ ComponentsBuilt \/ SchedulerReturns
  \/ \E a \in aliases : PullSkill(a)
  \/ \E name \in todo : BuildAgent(name) \/ BuildNode(name)

------------------------------------------------------------------------------
(* Properties *)

TypeOK ==
  /\ composed \in {"pending", "ok", "circular", "unresolved", "invalid"}
  /\ \A i \in DOMAIN stack :
       /\ stack[i].todo \subseteq DOMAIN stack[i].arch.components
       /\ Cardinality(stack[i].seen) = i - 1
  /\ aliases \subseteq DOMAIN deps
  /\ alias \in DOMAIN deps \cup {Nothing}
  /\ unlisted \subseteq Clients
  /\ server \in [Clients -> {"none", "started", "ready", "closed"}]
  /\ Range(closers) \subseteq Clients
  /\ Range(registry) \subseteq Clients
  /\ todo \subseteq DOMAIN flat.components
  /\ \A name \in DOMAIN built : built[name].servers \subseteq Clients
  /\ failed \in BOOLEAN
  /\ record \in {"none", "running", "completed", "failed"}
  /\ saved \in {"none", "completed", "failed"}

\* Wherever Run fails, on the way up or while it closes, no MCP server it
\* started is left running when it returns.
ServersStopped ==
  pc \in {"recording", "returned"} =>
    \A c \in Clients : server[c] \in {"none", "closed"}

\* While the components run, each tool of an agent of the root runs on a
\* server that is up, has answered initialize, and belongs to the toolbox
\* the root declares under the tool's alias.  (A node's tools are not looked
\* at: it gets them all.)
OwnToolsUp ==
  pc = "running" =>
    \A name \in DOMAIN built :
      /\ \A c \in built[name].servers : server[c] = "ready"
      /\ name \in DOMAIN ParseFile(root).components /\ flat.components[name].type = "agent" =>
           \A ref \in flat.components[name].tools :
             registry[ref] \in built[name].servers /\ registry[ref][1] = ref[1]

\* The record on disk is never of an unfinished run, says "completed" only
\* of a run that returned no error, and exists unless the caller is told.
RecordTruthful ==
  /\ saved # "none" => pc = "returned"
  /\ pc = "returned" /\ record # "none" => (saved = "completed" <=> ~failed)

\* The bindings of the record are the models the agents were built with,
\* which executor and record work out each for itself.  (A node is given
\* the slots as declared: without --model the record is right about it too.)
RecordedBindings ==
  record # "none" =>
    \A name \in DOMAIN built :
      override = <<>> \/ flat.components[name].type = "agent" =>
        \A slot \in DOMAIN built[name].models :
          bindings[slot] = built[name].models[slot]

------------------------------------------------------------------------------
(* What the repository's comments say and the code does not do.            *)

\* spec/spec.go:37-38, a tool is named by an alias "in the owning package's
\* orh.yaml dependencies": false for an imported agent, whose aliases are
\* looked up in the dependencies of the root.
ToolsFromOwner ==
  pc = "running" =>
    \A leaf \in DOMAIN built :
      \A ref \in flat.components[leaf].tools :
        LET owner == PackageAt(Front(leaf)).deps
        IN  /\ ref[1] \in DOMAIN owner
            /\ deps[registry[ref][1]] = owner[ref[1]]

==============================================================================
