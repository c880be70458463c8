# A formal model of ORH

ORH (`src/orh`, Go) runs orchestrations of agents: a `.orh` file names components
(model-backed agents, WASM nodes, imported packages) and connections between their
ports, and `orh run` pulls the packages, starts the tool servers, feeds one input
event into the graph and collects what reaches `output`. This directory holds TLA+
modules of the parts that carry that logic, TLC configurations that check them on
small instances, and TLAPS proofs of the main safety properties for all instances.

Paths below are relative to `src/orh/internal` unless they begin with `sdk`.

## 1. The system

| component | state | operations | what is hard | what makes it correct |
|---|---|---|---|---|
| graph (`graph/`) | adjacency lists, ordered | build, successors, split an endpoint at the last dot | dotted names from composition | used by everything below |
| scheduler (`runtime/scheduler`) | event queue, counter, outputs, lifecycle of nodes | init, deliver, handle, apply commands, shut down | cycles, fan-out into the queue being consumed, errors and panics half-way | exactly-once ordered delivery, a limit that holds, lifecycle |
| MCP client (`mcp/client.go`) | `pending`, one channel per call, `closed`, `readErr` | call, readLoop, Close | goroutines, a select with several ready cases, a server that exits or misbehaves | answers reach their call, nothing blocks |
| package cache (`resolver/resolver.go` 195-353, `resolver/github`) | directories on disk | stat, extract, remove, rename, load, save the lock; list, info | kills between steps, two processes | no corrupt entry, stable packages and pins, retries succeed, what is listed is there |
| package lock (`resolver/resolver.go` 46-193, `lock/`) | `orh.lock` of each cached package | pull recursively, pin, apply the pins | tags that move, non-atomic writes, recursion | reproducible and complete pins, and uses that follow them |
| agent and memory (`components/agent.go`, `memory/`, `providers/`) | session files, maps, conversation | load, ask the model, run tools, save, emit | models that loop or name unknown tools, torn writes, two runs of one session | well-formed conversations, faithful memory, histories kept apart, termination |
| package manifests (`pkg/`, `toolbox/`, `skill/`, `nodes/manifest.go`) | none | load, validate | four kinds of packages where one is expected | nothing invalid gets further |
| composition and validation (`composition/`, `validator/`) | stack of calls, boundary maps | flatten, merge a child, rewrite connections, validate | recursion in map order, ports with several endpoints, cycles of imports | routes, components and models preserved |
| executor and record (`runtime/executor`, `provenance/`) | server processes, closers, registry, record | load, build the registry, build components, run, close, record | failure at any step on the way up, order of deferred calls | no server outlives the run, a truthful record |
| command line (`cli/`) | none | run, validate, inspect, deps, tool test | what is left to the end of the command, recursion without a check | commands end, print what is so |
| WASM nodes (`nodes/`, `wasm/`, `sdk/node`) | node state, guest memory, mutex | init, handle, host calls, shutdown | packed words, memory that runs out, a lock held in start-up | state, permissions and results survive the boundary |

Interaction: the executor calls composition (which calls the resolver for each
imported package, hence the lock and the cache), starts one MCP client per tool
server, builds agents and nodes, and hands them to the scheduler. The scheduler calls
`Handle` of agents (which call providers and, through the registry, MCP clients) and of
nodes (whose modules call back into the host while `Handle` runs). One `orh` command is
one goroutine, apart from the `readLoop` of each MCP client; several commands share
`~/.orh/cache` and `~/.orh/sessions`.

Not modelled, and why: the decoding of YAML and JSON, prompts, texts, traces and
hashes (data no property tells apart); `orh init` and `orh node build` (they write
files and run a compiler); `orh node test` (one `Handle` of NodeHost); the adapter
`tools/mcp_tool.go` (a tool call is one step of Agent and one call of McpClient).

## 2. The modules

**Graph** — endpoints are sequences of segments (`"a.b.input"` is
`<<"a","b","input">>`), so that the split at the last dot is what it is in the code and
composition's dotted names need no strings. `Build` and `Successors` keep the order in
which connections are written.

**Delivery** — the abstract specification of a run: a growing log, delivered in order,
each item once, at most `Limit` of them; events are sent only in reaction to a
delivery; success only when everything is delivered, and outputs only on success.

**Scheduler** — `Scheduler.Run`. `pc` is where Run is; `Pop` is shared by the
alternatives of the loop body (`LimitExceeded`, `CollectOutput`, `UnknownComponent`,
`Dispatch`), `applyCommands` is one step per command, the deferred shutdown runs on
every way out but the failing initialisation. What a component returns is arbitrary.
`log` is a history variable: everything ever queued. `KeepsPromise` is the refinement
of Delivery (delivered items are those popped within the limit). `Lifecycle` speaks of
runs that got past the initialisation.

**McpClient** — one action per critical section or blocking operation of `call`,
`readLoop` and `Close`; a request that cannot be encoded ends the call before it is sent. The mutex is not a variable: each critical section is one step.
The channel of a call has the capacity one it has in the code; a send on a full channel
is not enabled. The server process is external: it reads in order, answers in any
order, may repeat an answer, send requests of its own, and exit at any time.

**PackageCache** — the file system operations of `pull` on one entry, one step each:
`downloadInto`, then the loading of the package, and the save of `orh.lock` into the entry
when a dependency has no pin. Removing a directory goes file by file, a file can be left partial, `extractTarGz`
recreates directories that have gone, `rename` replaces only an absent or empty
directory. `Killed` and the failures leave what the code leaves, of an `orh.lock` too: emptied, one
that does not parse, or one that parses and pins half a commit. What the pins are is left
to PackageLock. `Installed` and
`GetInfo` are operators on the directories: what `orh list` and `orh info` may answer at
that moment. `Older` says whether another commit of the repository is cached.

**PackageLock** — the recursion of `pull` as an explicit stack per command. `Fetch`
covers stat, download and loading of the lock; `TruncateLock`/`SaveLock` are the two
halves of `os.WriteFile`. Tags move at any moment. After the pull of the root the
command uses it: toolboxes and skills at the versions `ApplyLock` wrote, components at
the versions that are parsed again from the file. `Published` are the tags there are;
one source may be asked for at several, which share one key of the lock. A kill in the
middle of a save leaves an empty lock here; what else it may leave, a file that does not
parse among it, is in PackageCache.

**Agent** — processes (`orh run`s) that start, hand events to the agents of their
architecture and end, or are killed. `Handle` is the load, the rounds with the model and
its tools, and the save; the memory is the map of the process or, with `--session`, a file
that other processes use at the same time, in the two steps of `os.WriteFile`. What a
conversation is on the wire and which replies are errors depends on the provider
(`toMessages`, `Refuses`): Ollama transmits no ids, and OpenAI refuses a reply that is
empty. A text is the number of its turn. Histories record whose turn each one is, what was
emitted, and which files had a write cut short (`torn`) or two users at once
(`overlapped`). `LoadFails` is a line that does not parse or a file that cannot be read.

**Packages** — what `pkg.Load` and `Validate` say of a package of each of the four kinds,
and the validator of architectures. A parsed file is a record. The `apiVersion` and `name`
of an architecture, which nothing else reads, are taken to be present
(`validator.go:38-43`): the model admits a few more files than the code.

**Composition** — `flatten` as a stack of frames; the components of a frame are
visited in any order, as Go's maps are. `mergeChild`, `rewriteConnection` and
`prefixEndpoint` are operators. The module also gives the meaning of
an architecture before it is flattened: instances are paths of imports, the inputs and
outputs of an instance are junctions, and `Routes` are the ways from component port to
component port through junctions. That reference knows nothing of the algorithm.

**Execution** — EXTENDS Composition: `executor.Run` from loading to the record, with
the server processes, the closers, the registry, the models that components are bound to
under `--model`, the deferred calls and the bindings in the record.

**Commands** — EXTENDS Execution: the commands around it. `run` goes through all of
Execution, `validate` stops after the composition (of a file; a package is only checked on
its own), `tool test` shares the registry and the closing of servers, `inspect` and `deps`
read the entrypoint as it is written. The recursion of `deps` is the variable `walk`.

**NodeHost** — one node: lifecycle and mutex of the component, host functions, and the
SDK's side of each call. Guest memory is a sequence of blocks; the packed word is
arithmetic on address and length, with the word 0 that both sides give a meaning to. The
module may make every call in its start-up as in an event; a call for state in the
start-up finds `mu` held by its own Init, and nothing enables it any more.

`SchedulerProofs`, `McpClientProofs`, `PackageCacheProofs`, `PackageLockProofs`,
`CommandsProofs` (about Execution), `CompositionProofs` (about Composition and about what
`inspect` and `deps` print), `NodeHostProofs` and `AgentProofs` hold the theorems and
lemmas of section 4.

`MC*` modules give the constants their values. Definitions introduced by the word
"variant" are plausible bugs; they are used by no specification, and each property
below is known to be violated when one of them takes the place of the definition after
it.

## 3. The runs

| run | result | shows |
|---|---|---|
| Scheduler | pass | `Lifecycle`, `QueueIsUndelivered`, `WithinBudget`, `OutputsComplete`, `KeepsPromise`, `Termination` on a cyclic graph with fan-out |
| McpClient | pass | `ReaderNeverBlocks`, `OwnAnswer`, `Settled`, `PendingAccounted`, `CallsReturn`, `CloseCompletes` with two callers and three calls |
| CacheOneProcess | pass | `NoCorruptEntry`, `InfoTruthful`, `EntryStable`, `EventuallyCached`, `PullsSucceed` under three faults, torn locks among them |
| LockOneProcess | pass | `Reproducible`, `PinsWerePulled`, `DependenciesFollowLock`, `PullsEnd` with one moving tag, one source at two tags, and one fault |
| Agent | pass | `ToolCallsAnswered`, `Remembered`, `WholeTurns`, `SessionsApart`, `HandleEnds` with four agents of two architectures, two sessions and none, two processes, two turns and one fault |
| Commands | pass | `RoutesPreserved`, `ComponentsPreserved`, `CircularExactly`, `ServersStopped`, `OwnToolsUp`, `RecordTruthful`, `RecordedBindings`, `SingleChain`, `DepsTree`, `CommandsEnd`: five commands on nineteen packages and files |
| NodeHost | pass | `StateRemembered`, `CallsGated`, `LifeGoesOn` with two events and three blocks of memory |
| SchedulerPorts | violated | `DeliveredPort`: an event is delivered under the port it was emitted on (`scheduler.go:90`, against `events/event.go:16-17`) |
| CacheTwoProcesses | violated | `NoCorruptEntry`: two commands sharing `<dir>.download` put a partial package into the cache (`resolver.go:199`, against 195-197) |
| LockTagMoves | violated | `ContentIsCommit`: the entry of one commit gets the content of another (`resolver.go:89`, against `cache.go:32-33`) |
| LockComponents | violated | `ComponentsFollowLock`: a tag moves after the pull has pinned it, and a component of the package that is run gets the new commit (`executor.go:70`, against `resolver.go:153-156`) |
| ImportedTools | violated | `ToolsFromOwner`: an imported agent's tool alias is looked up in the root's dependencies (`composition.go:116`, against `spec.go:37-38`) |

The `TypeOK` of Scheduler is checked by its run and a theorem; those of McpClient,
PackageLock, NodeHost and Agent are theorems (section 4), that of PackageCache is part of its inductive
invariant, and of that of Execution the proofs carry the parts they need.

Met while modelling, and not the subject of a run:

- When the `Init` of a component fails, those initialised before are not shut down
  (`scheduler.go:48`; the comment at 44-46 says "whether it succeeded or not"). `InitFails`
  models it, and `Lifecycle` speaks of runs that got past the initialisation.
- An event for `output.text` ends the run with an unknown component (`scheduler.go:76`),
  although the comment on the validator's `checkEndpoint` (105-106) lists `output.port` among
  the endpoints. `UnknownComponent` models it; the properties take the failure as it is.
- The sessions `plan/a` and `plan_a` share a file (`file_store.go:83`), and a name with a
  colon can be the key of another session and architecture (`executor.go:280-285`), against
  "different sessions/components never share history" (`agent.go:36-38`). `SessionsApart`
  passes with names that have neither separator, and is violated with such names.
- A node that has stored the empty string is told that the key has never been set, since the
  packed word of an empty value is 0, the word for "not found" (`sdk/node/node.go:91`, 151-155,
  `wasm/host.go:79-87`; the comment at 86-87 of the SDK says "false if the key has never been
  set"). `StateRemembered` names this as an exception of its own.
- A module that calls `StateGet` or `StateSet` in its start-up waits for the mutex that its own
  `Init` holds, and `orh run` hangs (`nodes/component.go:45`; the comments of the SDK, 86-87 and
  98-99, rule out no such call). `LifeGoesOn` says that this is the only way not to return,
  and that it is for good.
- A write of `orh.lock` that is cut off inside the cache entry is never mended: if what is
  left does not parse, every later pull of the package fails (`lock.go:61`), and if it pins a
  shortened commit, every later pull asks for that. `PullsSucceed` excepts these two.
- Two runs of one session overwrite each other's turns, or write into the file the other one
  has just truncated, which may leave a line that no later run can load. `Remembered` and
  `WholeTurns` except such files; `SessionsApart` does not.
- `orh deps` prints a circular architecture without end, and panics on an import that is
  not an orchestration (`deps.go:83`, `NilEntrypoint`). `CommandsEnd` excepts the first.
- `orh inspect` draws a chain of an architecture that branches at another port than `output`
  (`inspect.go:98`): `Beside` of MCCommands is drawn as input, a, output although the port
  `error` of `a` leads to `b`. The comments at 70-72 ("no branching") and 90-91 ("a single,
  unbranched input -> ... -> output chain") say otherwise. It also leaves out what the input
  does not lead to. `SingleChain` is what the comments say, of all other architectures.
- Under `--model` the record has every slot overridden, but a node that calls a slot gets
  it as declared (`nodes/component.go` 145-170), and an imported node finds its slots under
  other names than its package gives them. `RecordedBindings` is about agents.
- After a download that was cut off, `orh info` may show what it has left instead of an older
  version, and `orh list` lists a repository of which nothing is installed (`resolver.go:246`,
  335). `InfoTruthful` says when, and `EventuallyCached` that the next pull repairs it.
- `orh tool test` and `orh node test` of a local package do not apply its lock.

Bounds, and why they are enough:

- Scheduler: three components, five events, two commands per `Handle`. The cycle needs
  two deliveries and the limit is met in its middle; fan-out, unknown endpoint, default
  and explicit source, empty port and all command kinds occur within five events.
- McpClient: three calls by two goroutines let one goroutine call again while the
  late answer of its cancelled call is under way; one extra line is a repeated answer or a
  server request that carries the id of a pending call.
- PackageCache: three files and an `orh.lock`, so that a kill can leave none, some and all; three
  faults, so that a download, its cleanup and a retry, or two saves, can all go wrong. Two processes suffice
  for the counterexample.
- PackageLock: three packages in a diamond, two commits each, one tag or two, one move, one
  fault: a package is reached pinned and unpinned, before and after the tag moved; two
  dependencies of the root are one source at two tags.
- Agent: two components of one architecture, one of them with a tool, a component of another
  that has the name of one of these, and one without memory, in either of two sessions or none:
  a key that left out the component, the session or the architecture would be shared. Two
  processes, one of them with `--model`; two rounds, two calls per response; two turns: one
  loads what the other has saved, follows one that failed, or comes in the middle of it in
  the other process, and one event is without text. More turns are covered by the theorems
  only.
- Commands: the packages are listed in `MCCommands`; every order of visiting maps and a
  failure at every step are explored. `MaxDepth` cuts off `deps` of a circle only: the
  other imports are two deep. Component names have no dots (`composition.go:120`: with dots
  an inlined component may replace another one), which the theorems about Composition
  have as a hypothesis.
- NodeHost: three blocks, so that memory runs out within one event or in the next.

`CHECK_DEADLOCK FALSE` stands where a run, a client or a node reaches its end; the
cache and lock models never stop.

Fairness. One goroutine that does not wait makes progress: weak fairness of the next
step for Scheduler and Commands, of the steps inside a call for Agent, PackageLock and
PackageCache (where the user also tries again). These rest on `Handle` calls, requests,
models and tools returning: the code sets no timeouts, so if they do not, nothing
returns. McpClient assumes that Go schedules every goroutine that can run, and of the
server that it reads its input, answers what it has read unless it exits, and exits
once its input has ended; nothing is assumed about calls being made, cancelled or
closed. NodeHost assumes that the guest gets to the end of its start-up and of its
handler if it can do so again and again (strong fairness), since between host calls the
module may make any number of further ones. A call for state in the start-up is not
enabled, so that fairness does not carry it on.

## 4. The proofs

All theorems hold for every value of the constants, under the named ASSUME of each
module (`SchedulerAssumption`, `McpAssumption`, `CacheAssumption`, `LockAssumption`,
`AgentAssumption`, `HostAssumption`, `ParsedAssumption`, `AliasAssumption`,
`LibraryAssumption`), which say only what types the parameters have and what the parser
guarantees: the names, components and models of a parsed file, that there are finitely
many packages, and that the value `Nothing` is no alias. TLC evaluates each of them.

A theorem with a further hypothesis states it:

- one process at a time: cache entries, `Reproducible`;
- `PlainNames`, names of sessions without separators: `SessionsApart`;
- `Undotted`, no component named with a dot: `CircularExactly`, `ComponentsPreserved`,
  `RoutesPreserved`, `DepsTree`;
- `PlainSlots`, no slot of models with a dot: `ComponentsPreserved`;
- `Reserved` and `NamedPorts`, no import named `input` or `output` and no endpoint that ends
  in a dot: `RoutesPreserved`;
- `Fits`, not circular or `MaxDepth` no more than the depth of the instances: `DepsTree`.

The code enforces none of the names. With dots, `a.b` of the root and `b` of the import `a`
are one name in the flat architecture (`composition.go:120`); the import `input` is taken
for the boundary (`graph/connection.go`, `mergeChild`); and an endpoint `x.` loses its dot
when it is prefixed (`composition.go:181`). `Fits` is about the bound of the model.

**SchedulerProofs.** `TypeCorrect` is inductive by itself. The other invariants are
proved from `IInv`: the lifecycle of the managed components in each phase (`LifeInv`;
`Lifecycle` alone does not say what holds while the deferred shutdown has visited some of
them), the counter against the limit and the outputs against the counter (`BudgetInv`:
`processed` may exceed the limit by one, only on the way out), the queue as the suffix of
the log (`QueueInv`, with `PopSuffix` and `AppendSuffix` on sequences), and what
each phase implies (`PhaseInv`: an event being handled has been counted, no output exists
before the loop, a successful result leaves an empty queue). From it: `LifecycleHolds`,
`WithinBudgetHolds`, `QueueIsUndeliveredHolds`, and the refinement `KeepsPromiseHolds`: a
pop maps to `Deliver`, the seeding to `Begin`, a command that queues events to `Send`, the
way out to `Succeed` or `Fail`, everything else to a stutter. `OutputsCompleteHolds` adds
`CollectInv`: in the loop the outputs are, in order, those events for `output` that
are among the delivered ones. With an empty queue these are all.

**McpClientProofs.** The invariant says that an id belongs to one call for good (`IdInv`),
and that while it is in `pending` its channel is empty and the reader is not delivering to
it; taking it out is what entitles the reader to the one send (`ChannelInv`). That gives
`ReaderNeverBlocksHolds`; with "closed implies readErr" (`ClosedInv`) it gives
`SettledHolds`. `OwnAnswerHolds` needs in addition that a line wherever it is (pipe, hand,
channel) answers the id it carries or is a request of the server's (`AnswerInv`).
`PendingAccountedHolds` follows from `ChannelInv`: a call can find an answer only in a
channel whose id has left `pending`. `TypeOK` is part of the same induction.

**PackageCacheProofs.** For one process, any tarball and any number of faults:
`NoCorruptEntryHolds` and `EntryStableHolds`, from an invariant that says what the
temporary directory holds at each step; the extracted prefix is the part that a leftover
of an earlier command cannot spoil. `EntryStable` is about the package in the entry, and
about its `orh.lock` once that has all pins: a call is at the save only while one is missing
(`DownloadInv`). The assumption of one process is needed: with two, the run
CacheTwoProcesses refutes it. `InfoTruthfulHolds` needs in addition that a cached entry
and a temporary directory are never there together, and that either has its repository
directory (`RepositoryInv`).

**PackageLockProofs.** The recursion is a stack, so the invariant speaks of every frame
(`FrameInv`): a dependency that is no longer to do is pinned at a commit that was pulled,
or is the one the frame above has been called for. `ResultsInv` says the same of what has
returned, which is `PinsWerePulledHolds`; `UseInv` says that a command uses a package that
was returned, and dependencies at the commits it pins, which gives
`DependenciesFollowLockHolds`. Both hold for any number of commands. `ReproducibleHolds`
needs one command at a time and `HeldInv`: the lock file of an entry that was returned
holds the pins it was returned with; a call that has changed nothing holds what is in the
file; and a call that has changed its lock is for an entry that was never returned. So a
kill in the middle of a save empties only locks that nobody has been given.

**CommandsProofs.** About the specification of all commands, so that Execution is
covered with every way into it and out of it. `ServersStoppedHolds` (`ServerInv`): a server
that may run has its closer in the list, and the list is empty until servers are started
and again after the deferred calls. `RecordTruthfulHolds` (`RecordInv`): what may be
saved at each step. `OwnToolsUpHolds` (`RegistryInv`, `ToolsInv`, `BuildInv`): what
the registry holds of the aliases done so far and what a component was given of it. The
property is about agents: a node is given all of the registry. `RecordedBindingsHolds`
(`ModelsInv`, `BindingsMade`, `BuiltModels`) needs what the flattening does to models: in
every frame of the stack, and in the architecture it returns, a slot has a provider and a
name, through prefixing and merging at any depth (`StackInv`, `FlatInv`); that each
agent's slot is declared comes from the validation of the flat architecture.

**CompositionProofs.** The reference these theorems compare the code with (`Instances`,
`Leaves`, `Routes`) is defined over paths of imports, and the algorithm is a stack, so
each invariant says which instance a frame stands for: `PathTo` is made of the names of the
frames above the root.

- `CircularExactlyHolds` (`CompositionInv`, `Walks`): the instance of a frame has no package
  twice on its path, `seen` is the keys on that path, and below an import that a frame is
  done with nothing is circular or missing (`Clear`). If all of the root is done, no
  instance is circular; if the next key is in `seen`, one is.
- `ComponentsPreservedHolds` (`GatheredInv`, `Gathers`): the components and models of a
  frame are those of its instance it is done with, under the paths from that instance.
- `RoutesPreservedHolds` (`RoutesInv`, `Carries`): the connections of a frame are the routes
  inside the imports it is done with, and its two boundary maps lead from each port of such
  an import to exactly the component ports that routes from that port reach, or that reach
  it. When a frame returns, its own connections are put between what the maps
  give (`WholeIs`), and the caller's maps grow by what crosses the boundary (`MapMerged`).
  Two facts about the reference carry this: extending chains as often as there are hops
  reaches all of them (`ChainsAre`), and a route through an instance is made of one
  connection of that instance and ways within its imports on both ends (`RoutesAre`). A
  connection to a port that an import does not have leaves an endpoint nobody has,
  and validation refuses it (`DeadIsNot`).
- `SingleChainHolds` (`PrintedInv`, `GoodLink`): each round of the loop in `linearChain`
  follows the only connection from its port. So the names of a chain are closed under the
  connections that leave the input and ports `output`, and if the input leads to all
  connections by these (`OutputsOnly`, `AllReached`), each of them is a link (`AllOnChain`).
- `DepsTreeHolds` (`TreeInv`): the printed lines stand for paths, each once, below the
  line of the path they extend (`Lines`); the calls under way are for the instances along one
  path, of which each has printed its first imports, and every line off that path is done
  with (`Way`). When the last call returns every instance has its line (`AllListed`).

Where a proof needs induction over a number it argues about the set of numbers for which
the claim fails, which has a least element (`Least`, `UpTo`, `Recursion`): the induction
theorems of the library take operators as parameters.

**NodeHostProofs.** `Unpacked` says that a packed word gives back address and length;
the rest uses it. `StoredInv` says that the host holds what the guest stored last, but for
a call under way; `GetInv` and `CallInv` say what the block is that the SDK is about to
read through the word it was given, or why that word is 0, memory that has run out
included. From them `TypeCorrect`, `StateRememberedHolds` and `CallsGatedHolds`. The second of
these excepts the empty string, for which the word is 0 as well.

**AgentProofs.** `TypeCorrect` comes with `Placed`, what a process holds at each step of
`Handle`. `ToolCallsAnsweredHolds`: a conversation is one in which all calls are answered
but those of its last message, which are as far as the tools have run (`Conversation`);
what is loaded and what is saved is spoken text only (`SpokenInv`); `WireIs` carries that to
what the provider transmits. `SessionsApartHolds` (`OwnerInv`, `MapInv`): a slot holds turns
of one owner only, since keys, and file names made of them, are cut at their first
separator. Its hypothesis `PlainNames` is not enforced by the code, and without it
the property is false (section 3). `WholeTurnsHolds` and `RememberedHolds`, for any names:
what a call has loaded is of earlier turns (`OrderInv`), a turn that is not saved is nowhere
yet and no other call's (`FreshInv`), and a slot that is neither torn nor overlapped
has one user, whose copy is what is stored until it writes, and holds whole turns in
order, among them every one that was emitted (`KeptInv`).

Only model-checked: the liveness properties (`Termination`, `CallsReturn`,
`CloseCompletes`, `EventuallyCached`, `PullsSucceed`, `PullsEnd`, `HandleEnds`, `CommandsEnd`,
`LifeGoesOn`), since fairness is beyond the proof system used. Every invariant and every
action property of a passing run is a theorem, and so is the refinement of Delivery.

## 5. Plan

Done, in order of importance: scheduler with its abstract specification, MCP client,
package cache, package lock, agents with both memories and several processes, packages,
composition, execution and commands, node host; and the proof of every safety
property the passing runs check.

Next, extending the models:

1. the scheduler composed with nodes: an event limit met while a node holds state;
2. two commands in PackageLock that pull and save the same lock, composed with
   PackageCache;
3. a tool call of an agent that meets the exit of its server, composed of Agent and McpClient.

Next, proving:

1. an abstract memory (a log of whole turns for each owner) that Agent implements where
   nothing is torn or overlapped, and an abstract client (a call and its one answer) that
   McpClient implements;
2. an abstract composition (the routes and components of the root, in one step) that the
   stack of `flatten` implements, from the three invariants above;
3. `InfoTruthful` and `EntryStable` for several processes that never pull the same commit.
