---------------------------- MODULE Composition ----------------------------
(***************************************************************************)
(* Loading an architecture (executor.LoadAndValidate): the root file is    *)
(* parsed, its orchestration components are expanded recursively into the  *)
(* components and connections of the packages they name (composition.      *)
(* Flatten), and the flat result is validated.                             *)
(*                                                                         *)
(* The recursion is the variable stack, one frame per call of flatten; the *)
(* components of a frame are visited in any order, since flatten ranges    *)
(* over a Go map.  A name is a sequence of segments (module Graph).  The   *)
(* prompt, memory and skills of a component are left out, and a model      *)
(* is a value.                                                             *)
(***************************************************************************)
EXTENDS Packages

CONSTANT Roots   \* the packages orh may be started on

Names == Seq(STRING)

\* What the models of a file parse to, by slot (spec.Model).
AreModels(models) ==
  /\ DOMAIN models \subseteq Names
  /\ \A slot \in DOMAIN models :
       models[slot] = [provider |-> models[slot].provider, name |-> models[slot].name]

\* What its components parse to, by name (spec.Component).
AreComponents(components) ==
  /\ DOMAIN components \subseteq Names /\ IsFiniteSet(DOMAIN components)
  /\ \A name \in DOMAIN components :
       /\ DOMAIN components[name] = {"type", "model", "source", "version", "tools", "skills"}
       /\ components[name].model \in Names

ASSUME ParsedAssumption ==
  \A p \in Roots \cup Range(Library) : LET arch == ParseFile(p) IN
    /\ AreComponents(arch.components)
    /\ arch.connections \in Seq([from : Names, to : Names])
    /\ AreModels(arch.models)

ASSUME LibraryAssumption == IsFiniteSet(DOMAIN Library)

VARIABLES
  root,      \* the package being run, or the file as an entrypoint alone
  stack,     \* the calls of flatten under way
  composed,  \* the result of LoadAndValidate, "pending" until it is known
  flat       \* the architecture it returns

composition == <<root, stack, composed, flat>>

------------------------------------------------------------------------------
(* Inlining one flattened child under the name of its component.           *)

boundaryKey(prefix, port) == IF port = NoPort THEN prefix ELSE Append(prefix, port)

prefixEndpoint(prefix, s) ==
  IF s.port = NoPort THEN prefix \o s.component
                     ELSE JoinEndpoint(prefix \o s.component, s.port)

EntersChild(conn) == endpointComponent(conn.from) = Input /\ endpointComponent(conn.to) # Output
LeavesChild(conn) == endpointComponent(conn.from) # Input /\ endpointComponent(conn.to) = Output
InsideChild(conn) == endpointComponent(conn.from) # Input /\ endpointComponent(conn.to) # Output

\* The map from boundary keys to endpoints, with those of entries appended.
Recorded(targets, entries) ==
  [key \in DOMAIN targets \cup {e.key : e \in Range(entries)} |->
     LET new == Selected(entries, {e \in Range(entries) : e.key = key})
     IN  (IF key \in DOMAIN targets THEN targets[key] ELSE <<>>)
           \o [i \in DOMAIN new |-> new[i].endpoint]]

InputEntries(prefix, conns) ==
  LET crossing == Selected(conns, {c \in Range(conns) : EntersChild(c)})
  IN  [i \in DOMAIN crossing |->
         [key      |-> boundaryKey(prefix, SplitEndpoint(crossing[i].from).port),
          endpoint |-> prefixEndpoint(prefix, SplitEndpoint(crossing[i].to))]]

OutputEntries(prefix, conns) ==
  LET crossing == Selected(conns, {c \in Range(conns) : LeavesChild(c)})
  IN  [i \in DOMAIN crossing |->
         [key      |-> boundaryKey(prefix, SplitEndpoint(crossing[i].to).port),
          endpoint |-> prefixEndpoint(prefix, SplitEndpoint(crossing[i].from))]]

Internal(prefix, conns) ==
  LET inside == Selected(conns, {c \in Range(conns) : InsideChild(c)})
  IN  [i \in DOMAIN inside |->
         [from |-> prefixEndpoint(prefix, SplitEndpoint(inside[i].from)),
          to   |-> prefixEndpoint(prefix, SplitEndpoint(inside[i].to))]]

\* f with its names put under prefix.
Prefixed(prefix, f) ==
  [name \in {prefix \o n : n \in DOMAIN f} |->
     f[SubSeq(name, Len(prefix) + 1, Len(name))]]

\* A variant: an inlined component looks its model up under its old name.
UnprefixedModels(prefix, components) == components

PrefixModels(prefix, components) ==
  [name \in DOMAIN components |->
     [components[name] EXCEPT !.model = IF @ = NoName THEN @ ELSE prefix \o @]]

\* The map f, with what g has assigned in it.
Assigned(f, g) ==
  [x \in DOMAIN f \cup DOMAIN g |-> IF x \in DOMAIN g THEN g[x] ELSE f[x]]

mergeChild(frame, prefix, child) ==
  [frame EXCEPT
     !.out.models      = Assigned(@, Prefixed(prefix, child.models)),
     !.out.components  = Assigned(@, Prefixed(prefix, PrefixModels(prefix, child.components))),
     !.out.connections = @ \o Internal(prefix, child.connections),
     !.inputTargets    = Recorded(@, InputEntries(prefix, child.connections)),
     !.outputSources   = Recorded(@, OutputEntries(prefix, child.connections))]

\* A variant: a port leads to the first endpoint recorded for it only.
rewriteToFirst(conn, inputTargets, outputSources) ==
  << [from |-> IF conn.from \in DOMAIN outputSources THEN outputSources[conn.from][1]
                                                    ELSE conn.from,
      to   |-> IF conn.to \in DOMAIN inputTargets THEN inputTargets[conn.to][1]
                                                 ELSE conn.to] >>

\* A port that leads to several endpoints fans out to all of them.
rewriteConnection(conn, inputTargets, outputSources) ==
  LET froms == IF conn.from \in DOMAIN outputSources THEN outputSources[conn.from]
                                                     ELSE <<conn.from>>
      tos   == IF conn.to \in DOMAIN inputTargets THEN inputTargets[conn.to]
                                                  ELSE <<conn.to>>
  IN  FlattenSeq([i \in DOMAIN froms |->
                    [j \in DOMAIN tos |-> [from |-> froms[i], to |-> tos[j]]]])

\* What a call of flatten returns once every component is merged.
Flattened(frame) ==
  [frame.out EXCEPT !.connections = @ \o FlattenSeq(
     [i \in DOMAIN frame.arch.connections |->
        rewriteConnection(frame.arch.connections[i],
                          frame.inputTargets, frame.outputSources)])]

------------------------------------------------------------------------------
(* The calls of flatten. *)

Frame(name, arch, seen) ==
  [name |-> name, arch |-> arch, seen |-> seen, todo |-> DOMAIN arch.components,
   out |-> [NoArchitecture EXCEPT !.models = arch.models],
   inputTargets |-> <<>>, outputSources |-> <<>>]

CompositionInit ==
  /\ root \in Roots
  /\ stack = IF HasOrchestrationComponents(ParseFile(root))
               THEN <<Frame(NoName, ParseFile(root), {})>> ELSE <<>>
  /\ composed = "pending"
  /\ flat = NoArchitecture

Top == Last(stack)
Component(name) == Top.arch.components[name]

Visited(frame, name) == [frame EXCEPT !.todo = @ \ {name}]

\* Any component but an orchestration is copied as it is.
CopyComponent(name) ==
  /\ name \in Top.todo \ Imports(Top.arch)
  /\ stack' = Append(Front(stack),
       [Visited(Top, name) EXCEPT
          !.out.components = Assigned(@, [n \in {name} |-> Component(name)])])
  /\ UNCHANGED <<root, composed, flat>>

\* A package met again on the way down from the root ends the composition.
CircularDependency(name) ==
  /\ name \in Top.todo \cap Imports(Top.arch)
  /\ Key(Component(name)) \in Top.seen
  /\ composed' = "circular"
  /\ stack' = <<>>
  /\ UNCHANGED <<root, flat>>

\* The package is pulled, its entrypoint validated, and flattened by a
\* call of its own.
Resolve(name) ==
  LET key == Key(Component(name)) IN
  /\ name \in Top.todo \cap Imports(Top.arch)
  /\ key \notin Top.seen
  /\ Importable(key)
  /\ stack' = Append(Append(Front(stack), Visited(Top, name)),
                     Frame(name, Library[key].entry, Top.seen \cup {key}))
  /\ UNCHANGED <<root, composed, flat>>

\* Pulling can always fail, and fails for a package that is not valid; one
\* of another kind has no validated entrypoint.
ResolveFails(name) ==
  /\ name \in Top.todo \cap Imports(Top.arch)
  /\ Key(Component(name)) \notin Top.seen
  /\ composed' = "unresolved"
  /\ stack' = <<>>
  /\ UNCHANGED <<root, flat>>

\* A variant: all the calls share one map of the packages seen.
ReturnChildSharingSeen ==
  /\ Top.todo = {} /\ Len(stack) > 1
  /\ \E child \in {Flattened(Top)} :
       stack' = Append(SubSeq(stack, 1, Len(stack) - 2),
                       [mergeChild(stack[Len(stack) - 1], Top.name, child)
                          EXCEPT !.seen = Top.seen])
  /\ UNCHANGED <<root, composed, flat>>

\* A call below the first returns, and the caller merges the child.
ReturnChild ==
  /\ Top.todo = {} /\ Len(stack) > 1
  /\ \E child \in {Flattened(Top)} :
       stack' = Append(SubSeq(stack, 1, Len(stack) - 2),
                       mergeChild(stack[Len(stack) - 1], Top.name, child))
  /\ UNCHANGED <<root, composed, flat>>

\* The flat architecture, or the root that imports nothing, is validated.
LoadAndValidate ==
  LET arch == IF stack = <<>> THEN ParseFile(root) ELSE Flattened(Top) IN
  /\ stack # <<>> => Top.todo = {} /\ Len(stack) = 1
  /\ composed' = IF Validate(arch) THEN "ok" ELSE "invalid"
  /\ flat' = arch
  /\ stack' = <<>>
  /\ UNCHANGED root

CompositionNext ==
  /\ composed = "pending"
  /\ \/ LoadAndValidate
     \/ /\ stack # <<>>
        /\ \/ ReturnChild
           \/ \E name \in Top.todo :
                \/ CopyComponent(name) \/ CircularDependency(name)
                \/ Resolve(name) \/ ResolveFails(name)

------------------------------------------------------------------------------
(***************************************************************************)
(* What an architecture means before it is flattened.  An instance is the  *)
(* path of component names that leads to an imported package, and the      *)
(* input and output of each instance are junctions that its own and its    *)
(* importer's connections meet at.  An event travels from a component to   *)
(* another one through any number of junctions.                            *)
(***************************************************************************)
\* The packages met on the way down to an instance, the root first.
PackagesOn(path) ==
  LET at[n \in 0..Len(path)] ==
        IF n = 0 THEN root ELSE Library[Key(ParseFile(at[n - 1]).components[<<path[n]>>])]
  IN  at

PackageAt(path) == PackagesOn(path)[Len(path)]

Architecture(path) == ParseFile(PackageAt(path))

\* The sources they are imported by.
KeysOn(path) ==
  [i \in DOMAIN path |-> Key(ParseFile(PackagesOn(path)[i - 1]).components[<<path[i]>>])]

\* The instances of the root, no deeper than there are packages to import.
InstancesTo[n \in 0..Cardinality(DOMAIN Library) + 1] ==
  IF n = 0 THEN {NoName}
  ELSE LET above == InstancesTo[n - 1]
           Resolved(arch) ==
             {i \in Imports(arch) : Importable(Key(arch.components[i]))}
       IN  above \cup UNION {{path \o name : name \in Resolved(Architecture(path))}
                             : path \in above}

Instances == InstancesTo[Cardinality(DOMAIN Library) + 1]

Circular == \E path \in Instances : ~IsInjective(KeysOn(path))

\* The components, by the path that names them in the flat architecture.
Leaves ==
  UNION {{path \o name : name \in DOMAIN Architecture(path).components
                                    \ Imports(Architecture(path))}
         : path \in Instances}

\* Where an endpoint written in the package of an instance leads; side is
\* the boundary of an imported component it meets, and the boundary of the
\* root itself is a place like a component's port.
Place(path, endpoint, side) ==
  LET s    == SplitEndpoint(endpoint)
      arch == Architecture(path)
  IN  IF s.component \in {Input, Output}
        THEN IF path = NoName THEN <<"port", endpoint>>
             ELSE <<"junction", path, s.component, s.port>>
      ELSE IF s.component \in Imports(arch)
        THEN <<"junction", path \o s.component, side, s.port>>
      ELSE <<"port", path \o endpoint>>

\* A package's own input wired straight to its output is left out by
\* mergeChild, as its comment says.
PassThrough(path, conn) ==
  path # NoName /\ endpointComponent(conn.from) = Input
                /\ endpointComponent(conn.to) = Output

Hops ==
  UNION {{<<Place(path, conn.from, Output), Place(path, conn.to, Input)>>
          : conn \in {c \in Range(Architecture(path).connections) :
                        ~PassThrough(path, c)}}
         : path \in Instances}

\* Ways on through one more junction.
Joined(ways, hops) ==
  {<<x[1][1], x[2][2]>> :
     x \in {y \in ways \X hops : y[1][2] = y[2][1] /\ y[2][1][1] = "junction"}}

Extended(ways, hops) == ways \cup Joined(ways, hops)

Chains(hops) ==
  LET upTo[n \in 0..Cardinality(hops)] ==
        IF n = 0 THEN hops ELSE Extended(upTo[n - 1], hops)
  IN  upTo[Cardinality(hops)]

RoutesOf(hops) ==
  {<<r[1][2], r[2][2]>> :
     r \in {x \in Chains(hops) : x[1][1] = "port" /\ x[2][1] = "port"}}

Routes == RoutesOf(Hops)

------------------------------------------------------------------------------
(* Properties *)

\* Whatever the order the maps of components are walked in, the flat
\* architecture connects two components exactly if the packages connect
\* them through their inputs and outputs (rewriteConnection and mergeChild
\* lose no connection and invent none).
RoutesPreserved ==
  composed = "ok" =>
    {<<conn.from, conn.to>> : conn \in Range(flat.connections)} = Routes

\* Each component of each instance is in the flat architecture once, and
\* its model is the one its own package declares under the name it uses.
ComponentsPreserved ==
  composed = "ok" =>
    /\ DOMAIN flat.components = Leaves
    /\ \A leaf \in Leaves :
         LET own == Architecture(Front(leaf))
             c   == own.components[<<Last(leaf)>>]
         IN  c.type = "agent" =>
               flat.models[flat.components[leaf].model] = own.models[c.model]

\* Only an architecture that imports itself through some chain is refused
\* as circular, and none that does gets through; a package used twice side
\* by side is no cycle (the seen set of flatten is one path's, withSeen).
CircularExactly ==
  /\ composed = "circular" => Circular
  /\ composed \in {"ok", "invalid"} => ~Circular

==============================================================================
