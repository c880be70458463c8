------------------------------ MODULE Commands ------------------------------
(***************************************************************************)
(* The commands of orh that take an architecture (internal/cli): run,      *)
(* validate, inspect, deps, and `tool test`.  Each resolves its argument,  *)
(* a file or a package, and goes on with what it needs of module           *)
(* Execution; inspect and deps read the entrypoint as it is written.       *)
(*                                                                         *)
(* `orh deps` is a recursion, whose calls are the variable walk.  Only the *)
(* structure of what a command prints is modelled, and the components of   *)
(* an architecture are printed in some fixed order.                        *)
(***************************************************************************)
EXTENDS Execution

CONSTANT MaxDepth   \* bound on the calls of printDepsTree

VARIABLES
  command,  \* the command
  walk,     \* for each call of printDepsTree, the dependencies still to print
  printed   \* the lines of the result

vars == <<executing, command, walk, printed>>

CommandNames == {"run", "validate", "inspect", "deps", "tool test"}

Init ==
  /\ ExecutionInit
  /\ command \in CommandNames
  /\ command # "run" => record = "none" /\ override = <<>>
  /\ walk = <<>>
  /\ printed = <<>>

\* A return from the command, before it has anything to close.
Finish(failure) ==
  /\ pc' = "returned"
  /\ failed' = failure

\* What the steps of this module leave to those of Execution.
Unmoved ==
  UNCHANGED <<composition, alias, unstarted, unlisted, server, closers, registry,
              override, todo, built, record, bindings, saved, command>>

Silent == UNCHANGED <<walk, printed>>

------------------------------------------------------------------------------
(* resolveEntrypoint *)

\* The argument cannot be read or pulled, or its package is not valid.
EntryFails ==
  /\ pc = "entry"
  /\ Finish(TRUE)
  /\ UNCHANGED aliases
  /\ Unmoved /\ Silent

ResolveEntrypoint ==
  /\ pc = "entry"
  /\ command \in {"run", "inspect", "deps"}
  /\ root.form = "package" => PackageValid(root)
  /\ pc' = IF command = "run" THEN "load" ELSE "raw"
  /\ UNCHANGED <<aliases, failed>>
  /\ Unmoved /\ Silent

\* A package is checked on its own, a file with everything it imports.
ValidatePackage ==
  /\ pc = "entry"
  /\ command = "validate"
  /\ root.form = "package" /\ PackageValid(root)
  /\ Finish(FALSE)
  /\ UNCHANGED aliases
  /\ Unmoved /\ Silent

ValidateFile ==
  /\ pc = "entry"
  /\ command = "validate"
  /\ root.form = "file"
  /\ pc' = "load"
  /\ UNCHANGED <<aliases, failed>>
  /\ Unmoved /\ Silent

Validated ==
  /\ pc = "load" /\ composed # "pending"
  /\ command = "validate"
  /\ Finish(composed # "ok")
  /\ UNCHANGED aliases
  /\ Unmoved /\ Silent

------------------------------------------------------------------------------
(* `orh tool test`, on the package of the current directory *)

ToolTest ==
  /\ pc = "entry"
  /\ command = "tool test"
  /\ root.form = "package" /\ PackageValid(root)
  /\ pc' = "tools"
  /\ aliases' = DOMAIN deps
  /\ UNCHANGED failed
  /\ Unmoved /\ Silent

ToolTestRegistered ==
  /\ pc = "tools" /\ alias = Nothing /\ aliases = {}
  /\ command = "tool test"
  /\ pc' = "call"
  /\ UNCHANGED <<aliases, failed>>
  /\ Unmoved /\ Silent

\* A tool that is not in the registry is an error, as a call may be.
CallTool ==
  /\ pc = "call"
  /\ \E failure \in BOOLEAN : (registry = <<>> => failure) /\ Return(failure)
  /\ UNCHANGED aliases
  /\ Unmoved /\ Silent

------------------------------------------------------------------------------
(* LoadRaw, and `orh inspect` *)

raw == ParseFile(root)

RawInvalid ==
  /\ pc = "raw"
  /\ ~Validate(raw)
  /\ Finish(TRUE)
  /\ UNCHANGED aliases
  /\ Unmoved /\ Silent

\* A variant: of several successors the first one is taken.
AnyNext(succs) == succs # <<>>

OnlyNext(succs) == Len(succs) = 1

(***************************************************************************)
(* The chain of names from the input after at most n rounds of the loop,   *)
(* and where the loop stands: "on", at its end, or where it gave up.       *)
(***************************************************************************)
Chain[n \in 0..Cardinality(DOMAIN raw.components) + 2] ==
  IF n = 0 THEN [names |-> <<Input>>, current |-> Input, status |-> "on"]
  ELSE LET before == Chain[n - 1]
           succs  == Successors(Build(raw.connections), before.current)
           next   == SplitEndpoint(succs[1]).component
       IN  IF before.status # "on" THEN before
           ELSE IF ~OnlyNext(succs) THEN [before EXCEPT !.status = "broken"]
           ELSE IF succs[1] = Output
             THEN [before EXCEPT !.names = Append(@, Output), !.status = "end"]
           ELSE IF next \in Range(Tail(before.names))
             THEN [before EXCEPT !.status = "broken"]
           ELSE [names |-> Append(before.names, next),
                 current |-> JoinEndpoint(next, "output"), status |-> "on"]

linearChain == Chain[Cardinality(DOMAIN raw.components) + 2]

printConnections ==
  IF linearChain.status = "end"
    THEN [i \in DOMAIN linearChain.names |-> [node |-> linearChain.names[i]]]
    ELSE raw.connections

Inspect ==
  /\ pc = "raw"
  /\ command = "inspect"
  /\ Validate(raw)
  /\ printed' = printConnections
  /\ Finish(FALSE)
  /\ UNCHANGED <<aliases, walk>>
  /\ Unmoved

------------------------------------------------------------------------------
(* `orh deps` *)

orchestrationDeps(a) ==
  LET names == SetToSeq(Imports(a))
  IN  [i \in DOMAIN names |-> Key(a.components[names[i]])]

Deps ==
  /\ pc = "raw"
  /\ command = "deps"
  /\ Validate(raw)
  /\ walk' = <<orchestrationDeps(raw)>>
  /\ pc' = "deps"
  /\ UNCHANGED <<aliases, failed, printed>>
  /\ Unmoved

\* The next dependency of the innermost call is printed, then pulled.
PrintDep(dep) ==
  /\ pc = "deps"
  /\ Last(walk) # <<>>
  /\ dep = Head(Last(walk))
  /\ Len(walk) <= MaxDepth
  /\ printed' = Append(printed, [depth |-> Len(walk), ref |-> dep])

\* A variant: a call returns when it has printed one dependency.
DescendOnly(dep) ==
  /\ PrintDep(dep)
  /\ Importable(dep)
  /\ walk' = Append(Append(Front(walk), <<>>), orchestrationDeps(Library[dep].entry))
  /\ UNCHANGED <<pc, aliases, failed>>
  /\ Unmoved

Descend(dep) ==
  /\ PrintDep(dep)
  /\ Importable(dep)
  /\ walk' = Append(Append(Front(walk), Tail(Last(walk))),
                    orchestrationDeps(Library[dep].entry))
  /\ UNCHANGED <<pc, aliases, failed>>
  /\ Unmoved

ResolvingFails(dep) ==
  /\ PrintDep(dep)
  /\ Finish(TRUE)
  /\ UNCHANGED <<aliases, walk>>
  /\ Unmoved

\* The entrypoint of a package of another kind is nil, and the next call
\* ranges over its components.
NilEntrypoint(dep) ==
  /\ PrintDep(dep)
  /\ Resolvable(dep) /\ ~Importable(dep)
  /\ pc' = "panicked"
  /\ failed' = TRUE
  /\ UNCHANGED <<aliases, walk>>
  /\ Unmoved

DepsReturn ==
  /\ pc = "deps"
  /\ Last(walk) = <<>>
  /\ walk' = Front(walk)
  /\ IF Len(walk) = 1 THEN Finish(FALSE) ELSE UNCHANGED <<pc, failed>>
  /\ UNCHANGED <<aliases, printed>>
  /\ Unmoved

------------------------------------------------------------------------------
Entry ==
  EntryFails \/ ResolveEntrypoint \/ ValidatePackage \/ ValidateFile \/ ToolTest

PrintDepsTree ==
  \/ DepsReturn
  \/ /\ pc = "deps"
     /\ \E dep \in Range(Last(walk)) :
          Descend(dep) \/ ResolvingFails(dep) \/ NilEntrypoint(dep)

Next ==
  \/ Entry \/ Validated \/ ToolTestRegistered \/ CallTool
  \/ RawInvalid \/ Inspect \/ Deps \/ PrintDepsTree
  \/ /\ ExecutionNext \/ (command = "run" /\ RunNext)
     /\ UNCHANGED <<command, walk, printed>>

Spec == Init /\ [][Next]_vars

\* A command is one goroutine: it goes on as long as pulls, requests, the
\* scheduler and the servers it closes answer.
FairSpec == Spec /\ WF_vars(Next)

------------------------------------------------------------------------------
(* Properties *)

\* Every command ends, `orh run` of a circular architecture included; only
\* `orh deps`, which has no check for circles (printDepsTree), does not end
\* on one.
CommandsEnd ==
  ~(command = "deps" /\ Circular) => <>(pc \in {"returned", "panicked"})

\* All connections leave the input or the port output of a component ...
OutputsOnly ==
  \A conn \in Range(raw.connections) :
    \/ conn.from = Input
    \/ \E name \in DOMAIN raw.components \ {NoName, Input, Output} :
         conn.from = JoinEndpoint(name, "output")

\* ... and the input leads to each of these components.
AllReached ==
  \A met \in SUBSET {endpointComponent(conn.to) : conn \in Range(raw.connections)} :
    (\A conn \in Range(raw.connections) :
       endpointComponent(conn.from) \in met \cup {Input} => endpointComponent(conn.to) \in met)
    => \A conn \in Range(raw.connections) : endpointComponent(conn.from) \in met \cup {Input}

\* A chain is drawn by inspect only of an architecture that is this single,
\* unbranched chain: each connection is a link of it.  The comments on
\* printConnections and linearChain say so of every architecture, but
\* linearChain looks at no other ports, and at nothing the input does not lead
\* to: of those it is false.
SingleChain ==
  command = "inspect" /\ printed # <<>> /\ printed # raw.connections =>
    (OutputsOnly /\ AllReached =>
       \A conn \in Range(raw.connections) :
         \E i \in 1..Len(printed) - 1 :
           /\ endpointComponent(conn.from) = printed[i].node
           /\ endpointComponent(conn.to) = printed[i + 1].node)

\* The refs from the top of the tree down to a line of it: its own, after
\* that of the last line above it that is less deep.
Ancestry[i \in DOMAIN printed] ==
  LET above == {j \in 1..i - 1 : printed[j].depth < printed[i].depth}
  IN  IF above = {} THEN <<printed[i].ref>>
      ELSE Append(Ancestry[CHOOSE j \in above : \A k \in above : k <= j], printed[i].ref)

\* Every line that deps prints is a chain of imports of the architecture, up
\* to a package that cannot be imported, and when it returns without an
\* error each imported instance has had its line.
DepsTree ==
  command = "deps" =>
    /\ \A i \in DOMAIN printed :
         \E path \in Instances :
           LET on == KeysOn(path) IN
           \/ Ancestry[i] = on
           \/ \E name \in Imports(Architecture(path)) :
                Ancestry[i] = Append(on, Key(Architecture(path).components[name]))
    /\ pc = "returned" /\ ~failed =>
         /\ {Ancestry[i] : i \in DOMAIN printed} = {KeysOn(path) : path \in Instances \ {NoName}}
         /\ Len(printed) = Cardinality(Instances) - 1

==============================================================================
