------------------------------ MODULE Packages ------------------------------
(***************************************************************************)
(* Packages as pkg.Load and Validate see them: a manifest, of one of four  *)
(* kinds, and the entrypoint of that kind, parsed.  The architecture of an *)
(* orchestration is checked by internal/validator.                         *)
(*                                                                         *)
(* A package is a record: whether apiVersion, name and entrypoint of its   *)
(* manifest are as they must be (complete), its kind, its dependencies by  *)
(* alias, and its entry.  A file that does not parse is Unreadable.        *)
(***************************************************************************)
EXTENDS Graph, SequencesExt, TLC

CONSTANT Library   \* the packages that can be pulled, by their key

Unreadable == [unreadable |-> TRUE]

\* The source, with its version if it has one, of a component or dependency.
Key(d) == IF d.version = "" THEN <<d.source>> ELSE <<d.source, d.version>>

------------------------------------------------------------------------------
(* Architectures (internal/validator). *)

endpointComponent(endpoint) == SplitEndpoint(endpoint).component

Imports(arch) ==
  {name \in DOMAIN arch.components : arch.components[name].type = "orchestration"}

HasOrchestrationComponents(arch) == Imports(arch) # {}

\* apiVersion and name, which nothing else reads, are taken to be present:
\* files without them, which the code refuses, are admitted here.
checkSyntax(arch) == DOMAIN arch.components # {} /\ arch.connections # <<>>

checkComponents(arch) ==
  \A name \in DOMAIN arch.components : LET c == arch.components[name] IN
    \/ c.type = "agent" /\ c.model # NoName /\ c.model \in DOMAIN arch.models
    \/ c.type \in {"orchestration", "node"} /\ c.source # ""

checkEndpoint(arch, endpoint) ==
  endpointComponent(endpoint) \in {Input, Output} \cup DOMAIN arch.components

checkConnections(arch) ==
  \A conn \in Range(arch.connections) :
    /\ conn.from # NoName /\ conn.to # NoName
    /\ endpointComponent(conn.from) # Output /\ checkEndpoint(arch, conn.from)
    /\ endpointComponent(conn.to) # Input /\ checkEndpoint(arch, conn.to)

Validate(arch) == checkSyntax(arch) /\ checkComponents(arch) /\ checkConnections(arch)

------------------------------------------------------------------------------
(* The other entrypoints. *)

toolboxValid(tb) ==
  /\ tb.version = 1
  /\ DOMAIN tb.tools # {}
  /\ \A t \in DOMAIN tb.tools : tb.tools[t].runtime = "mcp" /\ tb.tools[t].server # ""

\* The module is opened, and its first four bytes are looked at.
nodeValid(n) == n.runtime = "wasm" /\ n.module = "WASM binary"

skillValid(s) == s.instructions # ""

------------------------------------------------------------------------------
(* Package.Validate *)

supportedKinds == {"orchestration", "toolbox", "node", "skill"}

ManifestValid(p) ==
  /\ p.complete
  /\ p.kind \in supportedKinds
  /\ \A alias \in DOMAIN p.deps : p.deps[alias].source # "" /\ p.deps[alias].version # ""

EntryValid(p) ==
  /\ p.entry # Unreadable
  /\ CASE p.kind = "toolbox" -> toolboxValid(p.entry)
       [] p.kind = "node"    -> nodeValid(p.entry)
       [] p.kind = "skill"   -> skillValid(p.entry)
       [] OTHER              -> Validate(p.entry)

PackageValid(p) == ManifestValid(p) /\ EntryValid(p)

\* What a pull may return, if nothing goes wrong on the way.
Resolvable(key) == key \in DOMAIN Library /\ PackageValid(Library[key])

Kind(key) == Library[key].kind

\* Only an orchestration can be imported by another one.
Importable(key) == Resolvable(key) /\ Kind(key) = "orchestration"

\* parser.ParseFile of the entrypoint, on its own: nothing that validates,
\* unless it is an architecture.
NoArchitecture == [components |-> <<>>, connections |-> <<>>, models |-> <<>>]

ParseFile(p) ==
  IF p.kind = "orchestration" /\ p.entry # Unreadable THEN p.entry ELSE NoArchitecture

==============================================================================
