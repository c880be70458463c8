----------------------------- MODULE PackageLock -----------------------------
(***************************************************************************)
(* Resolver.pull and the lock files: a mutable tag is resolved to a        *)
(* commit, the package is downloaded into the cache entry of that commit   *)
(* unless the entry exists, its dependencies are pulled recursively at the *)
(* commits the orh.lock file of the entry pins, and those it did not pin   *)
(* are pinned.  Then the command uses the package: executor.Run pulls its  *)
(* dependencies and the sources of its components once more.               *)
(*                                                                         *)
(* The repositories are external: any tag may move between any two steps.  *)
(* A cache entry appears in one step here; PackageCache opens that step.   *)
(***************************************************************************)
EXTENDS Naturals, Sequences, SequencesExt

CONSTANTS
  Procs,     \* orh commands that run at the same time
  Sources,   \* "owner/repo", the key of lock files and of the cycle check
  Root,      \* the source the commands are given
  Tags,
  Published, \* the tags each source has; asking for another one is an error
  Commits,
  Manifest,  \* what the content of a commit declares to depend on
  Shipped,   \* the orh.lock file that comes with the content of a commit
  MaxMoves,  \* bound on the moves of tags
  MaxFaults  \* bound on failures and kills

Unpinned == ""
Pins == Commits \cup {Unpinned}
Lock == [Sources -> Pins]
Versions == Tags \cup Commits
Dependency == {d \in [source : Sources, version : Tags] :
                 <<d.source, d.version>> \in Published}

ASSUME LockAssumption ==
  /\ Root \in Sources
  /\ Published \subseteq Sources \X Tags
  /\ Unpinned \notin Commits
  /\ Tags \cap Commits = {}
  /\ Manifest \in [Sources \X Commits -> SUBSET Dependency]
  /\ Shipped \in [Sources \X Commits -> Lock]
  /\ MaxMoves \in Nat
  /\ MaxFaults \in Nat

VARIABLES
  tags,     \* the commit each tag of each source points at
  moves,
  entries,  \* the commit whose content each cache entry holds
  locks,    \* the orh.lock file of each cache entry
  stack,    \* the pull calls each command is in, the innermost last
  package,  \* what Pull(Root) returned to the command that is using it
  faults,
  results,  \* history: every package a pull call returned
  used      \* history: what the uses of packages were given

vars == <<tags, moves, entries, locks, stack, package, faults, results, used>>

NoLock == [s \in Sources |-> Unpinned]
Package == [source : Sources, commit : Commits, lock : Lock]
NoPackage == [source |-> Root, commit |-> Unpinned, lock |-> NoLock]

Frame == [source : Sources, version : Versions, commit : Commits, lock : Lock,
          todo : SUBSET Dependency, changed : BOOLEAN,
          at : {"fetch", "deps", "save"},
          caller : {"pull", "dependency", "component"}]

Init ==
  /\ tags \in [Published -> Commits]
  /\ moves = 0
  /\ entries = [e \in Sources \X Commits |-> Unpinned]
  /\ locks = [e \in Sources \X Commits |-> NoLock]
  /\ stack = [p \in Procs |-> <<>>]
  /\ package = [p \in Procs |-> NoPackage]
  /\ faults = 0
  /\ results = {}
  /\ used = {}

------------------------------------------------------------------------------
\* GitHub: a commit names itself.
CommitOf(source, version) ==
  IF version \in Commits THEN version ELSE tags[<<source, version>>]

MoveTag ==
  /\ moves < MaxMoves
  /\ moves' = moves + 1
  /\ \E t \in Published, c \in Commits : tags' = [tags EXCEPT ![t] = c]
  /\ UNCHANGED <<entries, locks, stack, package, faults, results, used>>

\* A call of pull, which begins by resolving the version.
Resolved(source, version, caller) ==
  [source |-> source, version |-> version, commit |-> CommitOf(source, version),
   lock |-> NoLock, todo |-> {}, changed |-> FALSE, at |-> "fetch",
   caller |-> caller]

Top(p) == Last(stack[p])
Entry(f) == <<f.source, f.commit>>
Become(p, f) == stack' = [stack EXCEPT ![p] = Append(Front(@), f)]

Running(p, at) == stack[p] # <<>> /\ Top(p).at = at

Pull(p) ==
  /\ stack[p] = <<>>
  /\ package[p] = NoPackage
  /\ \E tag \in {t \in Tags : <<Root, t>> \in Published} :
       stack' = [stack EXCEPT ![p] = <<Resolved(Root, tag, "pull")>>]
  /\ UNCHANGED <<tags, moves, entries, locks, package, faults, results, used>>

\* The tarball is asked for by the tag or commit that was resolved.
Content(f) ==
  IF entries[Entry(f)] # Unpinned THEN entries[Entry(f)]
                                  ELSE CommitOf(f.source, f.version)

Fetch(p) ==
  /\ Running(p, "fetch")
  /\ LET f == Top(p)
         content == Content(f)
         lock == IF entries[Entry(f)] # Unpinned THEN locks[Entry(f)]
                                                 ELSE Shipped[<<f.source, content>>]
     IN  /\ entries' = [entries EXCEPT ![Entry(f)] = content]
         /\ locks' = [locks EXCEPT ![Entry(f)] = lock]
         /\ Become(p, [f EXCEPT !.at = "deps", !.lock = lock,
                                !.todo = Manifest[<<f.source, content>>]])
  /\ UNCHANGED <<tags, moves, package, faults, results, used>>

------------------------------------------------------------------------------
(* The dependencies, in the arbitrary order of a Go map *)

Seen(p) == {stack[p][i].source : i \in DOMAIN stack[p]}

\* The commit pinned for a source wins over the version asked for.
PinnedVersion(d, lock) ==
  IF lock[d.source] # Unpinned THEN lock[d.source] ELSE d.version

NotCircular(p, d) == d.source \notin Seen(p)

PullDependency(p, d) ==
  /\ Running(p, "deps")
  /\ d \in Top(p).todo
  /\ NotCircular(p, d)
  /\ stack' = [stack EXCEPT ![p] =
       Front(@) \o <<[Top(p) EXCEPT !.todo = @ \ {d}],
                     Resolved(d.source, PinnedVersion(d, Top(p).lock), "pull")>>]
  /\ UNCHANGED <<tags, moves, entries, locks, package, faults, results, used>>

\* Every pull call returns the error of the innermost.
Abandon(p) ==
  /\ stack' = [stack EXCEPT ![p] = <<>>]
  /\ package' = [package EXCEPT ![p] = NoPackage]

CircularDependency(p, d) ==
  /\ Running(p, "deps")
  /\ d \in Top(p).todo
  /\ d.source \in Seen(p)
  /\ Abandon(p)
  /\ UNCHANGED <<tags, moves, entries, locks, faults, results, used>>

\* Only a lock that has a new pin is written: os.WriteFile truncates ...
TruncateLock(p) ==
  /\ Running(p, "deps")
  /\ Top(p).todo = {}
  /\ Top(p).changed
  /\ locks' = [locks EXCEPT ![Entry(Top(p))] = NoLock]
  /\ Become(p, [Top(p) EXCEPT !.at = "save"])
  /\ UNCHANGED <<tags, moves, entries, package, faults, results, used>>

\* Variant: the lock still counts as changed when it is written.
SaveLockAgain(p) ==
  /\ Running(p, "save")
  /\ locks' = [locks EXCEPT ![Entry(Top(p))] = Top(p).lock]
  /\ Become(p, [Top(p) EXCEPT !.at = "deps"])
  /\ UNCHANGED <<tags, moves, entries, package, faults, results, used>>

\* ... and writes.
SaveLock(p) ==
  /\ Running(p, "save")
  /\ locks' = [locks EXCEPT ![Entry(Top(p))] = Top(p).lock]
  /\ Become(p, [Top(p) EXCEPT !.at = "deps", !.changed = FALSE])
  /\ UNCHANGED <<tags, moves, entries, package, faults, results, used>>

\* Variant: a call returns without having written the lock.
ReturningUnsaved(p) == Running(p, "deps") /\ Top(p).todo = {}

Returning(p) ==
  Running(p, "deps") /\ Top(p).todo = {} /\ ~Top(p).changed

Returned(f) == [source |-> f.source, commit |-> f.commit, lock |-> f.lock]

\* Variant: the lock is marked as changed but gets no pin.
PinForgotten(f, dep) ==
  IF f.lock[dep.source] = Unpinned THEN [f EXCEPT !.changed = TRUE] ELSE f

\* The caller pins the dependency unless it was pinned.
Pin(f, dep) ==
  IF f.lock[dep.source] = Unpinned
    THEN [f EXCEPT !.lock[dep.source] = dep.commit, !.changed = TRUE]
    ELSE f

ReturnDependency(p) ==
  /\ Returning(p)
  /\ Len(stack[p]) > 1
  /\ LET callers == Front(stack[p])
     IN  stack' = [stack EXCEPT ![p] = Append(Front(callers),
                                              Pin(Last(callers), Top(p)))]
  /\ results' = results \cup {Returned(Top(p))}
  /\ UNCHANGED <<tags, moves, entries, locks, package, faults, used>>

ReturnPackage(p) ==
  /\ Returning(p)
  /\ Len(stack[p]) = 1
  /\ package[p] = NoPackage
  /\ package' = [package EXCEPT ![p] = Returned(Top(p))]
  /\ stack' = [stack EXCEPT ![p] = <<>>]
  /\ results' = results \cup {Returned(Top(p))}
  /\ UNCHANGED <<tags, moves, entries, locks, faults, used>>

------------------------------------------------------------------------------
(***************************************************************************)
(* The uses.  Toolboxes and skills are pulled at the versions that         *)
(* ApplyLock wrote into the dependencies.  The entrypoint is parsed again  *)
(* from its path, so what ApplyLock wrote into the components is gone.     *)
(* The components are taken to name the sources and tags of the manifest.  *)
(***************************************************************************)
\* Variant: ApplyLock is not called.
LockNotApplied(p, d) == d.version

DependencyVersion(p, d) == PinnedVersion(d, package[p].lock)
ComponentVersion(p, d) == d.version

Use(p, d) ==
  /\ stack[p] = <<>>
  /\ package[p] # NoPackage
  /\ d \in Manifest[<<Root, entries[<<Root, package[p].commit>>]>>]
  /\ \E call \in {Resolved(d.source, DependencyVersion(p, d), "dependency"),
                  Resolved(d.source, ComponentVersion(p, d), "component")} :
       stack' = [stack EXCEPT ![p] = <<call>>]
  /\ UNCHANGED <<tags, moves, entries, locks, package, faults, results, used>>

ReturnUsed(p) ==
  /\ Returning(p)
  /\ Len(stack[p]) = 1
  /\ package[p] # NoPackage
  /\ used' = used \cup {[caller |-> Top(p).caller, commit |-> Top(p).commit,
                         pin |-> package[p].lock[Top(p).source]]}
  /\ stack' = [stack EXCEPT ![p] = <<>>]
  /\ results' = results \cup {Returned(Top(p))}
  /\ UNCHANGED <<tags, moves, entries, locks, package, faults>>

CommandEnds(p) ==
  /\ stack[p] = <<>>
  /\ package[p] # NoPackage
  /\ Abandon(p)
  /\ UNCHANGED <<tags, moves, entries, locks, faults, results, used>>

\* A request or the file system fails, or the command is killed.
Stops(p) ==
  /\ stack[p] # <<>>
  /\ faults < MaxFaults
  /\ faults' = faults + 1
  /\ Abandon(p)
  /\ UNCHANGED <<tags, moves, entries, locks, results, used>>

------------------------------------------------------------------------------
PullStep(p) ==
  \/ Fetch(p) \/ TruncateLock(p) \/ SaveLock(p)
  \/ ReturnDependency(p) \/ ReturnPackage(p) \/ ReturnUsed(p)
  \/ \E d \in Dependency : PullDependency(p, d) \/ CircularDependency(p, d)

Command(p) == Pull(p) \/ CommandEnds(p) \/ \E d \in Dependency : Use(p, d)

Next == MoveTag \/ \E p \in Procs : PullStep(p) \/ Command(p) \/ Stops(p)

Spec == Init /\ [][Next]_vars

\* A pull call never waits, provided GitHub answers every request.
FairSpec == Spec /\ \A p \in Procs : WF_vars(PullStep(p))

------------------------------------------------------------------------------
(* Properties *)

TypeOK ==
  /\ tags \in [Published -> Commits]
  /\ moves \in 0..MaxMoves
  /\ entries \in [Sources \X Commits -> Pins]
  /\ locks \in [Sources \X Commits -> Lock]
  /\ stack \in [Procs -> Seq(Frame)]
  /\ package \in [Procs -> Package \cup {NoPackage}]
  /\ faults \in 0..MaxFaults
  /\ results \subseteq Package
  /\ used \subseteq [caller : {"dependency", "component"},
                     commit : Commits, pin : Pins]

\* Pulling the same commit again gives the same pins, at every depth of the
\* dependency graph, whichever tags have moved and whichever pulls have
\* failed or been killed in between, in the middle of writing a lock too
\* (the purpose of orh.lock).  True of one command at a time.
Reproducible ==
  \A r1, r2 \in results :
    r1.source = r2.source /\ r1.commit = r2.commit => r1.lock = r2.lock

\* A returned package pins every dependency it declares, at a commit that
\* was pulled: pulling it again needs no lookup of a tag and no download.
PinsWerePulled ==
  \A r \in results : \A d \in Manifest[<<r.source, entries[Entry(r)]>>] :
    \E dep \in results : dep.source = d.source /\ dep.commit = r.lock[d.source]

\* Toolboxes and skills come from the commits the lock of the root pins.
DependenciesFollowLock ==
  \A u \in used : u.caller = "dependency" => u.commit = u.pin

\* Every pull ends, with a package or with an error.
PullsEnd == \A p \in Procs : stack[p] # <<>> ~> stack[p] = <<>>

------------------------------------------------------------------------------
(* What the repository's comments say and the code does not do.            *)

\* cache.go:32-33, PackageDir is "the cache directory for one resolved GitHub
\* package version": false when the tag moves between Resolve and Download.
ContentIsCommit ==
  \A e \in Sources \X Commits : entries[e] \in {Unpinned, e[2]}

\* resolver.go:153-156, ApplyLock "keeps all later consumers (composition,
\* ... custom nodes) on the same resolved package graph": false for the
\* components of the package that is run.
ComponentsFollowLock ==
  \A u \in used : u.caller = "component" => u.commit = u.pin

==============================================================================
