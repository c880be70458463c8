----------------------------- MODULE PackageCache -----------------------------
(***************************************************************************)
(* One entry of the package cache, the directory of one commit, as         *)
(* resolver.pull and downloadInto fill it: stat the directory, extract the *)
(* tarball file by file into "<dir>.download", then replace the directory  *)
(* by it with a rename.  Then pull loads the package, and pins what it     *)
(* depends on in the file orh.lock of the entry, which the tarball may     *)
(* bring with it.  Processes (orh commands) share the file system; each    *)
(* step can fail, and a process can be killed between any two steps.       *)
(*                                                                         *)
(* A file is extracted in one step, or left partial when its writer dies   *)
(* or fails in the middle; directories are removed one file at a time.  Of *)
(* orh.lock it matters whether it parses and whether a dependency has no   *)
(* pin in it; which commits it pins is the subject of PackageLock.         *)
(*                                                                         *)
(* `orh list` and `orh info` read the directory of the repository, which   *)
(* holds one directory per cached commit and, while a download lasts or    *)
(* after one that was cut off, "<dir>.download".                           *)
(***************************************************************************)
EXTENDS Naturals, Sequences

CONSTANTS
  Procs,      \* the processes that pull the package
  Tarball,    \* its files, in the order of the tarball
  Needed,     \* those that pkg.Load and Validate read
  LockFile,   \* orh.lock
  Shipped,    \* what the tarball's orh.lock comes to, if it has one
  Depends,    \* whether the package declares dependencies
  Older,      \* whether another commit of the repository is cached
  MaxFaults   \* bound on errors and kills

PackageFiles == {Tarball[i] : i \in DOMAIN Tarball} \ {LockFile}
Files == PackageFiles \cup {LockFile}

ASSUME CacheAssumption ==
  /\ Tarball \in Seq(Files)
  /\ Tarball # <<>>
  /\ \A i, j \in DOMAIN Tarball : Tarball[i] = Tarball[j] => i = j
  /\ Needed \subseteq PackageFiles
  /\ Shipped \in {"unpinned", "full"}
  /\ Depends \in BOOLEAN
  /\ Older \in BOOLEAN
  /\ MaxFaults \in Nat

\* A directory: the files it holds, or no directory at all.
NoTree == <<>>
EmptyTree == [f \in Files |-> "none"]
Content == {"none", "partial", "unpinned", "wrong", "full"}
Tree == [Files -> Content] \cup {NoTree}

\* A package as it was published.
Complete(tree) == tree # NoTree /\ \A f \in PackageFiles : tree[f] = "full"

\* What is found in a file that was written whole, and in one that was not.  An
\* orh.lock may parse although it was cut off: without some key ("unpinned"), or
\* with all of them and the last commit shortened ("wrong").
Whole(file) == IF file = LockFile THEN Shipped ELSE "full"
CutOff(file) == IF file = LockFile THEN {"partial", "unpinned", "wrong", "full"} ELSE {"partial"}

VARIABLES
  tmp,       \* "<dir>.download"
  dir,       \* the cache entry
  pc,        \* where each process is
  repo,      \* whether the directory of the repository is there
  extracted, \* how many files of the tarball it has extracted
  faults     \* errors and kills so far

vars == <<tmp, dir, pc, repo, extracted, faults>>

Init ==
  /\ tmp = NoTree
  /\ dir = NoTree
  /\ pc = [p \in Procs |-> "stat"]
  /\ repo = Older
  /\ extracted = [p \in Procs |-> 0]
  /\ faults = 0

Goto(p, label) == pc' = [pc EXCEPT ![p] = label]

Fault == faults < MaxFaults /\ faults' = faults + 1

------------------------------------------------------------------------------
(* pull: os.Stat(dir) decides whether to download *)

\* Variant: a download that another one has begun is left to it.
MissingAndUntouched == dir = NoTree /\ tmp = NoTree

Missing == dir = NoTree

StatCached(p) ==
  /\ pc[p] = "stat"
  /\ ~Missing
  /\ Goto(p, "load")
  /\ UNCHANGED <<tmp, dir, extracted, faults, repo>>

StatMissing(p) ==
  /\ pc[p] = "stat"
  /\ Missing
  /\ Goto(p, "rmTmp")
  /\ UNCHANGED <<tmp, dir, extracted, faults, repo>>

------------------------------------------------------------------------------
(* downloadInto *)

\* One step of os.RemoveAll: a file goes, or the emptied directory.
RemoveFrom(tree) ==
  IF tree = EmptyTree THEN {NoTree}
  ELSE {[tree EXCEPT ![f] = "none"] : f \in {g \in Files : tree[g] # "none"}}

RemoveTmp(p) ==
  /\ pc[p] \in {"rmTmp", "cleanup"}
  /\ IF tmp = NoTree
       THEN /\ Goto(p, IF pc[p] = "rmTmp" THEN "mkdir" ELSE "failed")
            /\ UNCHANGED tmp
       ELSE tmp' \in RemoveFrom(tmp) /\ UNCHANGED pc
  /\ UNCHANGED <<dir, extracted, faults, repo>>

MakeTmp(p) ==
  /\ pc[p] = "mkdir"
  /\ tmp' = IF tmp = NoTree THEN EmptyTree ELSE tmp
  /\ repo' = TRUE
  /\ extracted' = [extracted EXCEPT ![p] = 0]
  /\ Goto(p, "extract")
  /\ UNCHANGED <<dir, faults>>

\* extractTarGz makes the parent directory before it opens each file, so it
\* brings back a directory that another process has taken away.
Extract(file, content) ==
  tmp' = [(IF tmp = NoTree THEN EmptyTree ELSE tmp) EXCEPT ![file] = content]

ExtractFile(p) ==
  /\ pc[p] = "extract"
  /\ extracted[p] < Len(Tarball)
  /\ Extract(Tarball[extracted[p] + 1], Whole(Tarball[extracted[p] + 1]))
  /\ extracted' = [extracted EXCEPT ![p] = @ + 1]
  /\ UNCHANGED <<dir, pc, faults, repo>>

ExtractDone(p) ==
  /\ pc[p] = "extract"
  /\ extracted[p] = Len(Tarball)
  /\ Goto(p, "rmDir")
  /\ UNCHANGED <<tmp, dir, extracted, faults, repo>>

\* Variant: the error of Download is not looked at.
DownloadFailsUnseen(p) ==
  /\ pc[p] = "extract"
  /\ Fault
  /\ Goto(p, "rmDir")
  /\ UNCHANGED <<tmp, dir, extracted, repo>>

\* The file being extracted is left as far as it was written.
CutExtract(p) ==
  /\ extracted[p] < Len(Tarball)
  /\ LET file == Tarball[extracted[p] + 1] IN \E c \in CutOff(file) : Extract(file, c)

\* The request fails, the stream breaks off, or the disk is full: Download
\* returns an error, and downloadInto removes the temporary directory.
DownloadFails(p) ==
  /\ pc[p] = "extract"
  /\ Fault
  /\ UNCHANGED tmp \/ CutExtract(p)
  /\ Goto(p, "cleanup")
  /\ UNCHANGED <<dir, extracted, repo>>

\* The error of this RemoveAll is dropped.
RemoveDir(p) ==
  /\ pc[p] = "rmDir"
  /\ IF dir = NoTree
       THEN Goto(p, "rename") /\ UNCHANGED dir
       ELSE dir' \in RemoveFrom(dir) /\ UNCHANGED pc
  /\ UNCHANGED <<tmp, extracted, faults, repo>>

\* rename(2) replaces an absent or empty directory.
Replaceable == tmp # NoTree /\ dir \in {NoTree, EmptyTree}

Rename(p) ==
  /\ pc[p] = "rename"
  /\ Replaceable
  /\ dir' = tmp
  /\ tmp' = NoTree
  /\ Goto(p, "load")
  /\ UNCHANGED <<extracted, faults, repo>>

\* Another process is in the way, or an I/O error.
RenameFails(p) ==
  /\ pc[p] = "rename"
  /\ Replaceable => faults < MaxFaults
  /\ faults' = IF Replaceable THEN faults + 1 ELSE faults
  /\ Goto(p, "failed")
  /\ UNCHANGED <<tmp, dir, extracted, repo>>

\* An I/O error outside Download: downloadInto returns it, and leaves what
\* it finds.  (After the MkdirAll of the parent, it removes tmp first.)  In
\* "lock" and "pin" it is the lock or a dependency that cannot be had.
StepFails(p) ==
  /\ Fault
  /\ \/ pc[p] \in {"rmTmp", "mkdir", "lock", "pin"} /\ Goto(p, "failed")
     \/ pc[p] = "rmDir" /\ Goto(p, "cleanup")
  /\ UNCHANGED <<tmp, dir, extracted, repo>>

------------------------------------------------------------------------------
\* pkg.Load and Validate: a file that is cut off may still parse.
MayLoad(tree) == tree # NoTree /\ \A f \in Needed : tree[f] # "none"
MustLoad(tree) == tree # NoTree /\ \A f \in Needed : tree[f] = "full"

LoadPackage(p) ==
  /\ pc[p] = "load"
  /\ \/ MayLoad(dir) /\ Goto(p, "lock")
     \/ ~MustLoad(dir) /\ Goto(p, "failed")
  /\ UNCHANGED <<tmp, dir, extracted, faults, repo>>

------------------------------------------------------------------------------
(* orh.lock: load it, pull the dependencies, save it if one had no pin *)

LockContent == IF dir = NoTree THEN "none" ELSE dir[LockFile]

\* Variant: a missing lock file is an error.
ParsesIfThere == LockContent \notin {"none", "partial"}

\* A missing file is an empty lock, as an empty one is.
Parses == LockContent # "partial"

AllPinned == Depends => LockContent \in {"wrong", "full"}

\* Variant: the lock is saved whenever there are dependencies.
LoadLockToSave(p) ==
  /\ pc[p] = "lock"
  /\ Parses
  /\ Goto(p, IF Depends THEN "pin" ELSE "ok")
  /\ UNCHANGED <<tmp, dir, extracted, faults, repo>>

\* The dependencies are pulled on the way from here; if all of them are pinned
\* there is nothing to write.  A commit that is cut off may not be found.
LoadLock(p) ==
  /\ pc[p] = "lock"
  /\ \/ ~Parses /\ Goto(p, "failed")
     \/ Parses /\ Goto(p, IF AllPinned THEN "ok" ELSE "pin")
     \/ Depends /\ LockContent = "wrong" /\ Goto(p, "failed")
  /\ UNCHANGED <<tmp, dir, extracted, faults, repo>>

\* os.WriteFile in its two halves; the directory may have been taken away, and
\* what is written to a file that has been removed is lost.
TruncateLock(p) ==
  /\ pc[p] = "pin"
  /\ IF dir = NoTree
       THEN Goto(p, "failed") /\ UNCHANGED dir
       ELSE Goto(p, "save") /\ dir' = [dir EXCEPT ![LockFile] = "unpinned"]
  /\ UNCHANGED <<tmp, extracted, faults, repo>>

WriteLock(content) ==
  dir' = IF LockContent = "none" THEN dir ELSE [dir EXCEPT ![LockFile] = content]

SaveLock(p) ==
  /\ pc[p] = "save"
  /\ WriteLock("full")
  /\ Goto(p, "ok")
  /\ UNCHANGED <<tmp, extracted, faults, repo>>

\* A full disk.
SaveLockFails(p) ==
  /\ pc[p] = "save"
  /\ Fault
  /\ \E c \in CutOff(LockFile) : WriteLock(c)
  /\ Goto(p, "failed")
  /\ UNCHANGED <<tmp, extracted, repo>>

\* Another command of the same kind, after this one or after its death.
NextCommand(p) ==
  /\ pc[p] \in {"ok", "failed"}
  /\ Goto(p, "stat")
  /\ extracted' = [extracted EXCEPT ![p] = 0]
  /\ UNCHANGED <<tmp, dir, faults, repo>>

\* Before or in the middle of what it was about to do to a file.
Killed(p) ==
  /\ pc[p] \notin {"ok", "failed"}
  /\ Fault
  /\ \/ UNCHANGED <<tmp, dir>>
     \/ pc[p] = "extract" /\ CutExtract(p) /\ UNCHANGED dir
     \/ pc[p] = "save" /\ (\E c \in CutOff(LockFile) : WriteLock(c)) /\ UNCHANGED tmp
  /\ Goto(p, "failed")
  /\ UNCHANGED <<extracted, repo>>

DownloadStep(p) ==
  \/ RemoveTmp(p) \/ MakeTmp(p) \/ ExtractFile(p) \/ ExtractDone(p)
  \/ RemoveDir(p) \/ Rename(p) \/ (~Replaceable /\ RenameFails(p))

PullStep(p) ==
  \/ StatCached(p) \/ StatMissing(p) \/ DownloadStep(p) \/ LoadPackage(p)
  \/ LoadLock(p) \/ TruncateLock(p) \/ SaveLock(p)

Next ==
  \E p \in Procs :
    \/ StatCached(p) \/ StatMissing(p) \/ RemoveTmp(p) \/ MakeTmp(p)
    \/ ExtractFile(p) \/ ExtractDone(p) \/ RemoveDir(p) \/ Rename(p)
    \/ RenameFails(p) \/ LoadPackage(p) \/ LoadLock(p) \/ TruncateLock(p)
    \/ SaveLock(p) \/ NextCommand(p)
    \/ DownloadFails(p) \/ StepFails(p) \/ SaveLockFails(p) \/ Killed(p)

Spec == Init /\ [][Next]_vars

\* A running process runs on, and the user tries again.
FairSpec ==
  /\ Spec
  /\ \A p \in Procs : WF_vars(PullStep(p)) /\ WF_vars(NextCommand(p))

------------------------------------------------------------------------------
(* `orh list` and `orh info` *)

\* The directories of the repository that info chooses from, the one that was
\* modified last at the end.  Whatever there is of "<dir>.download" has been
\* written after the entry was renamed.
Versions ==
  (IF Older THEN <<"older">> ELSE <<>>)
    \o (IF dir # NoTree THEN <<"entry">> ELSE <<>>)
    \o (IF tmp # NoTree THEN <<"leftover">> ELSE <<>>)

\* Variant: the comparison of the times the wrong way round.
FirstCachedDir == IF Versions = <<>> THEN "not installed" ELSE Versions[1]

latestCachedDir == IF Versions = <<>> THEN "not installed" ELSE Versions[Len(Versions)]

\* What info may answer: the manifest it shows, or an error.
GetInfo ==
  IF latestCachedDir = "leftover"
    THEN {v \in {"leftover"} : MayLoad(tmp)} \cup {v \in {"invalid"} : ~MustLoad(tmp)}
  ELSE IF latestCachedDir = "entry"
    THEN {v \in {"entry"} : MayLoad(dir)} \cup {v \in {"invalid"} : ~MustLoad(dir)}
  ELSE {latestCachedDir}

\* Every directory of a repository is listed, with a version in it or not.
Installed == repo

------------------------------------------------------------------------------
(* Properties *)

TypeOK ==
  /\ tmp \in Tree
  /\ dir \in Tree
  /\ pc \in [Procs -> {"stat", "rmTmp", "mkdir", "extract", "cleanup", "rmDir",
                       "rename", "load", "lock", "pin", "save", "ok", "failed"}]
  /\ repo \in BOOLEAN
  /\ extracted \in [Procs -> 0..Len(Tarball)]
  /\ faults \in 0..MaxFaults

\* The comment on downloadInto (resolver.go:195-197): a failed or interrupted
\* download never leaves a corrupt cache entry behind.
NoCorruptEntry == dir = NoTree \/ Complete(dir)

\* Other commands read the entry of a package that has been loaded for the
\* length of a run, so no pull, failed or killed ones included, may remove it or
\* touch the package in it.  Its orh.lock is rewritten only as long as a
\* dependency has no pin there: from the first pull that succeeds, nothing in
\* the entry changes any more.
EntryStable ==
  [][dir # NoTree =>
       /\ dir' # NoTree
       /\ \A f \in PackageFiles : dir'[f] = dir[f]
       /\ AllPinned => dir' = dir]_vars

\* However commands fail or die, trying again in the end gets the package:
\* nothing they leave behind stands in the way of the next download, nor
\* hides the package from `orh list` and `orh info` for good.
EventuallyCached == <>[](Complete(dir) /\ Installed /\ GetInfo = {"entry"})

\* ... and in the end pull succeeds every time (an orh.lock that is missing or
\* was emptied is made again), unless the write of an orh.lock was cut off and
\* left one that does not parse, or one that pins half a commit: no pull mends
\* these two.
PullsSucceed ==
  \A p \in Procs : <>[](LockContent \in {"partial", "wrong"}) \/ <>[](pc[p] # "failed")

\* What is in the cache is listed, and info shows the version that was cached
\* last.  Two things can be wrong, until the same package is pulled again, and
\* only after a download was cut off: an older version is hidden by what it has
\* left, and a repository is listed without any version in it.
InfoTruthful ==
  /\ Older \/ dir # NoTree => Installed
  /\ dir # NoTree => GetInfo = {"entry"}
  /\ dir = NoTree /\ tmp = NoTree => GetInfo = {IF Older THEN "older" ELSE "not installed"}

==============================================================================
