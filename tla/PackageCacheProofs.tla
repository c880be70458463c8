-------------------------- MODULE PackageCacheProofs --------------------------
(***************************************************************************)
(* The comment on downloadInto, proved for the case it is right about: one *)
(* orh command at a time, any tarball, any number of errors and kills; that *)
(* nobody touches a cached package afterwards, nor its orh.lock once every *)
(* dependency is pinned there; and that `orh list` and `orh info` then say *)
(* what is in the cache.                                                   *)
(***************************************************************************)
EXTENDS PackageCache, TLAPS

(***************************************************************************)
(* While a command downloads there is no entry; the files it has extracted *)
(* are in the temporary directory, so that the directory it renames is     *)
(* complete whatever an earlier command left in it.  It writes orh.lock    *)
(* only into an entry that is there and where a pin is missing.            *)
(***************************************************************************)
DownloadInv(p) ==
  /\ pc[p] \in {"rmTmp", "mkdir", "extract", "cleanup", "rmDir", "rename"} =>
       dir = NoTree
  /\ pc[p] = "extract" =>
       /\ tmp # NoTree
       /\ \A i \in 1..extracted[p] : tmp[Tarball[i]] = Whole(Tarball[i])
  /\ pc[p] \in {"rmDir", "rename"} => Complete(tmp)
  /\ pc[p] \in {"extract", "rmDir", "rename"} => repo
  /\ pc[p] \in {"lock", "pin", "save"} => dir # NoTree
  /\ pc[p] \in {"pin", "save"} => ~AllPinned

(***************************************************************************)
(* Nothing is left beside an entry, and what is cached has its repository. *)
(***************************************************************************)
RepositoryInv ==
  /\ dir # NoTree => tmp = NoTree /\ repo
  /\ Older => repo

IInv == TypeOK /\ NoCorruptEntry /\ RepositoryInv /\ \A p \in Procs : DownloadInv(p)

\* A directory with files is never taken for a missing one.
LEMMA TreeFacts ==
  /\ EmptyTree \in [Files -> Content]
  /\ \A t \in [Files -> Content] : t # NoTree
  /\ LockFile \in Files
  /\ LockFile \notin PackageFiles
<1>1. EmptyTree \in [Files -> Content]  BY DEF EmptyTree, Content
<1>2. LockFile \in Files /\ LockFile \notin PackageFiles  BY DEF Files, PackageFiles
<1>3. ASSUME NEW t \in [Files -> Content]  PROVE t # NoTree
  <2>1. DOMAIN t = Files  OBVIOUS
  <2>2. DOMAIN NoTree = {}  BY DEF NoTree
  <2>. QED  BY <1>2, <2>1, <2>2
<1>. QED  BY <1>1, <1>2, <1>3

\* Extracting a file leaves a directory with that file, and the others as before.
LEMMA ExtractFacts ==
  ASSUME TypeOK, NEW file \in Files, NEW content \in Content,
         Extract(file, content)
  PROVE  /\ tmp' \in [Files -> Content]
         /\ tmp'[file] = content
         /\ tmp # NoTree => \A f \in Files : f # file => tmp'[f] = tmp[f]
BY TreeFacts DEF Extract, TypeOK, Tree

LEMMA ContentFacts ==
  /\ \A f \in Files : Whole(f) \in Content /\ CutOff(f) \subseteq Content
  /\ \A f \in PackageFiles : Whole(f) = "full"
BY CacheAssumption DEF Whole, CutOff, Content, PackageFiles

\* What is left of a file that was cut off leaves a directory.
LEMMA CutExtractFacts ==
  ASSUME TypeOK, NEW p \in Procs, CutExtract(p)
  PROVE  tmp' \in [Files -> Content]
<1>1. Tarball[extracted[p] + 1] \in Files
  BY CacheAssumption DEF CutExtract, TypeOK
<1>. QED  BY <1>1, ExtractFacts, ContentFacts DEF CutExtract

\* Writing orh.lock leaves the package as it was.
LEMMA WriteLockFacts ==
  ASSUME TypeOK, dir # NoTree, NEW content \in Content, WriteLock(content)
  PROVE  /\ dir' \in [Files -> Content]
         /\ \A f \in PackageFiles : dir'[f] = dir[f]
<1>1. dir \in [Files -> Content]  BY DEF TypeOK, Tree
<1>2. PackageFiles \subseteq Files  BY DEF Files
<1>. QED  BY <1>1, <1>2, TreeFacts DEF WriteLock

LEMMA RemoveFacts ==
  ASSUME NEW tree \in Tree, tree # NoTree
  PROVE  RemoveFrom(tree) \subseteq Tree
<1>1. tree \in [Files -> Content]  BY DEF Tree
<1>2. \A f \in Files : [tree EXCEPT ![f] = "none"] \in [Files -> Content]
  BY <1>1 DEF Content
<1>. QED  BY <1>1, <1>2 DEF RemoveFrom, Tree

------------------------------------------------------------------------------
LEMMA IInvInit == Init => IInv
BY TreeFacts, CacheAssumption DEF Init, IInv, TypeOK, NoCorruptEntry,
  RepositoryInv, DownloadInv, Tree

LEMMA IInvNext ==
  ASSUME NEW p, Procs = {p}
  PROVE  IInv /\ [Next]_vars => IInv'
<1>. SUFFICES ASSUME IInv, [Next]_vars PROVE IInv'
  OBVIOUS
<1>. USE CacheAssumption, TreeFacts DEF IInv, NoCorruptEntry, RepositoryInv, DownloadInv,
       Goto, Complete, AllPinned, LockContent
<1>0. TypeOK  OBVIOUS
<1>1. CASE StatCached(p)  BY <1>1 DEF StatCached, Missing, TypeOK
<1>2. CASE StatMissing(p)  BY <1>2 DEF StatMissing, Missing, TypeOK
<1>3. CASE RemoveTmp(p)
  <2>1. tmp' \in Tree
    BY <1>3, RemoveFacts DEF RemoveTmp, TypeOK
  <2>. QED  BY <1>3, <2>1 DEF RemoveTmp, TypeOK
<1>4. CASE MakeTmp(p)
  <2>1. tmp' \in [Files -> Content]
    BY <1>4 DEF MakeTmp, TypeOK, Tree
  <2>. QED  BY <1>4, <2>1 DEF MakeTmp, TypeOK, Tree
<1>5. CASE ExtractFile(p)
  <2>. DEFINE file == Tarball[extracted[p] + 1]
  <2>1. extracted[p] \in 0..Len(Tarball) /\ extracted[p] < Len(Tarball)
    BY <1>5 DEF ExtractFile, TypeOK
  <2>2. file \in Files  BY <2>1
  <2>3. /\ tmp' \in [Files -> Content]
        /\ tmp'[file] = Whole(file)
        /\ \A f \in Files : f # file => tmp'[f] = tmp[f]
    BY <1>5, <2>2, ExtractFacts, ContentFacts DEF ExtractFile
  <2>4. extracted' = [extracted EXCEPT ![p] = extracted[p] + 1]
        /\ pc' = pc /\ dir' = dir /\ faults' = faults /\ repo' = repo /\ pc[p] = "extract"
    BY <1>5 DEF ExtractFile
  <2>5. \A i \in 1..(extracted[p] + 1) : tmp'[Tarball[i]] = Whole(Tarball[i])
    <3>1. \A i \in 1..(extracted[p] + 1) : i = extracted[p] + 1 \/ i \in 1..extracted[p]
      BY <2>1
    <3>2. \A i \in 1..extracted[p] : Tarball[i] \in Files /\ Tarball[i] # file  BY <2>1
    <3>. QED  BY <2>3, <2>4, <3>1, <3>2
  <2>6. extracted'[p] = extracted[p] + 1 /\ extracted' \in [Procs -> 0..Len(Tarball)]
    BY <2>1, <2>4 DEF TypeOK
  <2>. QED  BY <2>3, <2>4, <2>5, <2>6 DEF TypeOK, Tree
<1>6. CASE ExtractDone(p)
  <2>1. \A i \in DOMAIN Tarball : tmp[Tarball[i]] = Whole(Tarball[i])
    BY <1>6 DEF ExtractDone, TypeOK
  <2>2. \A f \in PackageFiles : tmp[f] = "full"
    BY <2>1, ContentFacts DEF PackageFiles
  <2>. QED  BY <1>6, <2>2 DEF ExtractDone, TypeOK
<1>7. CASE DownloadFails(p)
  <2>1. tmp' \in Tree
    BY <1>7, CutExtractFacts DEF DownloadFails, TypeOK, Tree
  <2>. QED  BY <1>7, <2>1 DEF DownloadFails, Fault, TypeOK
<1>8. CASE RemoveDir(p)  BY <1>8 DEF RemoveDir, TypeOK
<1>9. CASE Rename(p)  BY <1>9 DEF Rename, TypeOK, Tree
<1>10. CASE RenameFails(p)  BY <1>10 DEF RenameFails, TypeOK
<1>11. CASE StepFails(p)  BY <1>11 DEF StepFails, Fault, TypeOK
<1>12. CASE LoadPackage(p)  BY <1>12 DEF LoadPackage, MayLoad, TypeOK
<1>13. CASE NextCommand(p)  BY <1>13 DEF NextCommand, TypeOK
<1>14. CASE LoadLock(p)  BY <1>14 DEF LoadLock, TypeOK
<1>15. CASE TruncateLock(p)
  <2>1. dir \in [Files -> Content] /\ dir' = [dir EXCEPT ![LockFile] = "unpinned"]
    BY <1>15 DEF TruncateLock, TypeOK, Tree
  <2>2. /\ dir' \in [Files -> Content]
        /\ dir'[LockFile] = "unpinned"
        /\ \A f \in PackageFiles : dir'[f] = dir[f]
    BY <2>1 DEF Content, Files
  <2>. QED  BY <1>15, <2>2 DEF TruncateLock, TypeOK, Tree
<1>16. CASE SaveLock(p)
  <2>1. dir' \in [Files -> Content] /\ \A f \in PackageFiles : dir'[f] = dir[f]
    BY <1>16, WriteLockFacts DEF SaveLock, Content
  <2>. QED  BY <1>16, <2>1 DEF SaveLock, TypeOK, Tree
<1>17. CASE SaveLockFails(p)
  <2>1. dir' \in [Files -> Content] /\ \A f \in PackageFiles : dir'[f] = dir[f]
    BY <1>17, WriteLockFacts, ContentFacts DEF SaveLockFails
  <2>. QED  BY <1>17, <2>1 DEF SaveLockFails, Fault, TypeOK, Tree
<1>18. CASE Killed(p)
  <2>1. pc' = [pc EXCEPT ![p] = "failed"] /\ repo' = repo /\ extracted' = extracted
        /\ faults' = faults + 1 /\ faults < MaxFaults
    BY <1>18 DEF Killed, Fault
  <2>2. CASE UNCHANGED <<tmp, dir>>  BY <2>1, <2>2 DEF TypeOK
  <2>3. CASE pc[p] = "extract" /\ CutExtract(p) /\ UNCHANGED dir
    <3>1. tmp' \in Tree  BY <2>3, CutExtractFacts DEF Tree
    <3>. QED  BY <2>1, <2>3, <3>1 DEF TypeOK
  <2>4. CASE pc[p] = "save" /\ (\E c \in CutOff(LockFile) : WriteLock(c)) /\ UNCHANGED tmp
    <3>1. dir' \in [Files -> Content] /\ \A f \in PackageFiles : dir'[f] = dir[f]
      BY <2>4, WriteLockFacts, ContentFacts
    <3>. QED  BY <2>1, <2>4, <3>1 DEF TypeOK, Tree
  <2>. QED  BY <1>18, <2>2, <2>3, <2>4 DEF Killed
<1>19. CASE UNCHANGED vars  BY <1>19 DEF vars, TypeOK
<1>. QED
  BY <1>1, <1>2, <1>3, <1>4, <1>5, <1>6, <1>7, <1>8, <1>9, <1>10, <1>11, <1>12,
     <1>13, <1>14, <1>15, <1>16, <1>17, <1>18, <1>19
  DEF Next

\* A failed or interrupted download never leaves a corrupt cache entry behind,
\* as long as one process at a time pulls the package.
THEOREM NoCorruptEntryHolds ==
  ASSUME NEW p, Procs = {p}
  PROVE  Spec => []NoCorruptEntry
<1>1. IInv => NoCorruptEntry  BY DEF IInv
<1>. QED  BY <1>1, IInvInit, IInvNext, PTL DEF Spec

\* ... and an entry that is there is never removed nor its package touched; its
\* orh.lock is written only while it does not pin every dependency.
THEOREM EntryStableHolds ==
  ASSUME NEW p, Procs = {p}
  PROVE  Spec => EntryStable
<1>. DEFINE Stable == /\ dir' # NoTree
                      /\ \A f \in PackageFiles : dir'[f] = dir[f]
                      /\ AllPinned => dir' = dir
<1>1. ASSUME IInv, [Next]_vars, dir # NoTree  PROVE Stable \/ UNCHANGED vars
  <2>1. CASE TruncateLock(p)
    <3>1. dir \in [Files -> Content] /\ dir' = [dir EXCEPT ![LockFile] = "unpinned"]
      BY <1>1, <2>1 DEF TruncateLock, IInv, TypeOK, Tree
    <3>2. dir' \in [Files -> Content] /\ \A f \in PackageFiles : dir'[f] = dir[f]
      BY <3>1, TreeFacts DEF Content, Files
    <3>3. ~AllPinned  BY <1>1, <2>1 DEF TruncateLock, IInv, DownloadInv
    <3>. QED  BY <3>2, <3>3, TreeFacts
  <2>2. CASE pc[p] = "save" /\ \E c \in Content : WriteLock(c)
    <3>1. dir' \in [Files -> Content] /\ \A f \in PackageFiles : dir'[f] = dir[f]
      BY <1>1, <2>2, WriteLockFacts DEF IInv
    <3>2. ~AllPinned  BY <1>1, <2>2 DEF IInv, DownloadInv
    <3>. QED  BY <3>1, <3>2, TreeFacts
  <2>3. CASE SaveLock(p) \/ SaveLockFails(p) \/ Killed(p)
    <3>1. CutOff(LockFile) \subseteq Content /\ "full" \in Content
      BY ContentFacts, TreeFacts DEF Content
    <3>2. \/ UNCHANGED dir
          \/ pc[p] = "save" /\ \E c \in Content : WriteLock(c)
      BY <2>3, <3>1 DEF SaveLock, SaveLockFails, Killed
    <3>. QED  BY <1>1, <2>2, <3>2
  <2>4. CASE RemoveDir(p) \/ Rename(p)
    BY <1>1, <2>4 DEF RemoveDir, Rename, IInv, DownloadInv
  <2>5. CASE \/ StatCached(p) \/ StatMissing(p) \/ RemoveTmp(p) \/ MakeTmp(p)
             \/ ExtractFile(p) \/ ExtractDone(p) \/ RenameFails(p) \/ LoadPackage(p)
             \/ LoadLock(p) \/ NextCommand(p) \/ DownloadFails(p) \/ StepFails(p)
    <3>1. UNCHANGED dir
      BY <2>5 DEF StatCached, StatMissing, RemoveTmp, MakeTmp, ExtractFile, ExtractDone,
         RenameFails, LoadPackage, LoadLock, NextCommand, DownloadFails, StepFails
    <3>. QED  BY <1>1, <3>1
  <2>. QED  BY <1>1, <2>1, <2>3, <2>4, <2>5 DEF Next
<1>2. IInv /\ [Next]_vars => [dir # NoTree => Stable]_vars
  BY <1>1
<1>. QED  BY <1>2, IInvInit, IInvNext, PTL DEF Spec, EntryStable

\* `orh info` shows the version that was cached last, and what is cached is
\* listed, as long as one process at a time pulls the package.
THEOREM InfoTruthfulHolds ==
  ASSUME NEW p, Procs = {p}
  PROVE  Spec => []InfoTruthful
<1>1. ASSUME IInv  PROVE InfoTruthful
  <2>1. Older \/ dir # NoTree => Installed
    BY <1>1 DEF IInv, RepositoryInv, Installed
  <2>2. ASSUME dir # NoTree  PROVE GetInfo = {"entry"}
    <3>1. tmp = NoTree /\ Complete(dir)
      BY <1>1, <2>2 DEF IInv, RepositoryInv, NoCorruptEntry
    <3>2. latestCachedDir = "entry"
      BY <2>2, <3>1 DEF latestCachedDir, Versions
    <3>3. MayLoad(dir) /\ MustLoad(dir)
      BY <2>2, <3>1, CacheAssumption DEF MayLoad, MustLoad, Complete
    <3>. QED  BY <3>2, <3>3 DEF GetInfo
  <2>3. ASSUME dir = NoTree, tmp = NoTree
        PROVE  GetInfo = {IF Older THEN "older" ELSE "not installed"}
    <3>1. CASE Older
      <4>1. Versions = <<"older">>  BY <2>3, <3>1 DEF Versions
      <4>. QED  BY <3>1, <4>1 DEF latestCachedDir, GetInfo
    <3>2. CASE ~Older
      <4>1. Versions = <<>>  BY <2>3, <3>2 DEF Versions
      <4>. QED  BY <3>2, <4>1 DEF latestCachedDir, GetInfo
    <3>. QED  BY <3>1, <3>2
  <2>. QED  BY <2>1, <2>2, <2>3 DEF InfoTruthful
<1>. QED  BY <1>1, IInvInit, IInvNext, PTL DEF Spec

===============================================================================
