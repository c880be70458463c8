---------------------------- MODULE MCPackageLock ----------------------------
(***************************************************************************)
(* A diamond (root needs a and b, a needs b) whose second version of a     *)
(* needs root, which is a cycle, and a root whose second version ships a   *)
(* lock file that pins b only.  Two dependencies of root are one source at *)
(* two tags, which share a key of the lock.  And a root that needs b at one *)
(* tag, with no lock shipped: there a component can differ from the lock   *)
(* only because the tag has moved.                                         *)
(***************************************************************************)
EXTENDS PackageLock

MCSources == {"root", "a", "b"}
MCPublished == (MCSources \X {"main"}) \cup {<<"b", "v1">>}
MCCommits == {"c1", "c2"}

Needs(source, version) == [source |-> source, version |-> version]

MCManifest == [e \in MCSources \X MCCommits |->
  CASE e[1] = "root" -> {Needs("a", "main"), Needs("b", "main"), Needs("b", "v1")}
    [] e = <<"a", "c1">> -> {Needs("b", "main")}
    [] e = <<"a", "c2">> -> {Needs("root", "main")}
    [] e[1] = "b" -> {}]

MCShipped == [e \in MCSources \X MCCommits |->
  [s \in MCSources |-> IF e = <<"root", "c2">> /\ s = "b" THEN "c1" ELSE Unpinned]]

MCOneTag == MCSources \X {"main"}

MCOneTagManifest == [e \in MCSources \X MCCommits |->
  IF e[1] = "root" THEN {Needs("b", "main")} ELSE {}]

MCNoneShipped == [e \in MCSources \X MCCommits |-> [s \in MCSources |-> Unpinned]]

==============================================================================
