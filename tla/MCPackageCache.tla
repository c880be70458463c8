---------------------------- MODULE MCPackageCache ----------------------------
(* A package of three files, and one that ships an orh.lock without all pins. *)
EXTENDS PackageCache

MCNeeded == {"orh.yaml", "main.orh"}

MCTarball == <<"orh.yaml", "main.orh", "prompt.md">>

MCTarballWithLock == <<"orh.yaml", "orh.lock", "main.orh">>

===============================================================================
