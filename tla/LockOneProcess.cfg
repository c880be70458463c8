SPECIFICATION FairSpec
CONSTANTS
  Procs = {p1}
  Sources <- MCSources
  Root = "root"
  Tags = {"main", "v1"}
  Published <- MCPublished
  Commits <- MCCommits
  Manifest <- MCManifest
  Shipped <- MCShipped
  MaxMoves = 1
  MaxFaults = 1
INVARIANTS Reproducible PinsWerePulled DependenciesFollowLock
PROPERTIES PullsEnd
