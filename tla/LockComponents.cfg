SPECIFICATION Spec
CONSTANTS
  Procs = {p1}
  Sources <- MCSources
  Root = "root"
  Tags = {"main"}
  Published <- MCOneTag
  Commits <- MCCommits
  Manifest <- MCOneTagManifest
  Shipped <- MCNoneShipped
  MaxMoves = 1
  MaxFaults = 0
INVARIANTS ComponentsFollowLock
