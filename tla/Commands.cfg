SPECIFICATION FairSpec
CONSTANTS
  Library <- MCLibrary
  Roots <- MCRoots
  Catalog <- MCCatalog
  Overrides <- MCOverrides
  Recording = TRUE
  MaxDepth = 4
INVARIANTS RoutesPreserved ComponentsPreserved CircularExactly
  ServersStopped OwnToolsUp RecordTruthful RecordedBindings SingleChain DepsTree
PROPERTIES CommandsEnd
CHECK_DEADLOCK FALSE
