SPECIFICATION Spec
CONSTANTS
  Library <- MCLibrary
  Roots <- MCClashing
  Catalog <- MCCatalog
  Overrides <- MCOverrides
  Recording = TRUE
  MaxDepth = 4
INVARIANTS ToolsFromOwner
CHECK_DEADLOCK FALSE
