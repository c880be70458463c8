SPECIFICATION FairSpec
CONSTANTS
  Keys = {"k", "l"}
  Values = {"v", ""}
  Empty = ""
  Targets <- MCTargets
  Allowed <- MCAllowed
  Available <- MCAvailable
  MaxHeap = 3
  MaxHandles = 2
INVARIANTS StateRemembered CallsGated
PROPERTIES LifeGoesOn
CHECK_DEADLOCK FALSE
