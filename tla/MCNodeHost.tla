---------------------------- MODULE MCNodeHost ----------------------------
EXTENDS NodeHost

MCTargets == {"main", "shell", "ghost"}
MCAllowed == {"main", "ghost"}
MCAvailable == {"main", "shell"}
==============================================================================
