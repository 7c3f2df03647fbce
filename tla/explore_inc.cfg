\* The increasing order.
CONSTANTS
  Pid = {root, p1, p2}
  Root = root
  Programs <- QuietPrograms
  Configs <- IncConfigs
  UninitStatus = {0}
SPECIFICATION Spec
INVARIANT EveryPathExplored
