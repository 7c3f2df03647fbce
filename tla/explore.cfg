\* The default (decreasing) order, with a process slot for every level.
CONSTANTS
  Pid = {root, p1, p2, p3}
  Root = root
  Programs <- DecPrograms
  Configs <- DecConfigs
  UninitStatus = {0}
SPECIFICATION Spec
SYMMETRY Symmetry
INVARIANT TypeOK
INVARIANT OneRunner
INVARIANT EveryoneAwaited
INVARIANT ChildOnBranch
INVARIANT DepthCountsActivations
PROPERTY RefinesExploration
INVARIANT EveryPathExplored
