\* The other modes, and too few process slots.
CONSTANTS
  Pid = {root, p1, p2}
  Root = root
  Programs <- ModePrograms
  Configs <- ModeConfigs
  UninitStatus = {0, 11, 256}
SPECIFICATION FairSpec
PROPERTY ErrorStops
PROPERTY Terminates
