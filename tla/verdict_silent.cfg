\* Programs that may also end with a nonzero exit code.
CONSTANTS
  Pid = {root, p1}
  Root = root
  Programs <- SilentPrograms
  Configs <- WrapperConfigs
  UninitStatus = {0}
SPECIFICATION WrapperSpec
INVARIANT VerdictSound
