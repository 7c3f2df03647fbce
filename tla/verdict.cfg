\* Programs whose every end shows in the report.
CONSTANTS
  Pid = {root, p1, p2}
  Root = root
  Programs <- SoundPrograms
  Configs <- WrapperConfigs
  UninitStatus = {0}
SPECIFICATION WrapperSpec
INVARIANT WrapperTypeOK
INVARIANT VerdictSound
INVARIANT FaultReported
PROPERTY VerdictGiven
