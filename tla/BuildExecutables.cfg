CONSTANTS
  MaxRuns = 3
  OutputDirs = {"bin", "out"}
  GoosFlags = {"", "linux", "darwin"}
  GoarchFlags = {"", "arm64"}
  Environs <- MCEnvirons
SPECIFICATION Spec
\* Between invocations the command is idle; after MaxRuns nothing more happens.
CHECK_DEADLOCK FALSE
INVARIANT SuccessfulBuildConsistent
