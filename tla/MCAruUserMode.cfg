CONSTANTS
  Programs = {"spins", "quiet"}
  NoProg = NoProg
  NoWrite = NoWrite
  MaxLen = 4
  HeapOutcomes = {"ok"}
  Unloadable = {}
  DumpMayFail = FALSE
  MaxRuns = 3
  MaxConsole = 2
  Code <- MCCode
  CycleLimit = 9
  PromptResume = TRUE
SPECIFICATION Spec
PROPERTIES ExecFromKernel
CHECK_DEADLOCK FALSE
