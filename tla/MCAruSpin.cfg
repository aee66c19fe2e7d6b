CONSTANTS
  Programs = {"spins"}
  NoProg = NoProg
  NoWrite = NoWrite
  MaxLen = 4
  HeapOutcomes = {"ok"}
  Unloadable = {}
  DumpMayFail = FALSE
  MaxRuns = 1
  MaxConsole = 2
  Code <- MCCode
  CycleLimit = 9
  PromptResume = TRUE
SPECIFICATION FairSpec
PROPERTIES RunReturns
CHECK_DEADLOCK FALSE
