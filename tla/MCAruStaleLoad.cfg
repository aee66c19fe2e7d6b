CONSTANTS
  Programs = {"quiet", "writer"}
  NoProg = NoProg
  NoWrite = NoWrite
  MaxLen = 4
  HeapOutcomes = {"ok"}
  Unloadable = {}
  DumpMayFail = FALSE
  MaxRuns = 2
  MaxConsole = 2
  Code <- MCCode
  CycleLimit = 9
  PromptResume = TRUE
SPECIFICATION Spec
PROPERTIES RightImage
CHECK_DEADLOCK FALSE
