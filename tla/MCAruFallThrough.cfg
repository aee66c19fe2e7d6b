CONSTANTS
  Programs = {"quiet"}
  NoProg = NoProg
  NoWrite = NoWrite
  MaxLen = 4
  HeapOutcomes = {"ok"}
  Unloadable = {}
  DumpMayFail = FALSE
  MaxRuns = 1
  MaxConsole = 2
  Code <- MCCode
  CycleLimit = 9
  PromptResume = FALSE
SPECIFICATION Spec
PROPERTIES ResumePoint
CHECK_DEADLOCK FALSE
