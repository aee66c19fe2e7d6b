CONSTANTS
  Programs = {"invalid", "faulty"}
  NoProg = NoProg
  NoWrite = NoWrite
  MaxLen = 4
  HeapOutcomes = {"ok"}
  Unloadable = {}
  DumpMayFail = FALSE
  MaxRuns = 2
  MaxConsole = 2
  Code <- MCCode
  CycleLimit = 9
  PromptResume = TRUE
SPECIFICATION Spec
INVARIANTS ErrorHasDump
CHECK_DEADLOCK FALSE
