CONSTANTS
  Programs = {"quiet", "writer", "loops", "spins", "faulty", "unknown", "divides", "invalid"}
  NoProg = NoProg
  NoWrite = NoWrite
  MaxLen = 4
  HeapOutcomes = {"ok"}
  Unloadable = {"invalid"}
  DumpMayFail = TRUE
  MaxRuns = 2
  MaxConsole = 2
  Code <- MCCode
  CycleLimit = 5
  PromptResume = TRUE
SPECIFICATION Spec
INVARIANTS HeapExclusive
CHECK_DEADLOCK FALSE
