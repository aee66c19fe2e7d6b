CONSTANTS
  Programs = {"quiet", "writer", "loops", "spins", "faulty", "unknown", "divides", "invalid"}
  NoProg = NoProg
  NoWrite = NoWrite
  MaxLen = 4
  HeapOutcomes = {"ok", "null", "segv", "hang"}
  Unloadable = {"invalid"}
  DumpMayFail = TRUE
  MaxRuns = 1
  MaxConsole = 2
  Code <- MCCode
  CycleLimit = 5
  PromptResume = FALSE
SPECIFICATION Spec
INVARIANTS TypeOK BootOrder
PROPERTIES KernelFirst PokesArmed HeapKept
CHECK_DEADLOCK FALSE
