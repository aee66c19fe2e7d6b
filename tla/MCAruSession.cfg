CONSTANTS
  Programs = {"quiet", "writer", "loops", "faulty", "invalid", "runsOff", "unknown"}
  NoProg = NoProg
  NoWrite = NoWrite
  MaxLen = 4
  HeapOutcomes = {"ok"}
  Unloadable = {}
  DumpMayFail = FALSE
  MaxRuns = 1
  MaxConsole = 4
  Code <- MCCode
  CycleLimit = 9
  PromptResume = TRUE
SPECIFICATION FairSpec
INVARIANTS PromptQuiet NoSelfDeadlock ErrorHasDump
PROPERTIES RightImage ResumePoint SessionSpec BootCompletes RunReturns ShutdownCompletes FaultEndsAll
CHECK_DEADLOCK FALSE
