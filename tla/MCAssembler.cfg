CONSTANTS
  WordBits = 16
  ImmBits = 7
  LowBits = 2
  OffsetBits = 5
  BcBits = 5
  BiBits = 6
  KeptBits = 4
  TestedBits = {7, 8, 10, 11, 13}
  ByteBits = 4
  MaxCalls = 60
  Names = {"_init", "a", "b"}
  None = None
  Starts <- MCStarts
  Files <- MCFiles
SPECIFICATION Spec
INVARIANTS TypeOK ItemsAdjoin SymbolsMean Linkage DataMean LdExact OperandsDecoded FileExact VectorExact LoadedExact CrashCause
