SPECIFICATION KSpec
CONSTANTS
  EntryCount = 4
  TableFrames <- AllTables
  DataFrames = {0, 1, 2, 3, 4, 5, 6, 7, 8, 9, 10, 11, 12}
  Virtuals = {}
  Counts = {}
  Flags <- BootFlags
  NULL = NULL
  KernelSpace = 128
  EndPage = 7
  Copies <- BootCopies
  Layouts <- AllLayouts
  Blocks = {0, 4}
  Memories <- LotsOrFew
INVARIANTS
  WalksLiveTables
  KernelStaysMapped
  PanicJustified
PROPERTIES
  OldGivenBack
