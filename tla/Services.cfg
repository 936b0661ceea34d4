SPECIFICATION Spec
CONSTANTS
  Subjects = {"files", "console", "mapped", "piles", "registry", "buffers", "arenas", "vectors"}
  Procs = {1, 2}
  Slots = {1, 2}
  MaxSize = 3
  Platforms = {"posix", "windows"}
  Menus <- MCMenus
  NoFileOpen = NoFileOpen
  NoCall = NoCall
  Main = Main
  Workers = {w1}
  Percentages = {0, 1, 2}
  Tasks = {k1, k2}
  Verbosities = {"silent", "normal"}
  MaxTimers = 2
  ConsoleCalls = 2
  Nothing = Nothing
  Mappers = {t1, t2}
  Nobody = Nobody
  InitialSizes = {0, 3}
  MapCalls = 3
  MaxOpens = 2
  MapSegment = 2
  SlotCount = 3
  Piles = {1, 2}
  PageShift = 3
  HeaderSize = 2
  PileLengths = {0, 3, 8, 15}
  Preallocations = {1, 2}
  MaxPages = 12
  PileCalls = 4
  Increment = 4
  MaxWastefulCycles = 2
  PileSegment = 64
  StoreThreads = {t1, t2, t3}
  Files = {f1}
  Tips = {1}
  MaxStores = 3
  Kinds = {"dynamic", "stdio", "once", "all"}
  Capacity = 3
  Lengths = {1, 3, 4}
  Slack = 1
  BufferCalls = 3
  ChunkSize = 6
  Growths = {1, 1000}
  Sizes = {3, 8}
  Alignments = {1, 4}
  ChunkHeader = 4
  SimpleArenas = {"s", "t"}
  ItemsPerChunk = 2
  ArenaCalls = 5
  Vectors = {v1, v2}
  Elements = {x, y}
  Raw = Raw
  Default = x
  InlineCapacity = 1
  MaxElements = 4
  VectorCalls = 4
INVARIANTS
  FilesRight
  ConsoleRight
  MappedRight
  PileRight
  RegistryRight
  BufferRight
  MemoryOwned
PROPERTY
  StepsRight
CHECK_DEADLOCK FALSE
