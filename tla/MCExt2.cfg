SPECIFICATION EngineSpec
CONSTANTS
  BLOCKS = 8
  BLOCKS_PER_GROUP = 4
  INODES_PER_GROUP = 3
  META = 1
  FIRST_INODE = 4
  DIRECT = 2
  WORDS = 2
  DIR_SPACE = 3
  MAX_LINKS = 3
  Names <- TwoNames
  Need <- ShortAndLong
  Texts <- OneText
  Parents <- TwoLevels
  x = x
  y = y
  Super = "super"
  Descriptors = {"gd"}
  Data = {"d1"}
  MAX_OPS = 3
INVARIANTS
  AllocationExact TreeSound OverwriteFits
  CleanIsWhole AckedIsDurable MemoryFresh
PROPERTY
  FileTreeRefined
