SPECIFICATION Spec
CHECK_DEADLOCK FALSE
CONSTANTS
  p1 = p1
  p2 = p2
  c1 = c1
  c2 = c2
  c3 = c3
  Procs = {p1, p2}
  CPUs = {c1}
  NoPid = NoPid
  None = None
  Frames = 4
  PageSize = 2
  EntriesPerPage = 2
  Levels = 2
  PageCount <- Pages
  Byte = {0, 1}
  TLBEntries <- TLBSizes
  TLBReplacement <- TLBAlgorithms
  CacheEntries <- CacheSizes
  CacheReplacement <- CacheAlgorithms
  Requests <- Scripts
  Hazards = {"suspendTranslated"}
PROPERTY FlatMemoryKept
