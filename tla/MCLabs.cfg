SPECIFICATION LabsSpec
CONSTANTS
  top = top
  sub = sub
  deep = deep
  bottom = bottom
  empty = empty
  f1 = f1
  f2 = f2
  f3 = f3
  Root = top
  Listing <- MCListing
  MaxOpen = 3
  FileKinds = {"png", "other", "short", "unreadable", "special"}
  MaxBytes = 8
  Types <- MCTypes
  ChunkData <- MCChunkData
  Bursts <- MCBursts
  Images <- MCImages
  NoSuchFile = NoSuchFile
  MaxArgs = 3
  FACTOR = 3
  CHUNK = 2
  WORD = 16
  DeflatedSizes = {1, 2, 5, 12}
  BUF_SIZE = 2
  BUF_INC = 2
  Strips = {0, 1}
  MaxAnswers = 3
  MaxCalls = 2
  CallSizes = {1, 3}
  NoStrip = NoStrip
  NoContent = NoContent
  MaxSize = 3
  STRUCT = 1
  HEADER = 2
  DataSizes = {1, 2, 3, 4}
  PAGE = 2
  MaxNodes = 5
  NoNode = NoNode
INVARIANTS PrintsThePngs ReportsTheDamage MergesInOrder BuffersSuffice BufferHoldsAnswer NodesKept OutsideOnlyByInit
PROPERTIES FileFromItsAnswer
CHECK_DEADLOCK FALSE
