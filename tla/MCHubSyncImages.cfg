SPECIFICATION Spec
CONSTANTS
  PageCount = 3
  MaxDepth = 1
  Images <- ThreePages
  RootLists <- OneTableOrNone
  Size = 9
  MinFree = 2
  Headers <- SomeHeaders
  BlockSets <- SomeBlocks
  CellLists <- SomeCells
  DirtySets <- SomeDirt
  GroupBits = 1
  MaxBytes = 9
  FieldCounts <- OneOrTwo
  Payloads <- NineBytes
  WrittenRows <- Rows
  FrameLists <- UpToTwo
  Expected = {0, 4, 6, 9}
  MaxOutput = 8
  Chunk = 3
INVARIANTS WalkExact PageExact RecordExact FramesExact
PROPERTY ReadersEnd
CHECK_DEADLOCK FALSE
