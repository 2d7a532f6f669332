SPECIFICATION FairSpec
CONSTANTS
  area_size = 8
  frame_size = 3
  U32Max = 4
  Frame <- Frames
  Depth <- SmallDepth
  Draining = FALSE
INVARIANTS
  TypeOK
  FramesConserved
  MemoryExclusive
PROPERTY
  TxCompletes
