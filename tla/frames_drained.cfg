SPECIFICATION Spec
CONSTANTS
  area_size = 9
  frame_size = 3
  U32Max = 4
  Frame <- Frames
  Depth <- SmallDepth
  Draining = TRUE
INVARIANT
  FramesConserved
