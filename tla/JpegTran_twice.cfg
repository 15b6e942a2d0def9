\* A photo that jpegtran has something to warn about: the attempt reported as
\* a failure has transformed the working file, and the second one transforms
\* it again.
SPECIFICATION Spec
CONSTANTS
  DCTSIZE = 2
  Frames <- MCFrames
  MaxCommands = 2
  Crops <- MCCrops
INVARIANT TrimAfterFailure
CHECK_DEADLOCK FALSE
