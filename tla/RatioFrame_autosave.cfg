\* The automatic save to another name, which calls ImageCleanup again and
\* loads, together with the automatic crop, which edits inside ImageCleanup, and
\* with a photo that cannot be written: every handler returns, the picture left
\* behind is saved, and a photo without a mark is on disk as it is seen.
SPECIFICATION FairSpec
CONSTANTS
  f = f  g = g  copy = copy
  None = None  AsSaved = AsSaved
  UserFiles = {f, g, copy}
  Present = {f, g}
  JpegFiles = {f, g, copy}
  Turned = {}
  ReadOnly = {g}
  MaxUndo = 2
  AutoSave = TRUE
  AutoSaveElsewhere = TRUE
  AutoSaveDest <- SaveToCopy
  AutoCrop = TRUE
  AutoRotateCrop = FALSE
  AutoSelectMax = FALSE
  AutoRot = FALSE
  ToolsFail = FALSE
  Commands = {"select", "rotate", "crop", "browse", "save", "close", "open", "drop", "reload"}
  MaxFresh = 3
  MaxHistory = 8
  MaxPending = 12
INVARIANT CleanIsSaved
PROPERTIES HandlersReturn LeavingKeepsWork
CHECK_DEADLOCK FALSE
