\* The lossless mode switched off between edits, photos that are rotated after
\* a load, comments that are typed, applied, refused or left, with tools that
\* may fail: the window shows the file the tools would work on, no temporary
\* file is written twice, the temporary flag never sits on a photo, and a
\* pending comment marks it.
SPECIFICATION Spec
CONSTANTS
  f = f  g = g  copy = copy
  None = None  AsSaved = AsSaved
  UserFiles = {f, g}
  Present = {f, g}
  JpegFiles = {f, g}
  Turned = {f}
  ReadOnly = {}
  MaxUndo = 2
  AutoSave = FALSE
  AutoSaveElsewhere = FALSE
  AutoSaveDest <- SaveInPlace
  AutoCrop = FALSE
  AutoRotateCrop = FALSE
  AutoSelectMax = FALSE
  AutoRot = TRUE
  ToolsFail = TRUE
  Commands = {"rotate", "comment", "toggle", "browse", "undo", "redo", "save", "close", "drop"}
  MaxFresh = 2
  MaxHistory = 8
  MaxPending = 12
INVARIANTS TempFlagSound CommentMarked LosslessShowsWorkingFile
PROPERTIES TempsNeverRewritten
CHECK_DEADLOCK FALSE
