\* Saving a photo under another name after a vertical flip, which does not mark
\* it: the new file is a copy of the photo without the flip.
SPECIFICATION Spec
CONSTANTS
  f = f  copy = copy
  None = None  AsSaved = AsSaved
  UserFiles = {f, copy}
  Present = {f}
  JpegFiles = {f, copy}
  Turned = {}
  ReadOnly = {}
  MaxUndo = 2
  AutoSave = FALSE
  AutoSaveElsewhere = FALSE
  AutoSaveDest <- SaveInPlace
  AutoCrop = FALSE
  AutoRotateCrop = FALSE
  AutoSelectMax = FALSE
  AutoRot = FALSE
  ToolsFail = FALSE
  Commands = {"browse", "flipV", "saveAs"}
  MaxFresh = 3
  MaxHistory = 8
  MaxPending = 12
PROPERTIES SaveAsWritesShown
CHECK_DEADLOCK FALSE
