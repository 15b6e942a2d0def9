\* Saving to a path while a comment is pending: the saved photo is removed when
\* the program ends.
SPECIFICATION Spec
CONSTANTS
  f = f  copy = copy
  None = None  AsSaved = AsSaved
  UserFiles = {f, copy}
  Present = {f}
  JpegFiles = {f, copy}
  Turned = {}
  ReadOnly = {}
  MaxUndo = 2
  AutoSave = FALSE
  AutoSaveElsewhere = FALSE
  AutoSaveDest <- SaveInPlace
  AutoCrop = FALSE
  AutoRotateCrop = FALSE
  AutoSelectMax = FALSE
  AutoRot = FALSE
  ToolsFail = FALSE
  Commands = {"browse", "comment", "savePath", "close"}
  MaxFresh = 3
  MaxHistory = 8
  MaxPending = 12
PROPERTIES PhotosKept
CHECK_DEADLOCK FALSE
