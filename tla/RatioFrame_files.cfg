\* Save As, saving to a path, moving, renaming and deleting between edits, onto
\* other photos too: only a confirmed deletion removes a photo.
SPECIFICATION Spec
CONSTANTS
  f = f  g = g  copy = copy
  None = None  AsSaved = AsSaved
  UserFiles = {f, g}
  Present = {f, g}
  JpegFiles = {f, g}
  Turned = {}
  ReadOnly = {}
  MaxUndo = 1
  AutoSave = FALSE
  AutoSaveElsewhere = FALSE
  AutoSaveDest <- SaveInPlace
  AutoCrop = FALSE
  AutoRotateCrop = FALSE
  AutoSelectMax = FALSE
  AutoRot = FALSE
  ToolsFail = FALSE
  Commands = {"rotate", "delete", "saveAs", "savePath", "savePathNext", "save", "undo", "browse", "close", "rename", "move", "moveNext"}
  MaxFresh = 1
  MaxHistory = 3
  MaxPending = 12
PROPERTIES PhotosKept
CHECK_DEADLOCK FALSE
