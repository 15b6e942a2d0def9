\* A photo that is opened, and rotated by its orientation, after another edit was
\* given up: the photo is removed when the program ends.
SPECIFICATION Spec
CONSTANTS
  f = f  g = g  copy = copy
  None = None  AsSaved = AsSaved
  UserFiles = {f, g}
  Present = {f, g}
  JpegFiles = {f, g}
  Turned = {f}
  ReadOnly = {}
  MaxUndo = 2
  AutoSave = FALSE
  AutoSaveElsewhere = FALSE
  AutoSaveDest <- SaveInPlace
  AutoCrop = FALSE
  AutoRotateCrop = FALSE
  AutoSelectMax = FALSE
  AutoRot = TRUE
  ToolsFail = FALSE
  Commands = {"rotate", "open", "close"}
  MaxFresh = 3
  MaxHistory = 8
  MaxPending = 12
PROPERTIES PhotosKept
CHECK_DEADLOCK FALSE
