\* Renaming to a name that exists replaces that photo, after the dialog that
\* refuses the name.
SPECIFICATION Spec
CONSTANTS
  f = f  g = g  copy = copy
  None = None  AsSaved = AsSaved
  UserFiles = {f, g}
  Present = {f, g}
  JpegFiles = {f, g}
  Turned = {}
  ReadOnly = {}
  MaxUndo = 2
  AutoSave = FALSE
  AutoSaveElsewhere = FALSE
  AutoSaveDest <- SaveInPlace
  AutoCrop = FALSE
  AutoRotateCrop = FALSE
  AutoSelectMax = FALSE
  AutoRot = FALSE
  ToolsFail = FALSE
  Commands = {"browse", "rename"}
  MaxFresh = 3
  MaxHistory = 8
  MaxPending = 12
PROPERTIES MovesLoseNothing
CHECK_DEADLOCK FALSE
