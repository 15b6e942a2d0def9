\* Photos that are not JPEG files, edited in memory, with the automatic crop
\* and the crop after a rotation to a drawn line: edits, undo, redo,
\* loads and saves behave as an editor whose histories hold pictures.
SPECIFICATION Spec
CONSTANTS
  f = f  g = g  copy = copy
  None = None  AsSaved = AsSaved
  UserFiles = {f, g}
  Present = {f, g}
  JpegFiles = {}
  Turned = {}
  ReadOnly = {}
  MaxUndo = 2
  AutoSave = FALSE
  AutoSaveElsewhere = FALSE
  AutoSaveDest <- SaveInPlace
  AutoCrop = TRUE
  AutoRotateCrop = TRUE
  AutoSelectMax = FALSE
  AutoRot = FALSE
  ToolsFail = FALSE
  Commands = {"rotate", "crop", "select", "resize", "inclin", "undo", "redo", "browse", "save", "close"}
  MaxFresh = 2
  MaxHistory = 8
  MaxPending = 12
PROPERTIES ImplementsEditor
CHECK_DEADLOCK FALSE
