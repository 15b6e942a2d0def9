\* JPEG photos edited with the lossless tools, with undo, redo, save, reload
\* and every way of loading another photo: the temporary files, the histories
\* and the photos stay consistent, every edit can be undone, and together they
\* behave as an editor whose histories hold pictures.
SPECIFICATION Spec
CONSTANTS
  f = f  g = g  copy = copy
  None = None  AsSaved = AsSaved
  UserFiles = {f, g}
  Present = {f, g}
  JpegFiles = {f, g}
  Turned = {}
  ReadOnly = {}
  MaxUndo = 2
  AutoSave = FALSE
  AutoSaveElsewhere = FALSE
  AutoSaveDest <- SaveInPlace
  AutoCrop = FALSE
  AutoRotateCrop = FALSE
  AutoSelectMax = FALSE
  AutoRot = FALSE
  ToolsFail = FALSE
  Commands = {"rotate", "flipV", "flipH", "progressive", "optimize", "undo", "redo", "open", "browse", "save", "reload", "close", "drop"}
  MaxFresh = 3
  MaxHistory = 8
  MaxPending = 12
INVARIANTS TypeOK TempsOwnedOnce TempsReclaimed HistoryBounded
PROPERTIES EditsUndoable ImplementsEditor
CHECK_DEADLOCK FALSE
