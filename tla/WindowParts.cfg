\* The parts of the window around the document, one at a time.  The selection:
\* two photos, two scales, a ratio, a fixed size and both orientations; the mouse
\* and the keys in any order, with two calls of the window between them.  The
\* line of the inclination mode, in the same way.  The markers of a photo and its
\* comment.  The searches for a quality and a size.
SPECIFICATION MCSpec
CONSTANTS
  Images <- SmallImages
  Zooms <- SmallZooms
  Ratios <- SmallRatios
  FixedSizes <- SmallFixedSizes
  Zones <- SmallZones
  Selections <- SmallSelections
  Orientations <- SomeOrientations
  Points <- SmallPoints
  KeySteps <- SmallKeySteps
  HandlesWidth = 0
  AutoSelectMax = TRUE
  MaxCalls = 2
  LineImages <- LongImages
  LineZooms <- SmallZooms
  LineSelections <- WholeSelections
  LinePoints <- FarPoints
  LineHandlesWidth = 1
  Photos <- MCPhotos
  Texts <- MCTexts
  SaveLimit = 3
  LengthRange = 8
  MaxEdits = 3
  Curves <- MCCurves
  RatioCurves <- MCRatioCurves
  Erratic <- NoCurve
  Pictures <- MCPictures
  Sizes <- MCSizes
  BoxRatios <- MCBoxRatios
INVARIANTS
  CaptureOwned CropZoneInImage RatioKept
  MarkersKept CommentShown SearchesFind
PROPERTIES
  DrawnIsShown LoopsEnd
CHECK_DEADLOCK FALSE
