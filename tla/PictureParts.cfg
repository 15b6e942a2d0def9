\* The parts a photo goes through outside the document, one at a time: the
\* lossless transforms, the coding of the scans, the Huffman tables, damaged
\* restart markers, the virtual arrays, which behave as plain ones, the rows of
\* the decompressor and of the compressor, the headers of datastreams, the
\* coefficients between input and output, the transforms of blocks, the colour
\* spaces, and the two colour quantizers.
SPECIFICATION PartsSpec
CONSTANTS
  TranSize = 2
  Frames <- MCFrames
  Crops <- MCCrops
  MaxCommands = 2
  BlockSize = 6
  MaxRun = 2
  MAX_CORR_BITS = 9
  MAX_COMPS_IN_SCAN = 4
  CodedPictures <- MCPictures
  UserScripts <- MCScripts
  \* codes of three bits at most for up to six symbols, which skewed counts exceed
  Symbols = 6
  MaxLength = 3
  Counts = {0, 1, 2, 5}
  \* the numbers of the markers come round after eight
  Segments = 9
  MaxDamage = 2
  Rows = 4
  MaxAccess = 2
  PreZero = TRUE
  Values = {0, 1}
  Zero = 0
  DecodeSize = 4
  DecodedPictures <- MCDecoded
  DecodeRequests = {1, 2, 3}
  DecodePasses = 2
  EncodeSize = 2
  Encoded <- MCEncoded
  EncodeRequests = {1, 2, 3}
  StreamSpaces = {"YCbCr", "RGB"}
  StreamRequests <- MCRequests
  Extras <- MCExtras
  MaxExtras = 1
  OtherAfter = {2}
  MaxStreams = 2
  Limits <- MCLimits
  Chunks = {7}
  SAVED_COEFS = 3
  Scanned <- MCScanned
  Blocks <- MCBlocks
  QuantTables <- MCTables
  \* both ends of the range, its middle, and between
  Levels = {0, 1, 127, 200, 255}
  OnePassPictures <- MCOnePass
  OnePassPasses = 3
  TwoPassPictures <- MCTwoPass
  Colormaps <- MCColormaps
  CellMax = 3
  TwoPassPasses = 2
INVARIANTS
  SamplesPlaced TransformsCompose HeaderFollows CoefficientsSent CodesAgree DamageStays
  RowsRight BlocksRight HeadersAgree
  PassShowsScan SamplesReturn ColoursReturn PassesMapColours ColoursFound
PROPERTIES
  ImplementsPlainArray ReadingEnds
CHECK_DEADLOCK FALSE
