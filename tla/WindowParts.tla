---------------------------- MODULE WindowParts ----------------------------
(***************************************************************************)
(* The parts of the window around the document: the selection of           *)
(* RectTracker, the line of the inclination mode, the markers and the      *)
(* comment of a photo, and the searches for a quality and a size.  `part'  *)
(* is the one at work, chosen at the start, and the others stay as they    *)
(* are.                                                                    *)
(***************************************************************************)
EXTENDS RectTracker, Sequences, FiniteSets

CONSTANTS
  (* as Images, Zooms, ... of RectTracker, for the line *)
  LineImages, LineZooms, LineSelections, LinePoints, LineHandlesWidth,
  Photos, Texts, SaveLimit, LengthRange, MaxEdits,             (* of PhotoMarkers *)
  Curves, RatioCurves, Erratic, Pictures, Sizes, BoxRatios     (* of SizeSearch   *)

VARIABLES
  part,
  l_rect, l_begin, l_end, l_curBegin, l_curEnd, l_leftClick, l_dragging, l_captured, l_disabled,
  l_max, l_view, l_held, l_calls, l_fresh,
  m_file, m_options, m_lossless, m_control, m_pending, m_out, m_pc, m_edits, m_original, m_typed,
  s_job, s_curve, s_guess, s_last, s_low, s_high, s_length, s_picture, s_dest

lineVars == <<l_rect, l_begin, l_end, l_curBegin, l_curEnd, l_leftClick, l_dragging, l_captured,
              l_disabled, l_max, l_view, l_held, l_calls, l_fresh>>
markersVars == <<m_file, m_options, m_lossless, m_control, m_pending, m_out, m_pc, m_edits,
                 m_original, m_typed>>
sizeVars == <<s_job, s_curve, s_guess, s_last, s_low, s_high, s_length, s_picture, s_dest>>

Line == INSTANCE LineTracker WITH
  Images <- LineImages, Zooms <- LineZooms, Selections <- LineSelections, Points <- LinePoints,
  HandlesWidth <- LineHandlesWidth,
  rect <- l_rect, begin <- l_begin, end <- l_end, curBegin <- l_curBegin, curEnd <- l_curEnd,
  leftClick <- l_leftClick, dragging <- l_dragging, captured <- l_captured,
  disabled <- l_disabled, max <- l_max, view <- l_view, held <- l_held, calls <- l_calls,
  fresh <- l_fresh
Markers == INSTANCE PhotoMarkers WITH
  file <- m_file, options <- m_options, lossless <- m_lossless, control <- m_control,
  pending <- m_pending, out <- m_out, pc <- m_pc, edits <- m_edits, original <- m_original,
  typed <- m_typed
Size == INSTANCE SizeSearch WITH
  job <- s_job, curve <- s_curve, guess <- s_guess, last <- s_last, low <- s_low,
  high <- s_high, length <- s_length, picture <- s_picture, dest <- s_dest

ASSUME LineAssumption ==
  /\ LineImages \subseteq Positive \X Positive /\ LineZooms \subseteq Positive
  /\ LineSelections \subseteq [x : Int, y : Int, width : Int, height : Int]
  /\ LinePoints \subseteq Int \X Int /\ LineHandlesWidth \in Nat
ASSUME MarkersAssumption ==
  (\A p \in Photos : Markers!IsPhoto(p)) /\ (\A t \in Texts : Markers!IsText(t))
ASSUME SearchAssumption == Size!CurvesAssumption /\ Size!SizesAssumption

-----------------------------------------------------------------------------
PartsInit ==
  /\ part \in {"selection", "line", "markers", "size"}
  /\ Init /\ Line!Init /\ Markers!Init /\ Size!Init
(* Only p takes the step. *)
Alone(p) ==
  /\ part = p /\ UNCHANGED part
  /\ p # "selection" => UNCHANGED vars
  /\ p # "line" => UNCHANGED lineVars
  /\ p # "markers" => UNCHANGED markersVars
  /\ p # "size" => UNCHANGED sizeVars
PartsNext ==
  \/ part = "selection" /\ Next /\ Alone("selection")
  \/ part = "line" /\ Line!Next /\ Alone("line")
  \/ part = "markers" /\ Markers!Next /\ Alone("markers")
  \/ part = "size" /\ Size!Next /\ Alone("size")
partsVars == <<part, vars, lineVars, markersVars, sizeVars>>
(* The comment writer and the searches run on once begun.                  *)
PartsFairness ==
  /\ WF_partsVars(part = "markers" /\ Markers!WriteComment /\ Alone("markers"))
  /\ WF_partsVars(part = "size" /\ Size!Search /\ Alone("size"))
PartsSpec == PartsInit /\ [][PartsNext]_partsVars /\ PartsFairness

-----------------------------------------------------------------------------
(* The properties of the parts, as their modules state them.  First what   *)
(* an edit may never lose: the markers of the photo (SAVE_OPTION,          *)
(* copy_variable) and its comment (OnImageWriteComment).                   *)
MarkersKept == Markers!MarkersKept
(* What is drawn with the mouse is what is selected, a rectangle           *)
(* (AdjustTrackerRect, twice in a row) or a line (m_pCurBegin, m_pCurEnd), *)
(* and the mouse is given back.                                            *)
DrawnIsShown == CorrectionsSettle /\ [](Line!LineAsDrawn /\ Line!LineCaptureOwned)
(* The comment shown is the last one applied (imageUpdateExif).            *)
CommentShown == Markers!CommentShown
(* The quality found is near one that gives the length of the photo        *)
(* (OnImageJPEGDetectQuality), and a size typed lies as it was asked to    *)
(* (Resize).                                                               *)
SearchesFind == Size!QualityNear /\ Size!SizeLies
(* The loops of the comment writer and of the two searches end, on any     *)
(* photo or curve (next_marker, Resize, OnImageJPEGDetectQuality).         *)
LoopsEnd == Markers!CommentReturns /\ Size!SearchesEnd
=============================================================================
