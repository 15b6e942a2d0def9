---------------------------- MODULE LineTracker ----------------------------
(***************************************************************************)
(* The line of the inclination mode: wxLineTracker                         *)
(* (src/lib/wxRectTracker/LineTracker.cpp), which inherits the rectangle of *)
(* wxRectTracker.  The line is a diagonal of m_Rect: two of its corners    *)
(* are the begin and the end, and a drag works on copies of both           *)
(* (m_pCurBegin, m_pCurEnd), which calls of the window leave alone.        *)
(*                                                                         *)
(* The window starts with the line disabled; what the image box calls on   *)
(* both trackers moves it all the same.                                    *)
(***************************************************************************)
EXTENDS Integers

CONSTANTS
  Images, Zooms, Selections, Points, KeySteps, HandlesWidth, AutoSelectMax,
  MaxCalls      (* as in RectTracker                                        *)

VARIABLES
  rect,         (* m_Rect: the rectangle the line is a diagonal of          *)
  begin, end,   (* m_iBeginHandler, m_iEndHandler: corners of rect          *)
  curBegin, curEnd, (* m_pCurBegin, m_pCurEnd: the line of the last drag    *)
  leftClick, dragging, captured, disabled, (* m_leftClick, bits of m_state  *)
  max,          (* m_maxRect                                                *)
  view,         (* the size of the picture and its scale, 1/zoom            *)
  held,         (* external: the left button is down                        *)
  calls,        (* bounded by MaxCalls                                      *)
  fresh         (* history: nothing but the mouse and the arrows has        *)
                (* touched the line since it was drawn or moved             *)

line == <<rect, begin, end>>
drawn == <<curBegin, curEnd>>
state == <<leftClick, dragging, captured, disabled, held>>
lineVars == <<rect, begin, end, curBegin, curEnd, leftClick, dragging, captured, disabled,
              max, view, held, calls, fresh>>

(* wxRectTracker, under its own rules: limits, no ratio and no fixed size.  *)
NoRules == [max |-> max, ratio |-> <<0, 1>>, fixed |-> <<-1, -1>>, orientation |-> 0]
Base == INSTANCE RectTracker WITH
  Ratios <- {}, FixedSizes <- {}, Zones <- {}, Orientations <- {}, rules <- NoRules,
  prevRect <- rect
(* wxRectTracker::Update, not virtual, within the limits area               *)
Cut(area, r) == Base!AdjustTrackerRectMax([max |-> area], r, Base!Outside)

-----------------------------------------------------------------------------
(* Positions *)

Corner(v, h) == {v, h}
PosHandler(r, corner) ==
  IF corner = {} THEN <<-1, -1>>
  ELSE <<r.x + (IF "right" \in corner THEN r.width - 1 ELSE 0),
         r.y + (IF "bottom" \in corner THEN r.height - 1 ELSE 0)>>
PosBegin == PosHandler(rect, begin)
PosEnd == PosHandler(rect, end)

Smaller(a, b) == IF a <= b THEN a ELSE b
Distance(a, b) == IF a <= b THEN b - a ELSE a - b

(* The line SetTrackerPosition makes of two points.                         *)
(* mutant: the begin is always the upper left corner *)
DiagonalDown(b, e) ==
  [rect |-> Base!Rect(Smaller(b[1], e[1]), Smaller(b[2], e[2]),
                      Distance(b[1], e[1]) + 1, Distance(b[2], e[2]) + 1),
   begin |-> Corner("top", "left"), end |-> Corner("bottom", "right")]
Diagonal(b, e) ==
  LET across == IF b[1] <= e[1] THEN <<"left", "right">> ELSE <<"right", "left">>
      down == IF b[2] <= e[2] THEN <<"top", "bottom">> ELSE <<"bottom", "top">>
  IN [rect |-> Base!Rect(Smaller(b[1], e[1]), Smaller(b[2], e[2]),
                         Distance(b[1], e[1]) + 1, Distance(b[2], e[2]) + 1),
      begin |-> Corner(down[1], across[1]), end |-> Corner(down[2], across[2])]
Shown(l) == rect' = l.rect /\ begin' = l.begin /\ end' = l.end
SetTrackerPosition(b, e) == Shown(Diagonal(b, e))

(* AdjustLineTrackerMax: each end on its own.  The far limits are inclusive. *)
Within(p) ==
  LET Limited(a, size) == IF a < 0 THEN 0 ELSE IF a > size THEN size ELSE a
  IN IF max.width < 0 \/ max.height < 0 THEN p
     ELSE <<Limited(p[1], max.width), Limited(p[2], max.height)>>

(* The ends a click at p takes: those at a corner, both on the line; the line
   is not limited to its segment. *)
HitTest(r, p) ==
  LET b == PosHandler(r, begin)
      e == PosHandler(r, end)
      ab == <<e[1] - b[1], e[2] - b[2]>>
      cross == (p[2] - b[2]) * ab[1] - (p[1] - b[1]) * ab[2]
      corner == Base!HitTest(r, p)
  IN IF corner = end THEN {"end"}
     ELSE IF corner = begin THEN {"begin"}
     ELSE IF /\ ab # <<0, 0>>
             /\ cross * cross < HandlesWidth * HandlesWidth * (ab[1] * ab[1] + ab[2] * ab[2])
     THEN {"begin", "end"} ELSE {}

-----------------------------------------------------------------------------
(* Mouse and keys *)

(* The first photo has been loaded.  The constructor leaves the two corners
   as the memory has them; no corner stands for what is none. *)
Corners == {Corner(v, h) : v \in {"top", "bottom"}, h \in {"left", "right"}}
Init ==
  /\ rect = Base!EmptyRect /\ begin \in Corners \cup {{}} /\ end \in Corners \cup {{}}
  /\ curBegin = <<0, 0>> /\ curEnd = <<0, 0>> /\ leftClick = <<0, 0>>
  /\ dragging = FALSE /\ captured = FALSE /\ disabled = TRUE
  /\ view \in [image : Images, zoom : Zooms]
  /\ max = Base!Area(Base!Scaled(view.image, view.zoom))
  /\ held = FALSE /\ calls = 0 /\ fresh = FALSE

PressElsewhere ==
  /\ ~held /\ held' = TRUE
  /\ UNCHANGED <<line, drawn, leftClick, dragging, captured, disabled, max, view, calls, fresh>>
ReleaseElsewhere ==
  /\ held /\ ~captured /\ held' = FALSE
  /\ UNCHANGED <<line, drawn, leftClick, dragging, captured, disabled, max, view, calls, fresh>>

(* wxRectTracker's handler hides a line whose rectangle does not have the
   click, before the ends are looked for. *)
OnMouseLeftDown(p) ==
  LET hidden == Base!HitTest(rect, p) = Base!Outside
      r == IF hidden THEN Cut(max, Base!NullRect) ELSE rect
  IN /\ ~disabled /\ ~held
     /\ held' = TRUE /\ dragging' = TRUE /\ captured' = TRUE /\ leftClick' = p
     /\ IF HitTest(r, p) = {}
        THEN curBegin' = p /\ curEnd' = p /\ SetTrackerPosition(p, p) /\ fresh' = TRUE
        ELSE /\ rect' = r /\ fresh' = (fresh /\ ~hidden /\ ~dragging)
             /\ UNCHANGED <<begin, end, drawn>>
     /\ UNCHANGED <<disabled, max, view, calls>>

Moved(p, by) == <<p[1] + by[1], p[2] + by[2]>>
(* drawn while the left button is down *)
OnMouseMotion(p) ==
  LET hit == HitTest(rect, leftClick)
      by == <<p[1] - leftClick[1], p[2] - leftClick[2]>>
      b == IF dragging THEN curBegin ELSE PosBegin
      e == IF dragging THEN curEnd ELSE PosEnd
  IN /\ ~disabled
     /\ IF held
        THEN /\ dragging' = TRUE /\ fresh' = (fresh \/ ~dragging)
             /\ curBegin' = Within(IF "begin" \in hit THEN Moved(PosBegin, by) ELSE b)
             /\ curEnd' = Within(IF "end" \in hit THEN Moved(PosEnd, by) ELSE e)
        ELSE UNCHANGED <<dragging, fresh, drawn>>
     /\ captured' = (captured /\ held)
     /\ UNCHANGED <<line, leftClick, disabled, max, view, held, calls>>

OnMouseLeftUp ==
  /\ ~disabled /\ held /\ held' = FALSE /\ captured' = FALSE /\ dragging' = FALSE
  /\ IF dragging THEN SetTrackerPosition(curBegin, curEnd) /\ fresh' = TRUE
     ELSE UNCHANGED <<line, fresh>>
  /\ UNCHANGED <<drawn, leftClick, disabled, max, view, calls>>

Escape ==
  /\ ~disabled
  /\ IF captured THEN captured' = FALSE /\ UNCHANGED <<rect, fresh>>
     ELSE rect' = Base!NullRect /\ fresh' = FALSE /\ UNCHANGED captured
  /\ UNCHANGED <<begin, end, drawn, leftClick, dragging, disabled, max, view, held, calls>>

(* An arrow moves the line of the last drag, or its end with Shift, shown or not. *)
Arrow(by, shift) ==
  /\ ~disabled
  /\ curBegin' = Within(IF shift THEN curBegin ELSE Moved(curBegin, by))
  /\ curEnd' = Within(Moved(curEnd, by))
  /\ SetTrackerPosition(curBegin', curEnd') /\ fresh' = TRUE
  /\ UNCHANGED <<state, max, view, calls>>

-----------------------------------------------------------------------------
(* Calls of the image box and of the main window: none knows the copies.    *)

Called == calls < MaxCalls /\ calls' = calls + 1 /\ fresh' = FALSE

Enable ==
  /\ Called /\ disabled /\ disabled' = FALSE
  /\ UNCHANGED <<line, drawn, leftClick, dragging, captured, max, view, held>>
(* wxRectTracker::Disable, for a line l within the limits area *)
Disabling(off) == disabled' = (disabled \/ off) /\ captured' = (captured /\ ~off)
Disable ==
  /\ Called /\ ~disabled /\ Disabling(TRUE) /\ rect' = Cut(max, rect)
  /\ UNCHANGED <<begin, end, drawn, leftClick, dragging, max, view, held>>

(* AdjustTrackerSize: the ends of a rectangle r are scaled within the limits of
   the whole picture, and cut to those of the new scale *)
Scaling(v, r, zoom) ==
  LET whole == Cut(Base!Area(v.image), r)
      To(p) == <<Base!Trunc(p[1] * v.zoom, zoom), Base!Trunc(p[2] * v.zoom, zoom)>>
      l == Diagonal(To(PosHandler(whole, begin)), To(PosHandler(whole, end)))
      now == Base!Area(Base!Scaled(v.image, zoom))
  IN /\ Shown([l EXCEPT !.rect = Cut(now, @)]) /\ max' = now
     /\ view' = [v EXCEPT !.zoom = zoom]
SetScale(zoom) ==
  /\ Called /\ Scaling(view, rect, zoom) /\ UNCHANGED <<drawn, state>>

(* another picture, and its limits *)
Picture(image, zoom) ==
  /\ max' = Base!Area(Base!Scaled(image, zoom))
  /\ view' = [image |-> image, zoom |-> zoom]
(* ImageLoad: TrackerReset, or not when the selection has been spread *)
ImageLoad(image, zoom, reset) ==
  /\ Called /\ Picture(image, zoom) /\ (~reset => disabled /\ AutoSelectMax)
  /\ rect' = IF reset THEN Base!EmptyRect ELSE Cut(max', rect)
  /\ UNCHANGED <<begin, end, drawn, state>>
(* Resize puts the line away, then resets both trackers *)
OnImageResize(image, zoom) ==
  /\ Called /\ Picture(image, zoom)
  /\ Shown([Diagonal(<<0, 0>>, <<0, 0>>) EXCEPT !.rect = Base!EmptyRect])
  /\ UNCHANGED <<drawn, state>>
(* the rotation needs a line that is neither level nor upright *)
OnImageInclin(image, zoom) ==
  /\ Called /\ ~disabled
  /\ PosEnd[1] - PosBegin[1] \notin {0, -1} /\ PosEnd[2] - PosBegin[2] \notin {0, -1}
  /\ Picture(image, zoom) /\ SetTrackerPosition(<<0, 0>>, <<0, 0>>)
  /\ Disabling(TRUE) /\ UNCHANGED <<drawn, leftClick, dragging, held>>
(* restore: the rectangle r of the undo point, in the corners of the line that
   is shown now *)
Undo(image, shown, zoom, r, inclination) ==
  LET limits == Base!Area(Base!Scaled(image, shown))
  IN /\ Called
     /\ Scaling([image |-> image, zoom |-> shown],
                IF inclination THEN r ELSE Cut(limits, r), zoom)
     /\ disabled' = ~inclination /\ captured' = (captured /\ inclination)
     /\ UNCHANGED <<drawn, leftClick, dragging, held>>

Next ==
  \/ PressElsewhere \/ ReleaseElsewhere \/ OnMouseLeftUp \/ Escape \/ Enable \/ Disable
  \/ \E p \in Points : OnMouseLeftDown(p) \/ OnMouseMotion(p)
  \/ \E n \in KeySteps, s \in {-1, 1}, shift \in BOOLEAN :
       Arrow(<<n * s, 0>>, shift) \/ Arrow(<<0, n * s>>, shift)
  \/ \E zoom \in Zooms : SetScale(zoom)
  \/ \E image \in Images, zoom \in Zooms :
       \/ \E reset \in BOOLEAN : ImageLoad(image, zoom, reset)
       \/ OnImageResize(image, zoom) \/ OnImageInclin(image, zoom)
       \/ \E shown \in Zooms, r \in Selections, inclination \in BOOLEAN :
            Undo(image, shown, zoom, r, inclination)
Spec == Init /\ [][Next]_lineVars

-----------------------------------------------------------------------------
(* The line shown, from which the rotation takes its angle, is the one drawn:
   the same two points in the same order, and in a drag the end that is not
   grabbed stays, cut to the picture at most.  A line that a call of the window
   has touched is not meant (README): the copies do not follow it. *)
LineAsDrawn ==
  fresh =>
    IF ~dragging THEN curBegin = PosBegin /\ curEnd = PosEnd
    ELSE LET hit == HitTest(rect, leftClick)
         IN /\ "begin" \notin hit => curBegin \in {PosBegin, Within(PosBegin)}
            /\ "end" \notin hit => curEnd \in {PosEnd, Within(PosEnd)}
(* As CaptureOwned of RectTracker. *)
LineCaptureOwned == captured => held /\ dragging /\ ~disabled
=============================================================================
