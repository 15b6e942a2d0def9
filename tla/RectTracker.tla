---------------------------- MODULE RectTracker ----------------------------
(***************************************************************************)
(* The selection rectangle of the picture: wxRectTrackerRatio, the handler *)
(* of mouse and keys (src/lib/wxRectTracker), with the calls the image box *)
(* (src/src/RatioImageBox.{h,cpp}) and the main window make on it: a photo *)
(* is loaded or cropped, the scale changes, a ratio, a fixed size or an    *)
(* orientation is chosen, the inclination mode disables the tracker.       *)
(*                                                                         *)
(* Positions are pixels of the scrolled window.  A handle is the set of    *)
(* the sides it moves, as the bits of RT_HANDLER are: no side moves the    *)
(* whole rectangle, and -1 (outside), which has all bits, is all sides.    *)
(*                                                                         *)
(* A definition marked `mutant' is a mistake one could make in the one     *)
(* below it; nothing uses it (README, "Mutants").                          *)
(***************************************************************************)
EXTENDS Integers

CONSTANTS
  Images,       (* sizes of the photos that are loaded, <<width, height>>   *)
  Zooms,        (* the scale of the view is 1/z, z in Zooms: never above 1  *)
  Ratios,       (* ratios of the combo box, <<x, y>>; <<0, 1>> is none      *)
  FixedSizes,   (* fixed sizes of the combo box, <<width, height>>          *)
  Zones,        (* sizes a rotation to a line selects, <<width, height>>    *)
  Selections,   (* rectangles of undo points                                *)
  Orientations, (* 0 automatic, -1 portrait, 1 landscape                    *)
  Points,       (* where the mouse goes                                     *)
  KeySteps,     (* pixels an arrow key moves: 1, or 10 with Ctrl            *)
  HandlesWidth, (* the setting Main/HandlesWidth                            *)
  AutoSelectMax,(* the setting Main/AutoSelectMax                           *)
  MaxCalls      (* bound: calls of the image box and of the main window     *)

Positive == Nat \ {0}

ASSUME SizesAssumption ==
  /\ Images \subseteq Positive \X Positive /\ Zooms \subseteq Positive
  /\ Ratios \subseteq Nat \X Positive /\ FixedSizes \subseteq Positive \X Positive
  /\ Zones \subseteq Nat \X Nat /\ Selections \subseteq [x : Int, y : Int, width : Int, height : Int]
  /\ Orientations \subseteq {-1, 0, 1}
ASSUME InputAssumption ==
  /\ Points \subseteq Int \X Int /\ KeySteps \subseteq Positive
  /\ HandlesWidth \in Nat /\ AutoSelectMax \in BOOLEAN /\ MaxCalls \in Nat

VARIABLES
  rect,      (* m_Rect: the selection shown                                 *)
  prevRect,  (* m_prevRect: the last one drawn by a drag                    *)
  leftClick, (* m_leftClick: where the drag began                           *)
  dragging, captured, disabled,     (* the bits of m_state                  *)
  rules,     (* m_maxRect, ratio, fixedWidth and fixedHeight, orientation   *)
  view,      (* the size of the picture, its scale, originalFixedTrackerSize *)
  held,      (* external: the left button is down                           *)
  calls      (* bounded by MaxCalls                                         *)

rectangle == <<rect, prevRect>>
drag == <<leftClick, dragging, captured>>
vars == <<rect, prevRect, leftClick, dragging, captured, disabled, rules, view, held, calls>>

-----------------------------------------------------------------------------
(* Rectangles *)

Rectangle == [x : Int, y : Int, width : Int, height : Int]
Rect(x, y, w, h) == [x |-> x, y |-> y, width |-> w, height |-> h]
NullRect == Rect(0, 0, -1, -1)
EmptyRect == Rect(0, 0, 0, 0)
Area(size) == Rect(0, 0, size[1], size[2])
NotFixed == <<-1, -1>>
Solid(r) == r.width > 0 /\ r.height > 0
Inside(r, bounds) ==
  /\ bounds.x <= r.x /\ r.x + r.width <= bounds.x + bounds.width
  /\ bounds.y <= r.y /\ r.y + r.height <= bounds.y + bounds.height

(* (int) of a quotient of integers, b > 0: C truncates towards zero *)
Trunc(a, b) == IF a >= 0 THEN a \div b ELSE -((-a) \div b)
(* (int)(a * scale), for the scale 1/z, and back *)
Scaled(size, z) == <<Trunc(size[1], z), Trunc(size[2], z)>>

-----------------------------------------------------------------------------
(* The handles *)

Sides == {"top", "right", "bottom", "left"}
Outside == Sides
NoHandle == {}
TopOrBottom == {{"top"}, {"bottom"}}
LeftOrRight == {{"left"}, {"right"}}

HitTest(r, p) ==
  LET x == p[1] - r.x
      y == p[2] - r.y
      z == HandlesWidth
      Middle(at, size) == (size - z) \div 2 <= at /\ at <= (size + z) \div 2
      column == IF x >= r.width - z THEN {"right"}
                ELSE IF x <= z THEN {"left"} ELSE NoHandle
      corner(side) ==
        IF x < r.width - z /\ Middle(x, r.width) THEN {side}
        ELSE IF column = NoHandle THEN NoHandle ELSE column \cup {side}
  IN IF y < 0 \/ y > r.height \/ x < 0 \/ x > r.width THEN Outside
     ELSE IF y >= r.height - z THEN corner("bottom")
     ELSE IF Middle(y, r.height) THEN column
     ELSE IF y <= z THEN corner("top")
     ELSE NoHandle

-----------------------------------------------------------------------------
(* The corrections a rectangle r goes through when the handle hit moved it, *)
(* under the rules k                                                        *)

(* AdjustTrackerRectMax in one dimension: a rectangle that is moved is
   pushed back, one that is resized is cut *)
Limited(at, size, low, length, resized) ==
  LET s == IF resized /\ at < low THEN size - (low - at) ELSE size
      a == IF at < low THEN low ELSE at
      cut == IF resized THEN low + length - a ELSE s
  IN IF a + s > low + length THEN [at |-> low + length - cut, size |-> cut]
                             ELSE [at |-> a, size |-> s]

AdjustTrackerRectMax(k, r, hit) ==
  LET across == Limited(r.x, r.width, k.max.x, k.max.width, hit # NoHandle)
      down == Limited(r.y, r.height, k.max.y, k.max.height, hit # NoHandle)
  IN IF k.max.width < 0 \/ k.max.height < 0 THEN r
     ELSE Rect(across.at, down.at, across.size, down.size)

AdjustTrackerRectFixed(k, r) ==
  LET Placed(at, size, fixed, low, length) ==
        LET a == IF at + size - fixed < low THEN low ELSE at + size - fixed
        IN IF a + fixed > low + length THEN low + length - fixed ELSE a
      w == k.fixed[1]
      h == k.fixed[2]
  IN Rect(Placed(r.x, r.width, w, k.max.x, k.max.width),
          Placed(r.y, r.height, h, k.max.y, k.max.height), w, h)

CalcRectDist(r, s) ==
  (r.x - s.x) * (r.x - s.x) + (r.y - s.y) * (r.y - s.y)
    + (r.width - s.width) * (r.width - s.width)
    + (r.height - s.height) * (r.height - s.height)
CalcRectNearer(r, s, t) == IF CalcRectDist(r, t) < CalcRectDist(r, s) THEN t ELSE s

(* the candidates with the width, or the height, recomputed from the other;
   the side opposite to the handle stays *)
WithWidth(r, w, hit) ==
  Rect(IF "left" \in hit THEN r.x + r.width - w ELSE r.x, r.y, w, r.height)
WithHeight(r, h, hit) ==
  Rect(r.x, IF "top" \in hit THEN r.y + r.height - h ELSE r.y, r.width, h)
Oriented(k, r, wide, tall) ==
  CASE k.orientation = -1 -> tall
    [] k.orientation = 1  -> wide
    [] OTHER              -> CalcRectNearer(r, wide, tall)

FarAway == -12000

AdjustTrackerRectRatio(k, r, hit, expand) ==
  LET n == k.ratio[1]
      d == k.ratio[2]
      rectWidth == Oriented(k, r, WithWidth(r, Trunc(r.height * n, d), hit),
                                  WithWidth(r, Trunc(r.height * d, n), hit))
      rectHeight == Oriented(k, r, WithHeight(r, Trunc(r.width * d, n), hit),
                                   WithHeight(r, Trunc(r.width * n, d), hit))
      narrower == IF ~expand /\ r.width < rectWidth.width
                  THEN [rectWidth EXCEPT !.width = FarAway] ELSE rectWidth
      lower == IF ~expand /\ r.height < rectHeight.height
               THEN [rectHeight EXCEPT !.height = FarAway] ELSE rectHeight
  IN CASE hit \in TopOrBottom -> IF expand THEN rectWidth ELSE rectHeight
       [] hit \in LeftOrRight -> IF expand THEN rectHeight ELSE rectWidth
       [] OTHER -> CalcRectNearer(r, lower, narrower)

(* mutants: without the second pass; the limits last *)
AdjustTrackerRectOnce(k, r, hit) ==
  LET limited == AdjustTrackerRectMax(k, r, hit)
      sized == IF k.fixed[1] > 0 /\ k.fixed[2] > 0
               THEN AdjustTrackerRectFixed(k, limited) ELSE limited
  IN IF k.ratio[1] = 0 THEN sized ELSE AdjustTrackerRectRatio(k, sized, hit, TRUE)
AdjustTrackerRectMaxLast(k, r, hit) ==
  AdjustTrackerRectMax(k, AdjustTrackerRectOnce(k, r, hit), hit)

AdjustTrackerRect(k, r, hit) ==
  LET limited == AdjustTrackerRectMax(k, r, hit)
      sized == IF k.fixed[1] > 0 /\ k.fixed[2] > 0
               THEN AdjustTrackerRectFixed(k, limited) ELSE limited
      first == AdjustTrackerRectRatio(k, sized, hit, TRUE)
  IN IF k.ratio[1] = 0 THEN sized
     ELSE AdjustTrackerRectRatio(k, AdjustTrackerRectMax(k, first, hit), hit, FALSE)

(* Update() leaves this in m_Rect *)
Updated(k, r) == AdjustTrackerRect(k, r, Outside)

(* ImageLoad with AutoSelectMax: the tracker is spread over the picture, centred,
   and reset if a fixed size exceeds the picture *)
Spread(k) ==
  LET r == Updated(k, Rect(0, 0, 1000000, 1000000))
      centred == [r EXCEPT !.x = Trunc(k.max.width - r.width, 2),
                           !.y = Trunc(k.max.height - r.height, 2)]
  IN IF k.fixed[1] > 0 /\ k.fixed[2] > 0 /\ (centred.x < 0 \/ centred.y < 0)
     THEN EmptyRect ELSE Updated(k, centred)

-----------------------------------------------------------------------------
(* Mouse and keys.  The button may be pressed or released where the window *)
(* does not see it, but not released while the window has the mouse.       *)

(* the first photo has been loaded *)
Init ==
  /\ prevRect = EmptyRect /\ leftClick = <<0, 0>>
  /\ dragging = FALSE /\ captured = FALSE /\ disabled = FALSE
  /\ view \in [image : Images, zoom : Zooms, original : {<<0, 0>>}]
  /\ rules = [max |-> Area(Scaled(view.image, view.zoom)), ratio |-> <<0, 1>>,
              fixed |-> NotFixed, orientation |-> 0]
  /\ rect = IF AutoSelectMax THEN Spread(rules) ELSE EmptyRect
  /\ held = FALSE /\ calls = 0

PressElsewhere ==
  /\ ~held /\ held' = TRUE
  /\ UNCHANGED <<rectangle, drag, disabled, rules, view, calls>>
ReleaseElsewhere ==
  /\ held /\ ~captured /\ held' = FALSE
  /\ UNCHANGED <<rectangle, drag, disabled, rules, view, calls>>

OnMouseLeftDown(p) ==
  /\ ~disabled /\ ~held
  /\ held' = TRUE /\ dragging' = TRUE /\ captured' = TRUE /\ leftClick' = p
  /\ IF HitTest(rect, p) = Outside
     THEN rect' = Updated(rules, NullRect) /\ prevRect' = NullRect
     ELSE UNCHANGED rectangle
  /\ UNCHANGED <<disabled, rules, view, calls>>

(* what a drag to p makes of the rectangle, drawn and not yet shown *)
Moved(r, hit, dx, dy) ==
  IF hit = NoHandle THEN [r EXCEPT !.x = @ + dx, !.y = @ + dy]
  ELSE Rect(IF "left" \in hit THEN r.x + dx ELSE r.x,
            IF "top" \in hit THEN r.y + dy ELSE r.y,
            r.width + (IF "right" \in hit THEN dx ELSE 0) - (IF "left" \in hit THEN dx ELSE 0),
            r.height + (IF "bottom" \in hit THEN dy ELSE 0) - (IF "top" \in hit THEN dy ELSE 0))

Opposite(hit, one, other) ==
  IF one \in hit THEN (hit \ {one}) \cup {other}
  ELSE IF other \in hit THEN (hit \ {other}) \cup {one} ELSE hit

Dragged(p) ==
  LET under == HitTest(rect, leftClick)
      from == IF under = Outside THEN Rect(leftClick[1], leftClick[2], 1, 1) ELSE rect
      hit == IF under = Outside THEN {"bottom", "right"} ELSE under
      r == Moved(from, hit, p[1] - leftClick[1], p[2] - leftClick[2])
      mirrored == IF r.width < 0 THEN [r EXCEPT !.x = @ + r.width, !.width = -@] ELSE r
      turned == IF r.height < 0 THEN [mirrored EXCEPT !.y = @ + r.height, !.height = -@]
                ELSE mirrored
      across == IF r.width < 0 THEN Opposite(hit, "left", "right") ELSE hit
      handle == IF r.height < 0 THEN Opposite(across, "top", "bottom") ELSE across
  IN AdjustTrackerRect(rules, turned, handle)

(* pressed: this button or another one is down while the mouse moves *)
OnMouseMotion(p, pressed) ==
  /\ ~disabled
  /\ prevRect' = IF pressed /\ dragging THEN Dragged(p) ELSE prevRect
  /\ captured' = (captured /\ held)
  /\ UNCHANGED <<rect, leftClick, dragging, disabled, rules, view, held, calls>>

OnMouseLeftUp ==
  /\ ~disabled /\ held /\ held' = FALSE
  /\ captured' = FALSE
  /\ IF dragging
     THEN rect' = Updated(rules, prevRect) /\ dragging' = FALSE /\ leftClick' = <<0, 0>>
     ELSE UNCHANGED <<rect, dragging, leftClick>>
  /\ UNCHANGED <<prevRect, disabled, rules, view, calls>>

(* OnKey: the tracker must be enabled, shown and not empty *)
KeyHeard == ~disabled /\ rect # NullRect /\ Solid(rect)

Escape ==
  /\ KeyHeard
  /\ IF captured THEN rect' = Updated(rules, rect) /\ captured' = FALSE /\ UNCHANGED prevRect
     ELSE rect' = NullRect /\ prevRect' = NullRect /\ UNCHANGED captured
  /\ UNCHANGED <<leftClick, dragging, disabled, rules, view, held, calls>>

Nudged(dx, dy) ==
  Updated(rules, AdjustTrackerRect(rules, [rect EXCEPT !.x = @ + dx, !.y = @ + dy], NoHandle))
Arrow(dx, dy) ==
  /\ KeyHeard /\ rect' = Nudged(dx, dy)
  /\ UNCHANGED <<prevRect, drag, disabled, rules, view, held, calls>>
ShiftArrow(dx, dy) ==
  /\ KeyHeard
  /\ rect' = Updated(rules, AdjustTrackerRect(rules,
                [rect EXCEPT !.width = @ + dx, !.height = @ + dy],
                IF dx = 0 THEN {"bottom"} ELSE {"right"}))
  /\ UNCHANGED <<prevRect, drag, disabled, rules, view, held, calls>>

-----------------------------------------------------------------------------
(* Calls of the image box and of the main window *)

Called == calls < MaxCalls /\ calls' = calls + 1

Enable ==
  /\ Called /\ disabled /\ disabled' = FALSE
  /\ UNCHANGED <<rectangle, drag, rules, view, held>>
(* mutant: the mouse stays captured *)
DisableCapturing ==
  /\ Called /\ ~disabled /\ disabled' = TRUE /\ rect' = Updated(rules, rect)
  /\ UNCHANGED <<prevRect, drag, rules, view, held>>
Disable ==
  /\ Called /\ ~disabled /\ disabled' = TRUE
  /\ captured' = FALSE /\ rect' = Updated(rules, rect)
  /\ UNCHANGED <<prevRect, leftClick, dragging, rules, view, held>>

(* SetFixedSize turns the size the way the orientation asks *)
Turned(size, orientation) ==
  IF \/ orientation = -1 /\ size[1] > size[2]
     \/ orientation = 1 /\ size[1] < size[2] THEN <<size[2], size[1]>> ELSE size

SetRules(k) ==
  /\ Called /\ rules' = k /\ rect' = Updated(k, rect)
  /\ UNCHANGED <<prevRect, drag, disabled, held>>

(* mutant: the height remains fixed *)
SetRatioHalf(ratio) ==
  /\ ratio # rules.ratio \/ rules.fixed[1] # -1
  /\ SetRules([rules EXCEPT !.fixed[1] = -1,
       !.ratio = IF 0 < ratio[1] /\ ratio[1] < ratio[2] THEN <<ratio[2], ratio[1]>> ELSE ratio])
  /\ UNCHANGED view
SetRatio(ratio) ==
  /\ ratio # rules.ratio \/ rules.fixed[1] # -1
  /\ SetRules([rules EXCEPT !.fixed = NotFixed,
       !.ratio = IF 0 < ratio[1] /\ ratio[1] < ratio[2] THEN <<ratio[2], ratio[1]>> ELSE ratio])
  /\ UNCHANGED view
SetFixedSize(size) ==
  /\ SetRules([rules EXCEPT !.fixed = Turned(Scaled(size, view.zoom), rules.orientation)])
  /\ view' = [view EXCEPT !.original = size]
SetOrientation(o) ==
  /\ SetRules([rules EXCEPT !.orientation = o,
                !.fixed = IF rules.fixed[1] # -1 THEN Turned(rules.fixed, o) ELSE @])
  /\ UNCHANGED view

(* AdjustTrackerSize: r as the scale changes from one zoom to another, and for a
   rectangle r shown under the rules k in the view v *)
Stretched(r, from, to) ==
  LET To(a) == Trunc(a * from, to) IN Rect(To(r.x), To(r.y), To(r.width), To(r.height))
Rescaled(k, v, r, zoom) ==
  LET whole == [k EXCEPT !.max = Area(v.image)]
      resized == Updated(whole, Stretched(Updated(whole, r), v.zoom, zoom))
      now == [k EXCEPT !.max = Area(Scaled(v.image, zoom))]
  IN [rect |-> Updated(now, resized),
      rules |-> [now EXCEPT !.fixed = IF k.fixed[1] = -1 THEN @
                   ELSE Turned(Scaled(v.original, zoom), k.orientation)]]
(* SetScale, and OnResize of the window *)
SetScale(zoom) ==
  LET scaled == Rescaled(rules, view, rect, zoom)
  IN /\ Called /\ rect' = scaled.rect /\ rules' = scaled.rules
     /\ view' = [view EXCEPT !.zoom = zoom]
     /\ UNCHANGED <<prevRect, drag, disabled, held>>

(* a picture replaces the one shown, and its size limits the tracker, which is
   left as r *)
Picture(image, zoom) == [rules EXCEPT !.max = Area(Scaled(image, zoom))]
ShowWith(k, image, zoom, r) ==
  /\ Called /\ rules' = [k EXCEPT !.max = Area(Scaled(image, zoom))]
  /\ view' = [view EXCEPT !.image = image, !.zoom = zoom]
  /\ rect' = r
  /\ UNCHANGED <<prevRect, drag, disabled, held>>
Show(image, zoom, r) == ShowWith(rules, image, zoom, r)

(* mutant: the tracker is not reset *)
ImageLoadUnreset(image, zoom) ==
  Show(image, zoom, IF AutoSelectMax /\ ~disabled THEN Spread(Picture(image, zoom)) ELSE rect)
ImageLoad(image, zoom) ==
  Show(image, zoom, IF AutoSelectMax /\ ~disabled THEN Spread(Picture(image, zoom))
                    ELSE EmptyRect)
(* OnImageRotateLeft, OnImageRotateRight and the lossless tools *)
OnImageRotate(image, zoom) == Show(image, zoom, EmptyRect)
(* Resize resets the tracker before the picture changes *)
OnImageResize(image, zoom) == Show(image, zoom, Updated(Picture(image, zoom), EmptyRect))
(* the flips in memory and OnTextApply show a picture of the same size, and
   SetGuideRatio only updates *)
OnImageFlip == SetRules(rules) /\ UNCHANGED view

(* restore: the undo point has the scale 1/zoom and the rectangle r, a part of the
   picture; the picture is first shown at the scale 1/shown the window has now *)
Undo(image, shown, zoom, r, inclination) ==
  LET k == Picture(image, shown)
      v == [view EXCEPT !.image = image, !.zoom = shown]
      scaled == Rescaled(k, v, IF inclination THEN Updated(k, r) ELSE r, zoom)
  IN /\ Called /\ Inside(r, Area(Scaled(image, zoom)))
     /\ rect' = scaled.rect /\ rules' = scaled.rules
     /\ view' = [v EXCEPT !.zoom = zoom]
     /\ disabled' = inclination /\ captured' = (captured /\ ~inclination)
     /\ UNCHANGED <<prevRect, leftClick, dragging, held>>

(* GetSelectedZone: the zone in pixels of the picture.  A fixed size in a
   reduced view is placed again under the rules of the full size. *)
FullSize == [rules EXCEPT !.max = Area(view.image),
                          !.fixed = Turned(view.original, rules.orientation)]
Replaced == rules.fixed[1] # -1 /\ view.zoom > 1
GetSelectedZone ==
  LET z == view.zoom
      zone == Rect(rect.x * z, rect.y * z, rect.width * z, rect.height * z)
  IN IF Replaced THEN AdjustTrackerRectFixed(FullSize, zone) ELSE zone
(* the rules it leaves *)
Restored ==
  IF Replaced THEN [rules EXCEPT !.fixed = Turned(Scaled(view.original, view.zoom),
                                                  rules.orientation)]
  ELSE rules

(* bound: the photos that are cropped have a size of Images *)
OnImageCrop(zoom) ==
  /\ Solid(GetSelectedZone) /\ <<GetSelectedZone.width, GetSelectedZone.height>> \in Images
  /\ ShowWith(Restored, <<GetSelectedZone.width, GetSelectedZone.height>>, zoom, EmptyRect)
(* the lossless crop fails: what GetSelectedZone did to the tracker remains *)
OnImageCropFailed ==
  /\ Called /\ Solid(GetSelectedZone) /\ Replaced
  /\ rect' = Updated([FullSize EXCEPT !.max = rules.max],
                      Updated([rules EXCEPT !.max = FullSize.max], rect))
  /\ rules' = Restored
  /\ UNCHANGED <<prevRect, drag, disabled, view, held>>

(* the rotation to a line returns to the crop mode with a zone, w by h, in the
   middle of the picture it makes *)
OnImageInclin(image, zoom, w, h) ==
  LET k == Picture(image, zoom)
      Start(length, size) == Trunc(length - size + zoom, 2 * zoom)
      Length(size) == Trunc(2 * size - zoom, 2 * zoom)
      zone == Rect(Start(image[1], w), Start(image[2], h), Length(w), Length(h))
  IN /\ Called /\ disabled /\ disabled' = FALSE
     /\ rules' = k /\ view' = [view EXCEPT !.image = image, !.zoom = zoom]
     /\ rect' = Updated(k, zone)
     /\ UNCHANGED <<prevRect, drag, held>>

Mouse ==
  \/ PressElsewhere
  \/ ReleaseElsewhere
  \/ \E p \in Points : OnMouseLeftDown(p)
  \/ \E p \in Points, pressed \in {held, TRUE} : OnMouseMotion(p, pressed)
  \/ OnMouseLeftUp
Keys ==
  \/ Escape
  \/ \E n \in KeySteps, s \in {-1, 1} :
       \/ Arrow(n * s, 0) \/ Arrow(0, n * s)
       \/ ShiftArrow(n * s, 0) \/ ShiftArrow(0, n * s)
Calls ==
  \/ Enable
  \/ Disable
  \/ \E ratio \in Ratios : SetRatio(ratio)
  \/ \E size \in FixedSizes : SetFixedSize(size)
  \/ \E o \in Orientations : SetOrientation(o)
  \/ \E zoom \in Zooms : SetScale(zoom) \/ OnImageCrop(zoom)
  \/ \E image \in Images, zoom \in Zooms :
       \/ ImageLoad(image, zoom) \/ OnImageRotate(image, zoom) \/ OnImageResize(image, zoom)
       \/ \E shown \in Zooms, r \in Selections, inclination \in BOOLEAN :
            Undo(image, shown, zoom, r, inclination)
       \/ \E zone \in Zones : OnImageInclin(image, zoom, zone[1], zone[2])
  \/ OnImageFlip
  \/ OnImageCropFailed

Next == Mouse \/ Keys \/ Calls
Spec == Init /\ [][Next]_vars

-----------------------------------------------------------------------------
(* Properties *)

Rules == [max : [x : {0}, y : {0}, width : Nat, height : Nat], ratio : Nat \X Positive,
          fixed : (Nat \X Nat) \cup {NotFixed}, orientation : {-1, 0, 1}]
View == [image : Positive \X Positive, zoom : Positive, original : Nat \X Nat]

(* The types of the variables. *)
TypeOK ==
  /\ rect \in Rectangle /\ prevRect \in Rectangle /\ leftClick \in Int \X Int
  /\ {dragging, captured, disabled, held} \subseteq BOOLEAN
  /\ rules \in Rules /\ view \in View /\ calls \in 0..MaxCalls

(* The window has the mouse only while the button is down, in a drag of a
   tracker that is enabled: no order of clicks, Escape, changes of mode and
   lost releases leaves the mouse captured, or captures it twice. *)
CaptureOwned == captured => held /\ dragging /\ ~disabled

Free == rules.fixed = NotFixed
Fits(r, size) == r.width <= size[1] /\ r.height <= size[2]

(* The zone that OnImageCrop takes is a part of the picture, whatever drags,
   keys, zooms and rules came before: GetSubImage and jpegtran rely on it.  A
   fixed size must be smaller than the picture. *)
CropZoneInImage ==
  Solid(GetSelectedZone) /\ (Free \/ Fits(GetSelectedZone, view.image)) =>
    Inside(GetSelectedZone, Area(view.image))

HasRatio(r, n, d) == r.width = Trunc(r.height * n, d) \/ r.height = Trunc(r.width * d, n)
InRatio(k, r) ==
  \/ k.orientation # -1 /\ HasRatio(r, k.ratio[1], k.ratio[2])
  \/ k.orientation # 1 /\ HasRatio(r, k.ratio[2], k.ratio[1])

(* The selection shown has the ratio chosen, one dimension being computed from
   the other, in the orientation chosen: each correction is made under the
   others, and none may undo it. *)
RatioKept == rules.ratio[1] > 0 /\ Free /\ Solid(rect) => InRatio(rules, rect)

SameSize(r, s) == r.width = s.width /\ r.height = s.height

(* An arrow key moves the selection and leaves its size alone, at the border of
   the picture and under a ratio as well. *)
ArrowsKeepSize ==
  KeyHeard /\ Free => \A n \in KeySteps : \A s \in {-n, n} :
                SameSize(Nudged(s, 0), rect) /\ SameSize(Nudged(0, s), rect)

(* A motion that draws: the handler is the only one to change prevRect and not
   the selection. *)
Draws == prevRect' # prevRect /\ rect' = rect /\ dragging

(* Under a ratio without an orientation the two passes may choose different ones
   when one side is dragged, and what is drawn may leave the picture (README). *)
OneSide == HitTest(rect, leftClick) \in TopOrBottom \cup LeftOrRight
MayTurn == rules.ratio[1] > 0 /\ rules.orientation = 0 /\ OneSide

(* The rectangle drawn while the mouse moves is the one a release selects: Update
   corrects it once more, as if its upper left corner had been moved, and changes nothing. *)
DrawnIsSelected ==
  [][Draws /\ Free /\ Solid(prevRect') /\ ~MayTurn
       => Updated(rules, prevRect') = prevRect']_vars

(* Both: correcting a rectangle that was corrected already changes nothing, so what
   the user sees is what is selected (AdjustTrackerRect twice in a row). *)
CorrectionsSettle == []ArrowsKeepSize /\ DrawnIsSelected
=============================================================================
