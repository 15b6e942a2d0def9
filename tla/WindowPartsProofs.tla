------------------------- MODULE WindowPartsProofs -------------------------
(* The selection stays in the picture and in its ratio, the searches find  *)
(* what they look for, and the line of the inclination mode is the one     *)
(* drawn: theorems about the parts of the window, for every picture,       *)
(* ratio, curve, size, scale and position (README, section 4).             *)
EXTENDS WindowParts, TLAPS

-----------------------------------------------------------------------------
(* The selection (RectTracker).                                            *)
(* The operations of the mouse and of the keys keep the capture owned: a press
   takes it with the drag, Escape, a release and a motion without the button
   give it back. *)
LEMMA MouseAndKeys == ASSUME CaptureOwned, Mouse \/ Keys PROVE CaptureOwned'
<1>1. CASE PressElsewhere
  BY <1>1 DEF PressElsewhere, CaptureOwned, drag
<1>2. CASE ReleaseElsewhere
  BY <1>2 DEF ReleaseElsewhere, CaptureOwned, drag
<1>3. CASE \E p \in Points : OnMouseLeftDown(p)
  BY <1>3 DEF OnMouseLeftDown, CaptureOwned
<1>4. CASE \E p \in Points, pressed \in {held, TRUE} : OnMouseMotion(p, pressed)
  <2>1. PICK p \in Points, pressed \in {held, TRUE} : OnMouseMotion(p, pressed)
    BY <1>4
  <2>2. /\ ~disabled /\ captured' = (captured /\ held)
        /\ UNCHANGED <<dragging, disabled, held>>
    BY <2>1 DEF OnMouseMotion
  <2> QED
    BY <2>2, Zenon DEF CaptureOwned
<1>5. CASE OnMouseLeftUp
  BY <1>5 DEF OnMouseLeftUp, CaptureOwned
<1>6. CASE Escape
  BY <1>6 DEF Escape, CaptureOwned
<1>7. ASSUME NEW dx, NEW dy, Arrow(dx, dy) \/ ShiftArrow(dx, dy) PROVE CaptureOwned'
  BY <1>7 DEF Arrow, ShiftArrow, CaptureOwned, drag
<1> QED
  BY <1>1, <1>2, <1>3, <1>4, <1>5, <1>6, <1>7 DEF Mouse, Keys

(* A call of the image box or of the main window that changes rules, view and
   rectangle only. *)
LEMMA Quiet ==
  ASSUME CaptureOwned, UNCHANGED drag, UNCHANGED held, disabled' = disabled \/ ~disabled'
  PROVE  CaptureOwned'
BY DEF CaptureOwned, drag

(* The calls keep the capture owned: the two that disable the tracker, Disable
   and Undo into the inclination mode, release the mouse. *)
LEMMA CallsKeep == ASSUME CaptureOwned, Calls PROVE CaptureOwned'
<1>1. CASE Enable
  BY <1>1, Quiet DEF Enable
<1>2. CASE Disable
  BY <1>2 DEF Disable, CaptureOwned
<1>3. ASSUME NEW k, SetRules(k) PROVE CaptureOwned'
  BY <1>3, Quiet DEF SetRules
<1>4. ASSUME NEW k, NEW image, NEW zoom, NEW r, ShowWith(k, image, zoom, r)
      PROVE  CaptureOwned'
  BY <1>4, Quiet DEF ShowWith
<1>5. CASE \E ratio \in Ratios : SetRatio(ratio)
  BY <1>5, <1>3 DEF SetRatio
<1>6. CASE \E size \in FixedSizes : SetFixedSize(size)
  BY <1>6, <1>3 DEF SetFixedSize
<1>7. CASE \E o \in Orientations : SetOrientation(o)
  BY <1>7, <1>3 DEF SetOrientation
<1>8. CASE \E zoom \in Zooms : SetScale(zoom) \/ OnImageCrop(zoom)
  <2>1. ASSUME NEW zoom, SetScale(zoom) PROVE CaptureOwned'
    BY <2>1, Quiet DEF SetScale
  <2>2. ASSUME NEW zoom, OnImageCrop(zoom) PROVE CaptureOwned'
    BY <2>2, <1>4 DEF OnImageCrop
  <2> QED
    BY <1>8, <2>1, <2>2
<1>9. ASSUME NEW image, NEW zoom,
             ImageLoad(image, zoom) \/ OnImageRotate(image, zoom) \/ OnImageResize(image, zoom)
      PROVE  CaptureOwned'
  BY <1>9, <1>4 DEF ImageLoad, OnImageRotate, OnImageResize, Show
<1>10. ASSUME NEW image, NEW shown, NEW zoom, NEW r, NEW inclination \in BOOLEAN,
              Undo(image, shown, zoom, r, inclination)
       PROVE  CaptureOwned'
  BY <1>10 DEF Undo, CaptureOwned
<1>11. ASSUME NEW image, NEW zoom, NEW w, NEW h, OnImageInclin(image, zoom, w, h)
       PROVE  CaptureOwned'
  BY <1>11, Quiet DEF OnImageInclin
<1>12. CASE OnImageFlip
  BY <1>12, <1>3 DEF OnImageFlip
<1>13. CASE OnImageCropFailed
  BY <1>13, Quiet DEF OnImageCropFailed
<1> QED
  BY <1>1, <1>2, <1>5, <1>6, <1>7, <1>8, <1>9, <1>10, <1>11, <1>12, <1>13 DEF Calls

(* The window has the mouse only while the button is down, in a drag of a
   tracker that is enabled, in every order of mouse, keys and calls. *)
THEOREM CaptureIsOwned == Spec => []CaptureOwned
<1>1. Init => CaptureOwned
  BY DEF Init, CaptureOwned
<1>2. CaptureOwned /\ [Next]_vars => CaptureOwned'
  <2> SUFFICES ASSUME CaptureOwned, [Next]_vars PROVE CaptureOwned'
    OBVIOUS
  <2>1. CASE UNCHANGED vars
    BY <2>1 DEF vars, CaptureOwned
  <2> QED
    BY <2>1, MouseAndKeys, CallsKeep DEF Next
<1> QED
  BY <1>1, <1>2, PTL DEF Spec

-----------------------------------------------------------------------------
(* The zone that is cropped is a part of the picture.                      *)

(* A quotient that is cut is an integer; of a natural number, a natural number. *)
LEMMA TruncInt == ASSUME NEW a \in Int, NEW b \in Positive PROVE Trunc(a, b) \in Int
BY DEF Trunc, Positive

LEMMA TruncNat == ASSUME NEW a \in Nat, NEW b \in Positive PROVE Trunc(a, b) \in Nat
BY DEF Trunc, Positive

(* A length in pixels of the view, back in pixels of the picture, is not longer
   than the picture. *)
LEMMA TruncTimes == ASSUME NEW a \in Nat, NEW b \in Positive PROVE Trunc(a, b) * b <= a
BY DEF Trunc, Positive

(* The code asks whether a size is fixed by the width alone. *)
LEMMA NotFixedMeans == ASSUME NEW k \in Rules PROVE k.fixed[1] = -1 <=> k.fixed = NotFixed
BY DEF Rules, NotFixed

(* Four integers make a rectangle. *)
LEMMA RectTypes ==
  ASSUME NEW x \in Int, NEW y \in Int, NEW w \in Int, NEW h \in Int
  PROVE  Rect(x, y, w, h) \in Rectangle
BY DEF Rect, Rectangle

(* The limits in one dimension give a range of integers. *)
LEMMA LimitedTypes ==
  ASSUME NEW at \in Int, NEW size \in Int, NEW length \in Nat, NEW resized \in BOOLEAN
  PROVE  /\ Limited(at, size, 0, length, resized).at \in Int
         /\ Limited(at, size, 0, length, resized).size \in Int
BY DEF Limited

(* A range that may be cut ends inside the bounds, whatever its sign was. *)
LEMMA LimitedInside ==
  ASSUME NEW at \in Int, NEW size \in Int, NEW length \in Nat,
         NEW resized \in BOOLEAN, resized
  PROVE  LET l == Limited(at, size, 0, length, resized)
         IN 0 <= l.at /\ l.at + l.size <= length
BY DEF Limited

(* The limits leave a rectangle, and one inside them if it may be resized. *)
LEMMA MaxTypes ==
  ASSUME NEW k \in Rules, NEW r \in Rectangle, NEW hit
  PROVE  AdjustTrackerRectMax(k, r, hit) \in Rectangle
<1> DEFINE across == Limited(r.x, r.width, k.max.x, k.max.width, hit # NoHandle)
           down == Limited(r.y, r.height, k.max.y, k.max.height, hit # NoHandle)
<1>1. /\ k.max.x = 0 /\ k.max.y = 0 /\ k.max.width \in Nat /\ k.max.height \in Nat
      /\ r.x \in Int /\ r.y \in Int /\ r.width \in Int /\ r.height \in Int
  BY DEF Rules, Rectangle
<1>2. (hit # NoHandle) \in BOOLEAN
  OBVIOUS
<1>3. across.at \in Int /\ across.size \in Int /\ down.at \in Int /\ down.size \in Int
  BY <1>1, <1>2, LimitedTypes
<1> HIDE DEF across, down
<1>4. Rect(across.at, down.at, across.size, down.size) \in Rectangle
  BY <1>3, RectTypes
<1> QED
  BY <1>4 DEF AdjustTrackerRectMax, across, down

LEMMA MaxInside ==
  ASSUME NEW k \in Rules, NEW r \in Rectangle, NEW hit, hit # NoHandle
  PROVE  Inside(AdjustTrackerRectMax(k, r, hit), k.max)
<1> DEFINE across == Limited(r.x, r.width, k.max.x, k.max.width, hit # NoHandle)
           down == Limited(r.y, r.height, k.max.y, k.max.height, hit # NoHandle)
<1>1. /\ k.max.x = 0 /\ k.max.y = 0 /\ k.max.width \in Nat /\ k.max.height \in Nat
      /\ r.x \in Int /\ r.y \in Int /\ r.width \in Int /\ r.height \in Int
  BY DEF Rules, Rectangle
<1>2. /\ 0 <= across.at /\ across.at + across.size <= k.max.width
      /\ 0 <= down.at /\ down.at + down.size <= k.max.height
  BY <1>1, LimitedInside
<1>3. across.at \in Int /\ across.size \in Int /\ down.at \in Int /\ down.size \in Int
  BY <1>1, LimitedTypes
<1> HIDE DEF across, down
<1>4. AdjustTrackerRectMax(k, r, hit) = Rect(across.at, down.at, across.size, down.size)
  BY <1>1 DEF AdjustTrackerRectMax, across, down
<1> QED
  BY <1>1, <1>2, <1>3, <1>4 DEF Inside, Rect

(* A fixed size is the size of the rectangle afterwards. *)
LEMMA FixedTypes ==
  ASSUME NEW k \in Rules, NEW r \in Rectangle
  PROVE  /\ AdjustTrackerRectFixed(k, r) \in Rectangle
         /\ AdjustTrackerRectFixed(k, r).width = k.fixed[1]
         /\ AdjustTrackerRectFixed(k, r).height = k.fixed[2]
BY DEF AdjustTrackerRectFixed, Rules, Rectangle, Rect, NotFixed

(* A fixed size that fits is placed inside the bounds. *)
LEMMA FixedInside ==
  ASSUME NEW k \in Rules, NEW r \in Rectangle,
         k.fixed[1] <= k.max.width, k.fixed[2] <= k.max.height
  PROVE  Inside(AdjustTrackerRectFixed(k, r), k.max)
BY DEF AdjustTrackerRectFixed, Rules, Rectangle, Rect, NotFixed, Inside

(* The candidates are as wide, or as high, as asked for. *)
LEMMA WithTypes ==
  ASSUME NEW r \in Rectangle, NEW a \in Int, NEW hit
  PROVE  /\ WithWidth(r, a, hit) \in Rectangle /\ WithWidth(r, a, hit).width = a
         /\ WithHeight(r, a, hit) \in Rectangle /\ WithHeight(r, a, hit).height = a
         /\ WithWidth(r, a, hit).height = r.height /\ WithHeight(r, a, hit).width = r.width
<1>1. r.x \in Int /\ r.y \in Int /\ r.width \in Int /\ r.height \in Int
  BY DEF Rectangle
<1>2. (IF "left" \in hit THEN r.x + r.width - a ELSE r.x) \in Int
  BY <1>1
<1>3. (IF "top" \in hit THEN r.y + r.height - a ELSE r.y) \in Int
  BY <1>1
<1> QED
  BY <1>1, <1>2, <1>3, RectTypes DEF WithWidth, WithHeight, Rect

(* The code chooses one of its candidates. *)
LEMMA NearerIs ==
  ASSUME NEW r, NEW a, NEW b
  PROVE  CalcRectNearer(r, a, b) \in {a, b}
BY DEF CalcRectNearer

LEMMA OrientedIs ==
  ASSUME NEW k, NEW r, NEW a, NEW b
  PROVE  Oriented(k, r, a, b) \in {a, b}
BY NearerIs DEF Oriented

(* The candidate of the orientation chosen has the ratio chosen. *)
LEMMA OrientedRatio ==
  ASSUME NEW k \in Rules, NEW r, NEW a, NEW b,
         HasRatio(a, k.ratio[1], k.ratio[2]), HasRatio(b, k.ratio[2], k.ratio[1])
  PROVE  InRatio(k, Oriented(k, r, a, b))
BY NearerIs DEF Oriented, InRatio

(* With a ratio, the corrected rectangle is one of two: the rectangle with
   another width, or with another height; the second pass takes the other one
   only if it is not larger, or gives it a negative size. *)
LEMMA RatioCandidates ==
  ASSUME NEW k \in Rules, k.ratio[1] # 0, NEW r \in Rectangle, NEW hit, NEW expand \in BOOLEAN
  PROVE  \E w \in Int, h \in Int :
           LET wide == WithWidth(r, w, hit)
               high == WithHeight(r, h, hit)
               narrower == IF ~expand /\ r.width < w
                           THEN [wide EXCEPT !.width = FarAway] ELSE wide
               lower == IF ~expand /\ r.height < h
                        THEN [high EXCEPT !.height = FarAway] ELSE high
           IN InRatio(k, wide) /\ InRatio(k, high) /\ AdjustTrackerRectRatio(k, r, hit, expand) =
                CASE hit \in TopOrBottom -> IF expand THEN wide ELSE high
                  [] hit \in LeftOrRight -> IF expand THEN high ELSE wide
                  [] OTHER -> CalcRectNearer(r, lower, narrower)
<1> DEFINE n == k.ratio[1]
           d == k.ratio[2]
           w1 == Trunc(r.height * n, d)
           w2 == Trunc(r.height * d, n)
           h1 == Trunc(r.width * d, n)
           h2 == Trunc(r.width * n, d)
           rectWidth == Oriented(k, r, WithWidth(r, w1, hit), WithWidth(r, w2, hit))
           rectHeight == Oriented(k, r, WithHeight(r, h1, hit), WithHeight(r, h2, hit))
<1>1. /\ n \in Positive /\ d \in Positive /\ r.height \in Int /\ r.width \in Int
  BY DEF Rules, Rectangle, Positive
<1>2. r.height * n \in Int /\ r.height * d \in Int /\ r.width * n \in Int /\ r.width * d \in Int
  BY <1>1 DEF Positive
<1>3. w1 \in Int /\ w2 \in Int /\ h1 \in Int /\ h2 \in Int
  BY <1>1, <1>2, TruncInt
<1>4. PICK w \in Int : rectWidth = WithWidth(r, w, hit)
  BY <1>3, OrientedIs
<1>5. PICK h \in Int : rectHeight = WithHeight(r, h, hit)
  BY <1>3, OrientedIs
<1>6. rectWidth.width = w /\ rectHeight.height = h
  BY <1>4, <1>5, WithTypes
<1>8. InRatio(k, rectWidth) /\ InRatio(k, rectHeight)
  <2> HIDE DEF w1, w2, h1, h2
  <2>1. /\ HasRatio(WithWidth(r, w1, hit), n, d) /\ HasRatio(WithWidth(r, w2, hit), d, n)
        /\ HasRatio(WithHeight(r, h1, hit), n, d) /\ HasRatio(WithHeight(r, h2, hit), d, n)
    BY <1>3, WithTypes DEF HasRatio, w1, w2, h1, h2
  <2> QED
    BY <2>1, OrientedRatio
<1> WITNESS w \in Int, h \in Int
<1> HIDE DEF w1, w2, h1, h2
<1>7. AdjustTrackerRectRatio(k, r, hit, expand) =
        CASE hit \in TopOrBottom -> IF expand THEN rectWidth ELSE rectHeight
          [] hit \in LeftOrRight -> IF expand THEN rectHeight ELSE rectWidth
          [] OTHER -> CalcRectNearer(r,
               IF ~expand /\ r.height < rectHeight.height
               THEN [rectHeight EXCEPT !.height = FarAway] ELSE rectHeight,
               IF ~expand /\ r.width < rectWidth.width
               THEN [rectWidth EXCEPT !.width = FarAway] ELSE rectWidth)
  BY DEF AdjustTrackerRectRatio, w1, w2, h1, h2
<1> HIDE DEF rectWidth, rectHeight, n, d
<1> QED
  BY <1>4, <1>5, <1>6, <1>7, <1>8

(* The ratio leaves a rectangle, and so do all corrections together. *)
LEMMA RatioTypes ==
  ASSUME NEW k \in Rules, k.ratio[1] # 0, NEW r \in Rectangle, NEW hit, NEW expand \in BOOLEAN
  PROVE  AdjustTrackerRectRatio(k, r, hit, expand) \in Rectangle
<1>1. PICK w \in Int, h \in Int :
           LET wide == WithWidth(r, w, hit)
               high == WithHeight(r, h, hit)
               narrower == IF ~expand /\ r.width < w
                           THEN [wide EXCEPT !.width = FarAway] ELSE wide
               lower == IF ~expand /\ r.height < h
                        THEN [high EXCEPT !.height = FarAway] ELSE high
           IN InRatio(k, wide) /\ InRatio(k, high) /\ AdjustTrackerRectRatio(k, r, hit, expand) =
                CASE hit \in TopOrBottom -> IF expand THEN wide ELSE high
                  [] hit \in LeftOrRight -> IF expand THEN high ELSE wide
                  [] OTHER -> CalcRectNearer(r, lower, narrower)
  BY RatioCandidates
<1> DEFINE wide == WithWidth(r, w, hit)
           high == WithHeight(r, h, hit)
           narrow == [wide EXCEPT !.width = FarAway]
           low == [high EXCEPT !.height = FarAway]
<1>2. wide \in Rectangle /\ high \in Rectangle
  BY WithTypes
<1>3. narrow \in Rectangle /\ low \in Rectangle
  BY <1>2 DEF Rectangle, FarAway
<1>4. AdjustTrackerRectRatio(k, r, hit, expand) \in {wide, high, narrow, low}
  <2> HIDE DEF wide, high
  <2> QED
    BY <1>1, NearerIs DEF wide, high
<1> HIDE DEF wide, high, narrow, low
<1> QED
  BY <1>2, <1>3, <1>4

(* The second pass, for a handle on all sides, leaves a rectangle inside the
   bounds it was in, for it only gives up what one dimension has too much, and
   in the ratio. *)
LEMMA SecondPass ==
  ASSUME NEW k \in Rules, k.ratio[1] # 0, NEW r \in Rectangle, Inside(r, k.max),
         AdjustTrackerRectRatio(k, r, Outside, FALSE).width >= 0,
         AdjustTrackerRectRatio(k, r, Outside, FALSE).height >= 0
  PROVE  /\ Inside(AdjustTrackerRectRatio(k, r, Outside, FALSE), k.max)
         /\ InRatio(k, AdjustTrackerRectRatio(k, r, Outside, FALSE))
<1>1. PICK w \in Int, h \in Int :
           LET wide == WithWidth(r, w, Outside)
               high == WithHeight(r, h, Outside)
               narrower == IF ~FALSE /\ r.width < w
                           THEN [wide EXCEPT !.width = FarAway] ELSE wide
               lower == IF ~FALSE /\ r.height < h
                        THEN [high EXCEPT !.height = FarAway] ELSE high
           IN InRatio(k, wide) /\ InRatio(k, high) /\ AdjustTrackerRectRatio(k, r, Outside, FALSE) =
                CASE Outside \in TopOrBottom -> IF FALSE THEN wide ELSE high
                  [] Outside \in LeftOrRight -> IF FALSE THEN high ELSE wide
                  [] OTHER -> CalcRectNearer(r, lower, narrower)
  BY RatioCandidates
<1> DEFINE wide == WithWidth(r, w, Outside)
           high == WithHeight(r, h, Outside)
           narrow == [wide EXCEPT !.width = FarAway]
           low == [high EXCEPT !.height = FarAway]
           result == AdjustTrackerRectRatio(k, r, Outside, FALSE)
<1>2. Outside \notin TopOrBottom /\ Outside \notin LeftOrRight
  BY DEF Outside, Sides, TopOrBottom, LeftOrRight
<1>3. wide \in Rectangle /\ high \in Rectangle
  BY WithTypes
<1>4. ~(narrow.width >= 0) /\ ~(low.height >= 0)
  <2> HIDE DEF wide, high
  <2> QED
    BY <1>3 DEF FarAway, Rectangle
<1>5. \/ result = wide /\ ~(r.width < w)
      \/ result = high /\ ~(r.height < h)
  <2> HIDE DEF wide, high
  <2>1. result \in {IF r.height < h THEN low ELSE high, IF r.width < w THEN narrow ELSE wide}
    BY <1>1, <1>2, NearerIs, ZenonT(60) DEF wide, high
  <2> HIDE DEF narrow, low
  <2> QED
    BY <2>1, <1>4
<1>6. InRatio(k, wide) /\ InRatio(k, high)
  BY <1>1
<1>7. /\ k.max.x = 0 /\ k.max.y = 0 /\ k.max.width \in Nat /\ k.max.height \in Nat
      /\ r.x \in Int /\ r.y \in Int /\ r.width \in Int /\ r.height \in Int
  BY DEF Rules, Rectangle
<1>8. /\ wide = Rect(r.x + r.width - w, r.y, w, r.height)
      /\ high = Rect(r.x, r.y + r.height - h, r.width, h)
  BY DEF WithWidth, WithHeight, Outside, Sides
<1>9. r.x >= 0 /\ r.x + r.width <= k.max.width /\ r.y >= 0 /\ r.y + r.height <= k.max.height
  BY <1>7 DEF Inside
<1> HIDE DEF wide, high
<1>10. CASE result = wide /\ ~(r.width < w)
  <2>1. Inside(wide, k.max)
    BY <1>7, <1>8, <1>9, <1>10 DEF Inside, Rect
  <2> QED
    BY <2>1, <1>10, <1>6
<1>11. CASE result = high /\ ~(r.height < h)
  <2>1. Inside(high, k.max)
    BY <1>7, <1>8, <1>9, <1>11 DEF Inside, Rect
  <2> QED
    BY <2>1, <1>11, <1>6
<1> QED
  BY <1>5, <1>10, <1>11

LEMMA AdjustTypes ==
  ASSUME NEW k \in Rules, NEW r \in Rectangle, NEW hit
  PROVE  AdjustTrackerRect(k, r, hit) \in Rectangle
<1> DEFINE limited == AdjustTrackerRectMax(k, r, hit)
           sized == IF k.fixed[1] > 0 /\ k.fixed[2] > 0
                    THEN AdjustTrackerRectFixed(k, limited) ELSE limited
           first == AdjustTrackerRectRatio(k, sized, hit, TRUE)
           second == AdjustTrackerRectMax(k, first, hit)
<1>1. limited \in Rectangle
  BY MaxTypes
<1>2. sized \in Rectangle
  BY <1>1, FixedTypes
<1> HIDE DEF limited, sized
<1>3. CASE k.ratio[1] = 0
  BY <1>2, <1>3 DEF AdjustTrackerRect, limited, sized
<1>4. CASE k.ratio[1] # 0
  <2>1. first \in Rectangle
    BY <1>2, <1>4, RatioTypes
  <2> HIDE DEF first
  <2>2. second \in Rectangle
    BY <2>1, MaxTypes
  <2> HIDE DEF second
  <2>3. AdjustTrackerRectRatio(k, second, hit, FALSE) \in Rectangle
    BY <2>2, <1>4, RatioTypes
  <2> QED
    BY <2>3, <1>4 DEF AdjustTrackerRect, limited, sized, first, second
<1> QED
  BY <1>3, <1>4

(* What Update leaves is inside the bounds, unless it has no pixels or a fixed
   size that exceeds the picture, and in the ratio, unless a size is fixed. *)
Bounded(k, r) ==
  \/ ~Solid(r)
  \/ Inside(r, k.max)
  \/ k.fixed # NotFixed /\ ~Fits(r, <<k.max.width, k.max.height>>)
Kept(k, r) ==
  /\ Bounded(k, r)
  /\ k.ratio[1] > 0 /\ k.fixed = NotFixed /\ r.width >= 0 /\ r.height >= 0 => InRatio(k, r)

(* An empty rectangle is in every ratio. *)
LEMMA EmptyKept == ASSUME NEW k \in Rules PROVE EmptyRect \in Rectangle /\ Kept(k, EmptyRect)
<1>1. k.ratio[1] \in Nat /\ k.ratio[2] \in Positive
  BY DEF Rules
<1>2. EmptyRect.width = 0 /\ EmptyRect.height = 0 /\ EmptyRect \in Rectangle
  BY DEF EmptyRect, Rect, Rectangle
<1>3. ASSUME NEW a \in Nat, NEW b \in Nat, b > 0 PROVE Trunc(0 * a, b) = 0
  BY <1>3 DEF Trunc
<1>4. k.ratio[1] > 0 => InRatio(k, EmptyRect)
  <2> SUFFICES ASSUME k.ratio[1] > 0 PROVE InRatio(k, EmptyRect)
    OBVIOUS
  <2>1. /\ Trunc(0 * k.ratio[1], k.ratio[2]) = 0
        /\ Trunc(0 * k.ratio[2], k.ratio[1]) = 0
    BY <1>1, <1>3 DEF Positive
  <2>2. HasRatio(EmptyRect, k.ratio[1], k.ratio[2]) /\ HasRatio(EmptyRect, k.ratio[2], k.ratio[1])
    BY <1>2, <2>1 DEF HasRatio
  <2>3. k.orientation # -1 \/ k.orientation # 1
    OBVIOUS
  <2> QED BY <2>2, <2>3 DEF InRatio
<1> QED BY <1>2, <1>4 DEF Kept, Bounded, Solid

LEMMA UpdatedTypes ==
  ASSUME NEW k \in Rules, NEW r \in Rectangle PROVE Updated(k, r) \in Rectangle
BY AdjustTypes DEF Updated

(* Update() brings any rectangle back into the picture. *)
LEMMA UpdatedKept ==
  ASSUME NEW k \in Rules, NEW r \in Rectangle PROVE Kept(k, Updated(k, r))
<1> DEFINE limited == AdjustTrackerRectMax(k, r, Outside)
           sized == IF k.fixed[1] > 0 /\ k.fixed[2] > 0
                    THEN AdjustTrackerRectFixed(k, limited) ELSE limited
           first == AdjustTrackerRectRatio(k, sized, Outside, TRUE)
           second == AdjustTrackerRectMax(k, first, Outside)
<1>1. Outside # NoHandle
  BY DEF Outside, Sides, NoHandle
<1>2. limited \in Rectangle /\ Inside(limited, k.max)
  BY <1>1, MaxTypes, MaxInside
<1>3. sized \in Rectangle
  BY <1>2, FixedTypes
<1>4. Bounded(k, sized)
  <2> HIDE DEF limited
  <2>1. CASE ~(k.fixed[1] > 0 /\ k.fixed[2] > 0)
    BY <2>1, <1>2 DEF Bounded
  <2>2. CASE k.fixed[1] > 0 /\ k.fixed[2] > 0
    <3>1. k.fixed # NotFixed
      BY <2>2 DEF NotFixed
    <3>2. sized = AdjustTrackerRectFixed(k, limited)
      BY <2>2
    <3>3. CASE k.fixed[1] <= k.max.width /\ k.fixed[2] <= k.max.height
      BY <3>2, <3>3, <1>2, FixedInside DEF Bounded
    <3>4. CASE ~(k.fixed[1] <= k.max.width /\ k.fixed[2] <= k.max.height)
      <4>1. sized.width = k.fixed[1] /\ sized.height = k.fixed[2]
        BY <3>2, <1>2, FixedTypes
      <4> HIDE DEF sized
      <4>2. ~Fits(sized, <<k.max.width, k.max.height>>)
        BY <3>4, <4>1 DEF Fits
      <4> QED
        BY <4>2, <3>1 DEF Bounded
    <3> QED
      BY <3>3, <3>4
  <2> QED
    BY <2>1, <2>2
<1> HIDE DEF limited, sized
<1>5. CASE k.ratio[1] = 0
  BY <1>4, <1>5 DEF Kept, Updated, AdjustTrackerRect, limited, sized
<1>6. CASE k.ratio[1] # 0
  <2>1. first \in Rectangle
    BY <1>3, <1>6, RatioTypes
  <2> HIDE DEF first
  <2>2. second \in Rectangle /\ Inside(second, k.max)
    BY <2>1, <1>1, MaxTypes, MaxInside
  <2> HIDE DEF second
  <2>3. Kept(k, AdjustTrackerRectRatio(k, second, Outside, FALSE))
    <3> DEFINE result == AdjustTrackerRectRatio(k, second, Outside, FALSE)
    <3>1. result \in Rectangle
      BY <2>2, <1>6, RatioTypes
    <3>2. result.width >= 0 /\ result.height >= 0 => Inside(result, k.max) /\ InRatio(k, result)
      BY <2>2, <1>6, SecondPass
    <3> HIDE DEF result
    <3>3. Solid(result) => result.width >= 0 /\ result.height >= 0
      BY <3>1 DEF Solid, Rectangle
    <3>4. Kept(k, result)
      BY <3>2, <3>3 DEF Kept, Bounded
    <3> QED
      BY <3>4 DEF result
  <2> QED
    BY <2>3, <1>6 DEF Updated, AdjustTrackerRect, limited, sized, first, second
<1> QED
  BY <1>5, <1>6

-----------------------------------------------------------------------------
(* The operators give rules, sizes and rectangles.                         *)

LEMMA SizesAre ==
  ASSUME NEW size \in Nat \X Nat, NEW z \in Positive, NEW o
  PROVE  Scaled(size, z) \in Nat \X Nat /\ Turned(size, o) \in Nat \X Nat
<1>1. size[1] \in Nat /\ size[2] \in Nat
  OBVIOUS
<1>2. Trunc(size[1], z) \in Nat /\ Trunc(size[2], z) \in Nat
  BY <1>1, TruncNat
<1> QED
  BY <1>1, <1>2 DEF Scaled, Turned

(* A size is not the mark of none. *)
LEMMA FixedIsNot == ASSUME NEW f \in Nat \X Nat PROVE f # NotFixed
BY DEF NotFixed

(* The calls change one field of the rules each. *)
LEMMA RulesWith ==
  ASSUME NEW k \in Rules, NEW size \in Nat \X Nat
  PROVE  /\ [k EXCEPT !.max = Area(size)] \in Rules
         /\ [k EXCEPT !.max = Area(size)].max = Area(size)
         /\ [k EXCEPT !.max = Area(size)].fixed = k.fixed
         /\ [k EXCEPT !.fixed = size] \in Rules
         /\ [k EXCEPT !.fixed = size].max = k.max
         /\ [k EXCEPT !.fixed = size].fixed = size
         /\ [k EXCEPT !.fixed = size].ratio = k.ratio
         /\ [k EXCEPT !.fixed = size].orientation = k.orientation
         /\ [k EXCEPT !.max = Area(size)].ratio = k.ratio
         /\ [k EXCEPT !.max = Area(size)].orientation = k.orientation
<1>1. Area(size) \in [x : {0}, y : {0}, width : Nat, height : Nat]
  BY DEF Area, Rect
<1> HIDE DEF Area
<1> QED
  BY <1>1 DEF Rules

(* Of a fixed size, Kept only asks whether there is one. *)
LEMMA KeptUnder ==
  ASSUME NEW k, NEW l, NEW r, k.max = l.max, k.fixed # NotFixed => l.fixed # NotFixed,
         k.ratio = l.ratio, k.orientation = l.orientation, Kept(k, r)
  PROVE  Kept(l, r)
BY DEF Kept, Bounded, InRatio

(* A drag moves a rectangle to another, which may be mirrored, and corrects it. *)
LEMMA MovedTypes ==
  ASSUME NEW r \in Rectangle, NEW hit, NEW dx \in Int, NEW dy \in Int
  PROVE  Moved(r, hit, dx, dy) \in Rectangle
<1>1. r.x \in Int /\ r.y \in Int /\ r.width \in Int /\ r.height \in Int
  BY DEF Rectangle
<1> DEFINE x == IF "left" \in hit THEN r.x + dx ELSE r.x
           y == IF "top" \in hit THEN r.y + dy ELSE r.y
           w == r.width + (IF "right" \in hit THEN dx ELSE 0) - (IF "left" \in hit THEN dx ELSE 0)
           h == r.height + (IF "bottom" \in hit THEN dy ELSE 0) - (IF "top" \in hit THEN dy ELSE 0)
<1>2. x \in Int /\ y \in Int /\ w \in Int /\ h \in Int
  BY <1>1
<1>3. [r EXCEPT !.x = r.x + dx, !.y = r.y + dy] \in Rectangle
  <2>1. r.x + dx \in Int /\ r.y + dy \in Int
    BY <1>1
  <2> HIDE DEF x, y, w, h
  <2> QED
    BY <2>1 DEF Rectangle
<1> HIDE DEF x, y, w, h
<1>4. Rect(x, y, w, h) \in Rectangle
  BY <1>2, RectTypes
<1> QED
  BY <1>3, <1>4 DEF Moved, x, y, w, h

LEMMA SideTypes ==
  ASSUME NEW r \in Rectangle, NEW a \in Int, NEW b \in Int
  PROVE  /\ [r EXCEPT !.x = a, !.width = b] \in Rectangle
         /\ [r EXCEPT !.y = a, !.height = b] \in Rectangle
         /\ [r EXCEPT !.x = a, !.y = b] \in Rectangle
         /\ [r EXCEPT !.width = a, !.height = b] \in Rectangle
BY DEF Rectangle

LEMMA DraggedTypes ==
  ASSUME rect \in Rectangle, rules \in Rules, leftClick \in Int \X Int, NEW p \in Int \X Int
  PROVE  Dragged(p) \in Rectangle
<1> DEFINE under == HitTest(rect, leftClick)
           from == IF under = Outside THEN Rect(leftClick[1], leftClick[2], 1, 1) ELSE rect
           hit == IF under = Outside THEN {"bottom", "right"} ELSE under
           r == Moved(from, hit, p[1] - leftClick[1], p[2] - leftClick[2])
           mirrored == IF r.width < 0 THEN [r EXCEPT !.x = @ + r.width, !.width = -@] ELSE r
           turned == IF r.height < 0 THEN [mirrored EXCEPT !.y = @ + r.height, !.height = -@]
                     ELSE mirrored
           across == IF r.width < 0 THEN Opposite(hit, "left", "right") ELSE hit
           handle == IF r.height < 0 THEN Opposite(across, "top", "bottom") ELSE across
<1>1. from \in Rectangle
  BY RectTypes
<1> HIDE DEF from, hit, under
<1>2. p[1] - leftClick[1] \in Int /\ p[2] - leftClick[2] \in Int
  OBVIOUS
<1>3. r \in Rectangle
  BY <1>1, <1>2, MovedTypes
<1> HIDE DEF r
<1>4. mirrored \in Rectangle
  <2>1. r.x + r.width \in Int /\ -r.width \in Int
    BY <1>3 DEF Rectangle
  <2>2. [r EXCEPT !.x = r.x + r.width, !.width = -r.width] \in Rectangle
    BY <2>1, <1>3, SideTypes
  <2> QED
    BY <2>2, <1>3
<1> HIDE DEF mirrored
<1>5. turned \in Rectangle
  <2>1. mirrored.y + r.height \in Int /\ -mirrored.height \in Int
    BY <1>3, <1>4 DEF Rectangle
  <2>2. [mirrored EXCEPT !.y = mirrored.y + r.height, !.height = -mirrored.height] \in Rectangle
    BY <2>1, <1>4, SideTypes
  <2> QED
    BY <2>2, <1>4
<1> HIDE DEF turned, handle, across
<1>6. AdjustTrackerRect(rules, turned, handle) \in Rectangle
  BY <1>5, AdjustTypes
<1> QED
  BY <1>6 DEF Dragged, turned, mirrored, r, from, hit, under, handle, across

(* The selection ImageLoad spreads over the picture. *)
LEMMA SpreadKept ==
  ASSUME NEW k \in Rules PROVE Spread(k) \in Rectangle /\ Kept(k, Spread(k))
<1> DEFINE r == Updated(k, Rect(0, 0, 1000000, 1000000))
           a == Trunc(k.max.width - r.width, 2)
           b == Trunc(k.max.height - r.height, 2)
           centred == [r EXCEPT !.x = a, !.y = b]
<1>1. r \in Rectangle
  BY RectTypes, UpdatedTypes
<1> HIDE DEF r
<1>2. k.max.width - r.width \in Int /\ k.max.height - r.height \in Int
  BY <1>1 DEF Rules, Rectangle
<1>3. a \in Int /\ b \in Int
  BY <1>2, TruncInt DEF Positive
<1> HIDE DEF a, b
<1>4. centred \in Rectangle
  BY <1>1, <1>3 DEF Rectangle
<1> HIDE DEF centred
<1>5. Updated(k, centred) \in Rectangle /\ Kept(k, Updated(k, centred))
  BY <1>4, UpdatedTypes, UpdatedKept
<1>6. EmptyRect \in Rectangle /\ Kept(k, EmptyRect)
  BY EmptyKept
<1>7. Spread(k) \in {EmptyRect, Updated(k, centred)}
  BY DEF Spread, r, a, b, centred
<1> QED
  BY <1>5, <1>6, <1>7

(* The inductive invariant: the rules belong to the picture shown, and the
   selection is one that Update leaves. *)
Shown(k, v, r) ==
  /\ k \in Rules /\ v \in View /\ r \in Rectangle
  /\ k.max = Area(Scaled(v.image, v.zoom)) /\ Kept(k, r)
Others ==
  /\ prevRect \in Rectangle /\ leftClick \in Int \X Int
  /\ {dragging, captured, disabled, held} \subseteq BOOLEAN /\ calls \in 0..MaxCalls
Strong == Shown(rules, view, rect) /\ Others

(* A call changes the scale, the picture or the fixed size of the view. *)
LEMMA ViewScale ==
  ASSUME NEW v \in View, NEW zoom \in Positive
  PROVE  LET w == [v EXCEPT !.zoom = zoom]
         IN w \in View /\ w.image = v.image /\ w.zoom = zoom
BY DEF View

LEMMA ViewOriginal ==
  ASSUME NEW v \in View, NEW size \in Nat \X Nat
  PROVE  LET w == [v EXCEPT !.original = size]
         IN w \in View /\ w.image = v.image /\ w.zoom = v.zoom
BY DEF View

LEMMA ViewTypes ==
  ASSUME NEW v \in View
  PROVE  v.image \in Nat \X Nat /\ v.original \in Nat \X Nat /\ v.zoom \in Positive
BY DEF View, Positive

LEMMA ViewSizes ==
  ASSUME NEW v \in View, NEW zoom \in Positive
  PROVE  /\ v.image \in Nat \X Nat /\ v.original \in Nat \X Nat /\ v.zoom \in Positive
         /\ Scaled(v.image, zoom) \in Nat \X Nat /\ Scaled(v.original, zoom) \in Nat \X Nat
<1>1. v.image \in Nat \X Nat /\ v.original \in Nat \X Nat /\ v.zoom \in Positive
  BY DEF View, Positive
<1> QED
  BY <1>1, SizesAre

(* Update shows a rectangle of any kind. *)
LEMMA ShownUpdated ==
  ASSUME NEW k \in Rules, NEW v \in View, NEW r \in Rectangle,
         k.max = Area(Scaled(v.image, v.zoom))
  PROVE  Shown(k, v, Updated(k, r))
BY UpdatedTypes, UpdatedKept DEF Shown

(* An empty rectangle is shown anywhere. *)
LEMMA ShownEmpty ==
  ASSUME NEW k \in Rules, NEW v \in View, k.max = Area(Scaled(v.image, v.zoom))
  PROVE  /\ EmptyRect \in Rectangle /\ Shown(k, v, EmptyRect)
         /\ NullRect \in Rectangle /\ Shown(k, v, NullRect)
BY EmptyKept DEF Shown, NullRect, Rect, Rectangle, Kept, Bounded, Solid

(* A new picture, with its limits. *)
LimitedTo(k, image, zoom) == [k EXCEPT !.max = Area(Scaled(image, zoom))]
Viewed(v, image, zoom) == [v EXCEPT !.image = image, !.zoom = zoom]

LEMMA PictureShown ==
  ASSUME NEW k \in Rules, NEW v \in View, NEW image \in Positive \X Positive,
         NEW zoom \in Positive
  PROVE  /\ LimitedTo(k, image, zoom) \in Rules /\ Viewed(v, image, zoom) \in View
         /\ LimitedTo(k, image, zoom).max
              = Area(Scaled(Viewed(v, image, zoom).image, Viewed(v, image, zoom).zoom))
<1>1. image \in Nat \X Nat
  BY DEF Positive
<1>2. Scaled(image, zoom) \in Nat \X Nat
  BY <1>1, SizesAre
<1>3. /\ Viewed(v, image, zoom) \in View /\ Viewed(v, image, zoom).image = image
      /\ Viewed(v, image, zoom).zoom = zoom
  BY DEF View, Viewed
<1>4. LimitedTo(k, image, zoom) \in Rules /\ LimitedTo(k, image, zoom).max = Area(Scaled(image, zoom))
  BY <1>2, RulesWith DEF LimitedTo
<1> QED
  BY <1>3, <1>4

(* AdjustTrackerSize shows the rectangle under the limits of the new scale, and
   the fixed size it sets afterwards, without an update, does not matter. *)
LEMMA RescaledShown ==
  ASSUME NEW k \in Rules, NEW v \in View, NEW r \in Rectangle, NEW zoom \in Positive
  PROVE  Shown(Rescaled(k, v, r, zoom).rules, [v EXCEPT !.zoom = zoom],
               Rescaled(k, v, r, zoom).rect)
<1> DEFINE whole == [k EXCEPT !.max = Area(v.image)]
           limited == Updated(whole, r)
           To(a) == Trunc(a * v.zoom, zoom)
           back == Rect(To(limited.x), To(limited.y), To(limited.width), To(limited.height))
           resized == Updated(whole, back)
           now == [k EXCEPT !.max = Area(Scaled(v.image, zoom))]
           size == Turned(Scaled(v.original, zoom), k.orientation)
           ruled == [now EXCEPT !.fixed = IF k.fixed[1] = -1 THEN now.fixed ELSE size]
           w == [v EXCEPT !.zoom = zoom]
<1>1. /\ v.image \in Nat \X Nat /\ v.zoom \in Positive /\ Scaled(v.image, zoom) \in Nat \X Nat
      /\ Scaled(v.original, zoom) \in Nat \X Nat
  BY ViewSizes
<1>2. size \in Nat \X Nat
  BY <1>1, SizesAre
<1>3. whole \in Rules
  BY <1>1, RulesWith
<1>4. now \in Rules /\ now.max = Area(Scaled(v.image, zoom)) /\ now.fixed = k.fixed
  BY <1>1, RulesWith
<1>5. w \in View /\ w.image = v.image /\ w.zoom = zoom
  BY ViewScale
<1> HIDE DEF whole, now, size, w
<1>6. limited \in Rectangle
  BY <1>3, UpdatedTypes
<1> HIDE DEF limited
<1>7. back \in Rectangle
  <2>1. ASSUME NEW a \in Int PROVE To(a) \in Int
    <3>1. a * v.zoom \in Int
      BY <1>1 DEF Positive
    <3> QED
      BY <3>1, TruncInt
  <2>2. limited.x \in Int /\ limited.y \in Int /\ limited.width \in Int /\ limited.height \in Int
    BY <1>6 DEF Rectangle
  <2> HIDE DEF To
  <2> QED
    BY <2>1, <2>2, RectTypes
<1> HIDE DEF back
<1>8. resized \in Rectangle
  BY <1>3, <1>7, UpdatedTypes
<1> HIDE DEF resized
<1>9. Updated(now, resized) \in Rectangle /\ Kept(now, Updated(now, resized))
  BY <1>4, <1>8, UpdatedTypes, UpdatedKept
<1>10. /\ ruled \in Rules /\ ruled.max = now.max
       /\ ruled.ratio = now.ratio /\ ruled.orientation = now.orientation
       /\ (now.fixed # NotFixed => ruled.fixed # NotFixed)
  <2>1. CASE k.fixed[1] = -1
    <3>1. now.fixed = NotFixed
      BY <2>1, <1>4, NotFixedMeans
    <3>2. ruled = [now EXCEPT !.fixed = now.fixed]
      BY <2>1
    <3>3. [now EXCEPT !.fixed = now.fixed] = now
      BY <1>4 DEF Rules
    <3> QED
      BY <1>4, <3>1, <3>2, <3>3
  <2>2. CASE k.fixed[1] # -1
    <3>1. ruled = [now EXCEPT !.fixed = size]
      BY <2>2
    <3>2. size # NotFixed
      BY <1>2, FixedIsNot
    <3>3. /\ [now EXCEPT !.fixed = size] \in Rules /\ [now EXCEPT !.fixed = size].max = now.max
          /\ [now EXCEPT !.fixed = size].fixed = size
          /\ [now EXCEPT !.fixed = size].ratio = now.ratio
          /\ [now EXCEPT !.fixed = size].orientation = now.orientation
      BY <1>2, <1>4, RulesWith
    <3> QED
      BY <3>1, <3>2, <3>3
  <2> QED
    BY <2>1, <2>2
<1> HIDE DEF ruled
<1>11. Kept(ruled, Updated(now, resized))
  BY <1>9, <1>10, KeptUnder
<1>12. Shown(ruled, w, Updated(now, resized))
  BY <1>4, <1>5, <1>9, <1>10, <1>11 DEF Shown
<1> QED
  BY <1>12 DEF Rescaled, Stretched, ruled, size, now, resized, back, To, limited, whole, w

-----------------------------------------------------------------------------
(* Every action keeps it.                                                  *)

(* The next state, part by part. *)
LEMMA StrongNext ==
  ASSUME Shown(rules', view', rect'), Others'
  PROVE  Strong'
BY DEF Strong, Shown

LEMMA CallOthers ==
  ASSUME Others, Called, prevRect' = prevRect, leftClick' = leftClick,
         {dragging', captured', disabled', held'} \subseteq BOOLEAN
  PROVE  Others'
BY InputAssumption DEF Others, Called

(* The mouse: what is drawn is a rectangle, and what a release shows is updated. *)
LEMMA MouseShown == ASSUME Strong, Mouse PROVE Strong'
<1>1. /\ rules \in Rules /\ view \in View /\ rect \in Rectangle
      /\ rules.max = Area(Scaled(view.image, view.zoom)) /\ Shown(rules, view, rect)
      /\ prevRect \in Rectangle /\ leftClick \in Int \X Int /\ calls \in 0..MaxCalls
      /\ dragging \in BOOLEAN /\ captured \in BOOLEAN /\ disabled \in BOOLEAN /\ held \in BOOLEAN
  BY DEF Strong, Shown, Others
<1>2. CASE PressElsewhere \/ ReleaseElsewhere
  BY <1>1, <1>2, StrongNext DEF PressElsewhere, ReleaseElsewhere, rectangle, drag, Others
<1>3. ASSUME NEW p \in Points, OnMouseLeftDown(p) PROVE Strong'
  <2>1. NullRect \in Rectangle
    BY <1>1, ShownEmpty
  <2>2. Shown(rules, view, Updated(rules, NullRect))
    BY <1>1, <2>1, ShownUpdated
  <2>3. /\ prevRect' \in Rectangle /\ Shown(rules, view, rect') /\ rules' = rules /\ view' = view
        /\ leftClick' \in Int \X Int
    BY <1>1, <1>3, <2>1, <2>2, InputAssumption DEF OnMouseLeftDown, rectangle
  <2>4. Others'
    BY <1>1, <1>3, <2>3 DEF OnMouseLeftDown, Others
  <2> QED
    BY <2>3, <2>4, StrongNext
<1>4. ASSUME NEW p \in Points, NEW pressed \in {held, TRUE}, OnMouseMotion(p, pressed)
      PROVE  Strong'
  <2>1. Dragged(p) \in Rectangle
    BY <1>1, DraggedTypes, InputAssumption
  <2>2. prevRect' \in Rectangle /\ UNCHANGED <<rect, leftClick, dragging, disabled, rules, view, held, calls>>
    BY <1>1, <1>4, <2>1 DEF OnMouseMotion
  <2>3. captured' \in BOOLEAN
    <3>1. captured' = (captured /\ held)
      BY <1>4 DEF OnMouseMotion
    <3> QED
      BY <3>1, Zenon
  <2>4. Others'
    BY <1>1, <2>2, <2>3 DEF Others
  <2> QED
    BY <1>1, <2>2, <2>4, StrongNext
<1>5. CASE OnMouseLeftUp
  <2>1. Shown(rules, view, Updated(rules, prevRect))
    BY <1>1, ShownUpdated
  <2>2. Shown(rules, view, rect') /\ rules' = rules /\ view' = view
    BY <1>1, <1>5, <2>1 DEF OnMouseLeftUp
  <2>3. leftClick' \in Int \X Int /\ dragging' \in BOOLEAN
    <3>1. <<0, 0>> \in Int \X Int
      OBVIOUS
    <3> QED
      BY <1>1, <1>5, <3>1 DEF OnMouseLeftUp
  <2>4. Others'
    BY <1>1, <1>5, <2>3 DEF OnMouseLeftUp, Others
  <2> QED
    BY <2>2, <2>4, StrongNext
<1> QED
  BY <1>2, <1>3, <1>4, <1>5 DEF Mouse

(* The keys show a rectangle that is updated, or none. *)
LEMMA KeysShown == ASSUME Strong, Keys PROVE Strong'
<1>1. /\ rules \in Rules /\ view \in View /\ rect \in Rectangle
      /\ rules.max = Area(Scaled(view.image, view.zoom)) /\ Others
      /\ prevRect \in Rectangle /\ leftClick \in Int \X Int /\ calls \in 0..MaxCalls
      /\ dragging \in BOOLEAN /\ captured \in BOOLEAN /\ disabled \in BOOLEAN /\ held \in BOOLEAN
  BY DEF Strong, Shown, Others
<1>2. CASE Escape
  <2>1. NullRect \in Rectangle /\ Shown(rules, view, NullRect) /\ Shown(rules, view, Updated(rules, rect))
    BY <1>1, ShownEmpty, ShownUpdated
  <2>2. Shown(rules', view', rect')
    BY <1>2, <2>1 DEF Escape
  <2>3. Others'
    BY <1>1, <1>2, <2>1 DEF Escape, Others
  <2> QED
    BY <2>2, <2>3, StrongNext
<1>3. ASSUME NEW dx \in Int, NEW dy \in Int, Arrow(dx, dy) \/ ShiftArrow(dx, dy) PROVE Strong'
  <2> DEFINE moved == [rect EXCEPT !.x = @ + dx, !.y = @ + dy]
             sized == [rect EXCEPT !.width = @ + dx, !.height = @ + dy]
             handle == IF dx = 0 THEN {"bottom"} ELSE {"right"}
  <2>1. moved \in Rectangle /\ sized \in Rectangle
    <3>1. /\ rect.x + dx \in Int /\ rect.y + dy \in Int
          /\ rect.width + dx \in Int /\ rect.height + dy \in Int
      BY <1>1 DEF Rectangle
    <3> QED
      BY <1>1, <3>1, SideTypes
  <2> HIDE DEF moved, sized, handle
  <2>2. /\ AdjustTrackerRect(rules, moved, NoHandle) \in Rectangle
        /\ AdjustTrackerRect(rules, sized, handle) \in Rectangle
    BY <1>1, <2>1, AdjustTypes
  <2>3. /\ Shown(rules, view, Updated(rules, AdjustTrackerRect(rules, moved, NoHandle)))
        /\ Shown(rules, view, Updated(rules, AdjustTrackerRect(rules, sized, handle)))
    BY <1>1, <2>2, ShownUpdated
  <2>4. \/ rect' = Updated(rules, AdjustTrackerRect(rules, moved, NoHandle))
        \/ rect' = Updated(rules, AdjustTrackerRect(rules, sized, handle))
    BY <1>3 DEF Arrow, ShiftArrow, Nudged, moved, sized, handle
  <2>5. Shown(rules', view', rect')
    BY <1>3, <2>3, <2>4 DEF Arrow, ShiftArrow
  <2>6. Others'
    BY <1>1, <1>3 DEF Arrow, ShiftArrow, drag, Others
  <2> QED
    BY <2>5, <2>6, StrongNext
<1>4. \A n \in KeySteps, s \in {-1, 1} : n * s \in Int /\ 0 \in Int
  BY InputAssumption DEF Positive
<1> QED
  BY <1>2, <1>3, <1>4 DEF Keys

(* The calls that change the rules show the selection again under the new ones. *)
LEMMA SetRulesShown ==
  ASSUME Strong, NEW k \in Rules, view' \in View,
         k.max = Area(Scaled(view'.image, view'.zoom)), SetRules(k)
  PROVE  Strong'
<1>1. rect \in Rectangle /\ Others
  BY DEF Strong, Shown
<1>2. Shown(k, view', Updated(k, rect))
  BY <1>1, ShownUpdated
<1>3. Shown(rules', view', rect')
  BY <1>2 DEF SetRules
<1>4. Others'
  BY <1>1, CallOthers DEF SetRules, drag, Others
<1> QED
  BY <1>3, <1>4, StrongNext

(* The calls that show another picture leave a selection that suits it. *)
LEMMA ShowShown ==
  ASSUME Strong, NEW k \in Rules, NEW image \in Images, NEW zoom \in Zooms,
         NEW r \in Rectangle, Kept(LimitedTo(k, image, zoom), r), ShowWith(k, image, zoom, r)
  PROVE  Strong'
<1>1. view \in View /\ Others /\ image \in Positive \X Positive /\ zoom \in Positive
  BY SizesAssumption DEF Strong, Shown
<1>2. Shown(LimitedTo(k, image, zoom), Viewed(view, image, zoom), r)
  BY <1>1, PictureShown DEF Shown
<1>3. Shown(rules', view', rect')
  BY <1>2 DEF ShowWith, LimitedTo, Viewed
<1>4. Others'
  BY <1>1, CallOthers DEF ShowWith, drag, Others
<1> QED
  BY <1>3, <1>4, StrongNext

(* The rules in which a fixed size is placed again, those that remain
   afterwards, and the rules of a new picture. *)
LEMMA ZoneRules ==
  ASSUME Strong
  PROVE  /\ FullSize \in Rules /\ FullSize.max = Area(view.image) /\ FullSize.fixed \in Nat \X Nat
         /\ Restored \in Rules /\ Restored.max = rules.max
         /\ Replaced => Restored.fixed \in Nat \X Nat
         /\ FullSize.ratio = rules.ratio /\ Restored.ratio = rules.ratio
         /\ FullSize.orientation = rules.orientation /\ Restored.orientation = rules.orientation
<1>1. /\ rules \in Rules /\ view \in View /\ view.image \in Nat \X Nat
      /\ view.original \in Nat \X Nat /\ Scaled(view.original, view.zoom) \in Nat \X Nat
  <2>1. rules \in Rules /\ view \in View
    BY DEF Strong, Shown
  <2>2. view.zoom \in Positive
    BY <2>1, ViewTypes
  <2> QED
    BY <2>1, <2>2, ViewSizes
<1> DEFINE whole == Turned(view.original, rules.orientation)
           reduced == Turned(Scaled(view.original, view.zoom), rules.orientation)
           k == [rules EXCEPT !.max = Area(view.image)]
<1>2. whole \in Nat \X Nat /\ reduced \in Nat \X Nat
  <2>1. 1 \in Positive
    BY DEF Positive
  <2> QED
    BY <1>1, <2>1, SizesAre
<1> HIDE DEF whole, reduced
<1>3. /\ k \in Rules /\ k.max = Area(view.image)
      /\ k.ratio = rules.ratio /\ k.orientation = rules.orientation
  BY <1>1, RulesWith
<1>4. /\ FullSize \in Rules /\ FullSize.max = Area(view.image) /\ FullSize.fixed \in Nat \X Nat
      /\ FullSize.ratio = rules.ratio /\ FullSize.orientation = rules.orientation
  <2>1. FullSize = [k EXCEPT !.fixed = whole]
    BY <1>1 DEF FullSize, whole, Rules
  <2> HIDE DEF k
  <2>2. /\ [k EXCEPT !.fixed = whole] \in Rules /\ [k EXCEPT !.fixed = whole].max = k.max
        /\ [k EXCEPT !.fixed = whole].fixed = whole
        /\ [k EXCEPT !.fixed = whole].ratio = k.ratio
        /\ [k EXCEPT !.fixed = whole].orientation = k.orientation
    BY <1>2, <1>3, RulesWith
  <2> QED
    BY <1>2, <1>3, <2>1, <2>2
<1>5. CASE Replaced
  <2>1. Restored = [rules EXCEPT !.fixed = reduced]
    BY <1>5 DEF Restored, reduced
  <2>2. /\ [rules EXCEPT !.fixed = reduced] \in Rules
        /\ [rules EXCEPT !.fixed = reduced].max = rules.max
        /\ [rules EXCEPT !.fixed = reduced].fixed = reduced
        /\ [rules EXCEPT !.fixed = reduced].ratio = rules.ratio
        /\ [rules EXCEPT !.fixed = reduced].orientation = rules.orientation
    BY <1>1, <1>2, RulesWith
  <2> QED
    BY <1>2, <1>4, <2>1, <2>2
<1>6. CASE ~Replaced
  BY <1>1, <1>4, <1>6 DEF Restored
<1> QED
  BY <1>5, <1>6

(* The rules the user chooses, and the changes of scale. *)
LEMMA ChoicesShown ==
  ASSUME Strong,
         \/ Enable \/ Disable \/ OnImageFlip
         \/ \E ratio \in Ratios : SetRatio(ratio)
         \/ \E size \in FixedSizes : SetFixedSize(size)
         \/ \E o \in Orientations : SetOrientation(o)
         \/ \E zoom \in Zooms : SetScale(zoom)
  PROVE  Strong'
<1>1. /\ rules \in Rules /\ view \in View /\ rect \in Rectangle
      /\ rules.max = Area(Scaled(view.image, view.zoom)) /\ Others /\ Shown(rules, view, rect)
      /\ view.zoom \in Positive
      /\ dragging \in BOOLEAN /\ captured \in BOOLEAN /\ disabled \in BOOLEAN /\ held \in BOOLEAN
  BY ViewTypes DEF Strong, Shown, Others
<1>2. CASE Enable
  <2>1. Others'
    BY <1>1, <1>2, CallOthers DEF Enable, rectangle, drag
  <2> QED
    BY <1>1, <1>2, <2>1, StrongNext DEF Enable, rectangle
<1>3. CASE Disable
  <2>1. Others'
    BY <1>1, <1>3, CallOthers DEF Disable
  <2>2. Shown(rules, view, Updated(rules, rect))
    BY <1>1, ShownUpdated
  <2> QED
    BY <1>3, <2>1, <2>2, StrongNext DEF Disable
<1>4. CASE OnImageFlip
  BY <1>1, <1>4, SetRulesShown DEF OnImageFlip
<1>5. ASSUME NEW ratio \in Ratios, SetRatio(ratio) PROVE Strong'
  <2> DEFINE turned == IF 0 < ratio[1] /\ ratio[1] < ratio[2] THEN <<ratio[2], ratio[1]>> ELSE ratio
             k == [rules EXCEPT !.fixed = NotFixed, !.ratio = turned]
  <2>1. turned \in Nat \X Positive
    BY SizesAssumption DEF Positive
  <2> HIDE DEF turned
  <2>2. k \in Rules /\ k.max = rules.max
    BY <1>1, <2>1 DEF Rules
  <2>3. SetRules(k) /\ view' = view
    BY <1>5 DEF SetRatio, turned
  <2> HIDE DEF k
  <2> QED
    BY <1>1, <2>2, <2>3, SetRulesShown
<1>6. ASSUME NEW size \in FixedSizes, SetFixedSize(size) PROVE Strong'
  <2> DEFINE f == Turned(Scaled(size, view.zoom), rules.orientation)
             k == [rules EXCEPT !.fixed = f]
  <2>1. size \in Nat \X Nat
    BY SizesAssumption DEF Positive
  <2>2. f \in Nat \X Nat
    BY <1>1, <2>1, SizesAre
  <2> HIDE DEF f
  <2>3. k \in Rules /\ k.max = rules.max
    BY <1>1, <2>2, RulesWith
  <2>4. SetRules(k) /\ view' = [view EXCEPT !.original = size]
    BY <1>6 DEF SetFixedSize, f
  <2> HIDE DEF k
  <2>5. view' \in View /\ view'.image = view.image /\ view'.zoom = view.zoom
    BY <1>1, <2>1, <2>4, ViewOriginal
  <2> QED
    BY <1>1, <2>3, <2>4, <2>5, SetRulesShown
<1>7. ASSUME NEW o \in Orientations, SetOrientation(o) PROVE Strong'
  <2> DEFINE f == IF rules.fixed[1] # -1 THEN Turned(rules.fixed, o) ELSE rules.fixed
             k == [rules EXCEPT !.orientation = o, !.fixed = f]
  <2>1. f \in (Nat \X Nat) \cup {NotFixed}
    <3>1. CASE rules.fixed[1] # -1
      <4>1. rules.fixed \in Nat \X Nat /\ 1 \in Positive
        BY <1>1, <3>1 DEF Rules, NotFixed, Positive
      <4> QED
        BY <3>1, <4>1, SizesAre
    <3>2. CASE rules.fixed[1] = -1
      BY <1>1, <3>2 DEF Rules
    <3> QED
      BY <3>1, <3>2
  <2>2. o \in {-1, 0, 1}
    BY SizesAssumption
  <2> HIDE DEF f
  <2>3. k \in Rules /\ k.max = rules.max
    BY <1>1, <2>1, <2>2 DEF Rules
  <2>4. SetRules(k) /\ view' = view
    BY <1>7 DEF SetOrientation, f
  <2> HIDE DEF k
  <2> QED
    BY <1>1, <2>3, <2>4, SetRulesShown
<1>8. ASSUME NEW zoom \in Zooms, SetScale(zoom) PROVE Strong'
  <2>1. zoom \in Positive
    BY SizesAssumption
  <2>2. Shown(Rescaled(rules, view, rect, zoom).rules, [view EXCEPT !.zoom = zoom],
              Rescaled(rules, view, rect, zoom).rect)
    BY <1>1, <2>1, RescaledShown
  <2>3. Shown(rules', view', rect')
    BY <1>8, <2>2 DEF SetScale
  <2>4. Others'
    BY <1>1, <1>8, CallOthers DEF SetScale, drag
  <2> QED
    BY <2>3, <2>4, StrongNext
<1> QED
  BY <1>2, <1>3, <1>4, <1>5, <1>6, <1>7, <1>8

(* A picture that is loaded, turned, resized, cropped, or restored. *)
LEMMA PicturesShown ==
  ASSUME Strong, NEW image \in Images, NEW zoom \in Zooms,
         \/ ImageLoad(image, zoom) \/ OnImageRotate(image, zoom) \/ OnImageResize(image, zoom)
         \/ \E shown \in Zooms, r \in Selections, inclination \in BOOLEAN :
              Undo(image, shown, zoom, r, inclination)
         \/ \E zone \in Zones : OnImageInclin(image, zoom, zone[1], zone[2])
  PROVE  Strong'
<1> DEFINE k == LimitedTo(rules, image, zoom)
<1>1. /\ rules \in Rules /\ view \in View /\ rect \in Rectangle /\ Others
      /\ image \in Positive \X Positive /\ zoom \in Positive
      /\ dragging \in BOOLEAN /\ captured \in BOOLEAN /\ disabled \in BOOLEAN /\ held \in BOOLEAN
  BY SizesAssumption DEF Strong, Shown, Others
<1>2. /\ k \in Rules /\ Viewed(view, image, zoom) \in View
      /\ k.max = Area(Scaled(Viewed(view, image, zoom).image, Viewed(view, image, zoom).zoom))
  BY <1>1, PictureShown
<1> HIDE DEF k
<1>3. k = Picture(image, zoom)
  BY DEF k, LimitedTo, Picture
<1>4. EmptyRect \in Rectangle /\ Kept(k, EmptyRect)
  BY <1>1, <1>2, ShownEmpty DEF Shown
<1>5. ASSUME NEW r \in Rectangle, Kept(k, r), Show(image, zoom, r) PROVE Strong'
  BY <1>1, <1>5, ShowShown DEF Show, k
<1>6. CASE ImageLoad(image, zoom)
  <2>1. Spread(k) \in Rectangle /\ Kept(k, Spread(k))
    BY <1>2, SpreadKept
  <2>2. Show(image, zoom, Spread(k)) \/ Show(image, zoom, EmptyRect)
    BY <1>3, <1>6 DEF ImageLoad
  <2> QED
    BY <2>1, <2>2, <1>4, <1>5
<1>7. CASE OnImageRotate(image, zoom)
  BY <1>4, <1>5, <1>7 DEF OnImageRotate
<1>8. CASE OnImageResize(image, zoom)
  <2>1. Updated(k, EmptyRect) \in Rectangle /\ Kept(k, Updated(k, EmptyRect))
    BY <1>2, <1>4, UpdatedTypes, UpdatedKept
  <2> QED
    BY <2>1, <1>3, <1>5, <1>8 DEF OnImageResize
<1>9. ASSUME NEW shown \in Zooms, NEW r \in Selections, NEW inclination \in BOOLEAN,
             Undo(image, shown, zoom, r, inclination)
      PROVE  Strong'
  <2> DEFINE l == LimitedTo(rules, image, shown)
             v == Viewed(view, image, shown)
             selected == IF inclination THEN Updated(l, r) ELSE r
  <2>1. shown \in Positive /\ r \in Rectangle
    BY SizesAssumption DEF Rectangle
  <2>2. l \in Rules /\ v \in View
    BY <1>1, <2>1, PictureShown
  <2> HIDE DEF l, v
  <2>3. selected \in Rectangle
    BY <2>1, <2>2, UpdatedTypes
  <2> HIDE DEF selected
  <2>4. Shown(Rescaled(l, v, selected, zoom).rules, [v EXCEPT !.zoom = zoom],
              Rescaled(l, v, selected, zoom).rect)
    BY <1>1, <2>2, <2>3, RescaledShown
  <2>5. /\ rect' = Rescaled(l, v, selected, zoom).rect /\ rules' = Rescaled(l, v, selected, zoom).rules
        /\ view' = [v EXCEPT !.zoom = zoom]
    BY <1>9 DEF Undo, Picture, LimitedTo, Viewed, l, v, selected
  <2>6. Shown(rules', view', rect')
    BY <2>4, <2>5
  <2>7. captured' \in BOOLEAN
    <3>1. captured' = (captured /\ ~inclination)
      BY <1>9 DEF Undo
    <3> QED
      BY <3>1, Zenon
  <2>8. Others'
    BY <1>1, <1>9, <2>7, CallOthers DEF Undo
  <2> QED
    BY <2>6, <2>8, StrongNext
<1>10. ASSUME NEW zone \in Zones, OnImageInclin(image, zoom, zone[1], zone[2]) PROVE Strong'
  <2> DEFINE Start(length, size) == Trunc(length - size + zoom, 2 * zoom)
             Length(size) == Trunc(2 * size - zoom, 2 * zoom)
             z == Rect(Start(image[1], zone[1]), Start(image[2], zone[2]),
                       Length(zone[1]), Length(zone[2]))
  <2>1. /\ image[1] \in Int /\ image[2] \in Int /\ zone[1] \in Int /\ zone[2] \in Int
        /\ zoom \in Int /\ 2 * zoom \in Positive
    BY <1>1, SizesAssumption DEF Positive
  <2>2. /\ image[1] - zone[1] + zoom \in Int /\ image[2] - zone[2] + zoom \in Int
        /\ 2 * zone[1] - zoom \in Int /\ 2 * zone[2] - zoom \in Int
    BY <2>1
  <2>3. /\ Start(image[1], zone[1]) \in Int /\ Start(image[2], zone[2]) \in Int
        /\ Length(zone[1]) \in Int /\ Length(zone[2]) \in Int
    BY <2>1, <2>2, TruncInt
  <2> HIDE DEF Start, Length
  <2>4. z \in Rectangle
    BY <2>3, RectTypes
  <2> HIDE DEF z
  <2>5. Shown(k, Viewed(view, image, zoom), Updated(k, z))
    BY <1>2, <2>4, ShownUpdated
  <2>6. rules' = k /\ view' = Viewed(view, image, zoom) /\ rect' = Updated(k, z)
    BY <1>3, <1>10 DEF OnImageInclin, Viewed, z, Start, Length
  <2>7. Shown(rules', view', rect')
    BY <2>5, <2>6
  <2>8. Others'
    BY <1>1, <1>10, CallOthers DEF OnImageInclin, drag
  <2> QED
    BY <2>7, <2>8, StrongNext
<1> QED
  BY <1>6, <1>7, <1>8, <1>9, <1>10

(* The crop, which resets the selection, and the crop that fails after the
   zone was placed again. *)
LEMMA CropsShown ==
  ASSUME Strong, OnImageCropFailed \/ \E zoom \in Zooms : OnImageCrop(zoom)
  PROVE  Strong'
<1>1. /\ rules \in Rules /\ view \in View /\ rect \in Rectangle /\ Others
      /\ rules.max = Area(Scaled(view.image, view.zoom))
      /\ dragging \in BOOLEAN /\ captured \in BOOLEAN /\ disabled \in BOOLEAN /\ held \in BOOLEAN
  BY DEF Strong, Shown, Others
<1>2. /\ FullSize \in Rules /\ FullSize.max = Area(view.image) /\ FullSize.fixed \in Nat \X Nat
      /\ Restored \in Rules /\ Restored.max = rules.max
      /\ Replaced => Restored.fixed \in Nat \X Nat
      /\ FullSize.ratio = rules.ratio /\ Restored.ratio = rules.ratio
      /\ FullSize.orientation = rules.orientation /\ Restored.orientation = rules.orientation
  BY ZoneRules
<1>3. ASSUME NEW zoom \in Zooms, OnImageCrop(zoom) PROVE Strong'
  <2> DEFINE size == <<GetSelectedZone.width, GetSelectedZone.height>>
  <2>1. size \in Images /\ ShowWith(Restored, size, zoom, EmptyRect)
    BY <1>3 DEF OnImageCrop
  <2> HIDE DEF size
  <2>2. EmptyRect \in Rectangle /\ Kept(LimitedTo(Restored, size, zoom), EmptyRect)
    <3>1. view \in View /\ size \in Positive \X Positive /\ zoom \in Positive
      BY <2>1, SizesAssumption DEF Strong, Shown
    <3>2. LimitedTo(Restored, size, zoom) \in Rules
      BY <1>2, <3>1, PictureShown
    <3> QED
      BY <3>2, EmptyKept
  <2> QED
    BY <1>2, <2>1, <2>2, ShowShown
<1>4. CASE OnImageCropFailed
  <2> DEFINE k == [FullSize EXCEPT !.max = rules.max]
             l == [rules EXCEPT !.max = FullSize.max]
             r == Updated(l, rect)
  <2>1. view.image \in Nat \X Nat /\ Scaled(view.image, view.zoom) \in Nat \X Nat
    <3>1. view.zoom \in Positive
      BY <1>1, ViewTypes
    <3> QED
      BY <1>1, <3>1, ViewSizes
  <2>2. /\ k \in Rules /\ k.max = rules.max /\ k.fixed = FullSize.fixed
        /\ k.ratio = rules.ratio /\ k.orientation = rules.orientation
    <3> DEFINE size == Scaled(view.image, view.zoom)
    <3>1. k = [FullSize EXCEPT !.max = Area(size)]
      BY <1>1
    <3>2. size \in Nat \X Nat
      BY <2>1
    <3> HIDE DEF size, k
    <3>3. /\ [FullSize EXCEPT !.max = Area(size)] \in Rules
          /\ [FullSize EXCEPT !.max = Area(size)].max = Area(size)
          /\ [FullSize EXCEPT !.max = Area(size)].fixed = FullSize.fixed
          /\ [FullSize EXCEPT !.max = Area(size)].ratio = FullSize.ratio
          /\ [FullSize EXCEPT !.max = Area(size)].orientation = FullSize.orientation
      BY <1>2, <3>2, RulesWith, ZenonT(60)
    <3>4. rules.max = Area(size)
      BY <1>1 DEF size
    <3> QED
      BY <1>2, <3>1, <3>3, <3>4, ZenonT(60)
  <2>3. l \in Rules
    BY <1>1, <1>2, <2>1, RulesWith, ZenonT(60)
  <2> HIDE DEF k, l
  <2>4. r \in Rectangle
    BY <1>1, <2>3, UpdatedTypes
  <2> HIDE DEF r
  <2>5. Updated(k, r) \in Rectangle /\ Kept(k, Updated(k, r))
    BY <2>2, <2>4, UpdatedTypes, UpdatedKept
  <2>6. Restored.fixed # NotFixed
    BY <1>2, <1>4, FixedIsNot DEF OnImageCropFailed
  <2>7. Kept(Restored, Updated(k, r))
    BY <1>2, <2>2, <2>5, <2>6, KeptUnder
  <2>8. Shown(Restored, view, Updated(k, r))
    BY <1>1, <1>2, <2>5, <2>7 DEF Shown
  <2>9. rect' = Updated(k, r) /\ rules' = Restored /\ view' = view
    BY <1>4 DEF OnImageCropFailed, k, l, r
  <2>10. Shown(rules', view', rect')
    BY <2>8, <2>9
  <2>11. Others'
    BY <1>1, <1>4, CallOthers DEF OnImageCropFailed, drag
  <2> QED
    BY <2>10, <2>11, StrongNext
<1> QED
  BY <1>3, <1>4

(* The rules always belong to the picture shown, and the selection is always one
   that Update leaves. *)
THEOREM SelectionKept == Spec => []Strong
<1>1. Init => Strong
  <2> SUFFICES ASSUME Init PROVE Strong
    OBVIOUS
  <2>1. /\ view.image \in Positive \X Positive /\ view.zoom \in Positive /\ view \in View
    BY SizesAssumption DEF Init, View
  <2>2. Scaled(view.image, view.zoom) \in Nat \X Nat
    BY <2>1, ViewSizes
  <2>3. rules \in Rules /\ rules.max = Area(Scaled(view.image, view.zoom))
    <3>1. Area(Scaled(view.image, view.zoom)) \in [x : {0}, y : {0}, width : Nat, height : Nat]
      BY <2>2 DEF Area, Rect
    <3> HIDE DEF Area
    <3> QED
      BY <3>1 DEF Init, Rules, Positive
  <2>4. EmptyRect \in Rectangle /\ Kept(rules, EmptyRect)
    BY <2>3, EmptyKept
  <2>5. Spread(rules) \in Rectangle /\ Kept(rules, Spread(rules))
    BY <2>3, SpreadKept
  <2>6. rect \in {EmptyRect, Spread(rules)}
    BY DEF Init
  <2>7. Shown(rules, view, rect)
    BY <2>1, <2>3, <2>4, <2>5, <2>6 DEF Shown
  <2>8. Others
    <3>1. prevRect \in Rectangle /\ leftClick = <<0, 0>> /\ calls = 0
      BY <2>4 DEF Init
    <3>2. leftClick \in Int \X Int
      BY <3>1
    <3>3. calls \in 0..MaxCalls
      BY <3>1, InputAssumption
    <3>4. {dragging, captured, disabled, held} \subseteq BOOLEAN
      BY DEF Init
    <3> QED
      BY <3>1, <3>2, <3>3, <3>4 DEF Others
  <2> QED
    BY <2>7, <2>8 DEF Strong
<1>2. Strong /\ [Next]_vars => Strong'
  <2> SUFFICES ASSUME Strong, [Next]_vars PROVE Strong'
    OBVIOUS
  <2>1. CASE UNCHANGED vars
    BY <2>1 DEF vars, Strong, Shown, Others
  <2>2. CASE Calls
    BY <2>2, ChoicesShown, PicturesShown, CropsShown DEF Calls
  <2> QED
    BY <2>1, <2>2, MouseShown, KeysShown DEF Next
<1> QED
  BY <1>1, <1>2, PTL DEF Spec

(* The selection has the ratio chosen, in the orientation chosen, in every order
   of mouse, keys and calls. *)
THEOREM RatioIsKept == Spec => []RatioKept
<1>1. Strong => RatioKept
  BY DEF Strong, Shown, Kept, RatioKept, Free, Solid, Rectangle
<1> QED
  BY <1>1, SelectionKept, PTL

(* The variables keep their types. *)
THEOREM TypesKept == Spec => []TypeOK
<1>1. Strong => TypeOK
  BY DEF Strong, Shown, Others, TypeOK
<1> QED
  BY <1>1, SelectionKept, PTL

(* The zone that is cropped is a part of the picture, in every order of mouse,
   keys and calls, for every picture, scale and ratio. *)
THEOREM ZoneInImage == Spec => []CropZoneInImage
<1>1. ASSUME Strong, Solid(GetSelectedZone), Free \/ Fits(GetSelectedZone, view.image)
      PROVE  Inside(GetSelectedZone, Area(view.image))
  <2> DEFINE z == view.zoom
             zone == Rect(rect.x * z, rect.y * z, rect.width * z, rect.height * z)
  <2>1. /\ rules \in Rules /\ view \in View /\ rect \in Rectangle
        /\ rules.max = Area(Scaled(view.image, z)) /\ Kept(rules, rect)
    BY <1>1 DEF Strong, Shown
  <2>2. view.image \in Nat \X Nat /\ z \in Positive
    BY <2>1, ViewTypes
  <2>3. zone \in Rectangle
    <3>1. rect.x * z \in Int /\ rect.y * z \in Int /\ rect.width * z \in Int /\ rect.height * z \in Int
      BY <2>1, <2>2 DEF Rectangle, Positive
    <3> QED
      BY <3>1, RectTypes
  <2>4. CASE Replaced
    <3>1. GetSelectedZone = AdjustTrackerRectFixed(FullSize, zone)
      BY <2>4 DEF GetSelectedZone
    <3>2. ~Free
      BY <2>1, <2>4, NotFixedMeans DEF Replaced, Free
    <3>3. FullSize \in Rules /\ FullSize.max = Area(view.image)
      BY <1>1, ZoneRules
    <3> HIDE DEF zone
    <3>4. FullSize.fixed[1] <= view.image[1] /\ FullSize.fixed[2] <= view.image[2]
      BY <1>1, <2>3, <3>1, <3>2, <3>3, FixedTypes DEF Fits
    <3>5. FullSize.fixed[1] <= FullSize.max.width /\ FullSize.fixed[2] <= FullSize.max.height
      BY <3>3, <3>4 DEF Area, Rect
    <3> QED
      BY <2>3, <3>1, <3>3, <3>5, FixedInside
  <2>5. CASE ~Replaced
    <3>1. GetSelectedZone = zone
      BY <2>5 DEF GetSelectedZone
    <3>2. /\ rect.x \in Int /\ rect.y \in Int /\ rect.width \in Int /\ rect.height \in Int
          /\ z \in Int /\ z > 0 /\ view.image[1] \in Nat /\ view.image[2] \in Nat
      BY <2>1, <2>2 DEF Rectangle, Positive
    <3> DEFINE w == Trunc(view.image[1], z)
               h == Trunc(view.image[2], z)
    <3>3. w \in Nat /\ h \in Nat /\ w * z <= view.image[1] /\ h * z <= view.image[2]
      BY <2>2, <3>2, TruncNat, TruncTimes
    <3>4. rules.max = Rect(0, 0, w, h)
      BY <2>1 DEF Area, Scaled
    <3> HIDE DEF w, h
    <3>5. /\ zone.x = rect.x * z /\ zone.y = rect.y * z
          /\ zone.width = rect.width * z /\ zone.height = rect.height * z
      BY DEF Rect
    <3>6. Solid(rect)
      BY <1>1, <3>1, <3>2, <3>5 DEF Solid
    <3>7. Inside(rect, rules.max)
      <4>1. CASE Free
        BY <2>1, <3>6, <4>1 DEF Kept, Bounded, Free
      <4>2. CASE ~Free
        <5>1. z = 1
          BY <2>1, <2>5, <3>2, <4>2, NotFixedMeans DEF Replaced, Free
        <5>2. w = view.image[1] /\ h = view.image[2]
          BY <5>1, <3>2 DEF w, h, Trunc
        <5>3. Fits(rect, <<rules.max.width, rules.max.height>>)
          BY <1>1, <3>1, <3>2, <3>4, <3>5, <4>2, <5>1, <5>2 DEF Fits, Rect
        <5> QED
          BY <2>1, <3>6, <5>3 DEF Kept, Bounded
      <4> QED
        BY <4>1, <4>2
    <3>8. 0 <= rect.x /\ rect.x + rect.width <= w /\ 0 <= rect.y /\ rect.y + rect.height <= h
      BY <3>2, <3>3, <3>4, <3>7 DEF Inside, Rect
    <3>9. /\ 0 <= rect.x * z /\ (rect.x + rect.width) * z <= w * z
          /\ 0 <= rect.y * z /\ (rect.y + rect.height) * z <= h * z
      BY <3>2, <3>3, <3>8
    <3>10. /\ (rect.x + rect.width) * z = rect.x * z + rect.width * z
           /\ (rect.y + rect.height) * z = rect.y * z + rect.height * z
      BY <3>2
    <3>11. Inside(zone, Area(view.image))
      <4>1. /\ 0 <= zone.x /\ zone.x + zone.width <= view.image[1]
            /\ 0 <= zone.y /\ zone.y + zone.height <= view.image[2]
        <5> DEFINE x == rect.x * z
                   y == rect.y * z
                   xw == rect.width * z
                   yh == rect.height * z
                   wz == w * z
                   hz == h * z
        <5>1. x \in Int /\ y \in Int /\ xw \in Int /\ yh \in Int /\ wz \in Int /\ hz \in Int
          BY <3>2, <3>3
        <5>2. /\ 0 <= x /\ x + xw <= wz /\ wz <= view.image[1]
              /\ 0 <= y /\ y + yh <= hz /\ hz <= view.image[2]
          BY <3>3, <3>9, <3>10
        <5>3. zone.x = x /\ zone.y = y /\ zone.width = xw /\ zone.height = yh
          BY <3>5
        <5> HIDE DEF x, y, xw, yh, wz, hz, zone
        <5> QED
          BY <3>2, <5>1, <5>2, <5>3
      <4> HIDE DEF zone
      <4>2. Area(view.image) = Rect(0, 0, view.image[1], view.image[2])
        BY DEF Area
      <4> QED
        BY <3>2, <4>1, <4>2 DEF Inside, Rect
    <3> QED
      BY <3>1, <3>11
  <2> QED
    BY <2>4, <2>5
<1>2. Strong => CropZoneInImage
  BY <1>1 DEF CropZoneInImage
<1> QED
  BY <1>2, SelectionKept, PTL

-----------------------------------------------------------------------------
(* The corrections settle: a rectangle that was corrected is not changed   *)
(* by correcting it again.                                                 *)

OneSided == TopOrBottom \cup LeftOrRight

(* A rectangle that suits the rules: inside the limits, and in the ratio.  *)
Suits(k, r) == Inside(r, k.max) /\ (k.ratio[1] > 0 => InRatio(k, r))

LEMMA SquareIs == ASSUME NEW a \in Int PROVE a * a \in Nat /\ (a * a = 0 => a = 0)
<1>1. CASE a > 0
  BY <1>1
<1>2. CASE a < 0
  BY <1>2
<1> QED BY <1>1, <1>2

(* Only the rectangle itself has no distance to a rectangle.               *)
LEMMA DistIs ==
  ASSUME NEW r \in Rectangle, NEW s \in Rectangle
  PROVE  /\ CalcRectDist(r, s) \in Nat /\ (CalcRectDist(r, s) = 0 => s = r)
         /\ CalcRectDist(r, r) = 0
<1> DEFINE a == r.x - s.x
           b == r.y - s.y
           c == r.width - s.width
           d == r.height - s.height
<1>1. /\ r.x \in Int /\ r.y \in Int /\ r.width \in Int /\ r.height \in Int
      /\ s.x \in Int /\ s.y \in Int /\ s.width \in Int /\ s.height \in Int
  BY DEF Rectangle
<1>2. a \in Int /\ b \in Int /\ c \in Int /\ d \in Int
  BY <1>1
<1>3. CalcRectDist(r, s) = a * a + b * b + c * c + d * d
  BY DEF CalcRectDist
<1>4. a = 0 /\ b = 0 /\ c = 0 /\ d = 0 => s = r
  <2> HIDE DEF a, b, c, d
  <2>0. ASSUME NEW m \in Int, NEW n \in Int, m - n = 0 PROVE n = m
    BY <2>0
  <2>1. a = 0 /\ b = 0 /\ c = 0 /\ d = 0
          => s.x = r.x /\ s.y = r.y /\ s.width = r.width /\ s.height = r.height
    BY <1>1, <2>0 DEF a, b, c, d
  <2> QED BY <2>1 DEF Rectangle
<1>5. CalcRectDist(r, r) = 0
  BY <1>1 DEF CalcRectDist
<1> HIDE DEF a, b, c, d
<1>6. /\ a * a \in Nat /\ b * b \in Nat /\ c * c \in Nat /\ d * d \in Nat
      /\ a * a = 0 => a = 0
      /\ b * b = 0 => b = 0
      /\ c * c = 0 => c = 0
      /\ d * d = 0 => d = 0
  BY <1>2, SquareIs
<1>7. /\ CalcRectDist(r, s) \in Nat
      /\ CalcRectDist(r, s) = 0 => a * a = 0 /\ b * b = 0 /\ c * c = 0 /\ d * d = 0
  <2>1. ASSUME NEW m \in Nat, NEW n \in Nat, NEW o \in Nat, NEW p \in Nat
        PROVE  /\ m + n + o + p \in Nat
               /\ m + n + o + p = 0 => m = 0 /\ n = 0 /\ o = 0 /\ p = 0
    OBVIOUS
  <2> DEFINE aa == a * a
             bb == b * b
             cc == c * c
             dd == d * d
  <2>2. CalcRectDist(r, s) = aa + bb + cc + dd
    BY <1>3
  <2>3. aa \in Nat /\ bb \in Nat /\ cc \in Nat /\ dd \in Nat
    BY <1>6
  <2> HIDE DEF aa, bb, cc, dd
  <2>4. /\ CalcRectDist(r, s) \in Nat
        /\ CalcRectDist(r, s) = 0 => aa = 0 /\ bb = 0 /\ cc = 0 /\ dd = 0
    BY <2>1, <2>2, <2>3
  <2> QED BY <2>4 DEF aa, bb, cc, dd
<1> QED BY <1>4, <1>5, <1>6, <1>7

LEMMA NearerKeeps ==
  ASSUME NEW r \in Rectangle, NEW s \in Rectangle, NEW t \in Rectangle, s = r \/ t = r
  PROVE  CalcRectNearer(r, s, t) = r
<1>1. CASE s = r
  <2>1. CalcRectDist(r, s) = 0 /\ CalcRectDist(r, t) \in Nat
    BY <1>1, DistIs
  <2> QED BY <1>1, <2>1 DEF CalcRectNearer
<1>2. CASE t = r
  <2>1. CalcRectDist(r, t) = 0 /\ CalcRectDist(r, s) \in Nat /\ (CalcRectDist(r, s) = 0 => s = r)
    BY <1>2, DistIs
  <2>2. CalcRectDist(r, t) < CalcRectDist(r, s) \/ s = r
    BY <2>1
  <2> QED BY <1>2, <2>2 DEF CalcRectNearer
<1> QED BY <1>1, <1>2

LEMMA OrientedKeeps ==
  ASSUME NEW k \in Rules, NEW r \in Rectangle, NEW s \in Rectangle, NEW t \in Rectangle,
         (s = r /\ k.orientation # -1) \/ (t = r /\ k.orientation # 1)
  PROVE  Oriented(k, r, s, t) = r
<1>1. CASE k.orientation = -1
  BY <1>1 DEF Oriented
<1>2. CASE k.orientation = 1
  BY <1>2 DEF Oriented
<1>3. CASE k.orientation # -1 /\ k.orientation # 1
  BY <1>3, NearerKeeps DEF Oriented
<1> QED BY <1>1, <1>2, <1>3

(* A candidate of the same width, or of the same height, is the rectangle. *)
LEMMA WithSame ==
  ASSUME NEW r \in Rectangle, NEW hit
  PROVE  WithWidth(r, r.width, hit) = r /\ WithHeight(r, r.height, hit) = r
<1>1. r.x + r.width - r.width = r.x /\ r.y + r.height - r.height = r.y
  BY DEF Rectangle
<1>2. Rect(r.x, r.y, r.width, r.height) = r
  BY DEF Rect, Rectangle
<1> QED BY <1>1, <1>2 DEF WithWidth, WithHeight

(* The ratio leaves a rectangle that is in it. *)
LEMMA RatioKeeps ==
  ASSUME NEW k \in Rules, k.ratio[1] > 0, NEW r \in Rectangle, InRatio(k, r),
         NEW hit, hit \notin OneSided, NEW expand \in BOOLEAN
  PROVE  AdjustTrackerRectRatio(k, r, hit, expand) = r
<1> DEFINE n == k.ratio[1]
           d == k.ratio[2]
           w1 == Trunc(r.height * n, d)
           w2 == Trunc(r.height * d, n)
           h1 == Trunc(r.width * d, n)
           h2 == Trunc(r.width * n, d)
           rectWidth == Oriented(k, r, WithWidth(r, w1, hit), WithWidth(r, w2, hit))
           rectHeight == Oriented(k, r, WithHeight(r, h1, hit), WithHeight(r, h2, hit))
           narrower == IF ~expand /\ r.width < rectWidth.width
                       THEN [rectWidth EXCEPT !.width = FarAway] ELSE rectWidth
           lower == IF ~expand /\ r.height < rectHeight.height
                    THEN [rectHeight EXCEPT !.height = FarAway] ELSE rectHeight
<1>1. /\ n \in Positive /\ d \in Positive /\ r.height \in Int /\ r.width \in Int
  BY DEF Rules, Rectangle, Positive
<1>2. r.height * n \in Int /\ r.height * d \in Int /\ r.width * n \in Int /\ r.width * d \in Int
  BY <1>1 DEF Positive
<1>3. w1 \in Int /\ w2 \in Int /\ h1 \in Int /\ h2 \in Int
  BY <1>1, <1>2, TruncInt
<1>4. \/ k.orientation # -1 /\ (r.width = w1 \/ r.height = h1)
      \/ k.orientation # 1 /\ (r.width = w2 \/ r.height = h2)
  BY DEF InRatio, HasRatio
<1>5. AdjustTrackerRectRatio(k, r, hit, expand) = CalcRectNearer(r, lower, narrower)
  BY DEF AdjustTrackerRectRatio, OneSided
<1> HIDE DEF w1, w2, h1, h2
<1>6. /\ WithWidth(r, w1, hit) \in Rectangle /\ WithWidth(r, w2, hit) \in Rectangle
      /\ WithHeight(r, h1, hit) \in Rectangle /\ WithHeight(r, h2, hit) \in Rectangle
  BY <1>3, WithTypes
<1>7. rectWidth = r \/ rectHeight = r
  BY <1>4, <1>6, WithSame, OrientedKeeps
<1>8. rectWidth \in Rectangle /\ rectHeight \in Rectangle
  BY <1>6, OrientedIs
<1> HIDE DEF rectWidth, rectHeight
<1>9. narrower \in Rectangle /\ lower \in Rectangle
  <2>1. [rectWidth EXCEPT !.width = FarAway] \in Rectangle
    BY <1>8 DEF Rectangle, FarAway
  <2>2. [rectHeight EXCEPT !.height = FarAway] \in Rectangle
    BY <1>8 DEF Rectangle, FarAway
  <2> QED BY <1>8, <2>1, <2>2
<1>10. narrower = r \/ lower = r
  BY <1>1, <1>7
<1> HIDE DEF narrower, lower
<1> QED BY <1>5, <1>9, <1>10, NearerKeeps

(* The limits leave a rectangle that is inside them. *)
LEMMA MaxKeeps ==
  ASSUME NEW k \in Rules, NEW r \in Rectangle, Inside(r, k.max), NEW hit
  PROVE  AdjustTrackerRectMax(k, r, hit) = r
<1>1. /\ k.max.x = 0 /\ k.max.y = 0 /\ k.max.width \in Nat /\ k.max.height \in Nat
      /\ r.x \in Int /\ r.y \in Int /\ r.width \in Int /\ r.height \in Int
  BY DEF Rules, Rectangle
<1>2. /\ 0 <= r.x /\ r.x + r.width <= k.max.width /\ 0 <= r.y /\ r.y + r.height <= k.max.height
  BY <1>1 DEF Inside
<1>3. ASSUME NEW at \in Int, NEW size \in Int, NEW length \in Nat, NEW resized \in BOOLEAN,
             0 <= at, at + size <= length
      PROVE  Limited(at, size, 0, length, resized) = [at |-> at, size |-> size]
  BY <1>3 DEF Limited
<1>4. /\ Limited(r.x, r.width, k.max.x, k.max.width, hit # NoHandle)
           = [at |-> r.x, size |-> r.width]
      /\ Limited(r.y, r.height, k.max.y, k.max.height, hit # NoHandle)
           = [at |-> r.y, size |-> r.height]
  BY <1>1, <1>2, <1>3, ZenonT(60)
<1>5. Rect(r.x, r.y, r.width, r.height) = r
  BY DEF Rect, Rectangle
<1> QED BY <1>4, <1>5 DEF AdjustTrackerRectMax

(* And so do all corrections together.                                     *)
LEMMA AdjustKeeps ==
  ASSUME NEW k \in Rules, k.fixed = NotFixed, NEW r \in Rectangle, Suits(k, r),
         NEW hit, hit \notin OneSided
  PROVE  AdjustTrackerRect(k, r, hit) = r
<1>1. AdjustTrackerRectMax(k, r, hit) = r
  BY MaxKeeps DEF Suits
<1>2. ~(k.fixed[1] > 0 /\ k.fixed[2] > 0)
  BY DEF NotFixed
<1>3. CASE k.ratio[1] = 0
  BY <1>1, <1>2, <1>3 DEF AdjustTrackerRect
<1>4. CASE k.ratio[1] # 0
  <2>1. k.ratio[1] > 0
    BY <1>4 DEF Rules
  <2>2. /\ AdjustTrackerRectRatio(k, r, hit, TRUE) = r
        /\ AdjustTrackerRectRatio(k, r, hit, FALSE) = r
    BY <2>1, RatioKeeps DEF Suits
  <2> QED BY <1>1, <1>2, <1>4, <2>2 DEF AdjustTrackerRect
<1> QED BY <1>3, <1>4

LEMMA UpdatedKeeps ==
  ASSUME NEW k \in Rules, k.fixed = NotFixed, NEW r \in Rectangle, Suits(k, r)
  PROVE  Updated(k, r) = r
<1>1. Outside \notin OneSided
  BY DEF Outside, Sides, OneSided, TopOrBottom, LeftOrRight
<1> QED BY <1>1, AdjustKeeps DEF Updated

LEMMA SameRatio ==
  ASSUME NEW k, NEW r, NEW s, SameSize(r, s), InRatio(k, r)
  PROVE  InRatio(k, s)
BY DEF SameSize, InRatio, HasRatio

(* A rectangle that is moved as a whole keeps its size, and ends inside if *)
(* it is not larger than the picture.                                      *)
LEMMA MaxMoves ==
  ASSUME NEW k \in Rules, NEW r \in Rectangle
  PROVE  LET s == AdjustTrackerRectMax(k, r, NoHandle)
         IN s \in Rectangle /\ SameSize(s, r)
            /\ (r.width <= k.max.width /\ r.height <= k.max.height => Inside(s, k.max))
<1>1. /\ k.max.x = 0 /\ k.max.y = 0 /\ k.max.width \in Nat /\ k.max.height \in Nat
      /\ r.x \in Int /\ r.y \in Int /\ r.width \in Int /\ r.height \in Int
  BY DEF Rules, Rectangle
<1> DEFINE across == Limited(r.x, r.width, 0, k.max.width, FALSE)
           down == Limited(r.y, r.height, 0, k.max.height, FALSE)
<1>2. ASSUME NEW at \in Int, NEW size \in Int, NEW length \in Nat
      PROVE  LET l == Limited(at, size, 0, length, FALSE)
             IN l.at \in Int /\ l.size = size
                /\ (size <= length => 0 <= l.at /\ l.at + l.size <= length)
  BY DEF Limited
<1>3. /\ across.at \in Int /\ across.size = r.width
      /\ r.width <= k.max.width => 0 <= across.at /\ across.at + r.width <= k.max.width
      /\ down.at \in Int /\ down.size = r.height
      /\ r.height <= k.max.height => 0 <= down.at /\ down.at + r.height <= k.max.height
  BY <1>1, <1>2, ZenonT(60)
<1>4. AdjustTrackerRectMax(k, r, NoHandle) = Rect(across.at, down.at, r.width, r.height)
  <2>1. /\ Limited(r.x, r.width, k.max.x, k.max.width, NoHandle # NoHandle) = across
        /\ Limited(r.y, r.height, k.max.y, k.max.height, NoHandle # NoHandle) = down
    BY <1>1 DEF Limited
  <2> HIDE DEF across, down
  <2>2. AdjustTrackerRectMax(k, r, NoHandle) = Rect(across.at, down.at, across.size, down.size)
    BY <1>1, <2>1 DEF AdjustTrackerRectMax
  <2> QED BY <1>3, <2>2
<1> HIDE DEF across, down
<1> QED BY <1>1, <1>3, <1>4, RectTypes DEF Rect, Inside, SameSize

LEMMA MoveKeeps ==
  ASSUME NEW k \in Rules, k.fixed = NotFixed, NEW r \in Rectangle,
         k.ratio[1] > 0 => InRatio(k, r)
  PROVE  LET s == AdjustTrackerRect(k, r, NoHandle)
         IN s \in Rectangle /\ SameSize(s, r)
            /\ (r.width <= k.max.width /\ r.height <= k.max.height => Suits(k, s))
<1> DEFINE s == AdjustTrackerRectMax(k, r, NoHandle)
           result == AdjustTrackerRect(k, r, NoHandle)
<1>1. s \in Rectangle /\ SameSize(s, r)
      /\ (r.width <= k.max.width /\ r.height <= k.max.height => Inside(s, k.max))
  BY MaxMoves
<1>2. SameSize(r, s)
  BY <1>1 DEF SameSize
<1>3. ~(k.fixed[1] > 0 /\ k.fixed[2] > 0)
  BY DEF NotFixed
<1>4. NoHandle \notin OneSided
  BY DEF NoHandle, OneSided, TopOrBottom, LeftOrRight
<1>5. k.ratio[1] > 0 => InRatio(k, s)
  BY <1>2, SameRatio
<1>6. CASE k.ratio[1] = 0
  <2>1. result = s
    BY <1>3, <1>6 DEF AdjustTrackerRect
  <2> QED BY <1>1, <1>6, <2>1 DEF Suits
<1>7. CASE k.ratio[1] # 0
  <2>1. k.ratio[1] > 0
    BY <1>7 DEF Rules
  <2> DEFINE t == AdjustTrackerRectMax(k, s, NoHandle)
  <2>2. AdjustTrackerRectRatio(k, s, NoHandle, TRUE) = s
    BY <1>1, <1>4, <1>5, <2>1, RatioKeeps
  <2>3. t \in Rectangle /\ SameSize(t, s)
        /\ (s.width <= k.max.width /\ s.height <= k.max.height => Inside(t, k.max))
    BY <1>1, MaxMoves
  <2>4. InRatio(k, t)
    <3>1. SameSize(s, t)
      BY <2>3 DEF SameSize
    <3> QED BY <3>1, <1>5, <2>1, SameRatio
  <2>5. AdjustTrackerRectRatio(k, t, NoHandle, FALSE) = t
    BY <1>4, <2>1, <2>3, <2>4, RatioKeeps
  <2>6. result = t
    BY <1>3, <1>7, <2>2, <2>5 DEF AdjustTrackerRect
  <2> HIDE DEF s, t, result
  <2>7. SameSize(t, r) /\ (r.width <= k.max.width /\ r.height <= k.max.height => Inside(t, k.max))
    BY <1>1, <2>3 DEF SameSize
  <2> QED BY <2>3, <2>4, <2>6, <2>7 DEF Suits, result
<1> QED BY <1>6, <1>7 DEF Rules

(* The second pass for any handle of two sides, or all: it takes the other *)
(* dimension only if it is not larger, or gives it a negative size.        *)
LEMMA SecondPassOf ==
  ASSUME NEW k \in Rules, k.ratio[1] > 0, NEW r \in Rectangle, Inside(r, k.max),
         NEW hit, hit \notin OneSided, Solid(AdjustTrackerRectRatio(k, r, hit, FALSE))
  PROVE  Suits(k, AdjustTrackerRectRatio(k, r, hit, FALSE))
<1>1. PICK w \in Int, h \in Int :
           LET wide == WithWidth(r, w, hit)
               high == WithHeight(r, h, hit)
               narrower == IF ~FALSE /\ r.width < w
                           THEN [wide EXCEPT !.width = FarAway] ELSE wide
               lower == IF ~FALSE /\ r.height < h
                        THEN [high EXCEPT !.height = FarAway] ELSE high
           IN InRatio(k, wide) /\ InRatio(k, high) /\ AdjustTrackerRectRatio(k, r, hit, FALSE) =
                CASE hit \in TopOrBottom -> IF FALSE THEN wide ELSE high
                  [] hit \in LeftOrRight -> IF FALSE THEN high ELSE wide
                  [] OTHER -> CalcRectNearer(r, lower, narrower)
  <2>1. k.ratio[1] # 0
    BY DEF Rules
  <2> QED BY <2>1, RatioCandidates
<1> DEFINE wide == WithWidth(r, w, hit)
           high == WithHeight(r, h, hit)
           narrow == [wide EXCEPT !.width = FarAway]
           low == [high EXCEPT !.height = FarAway]
           result == AdjustTrackerRectRatio(k, r, hit, FALSE)
<1>2. hit \notin TopOrBottom /\ hit \notin LeftOrRight
  BY DEF OneSided
<1>3. wide \in Rectangle /\ high \in Rectangle
  BY WithTypes
<1>4. ~Solid(narrow) /\ ~Solid(low)
  <2> HIDE DEF wide, high
  <2> QED
    BY <1>3 DEF Solid, FarAway, Rectangle
<1>5. \/ result = wide /\ ~(r.width < w)
      \/ result = high /\ ~(r.height < h)
  <2> HIDE DEF wide, high
  <2>1. result \in {IF r.height < h THEN low ELSE high, IF r.width < w THEN narrow ELSE wide}
    BY <1>1, <1>2, NearerIs DEF wide, high
  <2> HIDE DEF narrow, low
  <2> QED
    BY <2>1, <1>4
<1>6. InRatio(k, wide) /\ InRatio(k, high)
  BY <1>1
<1>7. /\ k.max.x = 0 /\ k.max.y = 0 /\ k.max.width \in Nat /\ k.max.height \in Nat
      /\ r.x \in Int /\ r.y \in Int /\ r.width \in Int /\ r.height \in Int
  BY DEF Rules, Rectangle
<1>8. r.x >= 0 /\ r.x + r.width <= k.max.width /\ r.y >= 0 /\ r.y + r.height <= k.max.height
  BY <1>7 DEF Inside
<1>9. ~(r.width < w) => Inside(wide, k.max)
  BY <1>7, <1>8 DEF Inside, WithWidth, Rect
<1>10. ~(r.height < h) => Inside(high, k.max)
  BY <1>7, <1>8 DEF Inside, WithHeight, Rect
<1> HIDE DEF wide, high, result
<1>11. Suits(k, result)
  BY <1>5, <1>6, <1>9, <1>10 DEF Suits
<1> QED BY <1>11 DEF result

(* A length that is multiplied by a ratio, cut shorter and divided again   *)
(* is not longer than before.                                              *)
LEMMA ThereAndBack ==
  ASSUME NEW h \in Int, NEW w \in Int, NEW p \in Positive, NEW q \in Positive,
         w > 0, w <= Trunc(h * p, q)
  PROVE  Trunc(w * q, p) <= h
<1>1. p \in Nat /\ q \in Nat /\ p > 0 /\ q > 0
  BY DEF Positive
<1> DEFINE m == h * p
           n == w * q
           b == Trunc(n, p)
<1>2. m \in Int /\ n \in Nat
  BY <1>1
<1>3. m >= 0
  <2> HIDE DEF m
  <2>1. CASE m < 0
    <3>1. Trunc(m, q) = -((-m) \div q) /\ (-m) \div q >= 0
      BY <1>1, <1>2, <2>1 DEF Trunc
    <3>2. Trunc(m, q) <= 0
      BY <3>1, <1>1, <1>2
    <3> QED BY <3>2, <1>1, <1>2, TruncInt DEF m
  <2> QED BY <2>1, <1>2
<1>4. Trunc(m, q) \in Nat /\ Trunc(m, q) * q <= m
  <2> HIDE DEF m
  <2> QED BY <1>2, <1>3, TruncNat, TruncTimes
<1>5. n <= m
  <2> DEFINE t == Trunc(m, q)
  <2>1. w <= t /\ t \in Nat /\ t * q <= m
    BY <1>4
  <2> HIDE DEF m, t
  <2>2. w * q <= t * q
    BY <1>1, <2>1
  <2>3. w * q \in Int /\ t * q \in Int
    BY <1>1, <2>1
  <2> QED BY <1>2, <2>1, <2>2, <2>3
<1>6. b \in Nat /\ b * p <= n
  <2> HIDE DEF m, n
  <2> QED BY <1>2, TruncNat, TruncTimes
<1>7. b * p <= h * p
  <2> HIDE DEF b, n
  <2>1. b * p \in Int
    BY <1>1, <1>6
  <2> QED BY <1>2, <1>5, <1>6, <2>1
<1> HIDE DEF b, m, n
<1>8. b <= h
  <2> SUFFICES ASSUME b >= h + 1 PROVE FALSE
    BY <1>6
  <2>1. b * p >= (h + 1) * p
    BY <1>1, <1>6
  <2>2. (h + 1) * p = h * p + p /\ h * p \in Int /\ b * p \in Int
    BY <1>1, <1>6
  <2> QED BY <1>1, <1>7, <2>1, <2>2
<1> QED BY <1>8 DEF b, n

LEMMA RectIs ==
  ASSUME NEW x, NEW y, NEW w, NEW h, NEW r, r = Rect(x, y, w, h)
  PROVE  r.x = x /\ r.y = y /\ r.width = w /\ r.height = h
BY DEF Rect

(* The limits cut a rectangle that begins inside them at its far side.     *)
LEMMA MaxCuts ==
  ASSUME NEW k \in Rules, NEW r \in Rectangle, Inside(r, k.max), NEW hit, hit # NoHandle,
         NEW a \in Int
  PROVE  /\ \E b \in Int : /\ AdjustTrackerRectMax(k, Rect(r.x, r.y, a, r.height), hit)
                                = Rect(r.x, r.y, b, r.height)
                           /\ b <= a /\ r.x + b <= k.max.width
         /\ \E b \in Int : /\ AdjustTrackerRectMax(k, Rect(r.x, r.y, r.width, a), hit)
                                = Rect(r.x, r.y, r.width, b)
                           /\ b <= a /\ r.y + b <= k.max.height
<1>1. /\ k.max.x = 0 /\ k.max.y = 0 /\ k.max.width \in Nat /\ k.max.height \in Nat
      /\ r.x \in Int /\ r.y \in Int /\ r.width \in Int /\ r.height \in Int
  BY DEF Rules, Rectangle
<1>2. /\ 0 <= r.x /\ r.x + r.width <= k.max.width /\ 0 <= r.y /\ r.y + r.height <= k.max.height
  BY <1>1 DEF Inside
<1> DEFINE Cut(at, size, length) == Limited(at, size, 0, length, TRUE)
<1>3. ASSUME NEW at \in Nat, NEW size \in Int, NEW length \in Nat, at + size <= length
      PROVE  Cut(at, size, length) = [at |-> at, size |-> size]
  BY <1>3 DEF Limited, Cut
<1>4. ASSUME NEW at \in Nat, NEW length \in Nat
      PROVE  \E b \in Int : /\ Cut(at, a, length) = [at |-> at, size |-> b]
                            /\ b <= a /\ at + b <= length
  <2>1. CASE at + a > length
    <3>1. length - (length - at) = at
      OBVIOUS
    <3>2. Cut(at, a, length) = [at |-> at, size |-> length - at]
      BY <2>1, <3>1 DEF Limited, Cut
    <3>3. length - at \in Int /\ length - at <= a /\ at + (length - at) <= length
      BY <2>1
    <3> QED BY <3>2, <3>3
  <2>2. CASE ~(at + a > length)
    <3>1. at + a <= length
      BY <2>2
    <3>2. Cut(at, a, length) = [at |-> at, size |-> a]
      BY <2>2 DEF Limited, Cut
    <3> HIDE DEF Cut
    <3> QED BY <3>1, <3>2
  <2> QED BY <2>1, <2>2
<1>5. (hit # NoHandle) = TRUE
  OBVIOUS
<1>6. ASSUME NEW w \in Int, NEW h \in Int, NEW c \in Int, NEW d \in Int,
             Cut(r.x, w, k.max.width) = [at |-> r.x, size |-> c],
             Cut(r.y, h, k.max.height) = [at |-> r.y, size |-> d]
      PROVE  AdjustTrackerRectMax(k, Rect(r.x, r.y, w, h), hit) = Rect(r.x, r.y, c, d)
  <2> DEFINE s == Rect(r.x, r.y, w, h)
             across == Limited(s.x, s.width, k.max.x, k.max.width, hit # NoHandle)
             down == Limited(s.y, s.height, k.max.y, k.max.height, hit # NoHandle)
  <2>1. across = [at |-> r.x, size |-> c] /\ down = [at |-> r.y, size |-> d]
    BY <1>1, <1>5, <1>6 DEF Rect, Cut
  <2>2. AdjustTrackerRectMax(k, s, hit) = Rect(across.at, down.at, across.size, down.size)
    BY <1>1 DEF AdjustTrackerRectMax
  <2> HIDE DEF across, down, s
  <2>3. AdjustTrackerRectMax(k, s, hit) = Rect(r.x, r.y, c, d)
    BY <2>1, <2>2
  <2> QED BY <2>3 DEF s
<1> HIDE DEF Cut
<1>7. r.x \in Nat /\ r.y \in Nat
  BY <1>1, <1>2
<1>8. PICK b \in Int : /\ Cut(r.x, a, k.max.width) = [at |-> r.x, size |-> b]
                       /\ b <= a /\ r.x + b <= k.max.width
  BY <1>1, <1>4, <1>7
<1>9. PICK c \in Int : /\ Cut(r.y, a, k.max.height) = [at |-> r.y, size |-> c]
                       /\ c <= a /\ r.y + c <= k.max.height
  BY <1>1, <1>4, <1>7
<1>10. /\ Cut(r.x, r.width, k.max.width) = [at |-> r.x, size |-> r.width]
       /\ Cut(r.y, r.height, k.max.height) = [at |-> r.y, size |-> r.height]
  BY <1>1, <1>2, <1>3, <1>7
<1>11. AdjustTrackerRectMax(k, Rect(r.x, r.y, a, r.height), hit) = Rect(r.x, r.y, b, r.height)
  <2>1. r.height \in Int
    BY <1>1
  <2> QED BY <2>1, <1>6, <1>8, <1>10
<1>12. AdjustTrackerRectMax(k, Rect(r.x, r.y, r.width, a), hit) = Rect(r.x, r.y, r.width, c)
  <2>1. r.width \in Int
    BY <1>1
  <2> QED BY <2>1, <1>6, <1>9, <1>10
<1> QED BY <1>8, <1>9, <1>11, <1>12

(* The two passes.                                                         *)
FirstPassOf(k, r, hit) == AdjustTrackerRectRatio(k, r, hit, TRUE)
LastPassOf(k, r, hit) == AdjustTrackerRectRatio(k, r, hit, FALSE)

(* The handle of one side, in an orientation that is chosen: the first     *)
(* pass computes one dimension from the other, the limits may cut it, and  *)
(* the second pass computes the other from what is left.                   *)
LEMMA OneSideKept ==
  ASSUME NEW k \in Rules, k.ratio[1] > 0, k.orientation # 0, NEW r \in Rectangle,
         Inside(r, k.max), NEW hit \in OneSided,
         NEW s, s = AdjustTrackerRectMax(k, FirstPassOf(k, r, hit), hit),
         Solid(LastPassOf(k, s, hit))
  PROVE  Suits(k, LastPassOf(k, s, hit))
<1> DEFINE n == k.ratio[1]
           d == k.ratio[2]
           p == IF k.orientation = 1 THEN n ELSE d
           q == IF k.orientation = 1 THEN d ELSE n
           W(t) == WithWidth(t, Trunc(t.height * p, q), hit)
           H(t) == WithHeight(t, Trunc(t.width * q, p), hit)
           result == LastPassOf(k, s, hit)
<1>1. /\ n \in Positive /\ d \in Positive /\ p \in Positive /\ q \in Positive
      /\ k.orientation \in {-1, 1}
  BY DEF Rules, Positive
<1>2. /\ k.max.x = 0 /\ k.max.y = 0 /\ k.max.width \in Nat /\ k.max.height \in Nat
      /\ r.x \in Int /\ r.y \in Int /\ r.width \in Int /\ r.height \in Int
  BY DEF Rules, Rectangle
<1>3. /\ 0 <= r.x /\ r.x + r.width <= k.max.width /\ 0 <= r.y /\ r.y + r.height <= k.max.height
  BY <1>2 DEF Inside
<1>4. ASSUME NEW t
      PROVE  /\ hit \in TopOrBottom => FirstPassOf(k, t, hit) = W(t) /\ LastPassOf(k, t, hit) = H(t)
             /\ hit \in LeftOrRight => FirstPassOf(k, t, hit) = H(t) /\ LastPassOf(k, t, hit) = W(t)
  <2>0. hit \in LeftOrRight => hit \notin TopOrBottom
    BY DEF TopOrBottom, LeftOrRight
  <2> DEFINE rectWidth == Oriented(k, t, WithWidth(t, Trunc(t.height * n, d), hit),
                                         WithWidth(t, Trunc(t.height * d, n), hit))
             rectHeight == Oriented(k, t, WithHeight(t, Trunc(t.width * d, n), hit),
                                          WithHeight(t, Trunc(t.width * n, d), hit))
  <2>1. /\ hit \in TopOrBottom => FirstPassOf(k, t, hit) = rectWidth /\ LastPassOf(k, t, hit) = rectHeight
        /\ hit \in LeftOrRight => FirstPassOf(k, t, hit) = rectHeight /\ LastPassOf(k, t, hit) = rectWidth
    BY <2>0 DEF AdjustTrackerRectRatio, FirstPassOf, LastPassOf
  <2>2. rectWidth = W(t) /\ rectHeight = H(t)
    <3>1. ASSUME NEW a, NEW b
          PROVE  Oriented(k, t, a, b) = IF k.orientation = 1 THEN a ELSE b
      BY <1>1 DEF Oriented
    <3> QED BY <1>1, <3>1
  <2> QED BY <2>1, <2>2
<1>5. hit # NoHandle
  BY DEF OneSided, TopOrBottom, LeftOrRight, NoHandle
<1>6. ASSUME NEW t, HasRatio(t, p, q) PROVE InRatio(k, t)
  BY <1>1, <1>6 DEF InRatio
<1> HIDE DEF p, q, n, d
<1>7. ASSUME NEW a \in Int, NEW b \in Int PROVE a * p \in Int /\ a * q \in Int
  BY <1>1, <1>7 DEF Positive
<1>8. CASE hit \in TopOrBottom
  <2>1. "left" \notin hit
    BY <1>8 DEF TopOrBottom
  <2> DEFINE w == Trunc(r.height * p, q)
  <2>2. w \in Int
    BY <1>1, <1>2, <1>7, TruncInt
  <2>3. FirstPassOf(k, r, hit) = Rect(r.x, r.y, w, r.height)
    BY <1>4, <1>8, <2>1 DEF WithWidth
  <2> HIDE DEF w
  <2>4. PICK b \in Int : s = Rect(r.x, r.y, b, r.height) /\ b <= w /\ r.x + b <= k.max.width
    BY <1>5, <2>2, <2>3, MaxCuts
  <2>5. s.x = r.x /\ s.y = r.y /\ s.width = b /\ s.height = r.height
    BY <2>4, RectIs
  <2> DEFINE h == Trunc(b * q, p)
  <2>6. h \in Int
    BY <1>1, <1>7, TruncInt
  <2>7. result = Rect(s.x, IF "top" \in hit THEN s.y + s.height - h ELSE s.y, s.width, h)
    BY <1>4, <1>8, <2>5 DEF WithHeight
  <2> HIDE DEF h, result
  <2>8. result.width = b /\ result.height = h
    BY <2>5, <2>7 DEF Rect
  <2>9. b > 0
    BY <2>8 DEF Solid, result
  <2>10. h <= r.height
    BY <1>1, <1>2, <2>4, <2>9, ThereAndBack DEF h, w
  <2>11. Inside(result, k.max)
    BY <1>2, <1>3, <2>4, <2>5, <2>6, <2>7, <2>10 DEF Inside, Rect
  <2>12. HasRatio(result, p, q)
    BY <2>8 DEF HasRatio, h
  <2>13. Suits(k, result)
    BY <1>6, <2>11, <2>12 DEF Suits
  <2> QED BY <2>13 DEF result
<1>9. CASE hit \in LeftOrRight
  <2>1. "top" \notin hit
    BY <1>9 DEF LeftOrRight
  <2> DEFINE h == Trunc(r.width * q, p)
  <2>2. h \in Int
    BY <1>1, <1>2, <1>7, TruncInt
  <2>3. FirstPassOf(k, r, hit) = Rect(r.x, r.y, r.width, h)
    BY <1>4, <1>9, <2>1 DEF WithHeight
  <2> HIDE DEF h
  <2>4. PICK b \in Int : s = Rect(r.x, r.y, r.width, b) /\ b <= h /\ r.y + b <= k.max.height
    BY <1>5, <2>2, <2>3, MaxCuts
  <2>5. s.x = r.x /\ s.y = r.y /\ s.width = r.width /\ s.height = b
    BY <2>4, RectIs
  <2> DEFINE w == Trunc(b * p, q)
  <2>6. w \in Int
    BY <1>1, <1>7, TruncInt
  <2>7. result = Rect(IF "left" \in hit THEN s.x + s.width - w ELSE s.x, s.y, w, s.height)
    BY <1>4, <1>9, <2>5 DEF WithWidth
  <2> HIDE DEF w, result
  <2>8. result.width = w /\ result.height = b
    BY <2>5, <2>7 DEF Rect
  <2>9. b > 0
    BY <2>8 DEF Solid, result
  <2>10. w <= r.width
    BY <1>1, <1>2, <2>4, <2>9, ThereAndBack DEF h, w
  <2>11. Inside(result, k.max)
    BY <1>2, <1>3, <2>4, <2>5, <2>6, <2>7, <2>10 DEF Inside, Rect
  <2>12. HasRatio(result, p, q)
    BY <2>8 DEF HasRatio, w
  <2>13. Suits(k, result)
    BY <1>6, <2>11, <2>12 DEF Suits
  <2> QED BY <2>13 DEF result
<1> QED BY <1>8, <1>9 DEF OneSided

(* What the corrections of a handle leave suits the rules.                 *)
LEMMA AdjustSuits ==
  ASSUME NEW k \in Rules, k.fixed = NotFixed, NEW r \in Rectangle, NEW hit, hit # NoHandle,
         k.ratio[1] = 0 \/ k.orientation # 0 \/ hit \notin OneSided,
         Solid(AdjustTrackerRect(k, r, hit))
  PROVE  Suits(k, AdjustTrackerRect(k, r, hit))
<1> DEFINE limited == AdjustTrackerRectMax(k, r, hit)
           first == FirstPassOf(k, limited, hit)
           second == AdjustTrackerRectMax(k, first, hit)
           last == LastPassOf(k, second, hit)
<1>1. limited \in Rectangle /\ Inside(limited, k.max)
  BY MaxTypes, MaxInside
<1>2. ~(k.fixed[1] > 0 /\ k.fixed[2] > 0)
  BY DEF NotFixed
<1>3. CASE k.ratio[1] = 0
  <2>1. AdjustTrackerRect(k, r, hit) = limited
    BY <1>2, <1>3 DEF AdjustTrackerRect
  <2> QED BY <1>1, <1>3, <2>1 DEF Suits
<1>4. CASE k.ratio[1] # 0
  <2>1. k.ratio[1] > 0
    BY <1>4 DEF Rules
  <2>2. AdjustTrackerRect(k, r, hit) = last
    BY <1>2, <1>4 DEF AdjustTrackerRect, FirstPassOf, LastPassOf
  <2> HIDE DEF limited
  <2>3. first \in Rectangle
    BY <1>1, <1>4, RatioTypes DEF FirstPassOf
  <2>4. second \in Rectangle /\ Inside(second, k.max)
    <3> HIDE DEF first
    <3> QED BY <2>3, MaxTypes, MaxInside
  <2>5. CASE hit \notin OneSided
    <3> HIDE DEF second
    <3>1. Solid(LastPassOf(k, second, hit))
      BY <2>2
    <3>2. Suits(k, LastPassOf(k, second, hit))
      BY <2>1, <2>4, <2>5, <3>1, SecondPassOf DEF LastPassOf
    <3> QED BY <2>2, <3>2
  <2>6. CASE hit \in OneSided
    <3>1. k.orientation # 0
      BY <1>4, <2>6
    <3>2. Solid(last)
      BY <2>2
    <3>3. Suits(k, last)
      BY <1>1, <2>1, <2>6, <3>1, <3>2, OneSideKept
    <3> QED BY <2>2, <3>3
  <2> QED BY <2>5, <2>6
<1> QED BY <1>3, <1>4

(* The handles a click can hit, and those a drag across a side turns them  *)
(* into.                                                                   *)
TwoSided == {{"top", "left"}, {"top", "right"}, {"bottom", "left"}, {"bottom", "right"}}

LEMMA HitIs ==
  ASSUME NEW r, NEW p
  PROVE  HitTest(r, p) \in {Outside, NoHandle} \cup OneSided \cup TwoSided
<1> DEFINE x == p[1] - r.x
           y == p[2] - r.y
           z == HandlesWidth
           Middle(at, size) == (size - z) \div 2 <= at /\ at <= (size + z) \div 2
           column == IF x >= r.width - z THEN {"right"}
                     ELSE IF x <= z THEN {"left"} ELSE NoHandle
           corner(side) ==
             IF x < r.width - z /\ Middle(x, r.width) THEN {side}
             ELSE IF column = NoHandle THEN NoHandle ELSE column \cup {side}
           Handles == {Outside, NoHandle} \cup OneSided \cup TwoSided
<1>1. column \in {{"right"}, {"left"}, NoHandle}
  OBVIOUS
<1>2. HitTest(r, p) \in {Outside, corner("bottom"), column, corner("top"), NoHandle}
  BY DEF HitTest
<1> HIDE DEF column
<1>3. column \in Handles
  BY <1>1 DEF OneSided, LeftOrRight
<1>4. corner("bottom") \in {{"bottom"}, NoHandle, column \cup {"bottom"}}
      /\ corner("top") \in {{"top"}, NoHandle, column \cup {"top"}}
      /\ (column = NoHandle => corner("bottom") \in {{"bottom"}, NoHandle}
                               /\ corner("top") \in {{"top"}, NoHandle})
  OBVIOUS
<1> HIDE DEF corner
<1>5. {"top"} \in Handles /\ {"bottom"} \in Handles
  BY DEF OneSided, TopOrBottom
<1>6. column # NoHandle => column \cup {"bottom"} \in Handles /\ column \cup {"top"} \in Handles
  <2>1. /\ {"right"} \cup {"top"} = {"top", "right"} /\ {"left"} \cup {"top"} = {"top", "left"}
        /\ {"right"} \cup {"bottom"} = {"bottom", "right"}
        /\ {"left"} \cup {"bottom"} = {"bottom", "left"}
    OBVIOUS
  <2> QED BY <1>1, <2>1 DEF TwoSided
<1>7. corner("bottom") \in Handles /\ corner("top") \in Handles
  <2> HIDE DEF Handles
  <2>1. NoHandle \in Handles
    BY DEF Handles
  <2> QED BY <1>4, <1>5, <1>6, <2>1
<1>8. HitTest(r, p) \in Handles
  BY <1>2, <1>3, <1>7
<1> QED BY <1>8

LEMMA OppositeIs ==
  /\ \A hit \in OneSided : /\ Opposite(hit, "left", "right") \in OneSided
                           /\ Opposite(hit, "top", "bottom") \in OneSided
  /\ \A hit \in TwoSided : /\ Opposite(hit, "left", "right") \in TwoSided
                           /\ Opposite(hit, "top", "bottom") \in TwoSided
<1>1. /\ Opposite({"top"}, "left", "right") = {"top"}
      /\ Opposite({"bottom"}, "left", "right") = {"bottom"}
      /\ Opposite({"left"}, "left", "right") = {"right"}
      /\ Opposite({"right"}, "left", "right") = {"left"}
      /\ Opposite({"left"}, "top", "bottom") = {"left"}
      /\ Opposite({"right"}, "top", "bottom") = {"right"}
      /\ Opposite({"top"}, "top", "bottom") = {"bottom"}
      /\ Opposite({"bottom"}, "top", "bottom") = {"top"}
  BY DEF Opposite
<1>2. /\ Opposite({"top", "left"}, "left", "right") = {"top", "right"}
      /\ Opposite({"top", "right"}, "left", "right") = {"top", "left"}
      /\ Opposite({"bottom", "left"}, "left", "right") = {"bottom", "right"}
      /\ Opposite({"bottom", "right"}, "left", "right") = {"bottom", "left"}
  BY DEF Opposite
<1>3. /\ Opposite({"top", "left"}, "top", "bottom") = {"bottom", "left"}
      /\ Opposite({"top", "right"}, "top", "bottom") = {"bottom", "right"}
      /\ Opposite({"bottom", "left"}, "top", "bottom") = {"top", "left"}
      /\ Opposite({"bottom", "right"}, "top", "bottom") = {"top", "right"}
  BY DEF Opposite
<1>4. \A hit \in OneSided : /\ Opposite(hit, "left", "right") \in OneSided
                            /\ Opposite(hit, "top", "bottom") \in OneSided
  BY <1>1 DEF OneSided, TopOrBottom, LeftOrRight
<1>5. \A hit \in TwoSided : /\ Opposite(hit, "left", "right") \in TwoSided
                            /\ Opposite(hit, "top", "bottom") \in TwoSided
  BY <1>2, <1>3 DEF TwoSided
<1> QED BY <1>4, <1>5

LEMMA HandlesApart == /\ TwoSided \cap OneSided = {}
                      /\ NoHandle \notin OneSided /\ NoHandle \notin TwoSided
                      /\ Outside \notin OneSided \cup TwoSided /\ Outside # NoHandle
BY DEF TwoSided, OneSided, TopOrBottom, LeftOrRight, NoHandle, Outside, Sides

(* A click inside a rectangle finds it of no negative size.                *)
LEMMA HitSize ==
  ASSUME NEW r \in Rectangle, NEW p \in Int \X Int, HitTest(r, p) # Outside
  PROVE  r.width >= 0 /\ r.height >= 0
<1>1. /\ r.x \in Int /\ r.y \in Int /\ r.width \in Int /\ r.height \in Int
      /\ p[1] \in Int /\ p[2] \in Int
  BY DEF Rectangle
<1>2. ~(p[2] - r.y < 0 \/ p[2] - r.y > r.height \/ p[1] - r.x < 0 \/ p[1] - r.x > r.width)
  BY DEF HitTest
<1> QED BY <1>1, <1>2

(* What is drawn is what a release selects.                                *)
LEMMA DragSettles ==
  ASSUME Strong, Free, NEW p \in Points, Solid(Dragged(p)), ~MayTurn
  PROVE  Updated(rules, Dragged(p)) = Dragged(p)
<1> DEFINE under == HitTest(rect, leftClick)
           from == IF under = Outside THEN Rect(leftClick[1], leftClick[2], 1, 1) ELSE rect
           hit == IF under = Outside THEN {"bottom", "right"} ELSE under
           dx == p[1] - leftClick[1]
           dy == p[2] - leftClick[2]
           r == Moved(from, hit, dx, dy)
           mirrored == IF r.width < 0 THEN [r EXCEPT !.x = @ + r.width, !.width = -@] ELSE r
           turned == IF r.height < 0 THEN [mirrored EXCEPT !.y = @ + r.height, !.height = -@]
                     ELSE mirrored
           across == IF r.width < 0 THEN Opposite(hit, "left", "right") ELSE hit
           handle == IF r.height < 0 THEN Opposite(across, "top", "bottom") ELSE across
<1>1. /\ rect \in Rectangle /\ rules \in Rules /\ leftClick \in Int \X Int /\ Kept(rules, rect)
      /\ p \in Int \X Int /\ rules.fixed = NotFixed
  BY InputAssumption DEF Strong, Shown, Others, Free
<1>2. Dragged(p) \in Rectangle
  BY <1>1, DraggedTypes
<1>3. Dragged(p) = AdjustTrackerRect(rules, turned, handle)
  BY DEF Dragged
<1>4. dx \in Int /\ dy \in Int
  BY <1>1
<1>5. from \in Rectangle
  BY <1>1, RectTypes
<1>6. under \in {Outside, NoHandle} \cup OneSided \cup TwoSided
  BY HitIs
<1>7. rules.ratio[1] = 0 \/ rules.orientation # 0 \/ under \notin OneSided
  BY <1>1 DEF MayTurn, OneSide, OneSided, Rules
<1> HIDE DEF under, from, dx, dy
<1>8. r \in Rectangle
  BY <1>4, <1>5, MovedTypes
<1>9. Suits(rules, Dragged(p))
  <2>1. CASE under = NoHandle
    <3>1. under # Outside
      BY <2>1, HandlesApart
    <3>2. from = rect /\ hit = NoHandle /\ rect.width >= 0 /\ rect.height >= 0
      BY <1>1, <2>1, <3>1, HitSize DEF from, under
    <3>3. r = [rect EXCEPT !.x = @ + dx, !.y = @ + dy]
      BY <3>2 DEF Moved
    <3>4. r.width = rect.width /\ r.height = rect.height
      BY <1>1, <3>3 DEF Rectangle
    <3>5. ~(r.width < 0) /\ ~(r.height < 0)
      BY <1>1, <3>2, <3>4 DEF Rectangle
    <3>6. turned = r /\ handle = NoHandle
      BY <3>2, <3>5
    <3> HIDE DEF r, turned, handle, hit
    <3>7. rules.ratio[1] > 0 => InRatio(rules, r)
      <4>1. rules.ratio[1] > 0 => InRatio(rules, rect)
        BY <1>1, <3>2 DEF Kept
      <4>2. SameSize(rect, r)
        BY <3>4 DEF SameSize
      <4> QED BY <4>1, <4>2, SameRatio
    <3> DEFINE s == AdjustTrackerRect(rules, r, NoHandle)
    <3>8. s \in Rectangle /\ SameSize(s, r)
          /\ (r.width <= rules.max.width /\ r.height <= rules.max.height => Suits(rules, s))
      BY <1>1, <1>8, <3>7, MoveKeeps
    <3>9. Dragged(p) = s
      BY <1>3, <3>6
    <3> HIDE DEF s
    <3>10. Solid(rect)
      BY <3>4, <3>8, <3>9 DEF SameSize, Solid
    <3>11. Inside(rect, rules.max)
      BY <1>1, <3>10 DEF Kept, Bounded
    <3>12. rect.width <= rules.max.width /\ rect.height <= rules.max.height
      BY <1>1, <3>11 DEF Inside, Rectangle, Rules
    <3> QED BY <3>4, <3>8, <3>9, <3>12
  <2>2. CASE under # NoHandle
    <3>1. hit \in OneSided \cup TwoSided
      <4>1. {"bottom", "right"} \in TwoSided
        BY DEF TwoSided
      <4> QED BY <1>6, <2>2, <4>1
    <3>2. hit \in OneSided => under \in OneSided
      BY <3>1, HandlesApart DEF TwoSided
    <3> HIDE DEF hit, r, mirrored, turned
    <3>3. across \in OneSided \cup TwoSided /\ (across \in OneSided => hit \in OneSided)
      BY <3>1, OppositeIs, HandlesApart
    <3> HIDE DEF across
    <3>4. handle \in OneSided \cup TwoSided /\ (handle \in OneSided => across \in OneSided)
      BY <3>3, OppositeIs, HandlesApart
    <3> HIDE DEF handle
    <3>5. /\ handle # NoHandle
          /\ rules.ratio[1] = 0 \/ rules.orientation # 0 \/ handle \notin OneSided
      BY <1>7, <3>2, <3>3, <3>4, HandlesApart
    <3>6. turned \in Rectangle
      <4>1. mirrored \in Rectangle
        <5>1. r.x + r.width \in Int /\ -r.width \in Int
          BY <1>8 DEF Rectangle
        <5>2. [r EXCEPT !.x = r.x + r.width, !.width = -r.width] \in Rectangle
          BY <1>8, <5>1, SideTypes
        <5> QED BY <1>8, <5>2 DEF mirrored
      <4>2. mirrored.y + r.height \in Int /\ -mirrored.height \in Int
        BY <1>8, <4>1 DEF Rectangle
      <4>3. [mirrored EXCEPT !.y = mirrored.y + r.height, !.height = -mirrored.height] \in Rectangle
        BY <4>1, <4>2, SideTypes
      <4> QED BY <4>1, <4>3 DEF turned
    <3> QED BY <1>1, <1>3, <3>5, <3>6, AdjustSuits
  <2> QED BY <2>1, <2>2
<1> QED BY <1>1, <1>2, <1>9, UpdatedKeeps

(* An arrow moves a rectangle that suits the rules, and keeps its size.    *)
LEMMA ArrowsSettle == ASSUME Strong PROVE ArrowsKeepSize
<1>1. /\ rect \in Rectangle /\ rules \in Rules /\ Kept(rules, rect)
  BY DEF Strong, Shown
<1>2. ASSUME KeyHeard, Free, NEW dx \in Int, NEW dy \in Int PROVE SameSize(Nudged(dx, dy), rect)
  <2> DEFINE r == [rect EXCEPT !.x = @ + dx, !.y = @ + dy]
             s == AdjustTrackerRect(rules, r, NoHandle)
  <2>1. r \in Rectangle /\ SameSize(r, rect) /\ SameSize(rect, r)
    <3>1. rect.x + dx \in Int /\ rect.y + dy \in Int
      BY <1>1, <1>2 DEF Rectangle
    <3> QED BY <1>1, <3>1 DEF Rectangle, SameSize
  <2>2. rules.fixed = NotFixed
    BY <1>2 DEF Free
  <2>3. Solid(rect) /\ rect.width \in Int /\ rect.height \in Int
    BY <1>1, <1>2 DEF KeyHeard, Rectangle
  <2>4. Inside(rect, rules.max) /\ (rules.ratio[1] > 0 => InRatio(rules, rect))
    BY <1>1, <2>2, <2>3 DEF Kept, Bounded, Solid
  <2>5. r.width <= rules.max.width /\ r.height <= rules.max.height
    <3>1. rect.width <= rules.max.width /\ rect.height <= rules.max.height
      BY <1>1, <2>4 DEF Inside, Rectangle, Rules
    <3> QED BY <2>1, <3>1 DEF SameSize
  <2>6. Nudged(dx, dy) = Updated(rules, s)
    BY DEF Nudged
  <2> HIDE DEF r
  <2>7. s \in Rectangle /\ SameSize(s, r) /\ Suits(rules, s)
    <3>1. rules.ratio[1] > 0 => InRatio(rules, r)
      BY <2>1, <2>4, SameRatio
    <3> QED BY <1>1, <2>1, <2>2, <2>5, <3>1, MoveKeeps
  <2> HIDE DEF s
  <2>8. Updated(rules, s) = s
    BY <1>1, <2>2, <2>7, UpdatedKeeps
  <2> QED BY <2>1, <2>6, <2>7, <2>8 DEF SameSize
<1>3. ASSUME NEW n \in KeySteps, NEW s \in {-n, n} PROVE s \in Int /\ 0 \in Int
  BY InputAssumption DEF Positive
<1> QED BY <1>2, <1>3 DEF ArrowsKeepSize

(* Only the handler of the mouse draws.                                    *)
LEMMA CallsDoNotDraw == ASSUME Calls PROVE prevRect' = prevRect
<1>1. CASE Enable \/ Disable
  BY <1>1 DEF Enable, Disable, rectangle
<1>2. ASSUME NEW k, SetRules(k) PROVE prevRect' = prevRect
  BY <1>2 DEF SetRules
<1>3. ASSUME NEW k, NEW image, NEW zoom, NEW r, ShowWith(k, image, zoom, r)
      PROVE  prevRect' = prevRect
  BY <1>3 DEF ShowWith
<1>4. CASE \E ratio \in Ratios : SetRatio(ratio)
  BY <1>4, <1>2 DEF SetRatio
<1>5. CASE \E size \in FixedSizes : SetFixedSize(size)
  BY <1>5, <1>2 DEF SetFixedSize
<1>6. CASE \E o \in Orientations : SetOrientation(o)
  BY <1>6, <1>2 DEF SetOrientation
<1>7. CASE \E zoom \in Zooms : SetScale(zoom) \/ OnImageCrop(zoom)
  <2>1. ASSUME NEW zoom, SetScale(zoom) PROVE prevRect' = prevRect
    BY <2>1 DEF SetScale
  <2>2. ASSUME NEW zoom, OnImageCrop(zoom) PROVE prevRect' = prevRect
    BY <2>2, <1>3 DEF OnImageCrop
  <2> QED BY <1>7, <2>1, <2>2
<1>8. ASSUME NEW image, NEW zoom,
             ImageLoad(image, zoom) \/ OnImageRotate(image, zoom) \/ OnImageResize(image, zoom)
      PROVE  prevRect' = prevRect
  BY <1>8, <1>3 DEF ImageLoad, OnImageRotate, OnImageResize, Show
<1>9. ASSUME NEW image, NEW shown, NEW zoom, NEW r, NEW inclination,
             Undo(image, shown, zoom, r, inclination)
      PROVE  prevRect' = prevRect
  BY <1>9 DEF Undo
<1>10. ASSUME NEW image, NEW zoom, NEW w, NEW h, OnImageInclin(image, zoom, w, h)
       PROVE  prevRect' = prevRect
  BY <1>10 DEF OnImageInclin
<1>11. CASE OnImageFlip
  BY <1>11, <1>2 DEF OnImageFlip
<1>12. CASE OnImageCropFailed
  BY <1>12 DEF OnImageCropFailed
<1> QED
  BY <1>1, <1>4, <1>5, <1>6, <1>7, <1>8, <1>9, <1>10, <1>11, <1>12 DEF Calls

(* Correcting a rectangle that was corrected changes nothing: an arrow     *)
(* keeps the size of the selection, and a release selects what was drawn,  *)
(* for every picture, scale, ratio, rectangle and way of the mouse         *)
(* (AdjustTrackerRect, its two passes and Update).                         *)
THEOREM CorrectionsAreSettled == Spec => CorrectionsSettle
<1>1. Strong => ArrowsKeepSize
  BY ArrowsSettle
<1>2. Strong /\ [Next]_vars
        => [Draws /\ Free /\ Solid(prevRect') /\ ~MayTurn
              => Updated(rules, prevRect') = prevRect']_vars
  <2> SUFFICES ASSUME Strong, Next, Draws, Free, Solid(prevRect'), ~MayTurn
               PROVE  Updated(rules, prevRect') = prevRect'
    BY DEF Draws, vars
  <2>1. prevRect' # prevRect
    BY DEF Draws
  <2>2. prevRect' # NullRect
    <3>1. NullRect.width = -1
      BY DEF NullRect, Rect
    <3> QED BY <3>1 DEF Solid
  <2>3. CASE \E p \in Points, pressed \in {held, TRUE} : OnMouseMotion(p, pressed)
    <3>1. PICK p \in Points : prevRect' \in {Dragged(p), prevRect}
      BY <2>3 DEF OnMouseMotion
    <3>2. prevRect' = Dragged(p)
      BY <2>1, <3>1
    <3> QED BY <3>2, DragSettles
  <2>4. CASE PressElsewhere \/ ReleaseElsewhere \/ OnMouseLeftUp
    BY <2>1, <2>4 DEF PressElsewhere, ReleaseElsewhere, OnMouseLeftUp, rectangle
  <2>5. CASE \E p \in Points : OnMouseLeftDown(p)
    BY <2>1, <2>2, <2>5 DEF OnMouseLeftDown, rectangle
  <2>6. CASE Keys
    BY <2>1, <2>2, <2>6 DEF Keys, Escape, Arrow, ShiftArrow
  <2>7. CASE Calls
    BY <2>1, <2>7, CallsDoNotDraw
  <2> QED BY <2>3, <2>4, <2>5, <2>6, <2>7 DEF Next, Mouse
<1> QED BY <1>1, <1>2, SelectionKept, PTL DEF Spec, CorrectionsSettle, DrawnIsSelected

-----------------------------------------------------------------------------
(* The searches.                                                           *)

Qualities == 0 .. 100
Right(c) == {q \in Qualities : c[1] <= q /\ q <= c[2]}

(* The qualities that have not been excluded lie from s_low to s_high, and *)
(* the one that is tried next is in their middle, or is the first one, or  *)
(* has given the length already.                                           *)
Halving ==
  /\ {s_guess, s_last, s_low, s_high} \subseteq Qualities /\ s_low <= s_guess /\ s_guess <= s_high
  /\ s_curve \in Curves =>
       /\ s_low = 0 \/ s_low < s_curve[1]
       /\ s_high = 100 \/ s_high > s_curve[2]
  /\ \/ s_guess = 80 /\ s_last = 0 /\ s_low = 0 /\ s_high = 100
     \/ s_guess = (s_low + s_high) \div 2 /\ s_last \in {s_low, s_high}
     \/ s_guess = s_last /\ (s_curve \in Curves => s_guess \in Right(s_curve))

SearchInv ==
  /\ s_picture \in [width : Positive, height : Positive, porl : -1 .. 1]
  /\ s_job \in {"quality", "quality found"} =>
       s_curve \in Curves \cup {Erratic} /\ Halving
  /\ s_job = "quality found" => Size!Abs(s_guess - s_last) <= 1
  /\ s_job = "fixed" => Size!SizeLies

LEMMA CurveType == ASSUME NEW c \in Curves PROVE c # Erratic /\ c[1] \in Int /\ c[2] \in Int
  BY SearchAssumption DEF Size!CurvesAssumption

LEMMA AbsIs ==
  ASSUME NEW m \in Int, NEW n \in Int, NEW k \in Nat
  PROVE  Size!Abs(m - n) <= k <=> m - n <= k /\ n - m <= k
  BY DEF Size!Abs

LEMMA QualityType == ASSUME Halving
                     PROVE  {s_guess, s_last, s_low, s_high} \subseteq Int
  BY DEF Halving, Qualities

(* A search that stops is near the length, if a quality gives it.          *)
LEMMA HalvingNear ==
  ASSUME Halving, s_curve \in Curves, NEW q \in Right(s_curve), Size!Abs(s_guess - s_last) <= 1
  PROVE  \E x \in Right(s_curve) : Size!Abs(s_guess - x) <= 2
<1>1. /\ s_guess \in Int /\ s_last \in Int /\ s_low \in Int /\ s_high \in Int
      /\ s_curve[1] \in Int /\ s_curve[2] \in Int /\ q \in Int
      /\ s_guess - s_last <= 1 /\ s_last - s_guess <= 1
  <2>1. s_guess \in Int /\ s_last \in Int /\ s_low \in Int /\ s_high \in Int
    BY QualityType
  <2>2. s_guess - s_last <= 1 /\ s_last - s_guess <= 1
    BY <2>1, AbsIs
  <2>3. q \in Int
    BY DEF Right, Qualities
  <2> QED BY <2>1, <2>2, <2>3, CurveType
<1>2. CASE s_guess \in Right(s_curve)
  <2>1. Size!Abs(s_guess - s_guess) <= 2
    BY <1>1, AbsIs
  <2> QED BY <1>2, <2>1
<1>3. CASE s_guess = (s_low + s_high) \div 2 /\ s_last \in {s_low, s_high}
  <2>1. s_low <= q /\ q <= s_high
    BY <1>1 DEF Halving, Right, Qualities
  <2>2. s_guess - q <= 2 /\ q - s_guess <= 2
    BY <1>1, <1>3, <2>1
  <2> QED BY <1>1, <2>2, AbsIs
<1>4. s_guess # 80 \/ s_last # 0
  BY <1>1
<1> QED BY <1>2, <1>3, <1>4 DEF Halving

(* A turn of the search. *)
LEMMA HalvingTried ==
  ASSUME Halving, ~(Size!Abs(s_guess - s_last) <= 1), UNCHANGED s_curve,
         s_curve \in Curves \cup {Erratic},
         NEW l \in Size!LengthAt(s_curve, s_guess), Size!Halved(l)
  PROVE  Halving'
<1>0. /\ s_guess \in Qualities /\ s_last \in Qualities /\ s_low \in Qualities /\ s_high \in Qualities
      /\ s_low <= s_guess /\ s_guess <= s_high
  BY DEF Halving
<1>1. /\ s_last' = s_guess
      /\ l = "above" => s_high' = s_guess /\ s_low' = s_low /\ s_guess' = (s_guess + s_low) \div 2
      /\ l = "below" => s_high' = s_high /\ s_low' = s_guess /\ s_guess' = (s_guess + s_high) \div 2
      /\ l \notin {"above", "below"} => UNCHANGED <<s_high, s_low, s_guess>>
  BY DEF Size!Halved
<1>2. /\ l \in {"below", "wanted", "above"}
      /\ s_curve \in Curves =>
           /\ l = "below" <=> s_guess < s_curve[1]
           /\ l = "above" => s_guess > s_curve[2]
           /\ l = "wanted" => s_guess \in Right(s_curve)
  BY <1>0, CurveType DEF Size!LengthAt, Size!Lengths, Right, Qualities
<1>3. CASE l = "above"
  BY <1>0, <1>1, <1>2, <1>3 DEF Halving, Qualities
<1>4. CASE l = "below"
  BY <1>0, <1>1, <1>2, <1>4 DEF Halving, Qualities
<1>5. CASE l = "wanted"
  BY <1>0, <1>1, <1>2, <1>5 DEF Halving, Qualities
<1> QED BY <1>2, <1>3, <1>4, <1>5

(* What is left of the commands: the size that is typed.                   *)
LEMMA SizeTyped ==
  ASSUME NEW p \in [width : Positive, height : Positive, porl : -1 .. 1],
         NEW w \in Sizes, NEW h \in Sizes, NEW box \in BoxRatios \cup {<<>>},
         NEW d, d = Size!Oriented(p, Size!FixedSize(p, w, h, box)), d # <<>>
  PROVE  /\ p.porl > 0 => d[1] >= d[2]
         /\ p.porl < 0 => d[1] <= d[2]
         /\ p.porl = 0 /\ p.width > p.height => d[1] >= d[2]
         /\ p.porl = 0 /\ p.width < p.height => d[1] <= d[2]
<1> DEFINE r == Size!RatioOf(p, box)
           e == Size!FixedSize(p, w, h, box)
<1>1. w \in Nat /\ h \in Nat /\ p.width \in Positive /\ p.height \in Positive /\ p.porl \in Int
  BY SearchAssumption DEF Size!SizesAssumption
<1>2. r[1] \in Nat /\ r[2] \in Positive
  <2>1. CASE box = <<>>
    <3>1. r = <<p.width \div p.height, 1>>
      BY <2>1 DEF Size!RatioOf
    <3>2. p.width \div p.height \in Nat
      BY <1>1 DEF Positive
    <3> QED BY <3>1, <3>2 DEF Positive
  <2>2. CASE box # <<>>
    <3>1. box \in Positive \X Positive /\ r = box
      BY <2>2, SearchAssumption DEF Size!SizesAssumption, Size!RatioOf, Positive
    <3> QED BY <3>1 DEF Positive
  <2> QED BY <2>1, <2>2
<1>3. e = <<>> \/ \E a, b \in Int : e = <<a, b>>
  <2> HIDE DEF r
  <2>1. CASE w > 0 /\ h > 0
    <3>1. e = <<w, h>>
      BY <1>1, <2>1 DEF Size!FixedSize
    <3> QED BY <1>1, <3>1
  <2>2. CASE w > 0 /\ h <= 0 /\ r[1] > 0
    <3>1. e = <<w, (w * r[2]) \div r[1]>>
      BY <1>1, <2>2 DEF Size!FixedSize, r
    <3>2. w * r[2] \in Int
      BY <1>1, <1>2 DEF Positive
    <3>3. (w * r[2]) \div r[1] \in Int
      BY <1>2, <2>2, <3>2
    <3> QED BY <1>1, <3>1, <3>3
  <2>3. CASE w <= 0 /\ h > 0 /\ r[1] > 0
    <3>1. e = <<(h * r[1]) \div r[2], h>>
      BY <1>1, <2>3 DEF Size!FixedSize, r
    <3>2. h * r[1] \in Int
      BY <1>1, <1>2 DEF Positive
    <3>3. (h * r[1]) \div r[2] \in Int
      BY <1>2, <3>2 DEF Positive
    <3> QED BY <1>1, <3>1, <3>3
  <2>4. CASE ~(w > 0 /\ h > 0) /\ ~(w > 0 /\ h <= 0 /\ r[1] > 0) /\ ~(w <= 0 /\ h > 0 /\ r[1] > 0)
    BY <1>1, <2>4 DEF Size!FixedSize, r
  <2> QED BY <2>1, <2>2, <2>3, <2>4
<1> HIDE DEF e
<1>4. e # <<>>
  BY DEF Size!Oriented, e
<1>5. PICK a \in Int, b \in Int : e = <<a, b>>
  BY <1>3, <1>4
<1>6. d = IF Size!Turned(p, e) THEN <<b, a>> ELSE <<a, b>>
  BY <1>5 DEF Size!Oriented, e
<1>7. Size!Turned(p, e) <=> \/ p.porl = 0 /\ p.width > p.height /\ a < b
                            \/ p.porl = 0 /\ p.width < p.height /\ a > b
                            \/ p.porl > 0 /\ a < b
                            \/ p.porl < 0 /\ a > b
  BY <1>5 DEF Size!Turned
<1>8. \/ Size!Turned(p, e) /\ d[1] = b /\ d[2] = a
      \/ ~Size!Turned(p, e) /\ d[1] = a /\ d[2] = b
  BY <1>6
<1> QED BY <1>1, <1>5, <1>7, <1>8 DEF Positive

LEMMA SearchInit == ASSUME PartsInit PROVE SearchInv
<1>1. s_job = "idle" /\ s_picture = [width |-> 1, height |-> 1, porl |-> 0]
  BY DEF PartsInit, Size!Init
<1>2. s_picture \in [width : Positive, height : Positive, porl : -1 .. 1]
  BY <1>1 DEF Positive
<1> QED BY <1>1, <1>2 DEF SearchInv

LEMMA SearchKept == ASSUME SearchInv, UNCHANGED sizeVars PROVE SearchInv'
  BY DEF SearchInv, Halving, Size!SizeLies, sizeVars

LEMMA SearchStep == ASSUME SearchInv, Size!Next PROVE SearchInv'
<1>1. ASSUME NEW c \in Curves \cup {Erratic}, Size!OnImageJPEGDetectQuality(c) PROVE SearchInv'
  <2>1. /\ s_job' = "quality" /\ s_curve' = c /\ s_guess' = 80 /\ s_last' = 0
        /\ s_low' = 0 /\ s_high' = 100 /\ UNCHANGED s_picture
    BY <1>1 DEF Size!OnImageJPEGDetectQuality
  <2>2. Halving'
    BY <2>1 DEF Halving, Qualities
  <2> QED BY <1>1, <2>1, <2>2 DEF SearchInv
<1>2. ASSUME NEW p \in Pictures, NEW porl \in -1 .. 1,
             Size!ChoosePicture([width |-> p[1], height |-> p[2], porl |-> porl])
      PROVE  SearchInv'
  <2>1. /\ s_job' = "idle" /\ s_picture' = [width |-> p[1], height |-> p[2], porl |-> porl]
    BY <1>2 DEF Size!ChoosePicture
  <2>2. p \in Positive \X Positive
    BY SearchAssumption DEF Size!SizesAssumption, Positive
  <2>3. s_picture' \in [width : Positive, height : Positive, porl : -1 .. 1]
    BY <2>1, <2>2
  <2> QED BY <2>1, <2>3 DEF SearchInv
<1>3. ASSUME NEW n \in Sizes, Size!ResizePercent(n) PROVE SearchInv'
  <2>1. s_job' \in {"refused", "percent"} /\ UNCHANGED s_picture
    BY <1>3 DEF Size!ResizePercent, Size!ResizeTo
  <2> QED BY <2>1 DEF SearchInv
<1>4. ASSUME NEW w \in Sizes, NEW h \in Sizes, NEW box \in BoxRatios \cup {<<>>},
             Size!ResizeFixed(w, h, box)
      PROVE  SearchInv'
  <2> DEFINE d == Size!Oriented(s_picture, Size!FixedSize(s_picture, w, h, box))
  <2>1. s_dest' = d /\ s_job' = (IF d = <<>> THEN "refused" ELSE "fixed") /\ UNCHANGED s_picture
    BY <1>4 DEF Size!ResizeFixed, Size!ResizeTo
  <2>2. s_picture \in [width : Positive, height : Positive, porl : -1 .. 1]
    BY DEF SearchInv
  <2>3. ASSUME d # <<>> PROVE Size!SizeLies'
    <3>1. /\ s_picture.porl > 0 => d[1] >= d[2]
          /\ s_picture.porl < 0 => d[1] <= d[2]
          /\ s_picture.porl = 0 /\ s_picture.width > s_picture.height => d[1] >= d[2]
          /\ s_picture.porl = 0 /\ s_picture.width < s_picture.height => d[1] <= d[2]
      BY <2>2, <2>3, SizeTyped
    <3>2. s_picture.porl \in Int
      BY <2>2
    <3> HIDE DEF d
    <3> QED BY <2>1, <3>1, <3>2 DEF Size!SizeLies
  <2> HIDE DEF d
  <2> QED BY <2>1, <2>2, <2>3 DEF SearchInv
<1>5. ASSUME NEW c \in RatioCurves \cup {Erratic}, NEW large \in BOOLEAN, Size!ResizeBytes(c, large)
      PROVE  SearchInv'
  <2>1. s_job' \in {"size", "size found"} /\ UNCHANGED s_picture
    BY <1>5 DEF Size!ResizeBytes
  <2> QED BY <2>1 DEF SearchInv
<1>6. ASSUME Size!QualityTried PROVE SearchInv'
  <2>1. /\ s_job = "quality" /\ ~(Size!Abs(s_guess - s_last) <= 1)
        /\ UNCHANGED <<s_job, s_curve, s_picture, s_dest>>
    <3>1. ASSUME Size!Abs(s_guess - s_last) > 1, Halving PROVE ~(Size!Abs(s_guess - s_last) <= 1)
      BY <3>1, QualityType DEF Size!Abs
    <3> QED BY <1>6, <3>1 DEF Size!QualityTried, SearchInv
  <2>2. PICK l \in Size!LengthAt(s_curve, s_guess) : Size!Halved(l)
    BY <1>6 DEF Size!QualityTried
  <2>3. Halving /\ s_curve \in Curves \cup {Erratic}
    BY <2>1 DEF SearchInv
  <2>4. Halving'
    BY <2>1, <2>2, <2>3, HalvingTried
  <2> QED BY <2>1, <2>3, <2>4 DEF SearchInv
<1>7. ASSUME Size!QualityFound PROVE SearchInv'
  BY <1>7 DEF Size!QualityFound, SearchInv, Halving
<1>8. ASSUME Size!SizeTried PROVE SearchInv'
  BY <1>8 DEF Size!SizeTried, SearchInv
<1>9. ASSUME Size!SizeFound PROVE SearchInv'
  BY <1>9 DEF Size!SizeFound, SearchInv
<1>10. ASSUME Size!Done PROVE SearchInv'
  BY <1>10 DEF Size!Done, SearchInv
<1> QED BY <1>1, <1>2, <1>3, <1>4, <1>5, <1>6, <1>7, <1>8, <1>9, <1>10 DEF Size!Next, Size!Search

LEMMA SearchGives == ASSUME SearchInv PROVE SearchesFind
<1>1. Size!QualityNear
  <2> SUFFICES ASSUME s_job = "quality found", s_curve # Erratic, Right(s_curve) # {}
               PROVE  \E x \in Right(s_curve) : Size!Abs(s_guess - x) <= 2
    BY DEF Size!QualityNear, Right, Qualities
  <2>1. Halving /\ s_curve \in Curves /\ Size!Abs(s_guess - s_last) <= 1
    BY DEF SearchInv
  <2>2. PICK q \in Right(s_curve) : TRUE
    OBVIOUS
  <2> QED BY <2>1, <2>2, HalvingNear
<1>2. Size!SizeLies
  <2>1. CASE s_job = "fixed"
    BY <2>1 DEF SearchInv
  <2>2. CASE s_job # "fixed"
    BY <2>2 DEF Size!SizeLies
  <2> QED BY <2>1, <2>2
<1> QED BY <1>1, <1>2 DEF SearchesFind

(* Whatever the curve of the lengths, the quality found is near one that   *)
(* gives the length of the photo, when there is one                        *)
(* (OnImageJPEGDetectQuality), and whatever is typed, the size lies as the *)
(* orientation chosen or the picture does (Resize).                        *)
THEOREM SearchesAreRight == PartsSpec => []SearchesFind
<1>1. PartsInit => SearchInv
  BY SearchInit
<1>2. SearchInv /\ [PartsNext]_partsVars => SearchInv'
  <2> SUFFICES ASSUME SearchInv, [PartsNext]_partsVars PROVE SearchInv'
    OBVIOUS
  <2>1. CASE Size!Next
    BY <2>1, SearchStep
  <2>2. CASE UNCHANGED sizeVars
    BY <2>2, SearchKept
  <2> QED BY <2>1, <2>2 DEF PartsNext, Alone, partsVars
<1>3. SearchInv => SearchesFind
  BY SearchGives
<1> QED BY <1>1, <1>2, <1>3, PTL DEF PartsSpec

-----------------------------------------------------------------------------
(* The line.                                                               *)

Spots == Int \X Int
Bounds == [x : {0}, y : {0}, width : Nat, height : Nat]

LineTypes ==
  /\ l_rect \in Rectangle /\ l_max \in Bounds
  /\ l_curBegin \in Spots /\ l_curEnd \in Spots /\ l_leftClick \in Spots
  /\ l_view \in [image : Positive \X Positive, zoom : Positive]

LineInv == LineTypes /\ Line!LineAsDrawn /\ Line!LineCaptureOwned

LEMMA PosIs == ASSUME NEW r \in Rectangle, NEW c PROVE Line!PosHandler(r, c) \in Spots
<1>1. /\ r.x \in Int /\ r.y \in Int /\ r.width - 1 \in Int /\ r.height - 1 \in Int
  BY DEF Rectangle
<1> DEFINE a == r.x + (IF "right" \in c THEN r.width - 1 ELSE 0)
           b == r.y + (IF "bottom" \in c THEN r.height - 1 ELSE 0)
<1>2. a \in Int /\ b \in Int
  BY <1>1
<1>3. Line!PosHandler(r, c) = IF c = {} THEN <<-1, -1>> ELSE <<a, b>>
  BY DEF Line!PosHandler
<1> HIDE DEF a, b
<1> QED BY <1>2, <1>3 DEF Spots

(* The two points a line is made of are its begin and its end.             *)
LEMMA DiagonalEnds ==
  ASSUME NEW b \in Spots, NEW e \in Spots, NEW d, d = Line!Diagonal(b, e)
  PROVE  /\ d.rect \in Rectangle
         /\ Line!PosHandler(d.rect, d.begin) = b /\ Line!PosHandler(d.rect, d.end) = e
<1>1. /\ b[1] \in Int /\ b[2] \in Int /\ e[1] \in Int /\ e[2] \in Int
      /\ b = <<b[1], b[2]>> /\ e = <<e[1], e[2]>>
  BY DEF Spots
<1> QED BY <1>1 DEF Line!Diagonal, Line!PosHandler, Line!Corner, Line!Smaller, Line!Distance,
                    Line!Base!Rect, Rectangle

(* A line that is shown between two points.                                *)
LEMMA ShownEnds ==
  ASSUME NEW b \in Spots, NEW e \in Spots, Line!SetTrackerPosition(b, e)
  PROVE  l_rect' \in Rectangle /\ Line!PosBegin' = b /\ Line!PosEnd' = e
<1> DEFINE d == Line!Diagonal(b, e)
<1>1. d.rect \in Rectangle /\ Line!PosHandler(d.rect, d.begin) = b
      /\ Line!PosHandler(d.rect, d.end) = e
  BY DiagonalEnds
<1>2. l_rect' = d.rect /\ l_begin' = d.begin /\ l_end' = d.end
  BY DEF Line!SetTrackerPosition, Line!Shown
<1> HIDE DEF d
<1> QED BY <1>1, <1>2 DEF Line!PosBegin, Line!PosEnd

(* Each end is brought within the limits once.                             *)
LEMMA WithinIs ==
  ASSUME l_max \in Bounds, NEW p \in Spots
  PROVE  Line!Within(p) \in Spots /\ Line!Within(Line!Within(p)) = Line!Within(p)
<1>1. p[1] \in Int /\ p[2] \in Int /\ l_max.width \in Nat /\ l_max.height \in Nat
  BY DEF Spots, Bounds
<1> DEFINE L(a, size) == IF a < 0 THEN 0 ELSE IF a > size THEN size ELSE a
<1>2. ASSUME NEW q PROVE Line!Within(q) = <<L(q[1], l_max.width), L(q[2], l_max.height)>>
  BY <1>1 DEF Line!Within
<1>3. ASSUME NEW a \in Int, NEW size \in Nat PROVE L(a, size) \in Int /\ L(L(a, size), size) = L(a, size)
  OBVIOUS
<1> HIDE DEF L
<1> QED BY <1>1, <1>2, <1>3 DEF Spots

LEMMA MovedIs ==
  ASSUME NEW p \in Spots, NEW q \in Spots PROVE Line!Moved(p, q) \in Spots
BY DEF Spots, Line!Moved

LEMMA CutIs ==
  ASSUME NEW area \in Bounds, NEW r \in Rectangle PROVE Line!Cut(area, r) \in Rectangle
<1> DEFINE resized == Line!Base!Outside # Line!Base!NoHandle
           across == Line!Base!Limited(r.x, r.width, area.x, area.width, resized)
           down == Line!Base!Limited(r.y, r.height, area.y, area.height, resized)
<1>1. /\ area.x = 0 /\ area.y = 0 /\ area.width \in Nat /\ area.height \in Nat
      /\ r.x \in Int /\ r.y \in Int /\ r.width \in Int /\ r.height \in Int
  BY DEF Bounds, Rectangle
<1>2. resized \in BOOLEAN
  OBVIOUS
<1>3. ASSUME NEW at \in Int, NEW size \in Int, NEW length \in Nat, NEW re \in BOOLEAN
      PROVE  /\ Line!Base!Limited(at, size, 0, length, re).at \in Int
             /\ Line!Base!Limited(at, size, 0, length, re).size \in Int
  BY DEF Line!Base!Limited
<1> HIDE DEF resized
<1>4. across.at \in Int /\ across.size \in Int /\ down.at \in Int /\ down.size \in Int
  BY <1>1, <1>2, <1>3
<1>5. Line!Cut(area, r) = IF area.width < 0 \/ area.height < 0 THEN r
                          ELSE Line!Base!Rect(across.at, down.at, across.size, down.size)
  BY DEF Line!Cut, Line!Base!AdjustTrackerRectMax, resized
<1> HIDE DEF across, down
<1> QED BY <1>4, <1>5 DEF Line!Base!Rect, Rectangle

LEMMA TruncIs ==
  ASSUME NEW a \in Int, NEW b \in Positive
  PROVE  Line!Base!Trunc(a, b) \in Int /\ (a >= 0 => Line!Base!Trunc(a, b) \in Nat)
BY DEF Line!Base!Trunc, Positive

LEMMA AreaIs ==
  ASSUME NEW image \in Positive \X Positive, NEW zoom \in Positive
  PROVE  /\ Line!Base!Area(image) \in Bounds
         /\ Line!Base!Area(Line!Base!Scaled(image, zoom)) \in Bounds
<1>1. image[1] \in Nat /\ image[2] \in Nat
  BY DEF Positive
<1>2. Line!Base!Trunc(image[1], zoom) \in Nat /\ Line!Base!Trunc(image[2], zoom) \in Nat
  BY <1>1, TruncIs
<1>3. ASSUME NEW a \in Nat, NEW b \in Nat PROVE Line!Base!Area(<<a, b>>) \in Bounds
  BY DEF Line!Base!Area, Line!Base!Rect, Bounds
<1>4. image = <<image[1], image[2]>>
  OBVIOUS
<1> QED BY <1>1, <1>2, <1>3, <1>4 DEF Line!Base!Scaled

LEMMA RectIn ==
  Line!Base!NullRect \in Rectangle /\ Line!Base!EmptyRect \in Rectangle
BY DEF Line!Base!NullRect, Line!Base!EmptyRect, Line!Base!Rect, Rectangle

LEMMA LineInit == ASSUME PartsInit PROVE LineInv
<1>1. Line!Init
  BY DEF PartsInit
<1>2. l_view \in [image : Positive \X Positive, zoom : Positive]
  BY <1>1, LineAssumption DEF Line!Init
<1>3. l_max \in Bounds
  <2>1. l_view.image \in Positive \X Positive /\ l_view.zoom \in Positive
    BY <1>2
  <2> QED BY <1>1, <2>1, AreaIs DEF Line!Init
<1>4. l_rect \in Rectangle /\ l_curBegin \in Spots /\ l_curEnd \in Spots /\ l_leftClick \in Spots
  BY <1>1, RectIn DEF Line!Init, Spots
<1>5. Line!LineAsDrawn /\ Line!LineCaptureOwned
  BY <1>1 DEF Line!Init, Line!LineAsDrawn, Line!LineCaptureOwned
<1> QED BY <1>2, <1>3, <1>4, <1>5 DEF LineInv, LineTypes

(* What the ends of the line and a click on it depend on.                  *)
LEMMA SameEnds ==
  ASSUME UNCHANGED <<l_rect, l_begin, l_end>>
  PROVE  UNCHANGED <<Line!PosBegin, Line!PosEnd>>
BY DEF Line!PosBegin, Line!PosEnd, Line!PosHandler

LEMMA SameWithin ==
  ASSUME UNCHANGED <<l_rect, l_begin, l_end, l_max>>
  PROVE  UNCHANGED <<Line!Within(Line!PosBegin), Line!Within(Line!PosEnd)>>
<1>1. Line!PosBegin' = Line!PosBegin /\ Line!PosEnd' = Line!PosEnd /\ l_max' = l_max
  BY SameEnds
<1> QED BY <1>1 DEF Line!Within

LEMMA SameHit ==
  ASSUME UNCHANGED <<l_rect, l_begin, l_end, l_leftClick>>
  PROVE  UNCHANGED Line!HitTest(l_rect, l_leftClick)
<1>1. l_rect' = l_rect /\ l_begin' = l_begin /\ l_end' = l_end /\ l_leftClick' = l_leftClick
  OBVIOUS
<1>2. UNCHANGED <<Line!PosHandler(l_rect, l_begin), Line!PosHandler(l_rect, l_end)>>
  BY <1>1 DEF Line!PosHandler
<1>3. UNCHANGED Line!Base!HitTest(l_rect, l_leftClick)
  BY <1>1, Zenon DEF Line!Base!HitTest
<1> QED BY <1>1, <1>2, <1>3, Zenon DEF Line!HitTest

LEMMA SameDrawn ==
  ASSUME Line!LineAsDrawn, l_fresh' => l_fresh,
         UNCHANGED <<l_rect, l_begin, l_end, l_curBegin, l_curEnd, l_leftClick, l_dragging, l_max>>
  PROVE  Line!LineAsDrawn'
<1>1. UNCHANGED <<Line!PosBegin, Line!PosEnd, Line!Within(Line!PosBegin), Line!Within(Line!PosEnd),
                  Line!HitTest(l_rect, l_leftClick)>>
  BY SameEnds, SameWithin, SameHit
<1> QED BY <1>1 DEF Line!LineAsDrawn

LEMMA LineKept == ASSUME LineInv, UNCHANGED lineVars PROVE LineInv'
<1>1. LineTypes'
  BY DEF LineInv, LineTypes, lineVars
<1>2. Line!LineAsDrawn'
  BY SameDrawn DEF LineInv, lineVars
<1>3. Line!LineCaptureOwned'
  BY DEF LineInv, Line!LineCaptureOwned, lineVars
<1> QED BY <1>1, <1>2, <1>3 DEF LineInv

(* A line drawn anew, and one a call has touched.                          *)
LEMMA DrawnAnew ==
  ASSUME Line!PosBegin' = l_curBegin', Line!PosEnd' = l_curEnd' PROVE Line!LineAsDrawn'
BY DEF Line!LineAsDrawn

LEMMA NotFresh == ASSUME l_fresh' = FALSE PROVE Line!LineAsDrawn'
BY DEF Line!LineAsDrawn

LEMMA ElsewhereKeeps ==
  ASSUME LineInv, Line!PressElsewhere \/ Line!ReleaseElsewhere PROVE LineInv'
<1>1. LineTypes'
  BY DEF LineInv, LineTypes, Line!PressElsewhere, Line!ReleaseElsewhere, Line!line, Line!drawn
<1>2. Line!LineAsDrawn'
  BY SameDrawn DEF LineInv, Line!PressElsewhere, Line!ReleaseElsewhere, Line!line, Line!drawn
<1>3. Line!LineCaptureOwned'
  BY DEF LineInv, Line!LineCaptureOwned, Line!PressElsewhere, Line!ReleaseElsewhere
<1> QED BY <1>1, <1>2, <1>3 DEF LineInv

LEMMA DownKeeps ==
  ASSUME LineInv, NEW p \in Spots, Line!OnMouseLeftDown(p) PROVE LineInv'
<1> DEFINE hidden == Line!Base!HitTest(l_rect, p) = Line!Base!Outside
           r == IF hidden THEN Line!Cut(l_max, Line!Base!NullRect) ELSE l_rect
           missed == Line!HitTest(r, p) = {}
<1>1. /\ l_held' = TRUE /\ l_dragging' = TRUE /\ l_captured' = TRUE /\ l_leftClick' = p
      /\ ~l_disabled /\ l_disabled' = l_disabled /\ l_max' = l_max /\ l_view' = l_view
  BY DEF Line!OnMouseLeftDown
<1>2. IF missed
      THEN l_curBegin' = p /\ l_curEnd' = p /\ Line!SetTrackerPosition(p, p)
      ELSE /\ l_rect' = r /\ l_fresh' = (l_fresh /\ ~hidden /\ ~l_dragging)
           /\ l_begin' = l_begin /\ l_end' = l_end
           /\ l_curBegin' = l_curBegin /\ l_curEnd' = l_curEnd
  BY Zenon DEF Line!OnMouseLeftDown, Line!drawn
<1>3. r \in Rectangle
  BY RectIn, CutIs DEF LineInv, LineTypes
<1>4. ~hidden => r = l_rect
  OBVIOUS
<1> HIDE DEF hidden, r, missed
<1>5. CASE missed
  <2>1. l_rect' \in Rectangle /\ Line!PosBegin' = p /\ Line!PosEnd' = p
    BY <1>2, <1>5, ShownEnds
  <2> QED BY <2>1, <1>1, <1>2, <1>5, DrawnAnew DEF LineInv, LineTypes, Line!LineCaptureOwned
<1>6. CASE ~missed
  <2>1. LineTypes'
    BY <1>1, <1>2, <1>3, <1>6 DEF LineInv, LineTypes
  <2>2. ASSUME l_fresh' PROVE Line!LineAsDrawn'
    <3>1. l_fresh /\ ~l_dragging /\ l_rect' = l_rect
      BY <2>2, <1>2, <1>4, <1>6
    <3>2. l_curBegin = Line!PosBegin /\ l_curEnd = Line!PosEnd
      BY <3>1 DEF LineInv, Line!LineAsDrawn
    <3>3. Line!PosBegin' = Line!PosBegin /\ Line!PosEnd' = Line!PosEnd
      BY <3>1, <1>2, <1>6, SameEnds
    <3> QED BY <3>2, <3>3, <1>2, <1>6, DrawnAnew
  <2>3. Line!LineAsDrawn'
    BY <2>2 DEF Line!LineAsDrawn
  <2> QED BY <2>1, <2>3, <1>1 DEF LineInv, Line!LineCaptureOwned
<1> QED BY <1>5, <1>6

LEMMA MotionKeeps ==
  ASSUME LineInv, NEW p \in Spots, Line!OnMouseMotion(p) PROVE LineInv'
<1> DEFINE hit == Line!HitTest(l_rect, l_leftClick)
           by == <<p[1] - l_leftClick[1], p[2] - l_leftClick[2]>>
           b == IF l_dragging THEN l_curBegin ELSE Line!PosBegin
           e == IF l_dragging THEN l_curEnd ELSE Line!PosEnd
           toB == IF "begin" \in hit THEN Line!Moved(Line!PosBegin, by) ELSE b
           toE == IF "end" \in hit THEN Line!Moved(Line!PosEnd, by) ELSE e
<1>1. /\ l_rect' = l_rect /\ l_begin' = l_begin /\ l_end' = l_end /\ l_leftClick' = l_leftClick
      /\ l_disabled' = l_disabled /\ l_max' = l_max /\ l_view' = l_view /\ l_held' = l_held
      /\ l_captured' = (l_captured /\ l_held)
  BY Zenon DEF Line!OnMouseMotion, Line!line
<1>2. IF l_held
      THEN /\ l_dragging' = TRUE /\ l_fresh' = (l_fresh \/ ~l_dragging)
           /\ l_curBegin' = Line!Within(toB) /\ l_curEnd' = Line!Within(toE)
      ELSE /\ l_dragging' = l_dragging /\ l_fresh' = l_fresh
           /\ l_curBegin' = l_curBegin /\ l_curEnd' = l_curEnd
  BY Zenon DEF Line!OnMouseMotion, Line!drawn
<1>3. Line!LineCaptureOwned'
  BY <1>1, <1>2 DEF LineInv, Line!LineCaptureOwned
<1>4. CASE ~l_held
  BY <1>1, <1>2, <1>3, <1>4, SameDrawn DEF LineInv, LineTypes
<1>5. CASE l_held
  <2>1. Line!PosBegin \in Spots /\ Line!PosEnd \in Spots
    BY PosIs DEF LineInv, LineTypes, Line!PosBegin, Line!PosEnd
  <2>2. by \in Spots
    BY DEF LineInv, LineTypes, Spots
  <2>3. b \in Spots /\ e \in Spots
    BY <2>1 DEF LineInv, LineTypes
  <2>4. Line!Moved(Line!PosBegin, by) \in Spots /\ Line!Moved(Line!PosEnd, by) \in Spots
    BY <2>1, <2>2, MovedIs
  <2>5. toB \in Spots /\ toE \in Spots
    BY <2>3, <2>4
  <2>6. l_max \in Bounds
    BY DEF LineInv, LineTypes
  <2>7. LineTypes'
    <3>1. l_curBegin' \in Spots /\ l_curEnd' \in Spots
      BY <2>5, <2>6, <1>2, <1>5, WithinIs
    <3> QED BY <3>1, <1>1 DEF LineInv, LineTypes
  <2>8. UNCHANGED <<Line!PosBegin, Line!PosEnd, Line!Within(Line!PosBegin), Line!Within(Line!PosEnd),
                    Line!HitTest(l_rect, l_leftClick)>>
    BY <1>1, SameEnds, SameWithin, SameHit
  <2>9. ASSUME l_fresh'
        PROVE  /\ b \in {Line!PosBegin, Line!Within(Line!PosBegin)} \/ "begin" \in hit
               /\ e \in {Line!PosEnd, Line!Within(Line!PosEnd)} \/ "end" \in hit
    BY <2>9, <1>2, <1>5 DEF LineInv, Line!LineAsDrawn
  <2>10. ASSUME l_fresh'
         PROVE  /\ "begin" \notin hit => l_curBegin' = Line!Within(Line!PosBegin)
                /\ "end" \notin hit => l_curEnd' = Line!Within(Line!PosEnd)
    <3>1. /\ Line!Within(Line!Within(Line!PosBegin)) = Line!Within(Line!PosBegin)
          /\ Line!Within(Line!Within(Line!PosEnd)) = Line!Within(Line!PosEnd)
      BY <2>1, <2>6, WithinIs
    <3>2. l_curBegin' = Line!Within(toB) /\ l_curEnd' = Line!Within(toE)
      BY <1>2, <1>5
    <3> HIDE DEF hit, b, e
    <3> QED BY <3>1, <3>2, <2>9, <2>10
  <2>11. Line!LineAsDrawn'
    BY <2>8, <2>10, <1>2, <1>5 DEF Line!LineAsDrawn
  <2> QED BY <2>7, <2>11, <1>3 DEF LineInv
<1> QED BY <1>4, <1>5

LEMMA UpKeeps == ASSUME LineInv, Line!OnMouseLeftUp PROVE LineInv'
<1>1. /\ l_captured' = FALSE /\ l_dragging' = FALSE /\ l_curBegin' = l_curBegin
      /\ l_curEnd' = l_curEnd /\ l_leftClick' = l_leftClick /\ l_max' = l_max /\ l_view' = l_view
  BY DEF Line!OnMouseLeftUp, Line!drawn
<1>2. CASE l_dragging
  <2>1. Line!SetTrackerPosition(l_curBegin, l_curEnd)
    BY <1>2 DEF Line!OnMouseLeftUp
  <2>2. l_rect' \in Rectangle /\ Line!PosBegin' = l_curBegin /\ Line!PosEnd' = l_curEnd
    BY <2>1, ShownEnds DEF LineInv, LineTypes
  <2> QED BY <1>1, <2>2, DrawnAnew DEF LineInv, LineTypes, Line!LineCaptureOwned
<1>3. CASE ~l_dragging
  <2>1. l_rect' = l_rect /\ l_begin' = l_begin /\ l_end' = l_end /\ l_fresh' = l_fresh
    BY <1>3 DEF Line!OnMouseLeftUp, Line!line
  <2>2. l_fresh' => Line!PosBegin' = l_curBegin' /\ Line!PosEnd' = l_curEnd'
    BY <1>1, <1>3, <2>1, SameEnds DEF LineInv, Line!LineAsDrawn
  <2>3. Line!LineAsDrawn'
    BY <2>2, DrawnAnew DEF Line!LineAsDrawn
  <2> QED BY <1>1, <2>1, <2>3 DEF LineInv, LineTypes, Line!LineCaptureOwned
<1> QED BY <1>2, <1>3

LEMMA EscapeKeeps == ASSUME LineInv, Line!Escape PROVE LineInv'
<1>1. /\ l_begin' = l_begin /\ l_end' = l_end /\ l_curBegin' = l_curBegin
      /\ l_curEnd' = l_curEnd /\ l_leftClick' = l_leftClick /\ l_dragging' = l_dragging
      /\ l_disabled' = l_disabled /\ l_max' = l_max /\ l_view' = l_view /\ l_held' = l_held
  BY DEF Line!Escape, Line!drawn
<1>2. CASE l_captured
  <2>1. l_captured' = FALSE /\ l_rect' = l_rect /\ l_fresh' = l_fresh
    BY <1>2 DEF Line!Escape
  <2> QED BY <1>1, <2>1, SameDrawn DEF LineInv, LineTypes, Line!LineCaptureOwned
<1>3. CASE ~l_captured
  <2>1. l_captured' = l_captured /\ l_rect' = Line!Base!NullRect /\ l_fresh' = FALSE
    BY <1>3 DEF Line!Escape
  <2> QED BY <1>1, <1>3, <2>1, RectIn, NotFresh DEF LineInv, LineTypes, Line!LineCaptureOwned
<1> QED BY <1>2, <1>3

LEMMA ArrowKeeps ==
  ASSUME LineInv, NEW by \in Spots, NEW shift \in BOOLEAN, Line!Arrow(by, shift) PROVE LineInv'
<1>1. /\ l_leftClick' = l_leftClick /\ l_dragging' = l_dragging /\ l_captured' = l_captured
      /\ l_disabled' = l_disabled /\ l_max' = l_max /\ l_view' = l_view /\ l_held' = l_held
  BY DEF Line!Arrow, Line!state
<1>2. l_curBegin' \in Spots /\ l_curEnd' \in Spots
  <2>1. l_curBegin \in Spots /\ l_curEnd \in Spots /\ l_max \in Bounds
    BY DEF LineInv, LineTypes
  <2>2. Line!Moved(l_curBegin, by) \in Spots /\ Line!Moved(l_curEnd, by) \in Spots
    BY <2>1, MovedIs
  <2>3. /\ l_curBegin' = Line!Within(IF shift THEN l_curBegin ELSE Line!Moved(l_curBegin, by))
        /\ l_curEnd' = Line!Within(Line!Moved(l_curEnd, by))
    BY DEF Line!Arrow
  <2> QED BY <2>1, <2>2, <2>3, WithinIs
<1>3. l_rect' \in Rectangle /\ Line!PosBegin' = l_curBegin' /\ Line!PosEnd' = l_curEnd'
  BY <1>2, ShownEnds DEF Line!Arrow
<1> QED BY <1>1, <1>2, <1>3, DrawnAnew DEF LineInv, LineTypes, Line!LineCaptureOwned

(* Calls of the window.                                                    *)
LEMMA ScalingIs ==
  ASSUME NEW v \in [image : Positive \X Positive, zoom : Positive], NEW r \in Rectangle,
         NEW zoom \in Positive, Line!Scaling(v, r, zoom)
  PROVE  /\ l_rect' \in Rectangle /\ l_max' \in Bounds
         /\ l_view' \in [image : Positive \X Positive, zoom : Positive]
<1> DEFINE whole == Line!Cut(Line!Base!Area(v.image), r)
           To(p) == <<Line!Base!Trunc(p[1] * v.zoom, zoom), Line!Base!Trunc(p[2] * v.zoom, zoom)>>
           l == Line!Diagonal(To(Line!PosHandler(whole, l_begin)), To(Line!PosHandler(whole, l_end)))
           now == Line!Base!Area(Line!Base!Scaled(v.image, zoom))
<1>1. l_rect' = Line!Cut(now, l.rect) /\ l_max' = now /\ l_view' = [v EXCEPT !.zoom = zoom]
  BY DEF Line!Scaling, Line!Shown, Line!Diagonal
<1>2. v.image \in Positive \X Positive /\ v.zoom \in Positive
  OBVIOUS
<1>3. now \in Bounds /\ Line!Base!Area(v.image) \in Bounds
  BY <1>2, AreaIs
<1>4. whole \in Rectangle
  BY <1>3, CutIs
<1>5. ASSUME NEW p \in Spots PROVE To(p) \in Spots
  <2>1. p[1] * v.zoom \in Int /\ p[2] * v.zoom \in Int
    BY <1>2 DEF Spots, Positive
  <2> QED BY <2>1, TruncIs DEF Spots
<1>6. l.rect \in Rectangle
  <2> HIDE DEF To, whole
  <2>1. Line!PosHandler(whole, l_begin) \in Spots /\ Line!PosHandler(whole, l_end) \in Spots
    BY <1>4, PosIs
  <2> QED BY <2>1, <1>5, DiagonalEnds
<1> HIDE DEF now, l
<1> QED BY <1>1, <1>3, <1>6, CutIs

LEMMA PictureIs ==
  ASSUME NEW image \in LineImages, NEW zoom \in LineZooms, Line!Picture(image, zoom)
  PROVE  l_max' \in Bounds /\ l_view' \in [image : Positive \X Positive, zoom : Positive]
<1>1. image \in Positive \X Positive /\ zoom \in Positive
  BY LineAssumption
<1> QED BY <1>1, AreaIs DEF Line!Picture

LEMMA SwitchKeeps == ASSUME LineInv, Line!Enable \/ Line!Disable PROVE LineInv'
<1>1. /\ l_curBegin' = l_curBegin /\ l_curEnd' = l_curEnd /\ l_leftClick' = l_leftClick
      /\ l_dragging' = l_dragging /\ l_max' = l_max /\ l_view' = l_view /\ l_held' = l_held
      /\ l_fresh' = FALSE
  BY DEF Line!Enable, Line!Disable, Line!Called, Line!drawn
<1>2. l_rect' \in Rectangle
  BY CutIs DEF LineInv, LineTypes, Line!Enable, Line!Disable, Line!line
<1>3. Line!LineCaptureOwned'
  BY <1>1 DEF LineInv, Line!LineCaptureOwned, Line!Enable, Line!Disable, Line!Disabling
<1> QED BY <1>1, <1>2, <1>3, NotFresh DEF LineInv, LineTypes

LEMMA SetScaleKeeps ==
  ASSUME LineInv, NEW zoom \in LineZooms, Line!SetScale(zoom) PROVE LineInv'
<1>1. zoom \in Positive
  BY LineAssumption
<1>2. /\ l_curBegin' = l_curBegin /\ l_curEnd' = l_curEnd /\ l_leftClick' = l_leftClick
      /\ l_dragging' = l_dragging /\ l_captured' = l_captured /\ l_disabled' = l_disabled
      /\ l_held' = l_held /\ l_fresh' = FALSE
  BY DEF Line!SetScale, Line!Called, Line!drawn, Line!state
<1>3. /\ l_rect' \in Rectangle /\ l_max' \in Bounds
      /\ l_view' \in [image : Positive \X Positive, zoom : Positive]
  BY <1>1, ScalingIs DEF LineInv, LineTypes, Line!SetScale
<1> QED BY <1>2, <1>3, NotFresh DEF LineInv, LineTypes, Line!LineCaptureOwned

LEMMA PictureKeeps ==
  ASSUME LineInv, NEW image \in LineImages, NEW zoom \in LineZooms, NEW reset \in BOOLEAN,
         \/ Line!ImageLoad(image, zoom, reset) \/ Line!OnImageResize(image, zoom)
         \/ Line!OnImageInclin(image, zoom)
  PROVE  LineInv'
<1>1. /\ l_curBegin' = l_curBegin /\ l_curEnd' = l_curEnd /\ l_leftClick' = l_leftClick
      /\ l_dragging' = l_dragging /\ l_held' = l_held /\ l_fresh' = FALSE
  BY DEF Line!ImageLoad, Line!OnImageResize, Line!OnImageInclin, Line!Called, Line!drawn, Line!state
<1>2. l_max' \in Bounds /\ l_view' \in [image : Positive \X Positive, zoom : Positive]
  BY PictureIs DEF Line!ImageLoad, Line!OnImageResize, Line!OnImageInclin
<1>3. Line!LineCaptureOwned'
  BY <1>1 DEF LineInv, Line!LineCaptureOwned, Line!ImageLoad, Line!OnImageResize,
              Line!OnImageInclin, Line!Disabling, Line!state
<1>4. l_rect' \in Rectangle
  <2>1. CASE Line!ImageLoad(image, zoom, reset)
    <3>1. l_rect' = IF reset THEN Line!Base!EmptyRect ELSE Line!Cut(l_max', l_rect)
      BY <2>1 DEF Line!ImageLoad
    <3> QED BY <3>1, <1>2, RectIn, CutIs DEF LineInv, LineTypes
  <2>2. CASE Line!OnImageResize(image, zoom)
    <3>1. l_rect' = Line!Base!EmptyRect
      BY <2>2 DEF Line!OnImageResize, Line!Shown, Line!Diagonal
    <3> QED BY <3>1, RectIn
  <2>3. CASE Line!OnImageInclin(image, zoom)
    <3>1. <<0, 0>> \in Spots
      BY DEF Spots
    <3> QED BY <2>3, <3>1, ShownEnds DEF Line!OnImageInclin
  <2> QED BY <2>1, <2>2, <2>3
<1> QED BY <1>1, <1>2, <1>3, <1>4, NotFresh DEF LineInv, LineTypes

LEMMA UndoKeeps ==
  ASSUME LineInv, NEW image \in LineImages, NEW zoom \in LineZooms, NEW shown \in LineZooms,
         NEW r \in LineSelections, NEW inclination \in BOOLEAN,
         Line!Undo(image, shown, zoom, r, inclination)
  PROVE  LineInv'
<1> DEFINE limits == Line!Base!Area(Line!Base!Scaled(image, shown))
           v == [image |-> image, zoom |-> shown]
           from == IF inclination THEN r ELSE Line!Cut(limits, r)
<1>1. /\ l_curBegin' = l_curBegin /\ l_curEnd' = l_curEnd /\ l_leftClick' = l_leftClick
      /\ l_dragging' = l_dragging /\ l_held' = l_held /\ l_fresh' = FALSE
      /\ l_disabled' = ~inclination /\ l_captured' = (l_captured /\ inclination)
      /\ Line!Scaling(v, from, zoom)
  BY Zenon DEF Line!Undo, Line!Called, Line!drawn
<1>2. image \in Positive \X Positive /\ zoom \in Positive /\ shown \in Positive /\ r \in Rectangle
  BY LineAssumption DEF Rectangle
<1>3. v \in [image : Positive \X Positive, zoom : Positive]
  BY <1>2
<1>4. limits \in Bounds
  BY <1>2, AreaIs
<1>5. from \in Rectangle
  BY <1>2, <1>4, CutIs
<1> HIDE DEF limits, v, from
<1>6. /\ l_rect' \in Rectangle /\ l_max' \in Bounds
      /\ l_view' \in [image : Positive \X Positive, zoom : Positive]
  BY <1>1, <1>2, <1>3, <1>5, ScalingIs
<1> QED BY <1>1, <1>6, NotFresh DEF LineInv, LineTypes, Line!LineCaptureOwned

LEMMA LineStep == ASSUME LineInv, Line!Next PROVE LineInv'
<1>1. ASSUME Line!PressElsewhere \/ Line!ReleaseElsewhere PROVE LineInv'
  BY <1>1, ElsewhereKeeps
<1>2. ASSUME Line!OnMouseLeftUp \/ Line!Escape PROVE LineInv'
  BY <1>2, UpKeeps, EscapeKeeps
<1>3. ASSUME NEW p \in LinePoints, Line!OnMouseLeftDown(p) \/ Line!OnMouseMotion(p) PROVE LineInv'
  BY <1>3, LineAssumption, DownKeeps, MotionKeeps DEF Spots
<1>4. ASSUME NEW n \in KeySteps, NEW s \in {-1, 1}, NEW shift \in BOOLEAN,
             Line!Arrow(<<n * s, 0>>, shift) \/ Line!Arrow(<<0, n * s>>, shift)
      PROVE  LineInv'
  <2>1. n * s \in Int
    BY InputAssumption DEF Positive
  <2>2. <<n * s, 0>> \in Spots /\ <<0, n * s>> \in Spots
    BY <2>1 DEF Spots
  <2> QED BY <1>4, <2>2, ArrowKeeps
<1>5. ASSUME Line!Enable \/ Line!Disable PROVE LineInv'
  BY <1>5, SwitchKeeps
<1>6. ASSUME NEW zoom \in LineZooms, Line!SetScale(zoom) PROVE LineInv'
  BY <1>6, SetScaleKeeps
<1>7. ASSUME NEW image \in LineImages, NEW zoom \in LineZooms, NEW reset \in BOOLEAN,
             \/ Line!ImageLoad(image, zoom, reset) \/ Line!OnImageResize(image, zoom)
             \/ Line!OnImageInclin(image, zoom)
      PROVE  LineInv'
  BY <1>7, PictureKeeps
<1>8. ASSUME NEW image \in LineImages, NEW zoom \in LineZooms, NEW shown \in LineZooms,
             NEW r \in LineSelections, NEW inclination \in BOOLEAN,
             Line!Undo(image, shown, zoom, r, inclination)
      PROVE  LineInv'
  BY <1>8, UndoKeeps
<1>9. TRUE \in BOOLEAN
  OBVIOUS
<1> QED
  BY <1>1, <1>2, <1>3, <1>4, <1>5, <1>6, <1>7, <1>8, <1>9, ZenonT(60) DEF Line!Next

LEMMA LineRight == PartsSpec => []LineInv
<1>1. ASSUME LineInv, PartsNext PROVE LineInv'
  BY <1>1, LineStep, LineKept DEF PartsNext, Alone
<1>2. ASSUME LineInv, UNCHANGED partsVars PROVE LineInv'
  BY <1>2, LineKept DEF partsVars
<1> QED BY LineInit, <1>1, <1>2, PTL DEF PartsSpec

(* Theorem.  What is drawn with the mouse is what is selected: a drag, or  *)
(* an arrow, of the selection ends as it was drawn (AdjustTrackerRect),    *)
(* the line shown is the one drawn (m_pCurBegin, m_pCurEnd), and the mouse *)
(* is given back.                                                          *)
THEOREM DrawnIsRight == PartsSpec => DrawnIsShown
<1>1. PartsInit => Init
  BY DEF PartsInit
<1>2. [PartsNext]_partsVars => [Next]_vars
  BY DEF PartsNext, Alone, partsVars
<1>3. PartsSpec => Spec
  BY <1>1, <1>2, PTL DEF PartsSpec, Spec
<1>4. PartsSpec => CorrectionsSettle
  BY <1>3, CorrectionsAreSettled
<1>5. LineInv => Line!LineAsDrawn /\ Line!LineCaptureOwned
  BY DEF LineInv
<1>6. PartsSpec => [](Line!LineAsDrawn /\ Line!LineCaptureOwned)
  BY <1>5, LineRight, PTL
<1> QED BY <1>4, <1>6 DEF DrawnIsShown
=============================================================================
