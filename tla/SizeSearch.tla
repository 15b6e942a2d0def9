----------------------------- MODULE SizeSearch -----------------------------
(***************************************************************************)
(* The numbers behind two commands of the main window                      *)
(* (src/src/RatioFrame.cpp): the search for the JPEG quality of a photo    *)
(* (OnImageJPEGDetectQuality) and the size a picture is given (Resize),    *)
(* which for a size in kilobytes is a search too.  Both searches save the  *)
(* picture to a file, look at its length and halve an interval.            *)
(*                                                                         *)
(* How the length grows with the quality, or with the ratio the picture is *)
(* scaled by, is a curve: below `from' the file is too short, above `to'   *)
(* too long, between them its length is the one wanted.  A curve that is   *)
(* not monotonic is erratic: any length may come out.                      *)
(***************************************************************************)
EXTENDS Integers

CONSTANTS
  Curves,       (* pairs <<from, to>>, in qualities                   *)
  RatioCurves,  (* the same in units of the ratio                     *)
  Erratic,      (* the curve that is no function                      *)
  Pictures,     (* sizes of pictures, <<width, height>>               *)
  Sizes,        (* the numbers typed for a size                       *)
  BoxRatios     (* ratios of the selection as <<width, height>>       *)

CurvesAssumption ==
  /\ Erratic \notin Curves \cup RatioCurves
  /\ \A c \in Curves \cup RatioCurves : c[1] \in Int /\ c[2] \in Int /\ c[1] <= c[2] + 1
SizesAssumption ==
  /\ Sizes \subseteq Nat /\ Pictures \subseteq (Nat \ {0}) \X (Nat \ {0})
  /\ BoxRatios \subseteq (Nat \ {0}) \X (Nat \ {0})

VARIABLES
  job,      (* the search that runs, or what came of the last command *)
  curve,
  guess, last, low, high,   (* quality, prevQual, minQual, maxQual;   *)
                            (* ratio, oldratio, minratio, maxratio    *)
  length,   (* the length last seen, against the one wanted           *)
  picture,  (* width and height of the picture, porl (1, 0 or -1)     *)
  dest      (* destWidth and destHeight                               *)

vars == <<job, curve, guess, last, low, high, length, picture, dest>>

Abs(n) == IF n < 0 THEN -n ELSE n

(* A ratio counts in 1024ths: the halvings are exact and a difference of   *)
(* one unit is below the 0.001 where the search stops. *)
One == 1024

Lengths == {"below", "wanted", "above"}
LengthAt(c, x) == IF c = Erratic THEN Lengths
                  ELSE IF x < c[1] THEN {"below"} ELSE IF x > c[2] THEN {"above"} ELSE {"wanted"}

(* One turn of either loop: the bound moves to the value that was tried.   *)
HalvedOpen(l) ==                                                     \* mutant
  /\ last' = guess
  /\ UNCHANGED <<high, low>>
  /\ guess' = CASE l = "above" -> (guess + low) \div 2
                [] l = "below" -> (guess + high) \div 2
                [] OTHER -> guess
HalvedUp(l) ==                                                       \* mutant
  /\ last' = guess
  /\ high' = IF l = "above" THEN guess ELSE high
  /\ low' = IF l = "below" THEN guess ELSE low
  /\ guess' = CASE l = "above" -> (guess + low + 3) \div 2
                [] l = "below" -> (guess + high) \div 2
                [] OTHER -> guess
Halved(l) ==
  /\ last' = guess
  /\ high' = IF l = "above" THEN guess ELSE high
  /\ low' = IF l = "below" THEN guess ELSE low
  /\ guess' = CASE l = "above" -> (guess + low) \div 2
                [] l = "below" -> (guess + high) \div 2
                [] OTHER -> guess

-----------------------------------------------------------------------------
OnImageJPEGDetectQuality(c) ==
  /\ job = "idle"
  /\ job' = "quality" /\ curve' = c
  /\ guess' = 80 /\ last' = 0 /\ low' = 0 /\ high' = 100
  /\ UNCHANGED <<length, picture, dest>>

QualityTried ==
  /\ job = "quality" /\ Abs(guess - last) > 1
  /\ \E l \in LengthAt(curve, guess) : length' = l /\ Halved(l)
  /\ UNCHANGED <<job, curve, picture, dest>>

QualityFound ==
  /\ job = "quality" /\ Abs(guess - last) <= 1
  /\ job' = "quality found"
  /\ UNCHANGED <<curve, guess, last, low, high, length, picture, dest>>

-----------------------------------------------------------------------------
(* Resize.  Without a ratio in the selection the ratio is the quotient of  *)
(* two integers. *)
RatioOf(p, box) == IF box = <<>> THEN <<p.width \div p.height, 1>> ELSE box

PercentOf(p, n) == IF n > 0 THEN <<(p.width * n) \div 100, (p.height * n) \div 100>> ELSE <<>>
FixedSize(p, w, h, box) ==
  LET r == RatioOf(p, box) IN
  CASE w > 0 /\ h > 0    -> <<w, h>>
    [] w > 0 /\ h <= 0 /\ r[1] > 0 -> <<w, (w * r[2]) \div r[1]>>
    [] w <= 0 /\ h > 0 /\ r[1] > 0 -> <<(h * r[1]) \div r[2], h>>
    [] OTHER             -> <<>>
(* The size is turned when it does not lie as the picture does, or as the  *)
(* orientation chosen says. *)
TurnedOnlyIfChosen(p, d) == (p.porl > 0 /\ d[1] < d[2]) \/ (p.porl < 0 /\ d[1] > d[2]) \* mutant
Turned(p, d) ==
  \/ p.porl = 0 /\ p.width > p.height /\ d[1] < d[2]
  \/ p.porl = 0 /\ p.width < p.height /\ d[1] > d[2]
  \/ p.porl > 0 /\ d[1] < d[2]
  \/ p.porl < 0 /\ d[1] > d[2]
Oriented(p, d) == IF d # <<>> /\ Turned(p, d) THEN <<d[2], d[1]>> ELSE d

ChoosePicture(p) ==
  /\ job = "idle"
  /\ picture' = p
  /\ UNCHANGED <<job, curve, guess, last, low, high, length, dest>>

ResizeTo(d, kind) ==
  /\ job = "idle"
  /\ dest' = d
  /\ job' = IF d = <<>> THEN "refused" ELSE kind
  /\ UNCHANGED <<curve, guess, last, low, high, length, picture>>
ResizePercent(n) == ResizeTo(PercentOf(picture, n), "percent")
ResizeFixed(w, h, box) == ResizeTo(Oriented(picture, FixedSize(picture, w, h, box)), "fixed")

(* `large': the file of the photo is longer than what is asked.  The       *)
(* search is made when the picture itself is not too short, and a picture  *)
(* of one point not too long: otherwise the size stays. *)
ResizeBytes(c, large) ==
  /\ job = "idle"
  /\ curve' = c
  /\ \E whole \in LengthAt(c, One), point \in LengthAt(c, 0) :
       IF large /\ whole # "below" /\ point # "above"
       THEN /\ job' = "size" /\ length' = point
            /\ guess' = One \div 2 /\ last' = One /\ low' = 0 /\ high' = One
       ELSE /\ job' = "size found" /\ length' = whole
            /\ guess' = One
            /\ UNCHANGED <<last, low, high>>
  /\ dest' = <<picture.width, picture.height>>
  /\ UNCHANGED picture

(* A length that is wanted is one within two percent of it: the value      *)
(* that gave it may be left all the same for the next one. *)
SizeTried ==
  /\ job = "size" /\ length # "wanted" /\ Abs(guess - last) > 1
  /\ \E l \in LengthAt(curve, guess) :
       /\ length' = l
       /\ \E side \in IF l = "wanted" THEN Lengths ELSE {l} : Halved(side)
  /\ UNCHANGED <<job, curve, picture, dest>>

SizeFound ==
  /\ job = "size" /\ (length = "wanted" \/ Abs(guess - last) <= 1)
  /\ job' = "size found"
  /\ dest' = <<(dest[1] * guess * 9) \div (One * 10), (dest[2] * guess * 9) \div (One * 10)>>
  /\ UNCHANGED <<curve, guess, last, low, high, length, picture>>

Done ==
  /\ job \in {"quality found", "size found", "refused", "percent", "fixed"}
  /\ job' = "idle" /\ curve' = Erratic /\ dest' = <<>>
  /\ length' = "wanted" /\ guess' = 0 /\ last' = 0 /\ low' = 0 /\ high' = 0
  /\ UNCHANGED picture

-----------------------------------------------------------------------------
Init ==
  /\ job = "idle" /\ curve = Erratic
  /\ guess = 0 /\ last = 0 /\ low = 0 /\ high = 0 /\ length = "wanted"
  /\ picture = [width |-> 1, height |-> 1, porl |-> 0]
  /\ dest = <<>>

Search == QualityTried \/ QualityFound \/ SizeTried \/ SizeFound
Next ==
  \/ \E c \in Curves \cup {Erratic} : OnImageJPEGDetectQuality(c)
  \/ \E p \in Pictures, porl \in -1 .. 1 :
       ChoosePicture([width |-> p[1], height |-> p[2], porl |-> porl])
  \/ \E n \in Sizes : ResizePercent(n)
  \/ \E w, h \in Sizes, box \in BoxRatios \cup {<<>>} : ResizeFixed(w, h, box)
  \/ \E c \in RatioCurves \cup {Erratic}, large \in BOOLEAN : ResizeBytes(c, large)
  \/ Search \/ Done
Spec == Init /\ [][Next]_vars
FairSpec == Spec /\ WF_vars(Search)

-----------------------------------------------------------------------------
(* The quality found is at most two away from a quality that gives the     *)
(* length of the photo, if there is one: the last value has not been       *)
(* tried, and the search stops when a step is of one, which leaves up to   *)
(* two values above it (OnImageJPEGDetectQuality).                         *)
QualityNear ==
  LET right == {q \in 0 .. 100 : curve[1] <= q /\ q <= curve[2]} IN
  job = "quality found" /\ curve # Erratic /\ right # {}
    => \E q \in right : Abs(guess - q) <= 2

(* A size typed as width and height lies as the orientation says, or as    *)
(* the picture does, whatever was typed first (Resize).                    *)
SizeLies ==
  job = "fixed" =>
    CASE picture.porl > 0 -> dest[1] >= dest[2]
      [] picture.porl < 0 -> dest[1] <= dest[2]
      [] OTHER -> /\ picture.width > picture.height => dest[1] >= dest[2]
                  /\ picture.width < picture.height => dest[1] <= dest[2]

(* Both searches end, whatever lengths come out.                           *)
SearchesEnd == job \in {"quality", "size"} ~> job \in {"quality found", "size found"}
=============================================================================
