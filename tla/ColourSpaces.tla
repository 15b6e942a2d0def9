---------------------------- MODULE ColourSpaces ----------------------------
(***************************************************************************)
(* The colours of a pixel on their way into a JPEG file and out of it:     *)
(* src/lib/jpeg-6b-crop/jccolor.c and jdcolor.c.  An application hands     *)
(* pixels over in one colour space, the file keeps them in another, the    *)
(* reader may ask for a third; the arithmetic is in fixed point, 16 bits   *)
(* behind the point, without a limit on the way in.                        *)
(***************************************************************************)
EXTENDS Integers, Sequences

CONSTANT Levels     (* the levels of a sample that are tried, in 0 .. 255  *)

LevelsAssumption == Levels \subseteq 0 .. 255

VARIABLES
  pc, pixel, in_color_space, jpeg_color_space, out_color_space,
  planes,           (* the pixel as it is kept, a sample of each component *)
  component_needed, (* the components the decoder fills in                 *)
  shown             (* the pixel put out                                   *)

vars == <<pc, pixel, in_color_space, jpeg_color_space, out_color_space, planes, component_needed, shown>>

MAXJSAMPLE == 255
CENTERJSAMPLE == 128
Spaces == {"GRAYSCALE", "RGB", "YCbCr", "CMYK", "YCCK"}
num_components(space) ==
  CASE space = "GRAYSCALE" -> 1 [] space \in {"RGB", "YCbCr"} -> 3 [] OTHER -> 4

(* Constants of the conversions, times 2^16.                               *)
ONE_HALF == 32768
CBCR_OFFSET == CENTERJSAMPLE * 65536
JSAMPLE(x) == x % 256        \* the cast

RoundedUp == ONE_HALF                                                \* mutant
CbCrHalf == ONE_HALF - 1
ycc(r, g, b) ==
  <<JSAMPLE((19595 * r + 38470 * g + 7471 * b + ONE_HALF) \div 65536),
    JSAMPLE(((-11059) * r - 21709 * g + 32768 * b + CBCR_OFFSET + CbCrHalf) \div 65536),
    JSAMPLE((32768 * r - 27439 * g - 5329 * b + CBCR_OFFSET + CbCrHalf) \div 65536)>>

(* What build_ycc_rgb_table puts in the tables, added to the Y.            *)
red(y, cr) == y + ((91881 * (cr - CENTERJSAMPLE) + ONE_HALF) \div 65536)
green(y, cb, cr) ==
  y + (((-22554) * (cb - CENTERJSAMPLE) - 46802 * (cr - CENTERJSAMPLE) + ONE_HALF) \div 65536)
blue(y, cb) == y + ((116130 * (cb - CENTERJSAMPLE) + ONE_HALF) \div 65536)
rgb(p) == <<red(p[1], p[3]), green(p[1], p[2], p[3]), blue(p[1], p[2])>>

range_limit(x) == IF x < 0 THEN 0 ELSE IF x > MAXJSAMPLE THEN MAXJSAMPLE ELSE x
Limited(s) == [i \in DOMAIN s |-> range_limit(s[i])]
Inverted(s) == [i \in DOMAIN s |-> MAXJSAMPLE - s[i]]

(* An application's pixel.  Whatever it hands over as YCbCr or YCCK is     *)
(* kept as it is, and is left out.                                         *)
Choose ==
  /\ pc = "start"
  /\ in_color_space' \in {"GRAYSCALE", "RGB", "CMYK"}
  /\ jpeg_color_space' \in Spaces
  /\ pixel' \in {p \in [1 .. num_components(in_color_space') -> Levels] :
                   Len(p) = 4 => p[4] \in {p[1], p[2]}}
  /\ pc' = "compress"
  /\ UNCHANGED <<out_color_space, planes, component_needed, shown>>

(* jinit_color_converter picks the conversion, or gives up.                *)
Unsupported(from, to, pairs) == from # to /\ <<from, to>> \notin pairs
color_convert ==
  /\ pc = "compress"
  /\ IF Unsupported(in_color_space, jpeg_color_space,
                    {<<"RGB", "GRAYSCALE">>, <<"RGB", "YCbCr">>, <<"CMYK", "YCCK">>})
     THEN pc' = "error" /\ UNCHANGED planes
     ELSE /\ pc' = "kept"
          /\ planes' =
               IF in_color_space = jpeg_color_space THEN pixel
               ELSE CASE jpeg_color_space = "GRAYSCALE" -> <<ycc(pixel[1], pixel[2], pixel[3])[1]>>
                      [] jpeg_color_space = "YCbCr" -> ycc(pixel[1], pixel[2], pixel[3])
                      [] jpeg_color_space = "YCCK" ->
                           LET p == Inverted(pixel) IN Append(ycc(p[1], p[2], p[3]), pixel[4])
  /\ UNCHANGED <<pixel, in_color_space, jpeg_color_space, out_color_space, component_needed, shown>>

(* jinit_color_deconverter: of a picture put out in grey, only the Y is    *)
(* decoded.                                                                *)
jinit_color_deconverter ==
  /\ pc = "kept"
  /\ out_color_space' \in Spaces
  /\ IF Unsupported(jpeg_color_space, out_color_space',
                    {<<"YCbCr", "GRAYSCALE">>, <<"YCbCr", "RGB">>, <<"GRAYSCALE", "RGB">>, <<"YCCK", "CMYK">>})
     THEN pc' = "error" /\ UNCHANGED component_needed
     ELSE /\ pc' = "decode"
          /\ component_needed' = [c \in DOMAIN planes |-> c = 1 \/ out_color_space' # "GRAYSCALE"]
  /\ UNCHANGED <<pixel, in_color_space, jpeg_color_space, planes, shown>>

(* A component that is not needed holds what its buffer held.              *)
color_deconvert ==
  /\ pc = "decode"
  /\ \E left \in {0, MAXJSAMPLE} :
       LET p == [c \in DOMAIN planes |-> IF component_needed[c] THEN planes[c] ELSE left] IN
       shown' = IF jpeg_color_space = out_color_space THEN p
                ELSE CASE out_color_space = "GRAYSCALE" -> <<p[1]>>
                       [] jpeg_color_space = "GRAYSCALE" -> <<p[1], p[1], p[1]>>
                       [] jpeg_color_space = "YCbCr" /\ out_color_space = "RGB" -> Limited(rgb(p))
                       [] out_color_space = "CMYK" -> Append(Limited(Inverted(rgb(p))), p[4])
  /\ pc' = "shown"
  /\ UNCHANGED <<pixel, in_color_space, jpeg_color_space, out_color_space, planes, component_needed>>

Init == /\ pc = "start" /\ pixel = <<>> /\ planes = <<>> /\ component_needed = <<>> /\ shown = <<>>
        /\ in_color_space = "RGB" /\ jpeg_color_space = "YCbCr" /\ out_color_space = "RGB"
Next == Choose \/ color_convert \/ jinit_color_deconverter \/ color_deconvert
Spec == Init /\ [][Next]_vars

-----------------------------------------------------------------------------
Near(x, y, n) == x - y \in -n .. n

(* Colours survive the round trip: a photo that is put out in the space it *)
(* came in, and was not kept in grey, shows each sample within one of what *)
(* it was, in particular the purest blue and red, whose Cb and Cr are at   *)
(* the very end of their range and are not limited on the way in; greys    *)
(* are shown exactly; and put out in grey, a pixel is as light as its      *)
(* weighted mean.                                                          *)
ColoursReturn ==
  pc = "shown" =>
    /\ out_color_space = in_color_space /\ Len(planes) >= Len(pixel) =>
         \A i \in DOMAIN pixel : Near(shown[i], pixel[i], 1)
    /\ (in_color_space = "RGB" /\ pixel[1] = pixel[2] /\ pixel[2] = pixel[3] /\ out_color_space \in {"RGB", "GRAYSCALE"}) =>
         \A i \in DOMAIN shown : shown[i] = pixel[1]
    /\ (in_color_space = "RGB" /\ out_color_space = "GRAYSCALE") =>
         Near(1000 * shown[1], 299 * pixel[1] + 587 * pixel[2] + 114 * pixel[3], 501)
=============================================================================
