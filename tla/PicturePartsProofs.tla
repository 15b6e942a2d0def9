------------------------- MODULE PicturePartsProofs -------------------------
(***************************************************************************)
(* Proofs about the parts a photo goes through: a command of jpegtran puts *)
(* each sample where geometry puts it, the commands compose and the header *)
(* follows, a pixel comes back from the colour spaces in its colour, and a *)
(* pass of the decompressor shows all of the scan asked for.               *)
(***************************************************************************)
EXTENDS PictureParts, JpegTranProofs, CoefControllerProofs

-----------------------------------------------------------------------------
(* Colour spaces.                                                          *)
Level == 0 .. 255

(* What the conversions round down to.                                     *)
LEMMA Cut ==
  ASSUME NEW n \in Int
  PROVE  /\ n \div 65536 \in Int
         /\ 65536 * (n \div 65536) <= n /\ n < 65536 * (n \div 65536) + 65536
  OBVIOUS

(* A level is kept in eight bits.                                          *)
LEMMA Byte == ASSUME NEW n \in Level PROVE n % 256 = n
  BY DEF Level

(* The three values of a colour, and what each rounds down from.           *)
LEMMA YccIs ==
  ASSUME NEW r \in Level, NEW g \in Level, NEW b \in Level
  PROVE  \E y, cb, cr \in Level :
           /\ Colours!ycc(r, g, b) = <<y, cb, cr>>
           /\ 65536 * y <= 19595 * r + 38470 * g + 7471 * b + 32768
           /\ 19595 * r + 38470 * g + 7471 * b + 32768 < 65536 * y + 65536
           /\ 65536 * cb <= (-11059) * r - 21709 * g + 32768 * b + 8388608 + 32767
           /\ (-11059) * r - 21709 * g + 32768 * b + 8388608 + 32767 < 65536 * cb + 65536
           /\ 65536 * cr <= 32768 * r - 27439 * g - 5329 * b + 8388608 + 32767
           /\ 32768 * r - 27439 * g - 5329 * b + 8388608 + 32767 < 65536 * cr + 65536
<1> DEFINE ny == 19595 * r + 38470 * g + 7471 * b + 32768
           nb == (-11059) * r - 21709 * g + 32768 * b + 8388608 + 32767
           nr == 32768 * r - 27439 * g - 5329 * b + 8388608 + 32767
           y == ny \div 65536
           cb == nb \div 65536
           cr == nr \div 65536
<1>1. /\ r \in Int /\ g \in Int /\ b \in Int
      /\ 0 <= r /\ r <= 255 /\ 0 <= g /\ g <= 255 /\ 0 <= b /\ b <= 255
  BY DEF Level
<1>2. /\ ny \in Int /\ nb \in Int /\ nr \in Int
      /\ 0 <= ny /\ ny < 256 * 65536 /\ 0 <= nb /\ nb < 256 * 65536 /\ 0 <= nr /\ nr < 256 * 65536
  BY <1>1
<1> HIDE DEF ny, nb, nr
<1>3. /\ y \in Int /\ 65536 * y <= ny /\ ny < 65536 * y + 65536
      /\ cb \in Int /\ 65536 * cb <= nb /\ nb < 65536 * cb + 65536
      /\ cr \in Int /\ 65536 * cr <= nr /\ nr < 65536 * cr + 65536
  BY <1>2, Cut
<1> HIDE DEF y, cb, cr
<1>4. y \in Level /\ cb \in Level /\ cr \in Level
  BY <1>2, <1>3 DEF Level
<1>5. Colours!ycc(r, g, b) = <<y % 256, cb % 256, cr % 256>>
  BY DEF Colours!ycc, Colours!JSAMPLE, Colours!ONE_HALF, Colours!CBCR_OFFSET, Colours!CENTERJSAMPLE,
         Colours!CbCrHalf, y, cb, cr, ny, nb, nr
<1>6. Colours!ycc(r, g, b) = <<y, cb, cr>>
  BY <1>4, <1>5, Byte
<1> QED BY <1>3, <1>4, <1>6 DEF ny, nb, nr

(* A colour comes back within one of what it was, and a grey as it was.    *)
LEMMA RgbReturns ==
  ASSUME NEW r \in Level, NEW g \in Level, NEW b \in Level
  PROVE  LET p == Colours!ycc(r, g, b)  back == Colours!rgb(p) IN
         /\ p \in Level \X Level \X Level
         /\ back \in Int \X Int \X Int
         /\ back[1] - r \in -1 .. 1 /\ back[2] - g \in -1 .. 1 /\ back[3] - b \in -1 .. 1
         /\ 1000 * p[1] - (299 * r + 587 * g + 114 * b) \in -501 .. 501
         /\ r = g /\ g = b => p[1] = r /\ back = <<r, r, r>>
<1>1. PICK y, cb, cr \in Level :
           /\ Colours!ycc(r, g, b) = <<y, cb, cr>>
           /\ 65536 * y <= 19595 * r + 38470 * g + 7471 * b + 32768
           /\ 19595 * r + 38470 * g + 7471 * b + 32768 < 65536 * y + 65536
           /\ 65536 * cb <= (-11059) * r - 21709 * g + 32768 * b + 8388608 + 32767
           /\ (-11059) * r - 21709 * g + 32768 * b + 8388608 + 32767 < 65536 * cb + 65536
           /\ 65536 * cr <= 32768 * r - 27439 * g - 5329 * b + 8388608 + 32767
           /\ 32768 * r - 27439 * g - 5329 * b + 8388608 + 32767 < 65536 * cr + 65536
  BY YccIs
<1>2. /\ r \in Int /\ g \in Int /\ b \in Int /\ y \in Int /\ cb \in Int /\ cr \in Int
      /\ 0 <= r /\ r <= 255 /\ 0 <= g /\ g <= 255 /\ 0 <= b /\ b <= 255
  BY DEF Level
<1> DEFINE nr == 91881 * (cr - 128) + 32768
           ng == (-22554) * (cb - 128) - 46802 * (cr - 128) + 32768
           nb == 116130 * (cb - 128) + 32768
           dr == nr \div 65536
           dg == ng \div 65536
           db == nb \div 65536
<1>3. nr \in Int /\ ng \in Int /\ nb \in Int
  BY <1>2
<1>4. Colours!rgb(<<y, cb, cr>>) = <<y + dr, y + dg, y + db>>
  BY DEF Colours!rgb, Colours!red, Colours!green, Colours!blue, Colours!ONE_HALF, Colours!CENTERJSAMPLE
<1> HIDE DEF nr, ng, nb
<1>5. /\ dr \in Int /\ 65536 * dr <= nr /\ nr < 65536 * dr + 65536
      /\ dg \in Int /\ 65536 * dg <= ng /\ ng < 65536 * dg + 65536
      /\ db \in Int /\ 65536 * db <= nb /\ nb < 65536 * db + 65536
  BY <1>3, Cut
<1> HIDE DEF dr, dg, db
<1>6. y + dr - r \in -1 .. 1
  <2>1. y + dr - r \in Int /\ -2 < y + dr - r /\ y + dr - r < 2
    BY <1>1, <1>2, <1>5 DEF nr
  <2> QED BY <2>1
<1>7. y + dg - g \in -1 .. 1
  <2>1. y + dg - g \in Int /\ -2 < y + dg - g /\ y + dg - g < 2
    BY <1>1, <1>2, <1>5 DEF ng
  <2> QED BY <2>1
<1>8. y + db - b \in -1 .. 1
  <2>1. y + db - b \in Int /\ -2 < y + db - b /\ y + db - b < 2
    BY <1>1, <1>2, <1>5 DEF nb
  <2> QED BY <2>1
<1>9. 1000 * y - (299 * r + 587 * g + 114 * b) \in -501 .. 501
  BY <1>1, <1>2
<1>10. ASSUME r = g, g = b PROVE y = r /\ dr = 0 /\ dg = 0 /\ db = 0
  <2>1. y = r /\ cb = 128 /\ cr = 128
    BY <1>1, <1>2, <1>10
  <2> QED BY <2>1, <1>2, <1>5 DEF nr, ng, nb
<1> DEFINE p == Colours!ycc(r, g, b)
           back == Colours!rgb(p)
<1>11. p = <<y, cb, cr>> /\ p \in Level \X Level \X Level /\ p[1] = y
  BY <1>1
<1>12. back = <<y + dr, y + dg, y + db>>
  BY <1>4, <1>11
<1>13. /\ back \in Int \X Int \X Int
       /\ back[1] = y + dr /\ back[2] = y + dg /\ back[3] = y + db
  BY <1>2, <1>5, <1>12
<1>14. r = g /\ g = b => p[1] = r /\ back = <<r, r, r>>
  BY <1>10, <1>11, <1>12, <1>2
<1> HIDE DEF back, p
<1>17. y \in Int /\ dr \in Int /\ dg \in Int /\ db \in Int /\ r \in Int /\ g \in Int /\ b \in Int
  BY <1>2, <1>5
<1>15. /\ back[1] - r \in -1 .. 1 /\ back[2] - g \in -1 .. 1 /\ back[3] - b \in -1 .. 1
  <2>1. back[1] - r \in -1 .. 1
    BY <1>6, <1>13, <1>17
  <2>2. back[2] - g \in -1 .. 1
    BY <1>7, <1>13, <1>17
  <2>3. back[3] - b \in -1 .. 1
    BY <1>8, <1>13, <1>17
  <2> QED BY <2>1, <2>2, <2>3
<1>16. 1000 * p[1] - (299 * r + 587 * g + 114 * b) \in -501 .. 501
  BY SMTT(30), <1>9, <1>11
<1> QED BY <1>11, <1>13, <1>14, <1>15, <1>16 DEF back, p

Close(a, b) == a - b \in -1 .. 1
Lightness(y, r, g, b) == 1000 * y - (299 * r + 587 * g + 114 * b) \in -501 .. 501

(* The same, as the property puts it.                                      *)
LEMMA PixelReturns ==
  ASSUME NEW r \in Level, NEW g \in Level, NEW b \in Level
  PROVE  /\ Colours!ycc(r, g, b) \in Level \X Level \X Level
         /\ Colours!ycc(r, g, b)[1] \in Level
         /\ Colours!rgb(Colours!ycc(r, g, b)) \in Int \X Int \X Int
         /\ Close(Colours!rgb(Colours!ycc(r, g, b))[1], r)
         /\ Close(Colours!rgb(Colours!ycc(r, g, b))[2], g)
         /\ Close(Colours!rgb(Colours!ycc(r, g, b))[3], b)
         /\ Lightness(Colours!ycc(r, g, b)[1], r, g, b)
         /\ r = g /\ g = b => /\ Colours!ycc(r, g, b)[1] = r
                              /\ Colours!rgb(Colours!ycc(r, g, b)) = <<r, r, r>>
  BY RgbReturns DEF Close, Lightness

-----------------------------------------------------------------------------
(* What is kept of a pixel.                                                *)
Kept ==
  \/ s_jpeg_color_space = s_in_color_space /\ s_planes = s_pixel
  \/ /\ s_in_color_space = "RGB" /\ s_jpeg_color_space = "GRAYSCALE"
     /\ s_planes = <<Colours!ycc(s_pixel[1], s_pixel[2], s_pixel[3])[1]>>
  \/ /\ s_in_color_space = "RGB" /\ s_jpeg_color_space = "YCbCr"
     /\ s_planes = Colours!ycc(s_pixel[1], s_pixel[2], s_pixel[3])
  \/ /\ s_in_color_space = "CMYK" /\ s_jpeg_color_space = "YCCK"
     /\ LET p == Colours!ycc(255 - s_pixel[1], 255 - s_pixel[2], 255 - s_pixel[3]) IN
        s_planes = <<p[1], p[2], p[3], s_pixel[4]>>

ColoursInv ==
  /\ s_pc # "start" =>
       /\ s_in_color_space \in {"GRAYSCALE", "RGB", "CMYK"}
       /\ s_pixel \in [1 .. Colours!num_components(s_in_color_space) -> Level]
  /\ s_pc \in {"kept", "decode", "shown"} => Kept
  /\ s_pc = "decode" =>
       /\ \/ s_jpeg_color_space = s_out_color_space
          \/ <<s_jpeg_color_space, s_out_color_space>> \in
               {<<"YCbCr", "GRAYSCALE">>, <<"YCbCr", "RGB">>, <<"GRAYSCALE", "RGB">>, <<"YCCK", "CMYK">>}
       /\ s_component_needed = [c \in DOMAIN s_planes |-> c = 1 \/ s_out_color_space # "GRAYSCALE"]
  /\ ColoursReturn

(* Range limiting keeps levels, and puts the others back among them.       *)
LEMMA Limited ==
  ASSUME NEW x \in Int, NEW v \in Level, x - v \in -1 .. 1
  PROVE  Colours!range_limit(x) - v \in -1 .. 1 /\ (x \in Level => Colours!range_limit(x) = x)
  BY DEF Colours!range_limit, Colours!MAXJSAMPLE, Level

LEMMA LimitedInverted ==
  ASSUME NEW x \in Int, NEW v \in Level, x - (255 - v) \in -1 .. 1
  PROVE  Colours!range_limit(255 - x) - v \in -1 .. 1
  BY DEF Colours!range_limit, Colours!MAXJSAMPLE, Level

(* The first state, and the steps.                                         *)
LEMMA ColoursInit == Colours!Init => ColoursInv
  BY DEF Colours!Init, ColoursInv, ColoursReturn, Colours!ColoursReturn

LEMMA ColoursChoose == ASSUME ColoursInv, Colours!Choose PROVE ColoursInv'
<1>1. /\ s_pc' = "compress"
      /\ s_in_color_space' \in {"GRAYSCALE", "RGB", "CMYK"}
      /\ s_pixel' \in [1 .. Colours!num_components(s_in_color_space') -> Levels]
  BY DEF Colours!Choose
<1>2. Levels \subseteq Level
  BY LevelsAssumption DEF Colours!LevelsAssumption, Level
<1>3. s_pixel' \in [1 .. Colours!num_components(s_in_color_space') -> Level]
  BY <1>1, <1>2
<1> QED BY <1>1, <1>3 DEF ColoursInv, ColoursReturn, Colours!ColoursReturn

(* The components of a pixel.                                              *)
LEMMA Components ==
  /\ 1 .. Colours!num_components("GRAYSCALE") = {1}
  /\ 1 .. Colours!num_components("RGB") = {1, 2, 3}
  /\ 1 .. Colours!num_components("CMYK") = {1, 2, 3, 4}
  BY DEF Colours!num_components

LEMMA AppendFourth == ASSUME NEW a, NEW b, NEW c, NEW d PROVE Append(<<a, b, c>>, d) = <<a, b, c, d>> 
<1> DEFINE S == {a,b,c,d}  s == <<a,b,c>> t == <<a,b,c,d>>
<1>1. s \in Seq(S) /\ d \in S /\ t \in Seq(S) /\ Len(s) = 3 /\ Len(t) = 4 OBVIOUS
<1>2. s[1] = a /\ s[2] = b /\ s[3] = c /\ t[1] = a /\ t[2] = b /\ t[3] = c /\ t[4] = d OBVIOUS
<1> HIDE DEF s, t, S
<1>3. /\ Append(s, d) \in Seq(S) /\ Len(Append(s,d)) = 4 /\ \A i \in 1..3 : Append(s,d)[i] = s[i]
      /\ Append(s,d)[4] = d
  <2>1. s \in Seq(S) /\ d \in S BY <1>1
  <2>2. /\ Append(s, d) \in Seq(S) 
         /\ Len(Append(s, d)) = Len(s)+1
         /\ \A i \in 1.. Len(s) : Append(s, d)[i] = s[i]
         /\ Append(s, d)[Len(s)+1] = d
   BY <2>1, AppendProperties
  <2> QED BY <1>1, <2>2
<1>4. \A i \in 1..4 : Append(s, d)[i] = t[i]
   BY <1>2, <1>3
<1>5. Append(s,d) = t BY <1>1, <1>3, <1>4, SeqEqual
<1> QED BY <1>5 DEF s, t

LEMMA ColoursConvert == ASSUME ColoursInv, Colours!color_convert PROVE ColoursInv'
<1>1. /\ s_pc = "compress" /\ s_pc' \in {"error", "kept"}
      /\ UNCHANGED <<s_pixel, s_in_color_space, s_jpeg_color_space>>
  BY DEF Colours!color_convert
<1>2. ASSUME s_pc' = "kept" PROVE Kept'
  <2>1. /\ ~Colours!Unsupported(s_in_color_space, s_jpeg_color_space,
                    {<<"RGB", "GRAYSCALE">>, <<"RGB", "YCbCr">>, <<"CMYK", "YCCK">>})
        /\ s_planes' = IF s_in_color_space = s_jpeg_color_space THEN s_pixel
             ELSE CASE s_jpeg_color_space = "GRAYSCALE" -> <<Colours!ycc(s_pixel[1], s_pixel[2], s_pixel[3])[1]>>
                    [] s_jpeg_color_space = "YCbCr" -> Colours!ycc(s_pixel[1], s_pixel[2], s_pixel[3])
                    [] s_jpeg_color_space = "YCCK" ->
                         LET p == Colours!Inverted(s_pixel) IN Append(Colours!ycc(p[1], p[2], p[3]), s_pixel[4])
    BY <1>2 DEF Colours!color_convert
  <2>2. CASE s_in_color_space = s_jpeg_color_space
    <3>1. s_planes' = s_pixel
      BY <2>1, <2>2
    <3> QED BY <1>1, <2>2, <3>1 DEF Kept
  <2>3. CASE s_in_color_space = "RGB" /\ s_jpeg_color_space = "GRAYSCALE"
    BY <1>1, <2>1, <2>3 DEF Kept
  <2>4. CASE s_in_color_space = "RGB" /\ s_jpeg_color_space = "YCbCr"
    BY <1>1, <2>1, <2>4 DEF Kept
  <2>5. CASE s_in_color_space = "CMYK" /\ s_jpeg_color_space = "YCCK"
    <3> DEFINE p == Colours!Inverted(s_pixel)
               q == Colours!ycc(255 - s_pixel[1], 255 - s_pixel[2], 255 - s_pixel[3])
    <3>1. DOMAIN s_pixel = {1, 2, 3, 4}
      BY <1>1, <2>5, Components DEF ColoursInv
    <3>2. p[1] = 255 - s_pixel[1] /\ p[2] = 255 - s_pixel[2] /\ p[3] = 255 - s_pixel[3]
      BY <3>1 DEF Colours!Inverted, Colours!MAXJSAMPLE
    <3>3. s_planes' = Append(q, s_pixel[4])
      BY <2>1, <2>5, <3>2
    <3>4. Append(q, s_pixel[4]) = <<q[1], q[2], q[3], s_pixel[4]>>
      <4>1. q = <<q[1], q[2], q[3]>>
        BY DEF Colours!ycc
      <4> HIDE DEF q
      <4> QED BY <4>1, AppendFourth
    <3> QED BY <1>1, <2>5, <3>3, <3>4 DEF Kept
  <2> QED BY <2>1, <2>2, <2>3, <2>4, <2>5 DEF Colours!Unsupported
<1> QED BY <1>1, <1>2 DEF ColoursInv, ColoursReturn, Colours!ColoursReturn

LEMMA ColoursSetUp == ASSUME ColoursInv, Colours!jinit_color_deconverter PROVE ColoursInv'
<1>1. /\ s_pc = "kept" /\ s_pc' \in {"error", "decode"}
      /\ UNCHANGED <<s_pixel, s_in_color_space, s_jpeg_color_space, s_planes>>
      /\ s_pc' = "decode" =>
          /\ ~Colours!Unsupported(s_jpeg_color_space, s_out_color_space',
                    {<<"YCbCr", "GRAYSCALE">>, <<"YCbCr", "RGB">>, <<"GRAYSCALE", "RGB">>, <<"YCCK", "CMYK">>})
          /\ s_component_needed' = [c \in DOMAIN s_planes |-> c = 1 \/ s_out_color_space' # "GRAYSCALE"]
  BY DEF Colours!jinit_color_deconverter
<1> QED BY <1>1 DEF ColoursInv, Kept, Colours!Unsupported, ColoursReturn, Colours!ColoursReturn

(* A pixel put out.  Each case shows what ColoursReturn says of a pair of  *)
(* conversions.                                                            *)
LEMMA ColoursShow == ASSUME ColoursInv, Colours!color_deconvert PROVE ColoursInv'
<1>1. /\ s_pc = "decode" /\ s_pc' = "shown"
      /\ UNCHANGED <<s_pixel, s_in_color_space, s_jpeg_color_space, s_out_color_space, s_planes,
                     s_component_needed>>
  BY DEF Colours!color_deconvert
<1>2. /\ s_in_color_space \in {"GRAYSCALE", "RGB", "CMYK"}
      /\ s_pixel \in [1 .. Colours!num_components(s_in_color_space) -> Level]
      /\ Kept
      /\ \/ s_jpeg_color_space = s_out_color_space
         \/ <<s_jpeg_color_space, s_out_color_space>> \in
              {<<"YCbCr", "GRAYSCALE">>, <<"YCbCr", "RGB">>, <<"GRAYSCALE", "RGB">>, <<"YCCK", "CMYK">>}
      /\ s_component_needed = [c \in DOMAIN s_planes |-> c = 1 \/ s_out_color_space # "GRAYSCALE"]
  BY <1>1 DEF ColoursInv
<1>3. PICK left \in {0, 255} :
        LET p == [c \in DOMAIN s_planes |-> IF s_component_needed[c] THEN s_planes[c] ELSE left] IN
        s_shown' = IF s_jpeg_color_space = s_out_color_space THEN p
             ELSE CASE s_out_color_space = "GRAYSCALE" -> <<p[1]>>
                    [] s_jpeg_color_space = "GRAYSCALE" -> <<p[1], p[1], p[1]>>
                    [] s_jpeg_color_space = "YCbCr" /\ s_out_color_space = "RGB" ->
                         Colours!Limited(Colours!rgb(p))
                    [] s_out_color_space = "CMYK" ->
                         Append(Colours!Limited(Colours!Inverted(Colours!rgb(p))), p[4])
  BY DEF Colours!color_deconvert, Colours!MAXJSAMPLE
<1> DEFINE p == [c \in DOMAIN s_planes |-> IF s_component_needed[c] THEN s_planes[c] ELSE left]
           y == Colours!ycc(s_pixel[1], s_pixel[2], s_pixel[3])
           back == Colours!rgb(y)
           light == 299 * s_pixel[1] + 587 * s_pixel[2] + 114 * s_pixel[3]
           Return(a) ==
             /\ s_out_color_space = s_in_color_space /\ Len(s_planes) >= Len(s_pixel) =>
                  \A i \in DOMAIN s_pixel : a[i] - s_pixel[i] \in -1 .. 1
             /\ (s_in_color_space = "RGB" /\ s_pixel[1] = s_pixel[2] /\ s_pixel[2] = s_pixel[3]
                   /\ s_out_color_space \in {"RGB", "GRAYSCALE"}) =>
                  \A i \in DOMAIN a : a[i] = s_pixel[1]
             /\ (s_in_color_space = "RGB" /\ s_out_color_space = "GRAYSCALE") =>
                  1000 * a[1] - light \in -501 .. 501
<1>4. ASSUME s_out_color_space # "GRAYSCALE" \/ DOMAIN s_planes = {1} PROVE p = [c \in DOMAIN s_planes |-> s_planes[c]]
  BY <1>2, <1>4
<1>5. 1 \in DOMAIN s_planes => p[1] = s_planes[1]
  BY <1>2
<1>6. ASSUME s_in_color_space = "RGB"
      PROVE  /\ s_pixel[1] \in Level /\ s_pixel[2] \in Level /\ s_pixel[3] \in Level
             /\ DOMAIN s_pixel = {1, 2, 3} /\ s_pixel \in [1 .. 3 -> Level] /\ Len(s_pixel) = 3
  BY <1>2, <1>6, Components
<1> DEFINE shown == s_shown'
<1>7. ASSUME s_jpeg_color_space = s_in_color_space, s_planes = s_pixel PROVE Return(shown)
  <2>1. DOMAIN s_planes = 1 .. Colours!num_components(s_in_color_space) /\ s_pixel = [c \in DOMAIN s_planes |-> s_planes[c]]
    BY <1>2, <1>7
  <2>2. CASE s_jpeg_color_space = s_out_color_space
    <3>1. p = s_pixel
      BY <1>2, <1>4, <1>7, <2>1, <2>2, Components
    <3>2. shown = s_pixel
      BY <1>3, <2>2, <3>1
    <3>3. \A i \in DOMAIN s_pixel : s_pixel[i] - s_pixel[i] \in -1 .. 1
      <4>1. \A i \in DOMAIN s_pixel : s_pixel[i] \in Level
        BY <1>2
      <4>2. \A v \in Level : v - v \in -1 .. 1
        BY DEF Level
      <4> QED BY <4>1, <4>2
    <3> QED BY <1>6, <1>7, <2>2, <3>2, <3>3
  <2>3. CASE s_jpeg_color_space # s_out_color_space
    <3>1. s_in_color_space = "GRAYSCALE" /\ s_out_color_space = "RGB"
      BY <1>2, <1>7, <2>3
    <3> QED BY <3>1
  <2> QED BY <2>2, <2>3
<1>8. ASSUME s_in_color_space = "RGB", s_jpeg_color_space = "GRAYSCALE", s_planes = <<y[1]>>
      PROVE  Return(shown)
  <2>0. s_pixel[1] \in Level /\ s_pixel[2] \in Level /\ s_pixel[3] \in Level
    BY <1>6, <1>8
  <2>a. /\ y[1] \in Level /\ Lightness(y[1], s_pixel[1], s_pixel[2], s_pixel[3])
        /\ s_pixel[1] = s_pixel[2] /\ s_pixel[2] = s_pixel[3] => y[1] = s_pixel[1]
    BY SMTT(30), <2>0, PixelReturns
  <2> HIDE DEF y
  <2>1. /\ y[1] \in Level /\ 1000 * y[1] - light \in -501 .. 501
        /\ s_pixel[1] = s_pixel[2] /\ s_pixel[2] = s_pixel[3] => y[1] = s_pixel[1]
    BY <2>a DEF Lightness
  <2> HIDE DEF light
  <2>2. DOMAIN s_planes = {1} /\ s_planes[1] = y[1] /\ Len(s_planes) = 1 /\ ~(1 >= 3)
    BY <1>8
  <2>3. p = <<y[1]>>
    BY <1>4, <2>2, <1>8
  <2>4. CASE s_out_color_space = "GRAYSCALE"
    <3>1. shown = <<y[1]>>
      BY <1>3, <1>8, <2>3, <2>4
    <3> QED BY <1>8, <2>1, <2>4, <3>1
  <2>5. CASE s_out_color_space # "GRAYSCALE"
    <3>1. s_out_color_space = "RGB"
      BY <1>2, <1>8, <2>5
    <3>2. p[1] = y[1]
      BY <2>3
    <3>3. shown = <<y[1], y[1], y[1]>>
      BY <1>3, <1>8, <3>1, <3>2
    <3>4. ~(Len(s_planes) >= Len(s_pixel))
      BY <1>6, <1>8, <2>2
    <3> QED BY <1>8, <2>1, <3>1, <3>3, <3>4
  <2> QED BY <2>4, <2>5
<1>9. ASSUME s_in_color_space = "RGB", s_jpeg_color_space = "YCbCr", s_planes = y PROVE Return(shown)
  <2>0. s_pixel[1] \in Level /\ s_pixel[2] \in Level /\ s_pixel[3] \in Level
    BY <1>6, <1>9
  <2>a. /\ y \in Level \X Level \X Level /\ Lightness(y[1], s_pixel[1], s_pixel[2], s_pixel[3])
        /\ back \in Int \X Int \X Int
        /\ Close(back[1], s_pixel[1]) /\ Close(back[2], s_pixel[2]) /\ Close(back[3], s_pixel[3])
        /\ s_pixel[1] = s_pixel[2] /\ s_pixel[2] = s_pixel[3] =>
             y[1] = s_pixel[1] /\ back = <<s_pixel[1], s_pixel[1], s_pixel[1]>>
    BY SMTT(30), <2>0, PixelReturns
  <2> HIDE DEF y, back
  <2>1. /\ y \in Level \X Level \X Level /\ 1000 * y[1] - light \in -501 .. 501
        /\ back \in Int \X Int \X Int
        /\ back[1] - s_pixel[1] \in -1 .. 1 /\ back[2] - s_pixel[2] \in -1 .. 1 /\ back[3] - s_pixel[3] \in -1 .. 1
        /\ s_pixel[1] = s_pixel[2] /\ s_pixel[2] = s_pixel[3] =>
             y[1] = s_pixel[1] /\ back = <<s_pixel[1], s_pixel[1], s_pixel[1]>>
    BY <2>a DEF Lightness, Close
  <2> HIDE DEF light
  <2>2. DOMAIN s_planes = {1, 2, 3} /\ s_planes = [c \in DOMAIN s_planes |-> s_planes[c]]
    BY <1>9, <2>1
  <2>3. CASE s_out_color_space = "YCbCr"
    BY <1>9, <2>3
  <2>4. CASE s_out_color_space = "GRAYSCALE"
    <3>1. p[1] = y[1]
      BY <1>5, <1>9, <2>2
    <3>2. shown = <<y[1]>>
      BY <1>3, <1>9, <2>4, <3>1
    <3> QED BY <1>9, <2>1, <2>4, <3>2
  <2>5. CASE s_out_color_space = "RGB"
    <3>1. p = y
      BY <1>4, <1>9, <2>2, <2>5
    <3>2. shown = Colours!Limited(back)
      BY <1>3, <1>9, <2>5, <3>1 DEF back
    <3>3. /\ DOMAIN shown = {1, 2, 3}
          /\ \A i \in {1, 2, 3} : shown[i] = Colours!range_limit(back[i])
      BY <2>1, <3>2 DEF Colours!Limited
    <3>4. \A i \in {1, 2, 3} : shown[i] - s_pixel[i] \in -1 .. 1
      BY <1>6, <1>9, <2>1, <3>3, Limited
    <3>5. ASSUME s_pixel[1] = s_pixel[2], s_pixel[2] = s_pixel[3]
          PROVE  \A i \in {1, 2, 3} : shown[i] = s_pixel[1]
      <4>1. s_pixel[1] - s_pixel[1] \in -1 .. 1 /\ s_pixel[1] \in Int
        BY <1>6, <1>9 DEF Level
      <4>2. Colours!range_limit(s_pixel[1]) = s_pixel[1]
        BY <1>6, <1>9, <4>1, Limited
      <4> QED BY <2>1, <3>3, <3>5, <4>2
    <3> QED BY <1>6, <1>9, <2>5, <3>3, <3>4, <3>5
  <2> QED BY <1>2, <1>9, <2>3, <2>4, <2>5
<1>10. ASSUME s_in_color_space = "CMYK", s_jpeg_color_space = "YCCK",
              LET q == Colours!ycc(255 - s_pixel[1], 255 - s_pixel[2], 255 - s_pixel[3]) IN
              s_planes = <<q[1], q[2], q[3], s_pixel[4]>>
       PROVE  Return(shown)
  <2> DEFINE q == Colours!ycc(255 - s_pixel[1], 255 - s_pixel[2], 255 - s_pixel[3])
             out == Colours!rgb(q)
  <2>1. /\ s_pixel[1] \in Level /\ s_pixel[2] \in Level /\ s_pixel[3] \in Level /\ s_pixel[4] \in Level
        /\ DOMAIN s_pixel = {1, 2, 3, 4}
    BY <1>2, <1>10, Components
  <2>2. /\ 255 - s_pixel[1] \in Level /\ 255 - s_pixel[2] \in Level /\ 255 - s_pixel[3] \in Level
    BY SMTT(30), <2>1 DEF Level
  <2>3. /\ q \in Level \X Level \X Level /\ out \in Int \X Int \X Int
        /\ out[1] - (255 - s_pixel[1]) \in -1 .. 1 /\ out[2] - (255 - s_pixel[2]) \in -1 .. 1
        /\ out[3] - (255 - s_pixel[3]) \in -1 .. 1
    BY <2>2, RgbReturns
  <2>4. s_planes = <<q[1], q[2], q[3], s_pixel[4]>>
    BY <1>10
  <2>5. Colours!rgb(s_planes) = out
    BY <2>4 DEF Colours!rgb
  <2> HIDE DEF q, out
  <2>6. DOMAIN s_planes = {1, 2, 3, 4} /\ s_planes = [c \in DOMAIN s_planes |-> s_planes[c]]
        /\ s_planes[4] = s_pixel[4]
    BY <2>4
  <2>7. CASE s_out_color_space = "CMYK"
    <3> DEFINE l == Colours!Limited(Colours!Inverted(out))
    <3>1. p = s_planes
      BY <1>4, <2>6, <2>7
    <3>2. shown = Append(l, s_pixel[4])
      BY <1>3, <1>10, <2>5, <2>6, <2>7, <3>1
    <3>3. /\ DOMAIN Colours!Inverted(out) = {1, 2, 3}
          /\ \A i \in {1, 2, 3} : Colours!Inverted(out)[i] = 255 - out[i]
      BY <2>3 DEF Colours!Inverted, Colours!MAXJSAMPLE
    <3>4. \A i \in {1, 2, 3} : l[i] = Colours!range_limit(255 - out[i])
      BY <3>3 DEF Colours!Limited
    <3>5. l = <<l[1], l[2], l[3]>>
      BY <2>3 DEF Colours!Limited, Colours!Inverted
    <3>6. l[1] - s_pixel[1] \in -1 .. 1 /\ l[2] - s_pixel[2] \in -1 .. 1 /\ l[3] - s_pixel[3] \in -1 .. 1
      BY <2>1, <2>3, <3>4, LimitedInverted
    <3> HIDE DEF l
    <3>7. shown = <<l[1], l[2], l[3], s_pixel[4]>>
      <4>1. Append(<<l[1], l[2], l[3]>>, s_pixel[4]) = <<l[1], l[2], l[3], s_pixel[4]>>
        BY AppendFourth
      <4>2. Append(l, s_pixel[4]) = Append(<<l[1], l[2], l[3]>>, s_pixel[4])
        BY <3>5
      <4> QED BY <3>2, <4>1, <4>2
    <3>8. s_pixel[4] - s_pixel[4] \in -1 .. 1
      BY <2>1 DEF Level
    <3>9. \A i \in {1, 2, 3, 4} : shown[i] - s_pixel[i] \in -1 .. 1
      BY <3>6, <3>7, <3>8
    <3> QED BY <1>10, <2>1, <3>9
  <2>8. CASE s_out_color_space # "CMYK"
    BY <1>10, <2>8
  <2> QED BY <2>7, <2>8
<1>11. Return(shown)
  <2> HIDE DEF Return, p, back, light
  <2> QED BY <1>2, <1>7, <1>8, <1>9, <1>10 DEF Kept
<1>12. Colours!ColoursReturn'
  <2>1. \A a, b : Colours!Near(a, b, 1) <=> a - b \in -1 .. 1
    BY Zenon DEF Colours!Near
  <2>2. \A a, b : Colours!Near(a, b, 501) <=> a - b \in -501 .. 501
    BY ZenonT(40) DEF Colours!Near
  <2>3. /\ s_pixel' = s_pixel /\ s_planes' = s_planes
        /\ s_in_color_space' = s_in_color_space /\ s_out_color_space' = s_out_color_space
    BY <1>1
  <2>4. Return(s_shown')
    BY SMTT(30), <1>11
  <2> HIDE DEF p, y, back, shown
  <2>5. /\ s_out_color_space = s_in_color_space /\ Len(s_planes) >= Len(s_pixel) =>
             \A i \in DOMAIN s_pixel : Colours!Near(s_shown'[i], s_pixel[i], 1)
        /\ (s_in_color_space = "RGB" /\ s_pixel[1] = s_pixel[2] /\ s_pixel[2] = s_pixel[3]
              /\ s_out_color_space \in {"RGB", "GRAYSCALE"}) =>
             \A i \in DOMAIN s_shown' : s_shown'[i] = s_pixel[1]
        /\ (s_in_color_space = "RGB" /\ s_out_color_space = "GRAYSCALE") =>
             Colours!Near(1000 * s_shown'[1], 299 * s_pixel[1] + 587 * s_pixel[2] + 114 * s_pixel[3], 501)
    BY <2>1, <2>2, <2>4
  <2> QED BY <2>3, <2>5 DEF Colours!ColoursReturn
<1>13. UNCHANGED <<s_pixel, s_in_color_space, s_jpeg_color_space, s_planes>>
  BY <1>1
<1> QED BY <1>1, <1>2, <1>12, <1>13 DEF ColoursInv, ColoursReturn, Kept

(* A pixel that goes through the conversions comes back in its colour      *)
(* (rgb_ycc_convert, ycc_rgb_convert).                                     *)
THEOREM ColoursAreKept == PartsSpec => []ColoursReturn
<1>1. PartsInit => ColoursInv
  BY ColoursInit DEF PartsInit
<1>2. ASSUME ColoursInv, [PartsNext]_partsVars PROVE ColoursInv'
  <2>1. CASE Colours!Next
    BY <1>2, <2>1, ColoursChoose, ColoursConvert, ColoursSetUp, ColoursShow DEF Colours!Next
  <2>2. CASE UNCHANGED coloursVars
    BY <1>2, <2>2 DEF coloursVars, ColoursInv, Kept, ColoursReturn, Colours!ColoursReturn
  <2> QED BY <1>2, <2>1, <2>2 DEF PartsNext, Alone, partsVars
<1>3. ColoursInv => ColoursReturn
  BY DEF ColoursInv
<1> QED BY <1>1, <1>2, <1>3, PTL DEF PartsSpec

-----------------------------------------------------------------------------
(* TranInv holds of all the parts' states: only the transform changes the  *)
(* photo, the file and the command.                                        *)
LEMMA TranKept == ASSUME TranInv, [PartsNext]_partsVars PROVE TranInv'
<1>1. CASE Tran!Next
  BY <1>1, TranStep
<1>2. CASE UNCHANGED tranVars
  BY <1>2 DEF tranVars, TranInv
<1> QED BY <1>1, <1>2 DEF PartsNext, Alone, partsVars

(* After a command on a sound photo each sample seen is the one geometry   *)
(* puts there, perfect or trimmed, cropped or not, for frames of any size  *)
(* and components of any factors (transupp.c: do_flip_h, do_rot_90, ...).  *)
THEOREM SamplesArePlaced == PartsSpec => []SamplesPlaced
<1>1. PartsInit => TranInv
  BY TranInit DEF PartsInit
<1> QED BY <1>1, TranKept, TranPlaces, PTL DEF PartsSpec

(* The rotations and the transverse transpose are the combinations of the  *)
(* basic transforms transupp.h says they are, partial iMCUs included.      *)
THEOREM TransformsAgree == PartsSpec => []TransformsCompose
<1>1. PartsInit => TranInv
  BY TranInit DEF PartsInit
<1> QED BY <1>1, TranKept, TranComposes, PTL DEF PartsSpec

(* The header follows the picture through every command, for any markers   *)
(* and any number of components: none but JFIF and Adobe markers goes, the *)
(* colours can be told as before, and an Exif marker that comes first      *)
(* gives the size of the picture (transupp.c, jcparam.c).                  *)
THEOREM HeaderStays == PartsSpec => []HeaderFollows
<1> DEFINE Inv == TranInv /\ HeadInv
<1>1. PartsInit => Inv
  BY TranInit DEF PartsInit, Tran!Init, HeadInv
<1>2. Inv /\ [PartsNext]_partsVars => Inv'
  <2> SUFFICES ASSUME Inv, [PartsNext]_partsVars PROVE Inv'
    OBVIOUS
  <2>1. CASE Tran!Next
    BY <2>1, TranKept, HeadStep
  <2>2. CASE UNCHANGED tranVars
    <3>1. HeadInv'
      BY <2>2 DEF tranVars, HeadInv, HeadSame, HeadKept, ExifRight, Tran!ExifFirst, ExifAt, Coloured, Told, Adobed, Others
    <3> QED BY <3>1, TranKept
  <2> QED BY <2>1, <2>2 DEF PartsNext, Alone, partsVars
<1>3. Inv => HeaderFollows
  BY HeadFollows
<1> QED BY <1>1, <1>2, <1>3, PTL DEF PartsSpec

-----------------------------------------------------------------------------
(* What a pass shows is complete: of every block that is not a dummy, each *)
(* scan up to the one asked for, once, whichever side was ahead and        *)
(* wherever the source ran dry (jdcoefct.c, jdinput.c, jdapistd.c).        *)
THEOREM PassesAreComplete == PartsSpec => []PassShowsScan
<1>1. PartsInit => CoefInv
  BY DEF PartsInit, Coefs!Init, CoefInv
<1>2. CoefInv /\ [PartsNext]_partsVars => CoefInv'
  <2>1. [PartsNext]_partsVars => [Coefs!Next]_coefsVars
    BY DEF PartsNext, partsVars, Alone
  <2> QED BY <2>1, CoefStep
<1> QED BY <1>1, <1>2, CoefShows, PTL DEF PartsSpec
=============================================================================
