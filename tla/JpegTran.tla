------------------------------ MODULE JpegTran ------------------------------
(***************************************************************************)
(* The lossless commands.  RatioFrame runs jpegtran on a copy of the photo *)
(* with -perfect, then with -trim (CallJPEGTranTryPerfect); jpegtran       *)
(* (src/lib/jpeg-6b-crop/jpegtran.c, transupp.c, jctrans.c, jdtrans.c)     *)
(* moves the blocks of coefficients and changes signs inside them.         *)
(*                                                                         *)
(* A component is a function from its samples, those of the blocks that    *)
(* pad it too, to where each came from in the photo that was opened: the   *)
(* coefficients of a block stand for its samples.                          *)
(***************************************************************************)
EXTENDS Integers, Sequences, FiniteSets

CONSTANTS
  DCTSIZE,   (* samples on the side of a block, even                       *)
  Frames,    (* frames: width, height, the sampling factors <<h, v>>, and  *)
             (* the markers before them                                    *)
  Crops,     (* regions asked for: width, height, x and y                  *)
  MaxCommands (* bound: commands on a photo                                *)

Plain == {"JXFORM_NONE", "JXFORM_FLIP_H", "JXFORM_FLIP_V", "JXFORM_ROT_180"}
Transposing == {"JXFORM_TRANSPOSE", "JXFORM_TRANSVERSE", "JXFORM_ROT_90", "JXFORM_ROT_270"}
MirrorsX == {"JXFORM_FLIP_H", "JXFORM_ROT_180", "JXFORM_ROT_90", "JXFORM_TRANSVERSE"}
MirrorsY == {"JXFORM_FLIP_V", "JXFORM_ROT_180", "JXFORM_ROT_270", "JXFORM_TRANSVERSE"}
NoCrop == <<>>

FramesAssumption ==
  /\ DCTSIZE \in Nat \ {0} /\ DCTSIZE % 2 = 0
  /\ \A f \in Frames : /\ f.width \in Nat \ {0} /\ f.height \in Nat \ {0}
                       /\ f.factors \in Seq((1 .. 4) \X (1 .. 4)) /\ f.factors # <<>>
                       /\ f.markers \in Seq([kind : STRING, size : {<<>>} \cup (Nat \X Nat)])
  /\ \A c \in Crops : /\ c.width \in Nat /\ c.height \in Nat
                      /\ c.x \in Nat /\ c.y \in Nat

VARIABLES
  photo,     (* the file before the command                                *)
  file,      (* the working file                                           *)
  command,   (* transform and crop region                                  *)
  attempt,   (* "none", "idle", "perfect", "trim", "done" or "failed"      *)
  commands

vars == <<photo, file, command, attempt, commands>>

Up(a, b) == (a + b - 1) \div b
Largest(S) == CHOOSE n \in S : \A k \in S : k <= n
max_h(factors) == Largest({factors[c][1] : c \in DOMAIN factors})
max_v(factors) == Largest({factors[c][2] : c \in DOMAIN factors})

(* The blocks of a component, and those that fill its last iMCUs up.       *)
width_in_blocks(f, c) == Up(f.width * f.factors[c][1], max_h(f.factors) * DCTSIZE)
height_in_blocks(f, c) == Up(f.height * f.factors[c][2], max_v(f.factors) * DCTSIZE)
PaddedWidth(f, c) == Up(f.width, max_h(f.factors) * DCTSIZE) * f.factors[c][1] * DCTSIZE
PaddedHeight(f, c) == Up(f.height, max_v(f.factors) * DCTSIZE) * f.factors[c][2] * DCTSIZE
(* What is seen of it. *)
Seen(f, c) ==
  (0 .. Up(f.width * f.factors[c][1], max_h(f.factors)) - 1)
    \X (0 .. Up(f.height * f.factors[c][2], max_v(f.factors)) - 1)

-----------------------------------------------------------------------------
(* The parameters of a transform: jtransform_request_workspace and         *)
(* jtransform_adjust_parameters.  A single component counts as 1x1.        *)
DestinationFactors(f, t) ==
  IF Len(f.factors) = 1 THEN << <<1, 1>> >>
  ELSE IF t \in Transposing
       THEN [c \in DOMAIN f.factors |-> <<f.factors[c][2], f.factors[c][1]>>]
       ELSE f.factors

(* Partial iMCUs are trimmed off the edge they are on, when the region     *)
(* reaches it and something is left. *)
Trimmed(size, full, offset, mcu) ==
  LET n == size \div mcu IN
  IF n > 0 /\ offset + n = full \div mcu THEN n * mcu ELSE size

BadCrop(crop, w, h) ==
  /\ crop # NoCrop
  /\ \/ crop.x >= w \/ crop.y >= h
     \/ crop.width = 0 \/ crop.height = 0
     \/ crop.x + crop.width > w \/ crop.y + crop.height > h

Info(f, t, crop, trim) ==
  LET factors == DestinationFactors(f, t)
      mcuw == max_h(factors) * DCTSIZE
      mcuh == max_v(factors) * DCTSIZE
      fullw == IF t \in Transposing THEN f.height ELSE f.width
      fullh == IF t \in Transposing THEN f.width ELSE f.height
      x == IF crop = NoCrop THEN 0 ELSE crop.x \div mcuw
      y == IF crop = NoCrop THEN 0 ELSE crop.y \div mcuh
      w == IF crop = NoCrop THEN fullw ELSE crop.width + (crop.x % mcuw)
      h == IF crop = NoCrop THEN fullh ELSE crop.height + (crop.y % mcuh)
  IN [factors |-> factors, x |-> x, y |-> y,
      cols |-> fullw \div mcuw, rows |-> fullh \div mcuh,
      width |-> IF trim /\ t \in MirrorsX THEN Trimmed(w, fullw, x, mcuw) ELSE w,
      height |-> IF trim /\ t \in MirrorsY THEN Trimmed(h, fullh, y, mcuh) ELSE h]

(* jtransform_perfect_transform, in iMCUs of the source.                   *)
Perfect(f, t) ==
  LET mirrors == IF t \in Transposing THEN <<t \in MirrorsY, t \in MirrorsX>>
                                      ELSE <<t \in MirrorsX, t \in MirrorsY>> IN
  /\ mirrors[1] => f.width % (max_h(f.factors) * DCTSIZE) = 0
  /\ mirrors[2] => f.height % (max_v(f.factors) * DCTSIZE) = 0

-----------------------------------------------------------------------------
(* Where each routine takes the block it puts at x, y, in the destination  *)
(* before the crop, of which columns x < w and rows y < h can be mirrored; *)
(* whether it transposes it; and which coefficients change sign, by the    *)
(* parity of their row and column in the source.                           *)
Block(col, row, swap, negated) == [col |-> col, row |-> row, swap |-> swap, negated |-> negated]
OddColumns == {<<0, 1>>, <<1, 1>>}
OddRows == {<<1, 0>>, <<1, 1>>}
Either(A, B) == (A \cup B) \ (A \cap B)
Mirrored(k, size) == IF k < size THEN size - k - 1 ELSE k
If(c, S) == IF c THEN S ELSE {}

do_crop(x, y, w, h) == Block(x, y, FALSE, {})
do_flip_h(x, y, w, h) == Block(Mirrored(x, w), y, FALSE, If(x < w, OddColumns))
do_flip_v(x, y, w, h) == Block(x, Mirrored(y, h), FALSE, If(y < h, OddRows))
do_transpose(x, y, w, h) == Block(y, x, TRUE, {})
do_rot_90_columns(x, y, w, h) == Block(y, Mirrored(x, w), TRUE, If(x < w, OddColumns)) \* mutant
do_rot_90(x, y, w, h) == Block(y, Mirrored(x, w), TRUE, If(x < w, OddRows))
do_rot_270(x, y, w, h) == Block(Mirrored(y, h), x, TRUE, If(y < h, OddColumns))
do_rot_180(x, y, w, h) ==
  Block(Mirrored(x, w), Mirrored(y, h), FALSE, Either(If(x < w, OddColumns), If(y < h, OddRows)))
do_transverse_edge(x, y, w, h) ==                                     \* mutant
  Block(Mirrored(y, h), Mirrored(x, w), TRUE,
        If(x < w /\ y < h, Either(OddRows, OddColumns)))
do_transverse(x, y, w, h) ==
  Block(Mirrored(y, h), Mirrored(x, w), TRUE, Either(If(x < w, OddRows), If(y < h, OddColumns)))

BlockFor(t, x, y, w, h) ==
  CASE t = "JXFORM_NONE"       -> do_crop(x, y, w, h)
    [] t = "JXFORM_FLIP_H"     -> do_flip_h(x, y, w, h)
    [] t = "JXFORM_FLIP_V"     -> do_flip_v(x, y, w, h)
    [] t = "JXFORM_TRANSPOSE"  -> do_transpose(x, y, w, h)
    [] t = "JXFORM_TRANSVERSE" -> do_transverse(x, y, w, h)
    [] t = "JXFORM_ROT_90"     -> do_rot_90(x, y, w, h)
    [] t = "JXFORM_ROT_180"    -> do_rot_180(x, y, w, h)
    [] t = "JXFORM_ROT_270"    -> do_rot_270(x, y, w, h)

(* The sample of the source block that sample u, v of its copy shows: the  *)
(* cosines of odd order change sign when a block is mirrored. *)
SampleOf(b, u, v) ==
  LET p == IF b.swap THEN <<v, u>> ELSE <<u, v>> IN
  << b.col * DCTSIZE + (IF <<0, 1>> \in b.negated THEN DCTSIZE - 1 - p[1] ELSE p[1]),
     b.row * DCTSIZE + (IF <<1, 0>> \in b.negated THEN DCTSIZE - 1 - p[2] ELSE p[2]) >>

(* jtransform_execute_transform, and the padding the writer makes up.      *)
Dummy == <<-1, -1>>
Transformed(f, t, info, g) ==
  [c \in DOMAIN f.factors |->
     LET h == info.factors[c][1]  v == info.factors[c][2]
         wib == width_in_blocks(g, c)  hib == height_in_blocks(g, c) IN
     [p \in (0 .. PaddedWidth(g, c) - 1) \X (0 .. PaddedHeight(g, c) - 1) |->
        LET bx == p[1] \div DCTSIZE  by == p[2] \div DCTSIZE IN
        IF bx >= wib \/ by >= hib THEN Dummy
        ELSE f.samples[c][SampleOf(BlockFor(t, bx + info.x * h, by + info.y * v,
                                            info.cols * h, info.rows * v),
                                   p[1] % DCTSIZE, p[2] % DCTSIZE)]]]

(* The colours a photo may have, by the number of its components and its   *)
(* markers; with neither JFIF nor Adobe the names of components decide.    *)
default_decompress_parms(n, markers) ==
  LET saw(kind) == \E i \in DOMAIN markers : markers[i].kind = kind IN
  CASE n = 1 -> {"GRAYSCALE"}
    [] n = 3 -> IF saw("JFIF") THEN {"YCbCr"} ELSE {"YCbCr", "RGB"}
    [] n = 4 -> IF saw("Adobe") THEN {"CMYK", "YCCK"} ELSE {"CMYK"}
    [] OTHER -> {"UNKNOWN"}

(* The markers: the size in an Exif marker follows when it comes first.    *)
Adjusted(f, g) ==
  [i \in DOMAIN f.markers |->
     IF i = 1 /\ f.markers[i].kind = "Exif" /\ f.markers[i].size # <<>>
        /\ <<g.width, g.height>> # <<f.width, f.height>>
     THEN [f.markers[i] EXCEPT !.size = <<g.width, g.height>>]
     ELSE f.markers[i]]
(* The markers of other kinds, in their order; a function over their       *)
(* number, of which proofs are possible, and not SelectSeq.                *)
Without(markers, kinds) ==
  LET kept[i \in 0 .. Len(markers)] ==
        IF i = 0 THEN <<>>
        ELSE IF markers[i].kind \in kinds THEN kept[i - 1] ELSE Append(kept[i - 1], markers[i])
  IN kept[Len(markers)]
Marker(kind) == [kind |-> kind, size |-> <<>>]
(* The colours decide the marker that the writer puts before the copied    *)
(* ones (jpeg_set_colorspace), of which none is of that kind; an Exif      *)
(* marker that comes first keeps it from a JFIF marker.                    *)
AdobeSpaces == {"RGB", "CMYK", "YCCK"}
JFIFSpaces == {"GRAYSCALE", "YCbCr"}
ExifFirst(f) == f.markers # <<>> /\ f.markers[1].kind = "Exif"
CopiedAs(space, f, g) ==
  LET own == IF space \in AdobeSpaces THEN <<Marker("Adobe")>>
             ELSE IF space \in JFIFSpaces /\ ~ExifFirst(f) THEN <<Marker("JFIF")>>
             ELSE <<>>
  IN own \o Without(Adjusted(f, g), {own[i].kind : i \in DOMAIN own})
CopiedAsDefaults(f, g) ==                                             \* mutant
  CopiedAs(IF f.space = "RGB" THEN "YCbCr" ELSE f.space, f, g)
Copied(f, g) == CopiedAs(f.space, f, g)

jpegtran(f, t, crop, trim) ==
  LET info == Info(f, t, crop, trim)
      g == [f EXCEPT !.width = info.width, !.height = info.height, !.factors = info.factors]
  IN [g EXCEPT !.samples = Transformed(f, t, info, g), !.markers = Copied(f, g), !.damaged = FALSE]
(* It fails before it opens its output. *)
Refused(f, t, crop, perfect) ==
  \/ perfect /\ ~Perfect(f, t)
  \/ IF t \in Transposing THEN BadCrop(crop, f.height, f.width) ELSE BadCrop(crop, f.width, f.height)

-----------------------------------------------------------------------------
(* CallJPEGTranTryPerfect.  jpegtran also reports a failure when its input *)
(* had something to warn about: the output has been written. *)
Photo(f, space, damaged) ==
  [width |-> f.width, height |-> f.height, factors |-> f.factors, space |-> space,
   samples |-> [c \in DOMAIN f.factors |->
                  [p \in (0 .. PaddedWidth(f, c) - 1) \X (0 .. PaddedHeight(f, c) - 1) |-> p]],
   markers |-> [i \in DOMAIN f.markers |->
                  IF f.markers[i].size = <<>> THEN f.markers[i]
                  ELSE [f.markers[i] EXCEPT !.size = <<f.width, f.height>>]],
   damaged |-> damaged]
Open(f, space, damaged) ==
  /\ attempt = "none"
  /\ space \in default_decompress_parms(Len(f.factors), f.markers)
  /\ photo' = Photo(f, space, damaged) /\ file' = photo'
  /\ attempt' = "idle"
  /\ UNCHANGED <<command, commands>>

CallJPEGTranTryPerfect(t, crop) ==
  /\ attempt \in {"idle", "done"} /\ commands < MaxCommands
  /\ photo' = file
  /\ command' = [transform |-> t, crop |-> crop]
  /\ commands' = commands + 1
  /\ attempt' = "perfect"
  /\ UNCHANGED file

subCallPerfect ==
  /\ attempt = "perfect"
  /\ LET t == command.transform
         refused == Refused(file, t, command.crop, TRUE) IN
     /\ file' = IF refused THEN file ELSE jpegtran(file, t, command.crop, FALSE)
     /\ attempt' = IF refused \/ file.damaged THEN "trim" ELSE "done"
  /\ UNCHANGED <<photo, command, commands>>

subCallTrim ==
  /\ attempt = "trim"
  /\ LET t == command.transform
         refused == Refused(file, t, command.crop, FALSE) IN
     /\ file' = IF refused THEN file ELSE jpegtran(file, t, command.crop, TRUE)
     /\ attempt' = IF refused \/ file.damaged THEN "failed" ELSE "done"
  /\ UNCHANGED <<photo, command, commands>>

Init ==
  /\ attempt = "none" /\ photo = <<>> /\ file = <<>>
  /\ command = [transform |-> "JXFORM_NONE", crop |-> NoCrop] /\ commands = 0

Next ==
  \/ \E f \in Frames, s \in AdobeSpaces \cup JFIFSpaces \cup {"UNKNOWN"}, d \in BOOLEAN : Open(f, s, d)
  \/ \E t \in Plain \cup Transposing, c \in Crops \cup {NoCrop} : CallJPEGTranTryPerfect(t, c)
  \/ subCallPerfect \/ subCallTrim
Spec == Init /\ [][Next]_vars

-----------------------------------------------------------------------------
(* Where a sample of the transformed picture comes from, when w by h is    *)
(* the part of the source that is transformed: the geometry, in samples.   *)
Moved(t, w, h, x, y) ==
  CASE t = "JXFORM_NONE"       -> <<x, y>>
    [] t = "JXFORM_FLIP_H"     -> <<w - 1 - x, y>>
    [] t = "JXFORM_FLIP_V"     -> <<x, h - 1 - y>>
    [] t = "JXFORM_TRANSPOSE"  -> <<y, x>>
    [] t = "JXFORM_TRANSVERSE" -> <<w - 1 - y, h - 1 - x>>
    [] t = "JXFORM_ROT_90"     -> <<y, h - 1 - x>>
    [] t = "JXFORM_ROT_180"    -> <<w - 1 - x, h - 1 - y>>
    [] t = "JXFORM_ROT_270"    -> <<w - 1 - y, x>>

(* After a command on a sound photo every sample seen is the one geometry  *)
(* puts there, in every component, be the transform perfect or trimmed,    *)
(* cropped or not (transupp.c); left aside are results that lie wholly in  *)
(* a partial iMCU, which nothing mirrors.                                  *)
SamplesPlaced ==
  attempt = "done" /\ ~photo.damaged =>
    LET t == command.transform
        info == Info(photo, t, command.crop, FALSE) IN
    (t \in MirrorsX => info.x < info.cols) /\ (t \in MirrorsY => info.y < info.rows) =>
      \A c \in DOMAIN file.factors : \A p \in Seen(file, c) :
        LET h == info.factors[c][1]  v == info.factors[c][2]
            w0 == (IF t \in Transposing THEN info.rows * v ELSE info.cols * h) * DCTSIZE
            h0 == (IF t \in Transposing THEN info.cols * h ELSE info.rows * v) * DCTSIZE IN
        file.samples[c][p] =
          photo.samples[c][Moved(t, w0, h0, p[1] + info.x * h * DCTSIZE, p[2] + info.y * v * DCTSIZE)]

(* transupp.h, "The other transforms are defined as combinations of these  *)
(* basic transforms and process edge blocks in a way that preserves the    *)
(* equivalence": without trimming, partial iMCUs included.                 *)
SameSeen(f, g) ==
  /\ f.width = g.width /\ f.height = g.height /\ f.factors = g.factors
  /\ \A c \in DOMAIN f.factors : \A p \in Seen(f, c) : f.samples[c][p] = g.samples[c][p]
TransformsCompose ==
  attempt \in {"idle", "done"} =>
    LET T(f, t) == jpegtran(f, t, NoCrop, FALSE) IN
    /\ SameSeen(T(file, "JXFORM_ROT_90"), T(T(file, "JXFORM_TRANSPOSE"), "JXFORM_FLIP_H"))
    /\ SameSeen(T(file, "JXFORM_ROT_270"), T(T(file, "JXFORM_FLIP_H"), "JXFORM_TRANSPOSE"))
    /\ SameSeen(T(file, "JXFORM_ROT_180"), T(T(file, "JXFORM_FLIP_V"), "JXFORM_FLIP_H"))
    /\ SameSeen(T(file, "JXFORM_TRANSVERSE"), T(T(file, "JXFORM_ROT_180"), "JXFORM_TRANSPOSE"))

(* The header follows the picture: the markers that are neither JFIF nor   *)
(* Adobe stay, in their order, the colours can be told as before, and the  *)
(* size an Exif marker gives, when it is the first one, is that of the     *)
(* picture (jtransform_adjust_parameters, jcopy_markers_execute).  Where   *)
(* an Adobe marker is written before it, it is no longer the first one in  *)
(* the file, and a damaged photo goes through the tool twice.              *)
Kinds(ms) == [i \in DOMAIN ms |-> ms[i].kind]
HeaderFollows ==
  attempt = "done" =>
    LET others(f) == Kinds(Without(f.markers, {"JFIF", "Adobe"}))
        first == IF photo.space \in AdobeSpaces THEN 2 ELSE 1 IN
    /\ others(file) = others(photo)
    /\ photo.space \in default_decompress_parms(Len(file.factors), file.markers)
    /\ ExifFirst(photo) /\ (first = 2 => ~photo.damaged)
       => /\ file.markers[first].kind = "Exif"
          /\ file.markers[first].size \in {<<>>, <<file.width, file.height>>}

(* RatioFrame.cpp:905, "Try once, with perfect option, and if it fails,    *)
(* trim and warn": the second attempt starts from the photo.               *)
TrimAfterFailure == attempt = "trim" => file = photo
=============================================================================
