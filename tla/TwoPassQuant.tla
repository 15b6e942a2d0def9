---------------------------- MODULE TwoPassQuant ----------------------------
(***************************************************************************)
(* The 2-pass colour quantizer, src/lib/jpeg-6b-crop/jquant2.c, as         *)
(* jdmaster.c drives it: a first pass counts the colours of the picture in *)
(* a histogram, the median cut chooses a colour map, and the passes after  *)
(* it map each pixel to the nearest colour, with or without dithering.     *)
(* The histogram's memory is used again, as a cache of nearest colours;    *)
(* the application may choose the colours anew, or give its own, between   *)
(* two passes.                                                             *)
(***************************************************************************)
EXTENDS Integers, Sequences, FiniteSets

CONSTANTS
  Pictures,   (* [colors, rows]: desired_number_of_colors, rows of pixels  *)
  Colormaps,  (* colour maps an application gives                          *)
  CellMax,    (* the largest count of a cell, 65535 in the code            *)
  Passes      (* bound on the output passes                                *)

VARIABLES
  pc, picture, dither_mode, passes,
  external,     (* the colour map is the application's                     *)
  histogram,    (* the cells that are not zero: a count, or, in a pass     *)
                (* that maps, the position of the nearest colour           *)
  needs_zeroed,
  boxlist,      (* the median cut's boxes, each the cells it holds         *)
  colormap,
  row, col,     (* the pixel to come: col counts in the row's direction    *)
  on_odd_row, fserrors, cur, belowerr, bpreverr,
  out           (* the pass so far: positions in the colour map            *)

choice == <<picture, external, boxlist, colormap>>
errors == <<on_odd_row, fserrors, cur, belowerr, bpreverr>>
vars == <<pc, choice, dither_mode, passes, histogram, needs_zeroed, row, col, errors, out>>

MAXJSAMPLE == 255
Axis == 1 .. 3
Shift == <<8, 4, 8>>      (* samples in a cell of the histogram, of an axis *)
Scale == <<2, 3, 1>>      (* of distances: red, green, blue                 *)
Log == <<4, 8, 4>>        (* cells in an update box, of an axis             *)
Origin == [i \in Axis |-> 0]
Cell(p) == [i \in Axis |-> p[i] \div Shift[i]]
Center(c) == [i \in Axis |-> c[i] * Shift[i] + Shift[i] \div 2]
width == Len(picture.rows[1])
Sum(v) == v[1] + v[2] + v[3]
Distance(p, q) == LET d(i) == (p[i] - q[i]) * Scale[i] IN d(1) * d(1) + d(2) * d(2) + d(3) * d(3)

-----------------------------------------------------------------------------
(* The median cut.  A box is shrunk to the cells it holds (update_box), so *)
(* that its bounds are theirs.                                             *)
Low(box, i) == CHOOSE x \in {c[i] : c \in box} : \A c \in box : x <= c[i]
High(box, i) == CHOOSE x \in {c[i] : c \in box} : \A c \in box : c[i] <= x
Length(box, i) == (High(box, i) - Low(box, i)) * Shift[i] * Scale[i]
volume(box) == Sum([i \in Axis |-> Length(box, i) * Length(box, i)])

(* The first of the largest, 0 when no box can be split.                   *)
Biggest(size) ==
  LET splittable == {b \in DOMAIN boxlist : volume(boxlist[b]) > 0} IN
  IF splittable = {} THEN 0
  ELSE CHOOSE b \in splittable :
         \A a \in splittable : size[a] <= size[b] /\ (a < b => size[a] < size[b])
WhichBox == Biggest([b \in DOMAIN boxlist |->
              IF Len(boxlist) * 2 <= picture.colors THEN Cardinality(boxlist[b]) ELSE volume(boxlist[b])])
LongestAxis(box) ==
  LET c(i) == Length(box, i) IN
  IF c(3) > c(1) /\ c(3) > c(2) THEN 3 ELSE IF c(1) > c(2) THEN 1 ELSE 2

compute_color(box) ==
  LET weight[S \in SUBSET box] ==
        IF S = {} THEN [total |-> 0, sums |-> Origin]
        ELSE LET c == CHOOSE c \in S : TRUE
                 w == weight[S \ {c}]
             IN [total |-> w.total + histogram[c],
                 sums |-> [i \in Axis |-> w.sums[i] + Center(c)[i] * histogram[c]]]
      all == weight[box]
  IN [i \in Axis |-> (all.sums[i] + all.total \div 2) \div all.total]

-----------------------------------------------------------------------------
(* The nearest colours of all cells of an update box.  Only the colours    *)
(* are compared whose distance to the box is at most the smallest largest  *)
(* distance (find_nearby_colors); of equal ones, the first is taken.       *)
find_nearby_colors(c) ==
  LET minc == Center([i \in Axis |-> (c[i] \div Log[i]) * Log[i]])
      maxc == [i \in Axis |-> minc[i] + (Log[i] - 1) * Shift[i]]
      nearest(x, i) == IF x < minc[i] THEN minc[i] ELSE IF x > maxc[i] THEN maxc[i] ELSE x
      farthest(x, i) == IF x <= (minc[i] + maxc[i]) \div 2 THEN maxc[i] ELSE minc[i]
      min_dist(p) == Distance(p, [i \in Axis |-> nearest(p[i], i)])
      max_dist(p) == Distance(p, [i \in Axis |-> farthest(p[i], i)])
      minmaxdist == CHOOSE d \in {max_dist(colormap[k]) : k \in DOMAIN colormap} :
                      \A k \in DOMAIN colormap : d <= max_dist(colormap[k])
  IN {k \in DOMAIN colormap : min_dist(colormap[k]) <= minmaxdist}
find_best_color(c, colorlist) ==
  LET dist == [k \in colorlist |-> Distance(Center(c), colormap[k])] IN
  CHOOSE k \in colorlist : \A j \in colorlist : dist[k] < dist[j] \/ (dist[k] = dist[j] /\ k <= j)
fill_inverse_cmap(c) ==
  LET colorlist == find_nearby_colors(c)
      corner == [i \in Axis |-> (c[i] \div Log[i]) * Log[i]]
      box == {<<corner[1] + x, corner[2] + y, corner[3] + z>> : x \in 0 .. 3, y \in 0 .. 7, z \in 0 .. 3}
  IN [d \in DOMAIN histogram \cup box |->
        IF d \in box THEN find_best_color(d, colorlist) ELSE histogram[d]]
Filled(c) == IF c \in DOMAIN histogram THEN histogram ELSE fill_inverse_cmap(c)

-----------------------------------------------------------------------------
(* jinit_2pass_quantizer: the histogram is garbage.                        *)
jinit_2pass_quantizer ==
  /\ pc = "start"
  /\ picture' \in Pictures
  /\ IF picture'.colors < 8 THEN pc' = "error" ELSE pc' = "idle"
  /\ histogram' \in {[c \in {} |-> 0], [c \in {Origin} |-> 2]}
  /\ needs_zeroed' = TRUE
  /\ UNCHANGED <<dither_mode, passes, external, boxlist, colormap, row, col, errors, out>>

Zeroed == IF needs_zeroed THEN [c \in {} |-> 0] ELSE histogram
FirstPixel == row' = 1 /\ col' = 1

(* prepare_for_output_pass, without a colour map: a dummy pass counts.     *)
start_prescan ==
  /\ pc = "idle" /\ colormap = <<>> /\ passes < Passes
  /\ pc' = "prescan" /\ FirstPixel
  /\ histogram' = [c \in {} |-> 0] /\ needs_zeroed' = FALSE
  /\ UNCHANGED <<choice, dither_mode, passes, errors, out>>

prescan_quantize ==
  /\ pc = "prescan" /\ row <= Len(picture.rows)
  /\ LET c == Cell(picture.rows[row][col])
         count == IF c \in DOMAIN histogram THEN histogram[c] ELSE 0
     IN histogram' = [d \in DOMAIN histogram \cup {c} |->
                        IF d = c THEN (IF count = CellMax THEN CellMax ELSE count + 1) ELSE histogram[d]]
  /\ col' = IF col = width THEN 1 ELSE col + 1
  /\ row' = IF col = width THEN row + 1 ELSE row
  /\ UNCHANGED <<pc, choice, dither_mode, passes, needs_zeroed, errors, out>>

(* finish_pass1, select_colors: one box, split until there are enough, or  *)
(* none can be.                                                            *)
finish_pass1 ==
  /\ pc = "prescan" /\ row > Len(picture.rows)
  /\ boxlist' = <<DOMAIN histogram>> /\ pc' = "cut"
  /\ UNCHANGED <<picture, external, colormap, dither_mode, passes, histogram, needs_zeroed, row, col, errors, out>>
Splits == Len(boxlist) < picture.colors /\ WhichBox # 0
median_cut ==
  /\ pc = "cut" /\ Splits
  /\ LET box == boxlist[WhichBox]
         n == LongestAxis(box)
         lb == (High(box, n) + Low(box, n)) \div 2
     IN boxlist' = Append([boxlist EXCEPT ![WhichBox] = {c \in box : c[n] <= lb}],
                          {c \in box : c[n] > lb})
  /\ UNCHANGED <<pc, picture, external, colormap, dither_mode, passes, histogram, needs_zeroed, row, col, errors, out>>
select_colors ==
  /\ pc = "cut" /\ ~Splits
  /\ colormap' = [k \in DOMAIN boxlist |-> compute_color(boxlist[k])]
  /\ external' = FALSE /\ needs_zeroed' = TRUE /\ pc' = "idle"
  /\ UNCHANGED <<picture, boxlist, dither_mode, passes, histogram, row, col, errors, out>>

(* Between two passes, the application gives another colour map            *)
(* (jpeg_new_colormap), or wants the colours chosen anew.                  *)
NotReset(zeroed) == zeroed                                           \* mutant
Reset(zeroed) == TRUE
jpeg_new_colormap ==
  /\ pc = "idle" /\ passes < Passes
  /\ colormap' \in Colormaps /\ external' = TRUE
  /\ needs_zeroed' = Reset(needs_zeroed)
  /\ UNCHANGED <<pc, picture, boxlist, dither_mode, passes, histogram, row, col, errors, out>>
ChooseAnew ==
  /\ pc = "idle" /\ external /\ passes < Passes
  /\ colormap' = <<>>
  /\ UNCHANGED <<pc, picture, external, boxlist, dither_mode, passes, histogram, needs_zeroed, row, col, errors, out>>

start_pass_2_quant ==
  /\ pc = "idle" /\ colormap # <<>> /\ passes < Passes
  /\ dither_mode' \in {"NONE", "FS"}
  /\ histogram' = Zeroed /\ needs_zeroed' = FALSE
  /\ IF dither_mode' = "FS"
     THEN /\ fserrors' = [k \in 0 .. width + 1 |-> Origin] /\ on_odd_row' = FALSE
          /\ cur' = Origin /\ belowerr' = Origin /\ bpreverr' = Origin
     ELSE UNCHANGED errors
  /\ pc' = "pass2" /\ passes' = passes + 1 /\ FirstPixel
  /\ out' = [r \in DOMAIN picture.rows |-> [k \in 1 .. width |-> 0]]
  /\ UNCHANGED choice

-----------------------------------------------------------------------------
Mapping(mode) == pc = "pass2" /\ row <= Len(picture.rows) /\ dither_mode = mode
Emit(k, c) ==
  /\ histogram' = Filled(c)
  /\ out' = [out EXCEPT ![row][k] = histogram'[c]]
  /\ col' = IF col = width THEN 1 ELSE col + 1
  /\ row' = IF col = width THEN row + 1 ELSE row
  /\ UNCHANGED <<pc, choice, dither_mode, passes, needs_zeroed>>

pass2_no_dither ==
  /\ Mapping("NONE")
  /\ Emit(col, Cell(picture.rows[row][col]))
  /\ UNCHANGED errors

(* The error that reaches a pixel, and what init_error_limit makes of it.  *)
column == IF on_odd_row THEN width + 1 - col ELSE col
Error == [i \in Axis |-> (cur[i] + fserrors[column][i] + 8) \div 16]
error_limit(e) ==
  LET table(x) == IF x < 16 THEN x ELSE IF x < 48 THEN 16 + (x - 16) \div 2 ELSE 32
  IN IF e < 0 THEN -table(-e) ELSE table(e)
range_limit(x) == IF x < 0 THEN 0 ELSE IF x > MAXJSAMPLE THEN MAXJSAMPLE ELSE x

pass2_fs_dither ==
  /\ Mapping("FS")
  /\ LET dir == IF on_odd_row THEN -1 ELSE 1
         p == [i \in Axis |-> range_limit(picture.rows[row][column][i] + error_limit(Error[i]))]
         error == [i \in Axis |-> p[i] - colormap[histogram'[Cell(p)]][i]]
         below == [i \in Axis |-> belowerr[i] + 5 * error[i]]
         behind == [fserrors EXCEPT ![column - dir] = [i \in Axis |-> bpreverr[i] + 3 * error[i]]]
         last == col = width
     IN /\ Emit(column, Cell(p))
        /\ fserrors' = IF last THEN [behind EXCEPT ![column] = below] ELSE behind
        /\ cur' = IF last THEN Origin ELSE [i \in Axis |-> 7 * error[i]]
        /\ belowerr' = IF last THEN Origin ELSE error
        /\ bpreverr' = IF last THEN Origin ELSE below
        /\ on_odd_row' = IF last THEN ~on_odd_row ELSE on_odd_row

finish_pass2 ==
  /\ pc = "pass2" /\ row > Len(picture.rows)
  /\ pc' = "idle"
  /\ UNCHANGED <<choice, dither_mode, passes, histogram, needs_zeroed, row, col, errors, out>>

Init == /\ pc = "start" /\ picture = [colors |-> 0, rows |-> <<>>] /\ external = FALSE
        /\ boxlist = <<>> /\ colormap = <<>> /\ dither_mode = "NONE" /\ passes = 0
        /\ histogram = [c \in {} |-> 0] /\ needs_zeroed = TRUE /\ row = 0 /\ col = 0
        /\ on_odd_row = FALSE /\ fserrors = <<>> /\ cur = Origin /\ belowerr = Origin /\ bpreverr = Origin
        /\ out = <<>>
Next == \/ jinit_2pass_quantizer \/ start_prescan \/ prescan_quantize \/ finish_pass1
        \/ median_cut \/ select_colors \/ jpeg_new_colormap \/ ChooseAnew
        \/ start_pass_2_quant \/ pass2_no_dither \/ pass2_fs_dither \/ finish_pass2
Spec == Init /\ [][Next]_vars

-----------------------------------------------------------------------------
UsedCells == {Cell(picture.rows[r][k]) : r \in DOMAIN picture.rows, k \in 1 .. width}
Done == pc = "pass2" /\ row > Len(picture.rows)

(* The colours of a picture are chosen and found: the boxes of the median  *)
(* cut share out the cells of the picture among them, none is empty (its   *)
(* colour would be a division by zero) and a picture of no more colours    *)
(* than asked for keeps them all; and at the end of a pass, whatever maps  *)
(* and passes came before, each cell of the cache names a nearest colour   *)
(* of the map in use, so a pixel has the colour nearest to its cell; the   *)
(* errors of dithering stay within error_limit's table.                    *)
ColoursFound ==
  /\ pc = "cut" =>
       /\ Len(boxlist) <= picture.colors
       /\ \A b \in DOMAIN boxlist : boxlist[b] # {}
       /\ \A c \in UsedCells : Cardinality({b \in DOMAIN boxlist : c \in boxlist[b]}) = 1
       /\ (~Splits /\ Cardinality(UsedCells) <= picture.colors) =>
            Len(boxlist) = Cardinality(UsedCells)
  /\ Done =>
       /\ \A c \in DOMAIN histogram : \A k \in DOMAIN colormap :
            Distance(Center(c), colormap[histogram[c]]) <= Distance(Center(c), colormap[k])
       /\ dither_mode = "NONE" =>
            \A r \in DOMAIN picture.rows : \A k \in 1 .. width :
              out[r][k] = histogram[Cell(picture.rows[r][k])]
  /\ Mapping("FS") => \A i \in Axis : Error[i] \in -MAXJSAMPLE .. MAXJSAMPLE
=============================================================================
