---------------------------- MODULE OnePassQuant ----------------------------
(***************************************************************************)
(* The 1-pass colour quantizer, src/lib/jpeg-6b-crop/jquant1.c: a picture  *)
(* put out as indexes into a map of equally spaced colours, without        *)
(* dithering, with ordered or with Floyd-Steinberg dithering.  The mode    *)
(* may change from one output pass to the next, while tables and colour    *)
(* map stay.  One action a row and component.                              *)
(***************************************************************************)
EXTENDS Integers, Sequences, FiniteSets

CONSTANTS
  Pictures,  (* [colors, rows]: desired_number_of_colors, rows of pixels   *)
  Passes     (* bound on the output passes                                 *)

VARIABLES
  pc, picture, Ncolors, sv_colormap,
  colorindex,  (* of each component: the samples it has an entry for       *)
  dither_mode, passes, row, ci,
  row_index, on_odd_row, fserrors,
  out,         (* the pass so far, an index for each pixel                 *)
  looked_up,   (* samples of the last row, as looked up in colorindex, and *)
               (* before range_limit                                       *)
  first        (* what the first pass of each mode put out                 *)

picvars == <<picture, Ncolors, sv_colormap, first>>
dithervars == <<row_index, on_odd_row, fserrors>>
vars == <<pc, picvars, colorindex, dither_mode, passes, row, ci, dithervars, out, looked_up>>

MAXJSAMPLE == 255
ODITHER_CELLS == 256
Modes == {"NONE", "ORDERED", "FS"}
nc == Len(picture.rows[1][1])
width == Len(picture.rows[1])
Components == 1 .. nc

-----------------------------------------------------------------------------
(* The number of values of each component; green has the first of what is  *)
(* left over.                                                              *)
Total(n) == CASE Len(n) = 1 -> n[1] [] Len(n) = 3 -> n[1] * n[2] * n[3]
iroot == CHOOSE n \in 1 .. 256 : n^nc <= picture.colors /\ (n + 1)^nc > picture.colors
RGB_order == IF nc = 3 THEN <<2, 1, 3>> ELSE <<1>>
select_ncolors ==
  LET grow[n \in [Components -> 2 .. 256], i \in 1 .. nc + 1, changed \in BOOLEAN] ==
        LET more == [n EXCEPT ![RGB_order[i]] = @ + 1] IN
        CASE i <= nc /\ Total(more) <= picture.colors -> grow[more, i + 1, TRUE]
          [] changed /\ (i > nc \/ Total(more) > picture.colors) -> grow[n, 1, FALSE]
          [] OTHER -> n
  IN grow[[i \in Components |-> iroot], 1, FALSE]

output_value(j, maxj) == (j * MAXJSAMPLE + maxj \div 2) \div maxj
largest_input_value(j, maxj) == ((2 * j + 1) * MAXJSAMPLE + maxj) \div (2 * maxj)

(* Repeated entries of a component in the colour map.                      *)
blksize(n, i) == CASE i = nc -> 1 [] i = nc - 1 -> n[nc] [] OTHER -> n[nc] * n[nc - 1]
create_colormap(n) ==
  [code \in 0 .. Total(n) - 1 |->
     [i \in Components |-> output_value((code \div blksize(n, i)) % n[i], n[i] - 1)]]
create_colorindex(pad) ==
  LET level(j, maxj) == CHOOSE v \in 0 .. maxj :
                          /\ j <= largest_input_value(v, maxj)
                          /\ \A w \in 0 .. v - 1 : j > largest_input_value(w, maxj)
      inside(j) == IF j < 0 THEN 0 ELSE IF j > MAXJSAMPLE THEN MAXJSAMPLE ELSE j
  IN [i \in Components |->
        [j \in -pad .. MAXJSAMPLE + pad |-> level(inside(j), Ncolors[i] - 1) * blksize(Ncolors, i)]]

(* Bayer's matrix, by the bits of row and column.                          *)
base_dither_matrix(r, c) ==
  LET cell(i) == CASE (r \div 2^i) % 2 = 0 /\ (c \div 2^i) % 2 = 0 -> 0
                   [] (r \div 2^i) % 2 = 1 /\ (c \div 2^i) % 2 = 1 -> 1
                   [] (r \div 2^i) % 2 = 1 /\ (c \div 2^i) % 2 = 0 -> 2
                   [] OTHER -> 3
  IN 64 * cell(0) + 16 * cell(1) + 4 * cell(2) + cell(3)
odither(i, r, c) ==
  LET num == (ODITHER_CELLS - 1 - 2 * base_dither_matrix(r, c)) * MAXJSAMPLE
      den == 2 * ODITHER_CELLS * (Ncolors[i] - 1)
  IN IF num < 0 THEN -((-num) \div den) ELSE num \div den

range_limit(x) == IF x < 0 THEN 0 ELSE IF x > MAXJSAMPLE THEN MAXJSAMPLE ELSE x

-----------------------------------------------------------------------------
(* jinit_1pass_quantizer: the padding is what the first mode asks for.     *)
jinit_1pass_quantizer ==
  /\ pc = "start"
  /\ picture' \in Pictures
  /\ pc' = "colormap"
  /\ UNCHANGED <<Ncolors, sv_colormap, first, colorindex, dither_mode, passes, row, ci, dithervars, out, looked_up>>
create_map ==
  /\ pc = "colormap"
  /\ IF iroot < 2 THEN pc' = "error" /\ UNCHANGED <<Ncolors, sv_colormap>>
     ELSE /\ Ncolors' = select_ncolors /\ sv_colormap' = create_colormap(Ncolors')
          /\ pc' = "index"
  /\ UNCHANGED <<picture, first, colorindex, dither_mode, passes, row, ci, dithervars, out, looked_up>>
create_index ==
  /\ pc = "index"
  /\ dither_mode' \in Modes
  /\ colorindex' = create_colorindex(IF dither_mode' = "ORDERED" THEN MAXJSAMPLE ELSE 0)
  /\ pc' = "idle"
  /\ UNCHANGED <<picvars, passes, row, ci, dithervars, out, looked_up>>

is_padded == 0 - 1 \in DOMAIN colorindex[1]
Kept(mode) == colorindex                                             \* mutant
Indexed(mode) == IF mode = "ORDERED" /\ ~is_padded THEN create_colorindex(MAXJSAMPLE) ELSE colorindex

(* start_pass_1_quant; the application may have changed the mode.          *)
start_pass_1_quant ==
  /\ pc = "idle" /\ passes < Passes
  /\ dither_mode' \in IF passes = 0 THEN {dither_mode} ELSE Modes
  /\ colorindex' = Indexed(dither_mode')
  /\ row_index' = IF dither_mode' = "ORDERED" THEN 0 ELSE row_index
  /\ on_odd_row' = (on_odd_row /\ dither_mode' # "FS")
  /\ fserrors' = IF dither_mode' = "FS" THEN [i \in Components |-> [k \in 0 .. width + 1 |-> 0]] ELSE fserrors
  /\ pc' = "rows" /\ passes' = passes + 1 /\ row' = 1 /\ ci' = 1
  /\ out' = [r \in DOMAIN picture.rows |-> [k \in 1 .. width |-> 0]]
  /\ UNCHANGED <<picvars, looked_up>>

(* The samples of component ci are looked up, and the row is done when all *)
(* of its components are.                                                  *)
Put(samples, unlimited) ==
  /\ out' = [out EXCEPT ![row] = [k \in 1 .. width |->
               @[k] + IF samples[k] \in DOMAIN colorindex[ci] THEN colorindex[ci][samples[k]] ELSE 0]]
  /\ looked_up' = [samples |-> samples, unlimited |-> unlimited]
  /\ ci' = IF ci = nc THEN 1 ELSE ci + 1
  /\ row' = IF ci = nc THEN row + 1 ELSE row
  /\ UNCHANGED <<pc, picvars, colorindex, dither_mode, passes>>
InRows(mode) == pc = "rows" /\ row <= Len(picture.rows) /\ dither_mode = mode
sample(k) == picture.rows[row][k][ci]

color_quantize ==
  /\ InRows("NONE")
  /\ Put([k \in 1 .. width |-> sample(k)], <<>>)
  /\ UNCHANGED dithervars
quantize_ord_dither ==
  /\ InRows("ORDERED")
  /\ Put([k \in 1 .. width |-> sample(k) + odither(ci, row_index, (k - 1) % 16)], <<>>)
  /\ row_index' = IF ci = nc THEN (row_index + 1) % 16 ELSE row_index
  /\ UNCHANGED <<on_odd_row, fserrors>>

(* The columns in turn, from the left and from the right; the array holds  *)
(* the errors of this row ahead and those of the next row behind.          *)
quantize_fs_dither ==
  /\ InRows("FS")
  /\ LET dir == IF on_odd_row THEN -1 ELSE 1
         column(n) == IF on_odd_row THEN width + 1 - n ELSE n
         diffused[n \in 0 .. width] ==
           IF n = 0 THEN [cur |-> 0, belowerr |-> 0, bpreverr |-> 0, errors |-> fserrors[ci], x |-> <<>>]
           ELSE LET p == diffused[n - 1]
                    k == column(n)
                    x == sample(k) + ((p.cur + p.errors[k] + 8) \div 16)
                    error == range_limit(x) - sv_colormap[colorindex[ci][range_limit(x)]][ci]
                IN [cur |-> 7 * error, belowerr |-> error, bpreverr |-> p.belowerr + 5 * error,
                    errors |-> [p.errors EXCEPT ![k - dir] = p.bpreverr + 3 * error],
                    x |-> Append(p.x, x)]
         last == diffused[width]
     IN /\ Put([k \in 1 .. width |-> range_limit(last.x[column(k)])], last.x)
        /\ fserrors' = [fserrors EXCEPT ![ci] = [last.errors EXCEPT ![column(width)] = last.bpreverr]]
  /\ on_odd_row' = IF ci = nc THEN ~on_odd_row ELSE on_odd_row
  /\ UNCHANGED row_index

finish_pass ==
  /\ pc = "rows" /\ row > Len(picture.rows)
  /\ first' = IF first[dither_mode] = <<>> THEN [first EXCEPT ![dither_mode] = out] ELSE first
  /\ pc' = "idle"
  /\ UNCHANGED <<picture, Ncolors, sv_colormap, colorindex, dither_mode, passes, row, ci, dithervars, out, looked_up>>

Init == /\ pc = "start" /\ picture = [colors |-> 0, rows |-> <<>>]
        /\ Ncolors = <<>> /\ sv_colormap = <<>> /\ colorindex = <<>> /\ first = [m \in Modes |-> <<>>]
        /\ dither_mode = "NONE" /\ passes = 0 /\ row = 0 /\ ci = 0
        /\ row_index = 0 /\ on_odd_row = FALSE /\ fserrors = <<>>
        /\ out = <<>> /\ looked_up = [samples |-> <<>>, unlimited |-> <<>>]
Next == \/ jinit_1pass_quantizer \/ create_map \/ create_index \/ start_pass_1_quant
        \/ color_quantize \/ quantize_ord_dither \/ quantize_fs_dither \/ finish_pass
Spec == Init /\ [][Next]_vars

-----------------------------------------------------------------------------
(* The distance between two values of a component, rounded up.             *)
Spacing(i) == MAXJSAMPLE \div (Ncolors[i] - 1) + 1

(* However the dither mode changes from pass to pass, no table is read     *)
(* outside of its bounds (colorindex is only padded for ordered dithering, *)
(* range_limit reaches from -256 to 639), the colours used are those asked *)
(* for at most, a pixel is shown as a value next to its own, as the        *)
(* nearest one without dithering, and a mode puts out the same picture     *)
(* whatever passes came before.                                            *)
PassesMapColours ==
  /\ \A k \in DOMAIN looked_up.samples : looked_up.samples[k] \in DOMAIN colorindex[1]
  /\ \A k \in DOMAIN looked_up.unlimited : looked_up.unlimited[k] \in -256 .. 639
  /\ (pc = "rows" /\ row > Len(picture.rows)) =>
       /\ Cardinality(DOMAIN sv_colormap) <= picture.colors
       /\ \A r \in DOMAIN out : \A k \in 1 .. width :
            /\ out[r][k] \in DOMAIN sv_colormap
            /\ \A i \in Components :
                 LET off == sv_colormap[out[r][k]][i] - picture.rows[r][k][i] IN
                 IF dither_mode = "NONE" THEN 2 * off \in -(Spacing(i) + 1) .. Spacing(i) + 1
                 ELSE off \in -(Spacing(i) + 1) .. Spacing(i) + 1
       /\ first[dither_mode] # <<>> => out = first[dither_mode]
=============================================================================
