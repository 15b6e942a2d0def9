----------------------------- MODULE DecodeRows -----------------------------
(***************************************************************************)
(* The output side of the decompressor: how rows of samples, which come an *)
(* iMCU row at a time and may be late, become the rows the application     *)
(* asks for.  The main controller (jdmainct.c) lends each row group with   *)
(* its neighbours through two lists of pointers, the upsamplers            *)
(* (jdsample.c, jdmerge.c) make pixel rows of it, the postprocessor        *)
(* (jdpostct.c) hands them on, one pass or two when the colours are        *)
(* quantized, and jdapistd.c drives the passes.                            *)
(*                                                                         *)
(* A sample is known by the row of its component it comes from: columns    *)
(* and colours are left out.  A pixel row is, for each component, the row  *)
(* nearest to it and the row it is interpolated with.                      *)
(***************************************************************************)
EXTENDS Integers, Sequences, SequencesExt, FiniteSetsExt

CONSTANTS
  DCTSIZE,     (* rows of a block                                          *)
  Images,      (* [height, comps, wide]: comps gives <<h, v>> factors,     *)
               (* wide says that a row has more than two samples           *)
  Requests,    (* the numbers of lines asked for                           *)
  MaxPasses    (* bound: output passes of the buffered mode                *)

VARIABLES
  image,           (* the picture and the options: scale, fancy, quantize  *)
  state,           (* global_state                                         *)
  colormap,        (* whether a colormap is chosen                         *)
  dummy,           (* is_dummy_pass                                        *)
  d,               (* main, upsample, post and coef, see Fresh             *)
  pc,              (* inside process_data: "main", "posted"; else "app"    *)
  call,            (* its room and the rows it gave: out_row_ctr           *)
  output_scanline,
  given,           (* the rows of this pass the application has            *)
  passes,          (* output passes begun                                  *)
  late, empty      (* the last call found the source late, got no row      *)

vars == <<image, state, colormap, dummy, d, pc, call, output_scanline, given, passes, late, empty>>

-----------------------------------------------------------------------------
(* Dimensions: what jpeg_calc_output_dimensions and jinit_upsampler fill   *)
(* in, kept in `image'.                                                    *)
ceil(n, k) == (n + k - 1) \div k
Comps == DOMAIN image.comps
M == image.scaled                                   (* min_DCT_scaled_size *)
max_v_samp == image.max_v
rgroup(c) == image.rgroup[c]
output_height == ceil(image.height * M, DCTSIZE)
total_iMCU_rows == ceil(image.height, max_v_samp * DCTSIZE)
iMCUheight(c) == rgroup(c) * M
downsampled_height(c) == ceil(image.height * iMCUheight(c), max_v_samp * DCTSIZE)

(* use_merged_upsample.                                                    *)
use_merged_upsample(i, fancy, sizes) ==
  /\ ~fancy
  /\ i.comps \in {<< <<2, v>>, <<1, 1>>, <<1, 1>> >> : v \in {1, 2}}
  /\ \A c, e \in DOMAIN sizes : sizes[c] = sizes[e]

Prepared(i, scaled, fancy, quantize) ==
  LET max_h == Max({f[1] : f \in ToSet(i.comps)})
      max_v == Max({f[2] : f \in ToSet(i.comps)})
      size(h, v) == Max({scaled} \cup {s \in {2 * scaled, 4 * scaled, 8 * scaled} :
                                          /\ s <= DCTSIZE
                                          /\ h * s <= max_h * scaled
                                          /\ v * s <= max_v * scaled})
      sizes == [c \in DOMAIN i.comps |-> size(i.comps[c][1], i.comps[c][2])]
      across == [c \in DOMAIN sizes |-> (i.comps[c][1] * sizes[c]) \div scaled]
      down == [c \in DOMAIN sizes |-> (i.comps[c][2] * sizes[c]) \div scaled]
      merged == use_merged_upsample(i, fancy, sizes)
      halved(c) == across[c] * 2 = max_h /\ down[c] * 2 = max_v
  IN [height |-> i.height, comps |-> i.comps, scaled |-> scaled, quantize |-> quantize,
      max_v |-> max_v, size |-> sizes, rgroup |-> down, merged |-> merged,
      fullsize |-> {c \in DOMAIN sizes : across[c] = max_h /\ down[c] = max_v},
      interpolated |-> {c \in DOMAIN sizes :
                          ~merged /\ fancy /\ scaled > 1 /\ i.wide /\ halved(c)},
      fractional |-> ~merged /\ \E c \in DOMAIN sizes :
                                  max_h % across[c] # 0 \/ max_v % down[c] # 0]

need_context_rows == image.interpolated # {}

-----------------------------------------------------------------------------
(* The lists of pointers to the M + 2 row groups of the workspace.         *)
NoRow == -1
Offsets(c) == -rgroup(c) .. rgroup(c) * (M + 3) - 1
Empty == [c \in Comps |-> [i \in Offsets(c) |-> NoRow]]

make_funny_pointers(x) ==
  <<[c \in Comps |-> [i \in Offsets(c) |->
       IF i < 0 THEN 0
       ELSE IF i < rgroup(c) * (M + 2) THEN i ELSE x[1][c][i]]],
    [c \in Comps |-> [i \in Offsets(c) |->
       CASE i < 0 \/ i >= rgroup(c) * (M + 2) -> x[2][c][i]
         [] i \in 0 .. rgroup(c) * (M - 2) - 1 -> i
         [] i \in rgroup(c) * (M - 2) .. rgroup(c) * M - 1 -> i + 2 * rgroup(c)
         [] OTHER -> i - 2 * rgroup(c)]]>>

UnwrappedPointers(x) == x                                           \* mutant
set_wraparound_pointers(x) ==
  [w \in {1, 2} |-> [c \in Comps |-> [i \in Offsets(c) |->
     CASE i < 0 -> x[w][c][rgroup(c) * (M + 2) + i]
       [] i >= rgroup(c) * (M + 2) -> x[w][c][i - rgroup(c) * (M + 2)]
       [] OTHER -> x[w][c][i]]]]

rows_left(c) ==
  LET r == downsampled_height(c) % iMCUheight(c) IN IF r = 0 THEN iMCUheight(c) ELSE r
set_bottom_pointers(x, w) ==
  [x EXCEPT ![w] = [c \in Comps |-> [i \in Offsets(c) |->
     IF i \in rows_left(c) .. rows_left(c) + 2 * rgroup(c) - 1
     THEN x[w][c][rows_left(c) - 1] ELSE x[w][c][i]]]]

(* A controller, an upsampler and a postprocessor just initialized.        *)
Fresh ==
  [buffer |-> [c \in Comps |-> [i \in NoRow .. rgroup(c) * (M + 2) - 1 |-> NoRow]],
   buffer_full |-> FALSE, rowgroup_ctr |-> 0, rowgroups_avail |-> 0,
   xbuffer |-> <<Empty, Empty>>, whichptr |-> 1, context_state |-> "PREPARE_FOR_IMCU",
   iMCU_row_ctr |-> 0, output_iMCU_row |-> 0,
   next_row_out |-> 0, rows_to_go |-> 0, color_buf |-> <<>>, color_group |-> <<1, 0>>,
   spare_row |-> <<>>,
   post |-> "pass", starting_row |-> 0, next_row |-> 0,
   whole_image |-> [n \in 1 .. max_v_samp * ceil(output_height, max_v_samp) |-> <<>>]]

(* The row at offset i of the list the controller lends.                   *)
Listed(s, w, c, i) == IF need_context_rows THEN s.buffer[c][s.xbuffer[w][c][i]]
                                           ELSE s.buffer[c][i]

-----------------------------------------------------------------------------
(* Upsampling: the pixel row o of a row group.                             *)
Neighbour(near, o) == IF o % 2 = 0 THEN near - 1 ELSE near + 1
Upsampled(s, w, c, group, o) ==
  LET near == group * rgroup(c) + (o * rgroup(c)) \div max_v_samp IN
  <<Listed(s, w, c, near),
    Listed(s, w, c, IF c \in image.interpolated THEN Neighbour(near, o) ELSE near)>>

(* sep_upsample: a full-size component is not copied but read at last.     *)
Filled(s) ==
  IF s.next_row_out < max_v_samp THEN s
  ELSE [s EXCEPT !.next_row_out = 0,
                 !.color_group = <<s.whichptr, s.rowgroup_ctr>>,
                 !.color_buf = [o \in 0 .. max_v_samp - 1 |-> [c \in Comps |->
                    Upsampled(s, s.whichptr, c, s.rowgroup_ctr, o)]]]
PixelRow(s, o) ==
  [c \in Comps |->
     IF c \in image.fullsize THEN Upsampled(s, s.color_group[1], c, s.color_group[2], o)
                    ELSE s.color_buf[o][c]]
sep_upsample(s, room) ==
  LET f == Filled(s)
      num_rows == Min({max_v_samp - f.next_row_out, f.rows_to_go, room})
      next == f.next_row_out + num_rows
  IN [s |-> [f EXCEPT !.rows_to_go = @ - num_rows,
                      !.next_row_out = next,
                      !.rowgroup_ctr = IF next >= max_v_samp THEN @ + 1 ELSE @],
      rows |-> [n \in 1 .. num_rows |-> PixelRow(f, f.next_row_out + n - 1)]]

(* merged_2v_upsample keeps the second row when there is room for one,     *)
(* merged_1v_upsample never has to.                                        *)
merged_upsample(s, room) ==
  LET row(o) == [c \in Comps |-> Upsampled(s, s.whichptr, c, s.rowgroup_ctr, o)]
      num_rows == Min({max_v_samp, s.rows_to_go, room})
  IN IF s.spare_row # <<>>
     THEN [s |-> [s EXCEPT !.spare_row = <<>>, !.rows_to_go = @ - 1,
                           !.rowgroup_ctr = @ + 1],
           rows |-> <<s.spare_row>>]
     ELSE [s |-> [s EXCEPT !.spare_row = IF num_rows < max_v_samp THEN row(1) ELSE <<>>,
                           !.rows_to_go = @ - num_rows,
                           !.rowgroup_ctr = IF num_rows < max_v_samp THEN @ ELSE @ + 1],
           rows |-> [n \in 1 .. num_rows |-> row(n - 1)]]

upsample(s, room) == IF image.merged THEN merged_upsample(s, room) ELSE sep_upsample(s, room)

-----------------------------------------------------------------------------
(* Postprocessing.  The strip is as high as a row group of pixels.         *)
strip_height == max_v_samp
Advanced(s, n) ==
  IF n >= strip_height
  THEN [s EXCEPT !.starting_row = @ + strip_height, !.next_row = 0]
  ELSE [s EXCEPT !.next_row = n]

Put(q, at, rows) ==
  [i \in DOMAIN q |-> IF i \in at + 1 .. at + Len(rows) THEN rows[i - at] ELSE q[i]]

post_process_1pass(s, room) == upsample(s, Min({room, strip_height}))
post_process_prepass(s) ==
  LET u == upsample(s, strip_height - s.next_row)
      at == s.starting_row + s.next_row
      n == Len(u.rows)
  IN [s |-> Advanced([u.s EXCEPT !.whole_image = Put(@, at, u.rows)],
                     s.next_row + n),
      rows |-> u.rows]
post_process_2pass(s, room) ==
  LET num_rows == Min({strip_height - s.next_row, room, output_height - s.starting_row})
      at == s.starting_row + s.next_row
  IN [s |-> Advanced(s, s.next_row + num_rows),
      rows |-> SubSeq(s.whole_image, at + 1, at + num_rows)]

post_process_data(s, room) ==
  CASE s.post = "pass" -> upsample(s, room)
    [] s.post = "1pass" -> post_process_1pass(s, room)
    [] s.post = "prepass" -> post_process_prepass(s)

-----------------------------------------------------------------------------
(* The main controller.                                                    *)

(* decompress_data puts an iMCU row where the list in use points, but for  *)
(* the dummy blocks at the bottom.                                         *)
decompress_data(s) ==
  [s EXCEPT
     !.buffer_full = TRUE,
     !.iMCU_row_ctr = @ + 1,
     !.output_iMCU_row = @ + 1,
     !.buffer = [c \in Comps |-> [p \in DOMAIN s.buffer[c] |->
        LET target(i) == IF need_context_rows THEN s.xbuffer[s.whichptr][c][i] ELSE i
            first == s.output_iMCU_row * iMCUheight(c)
            blocks == ceil(downsampled_height(c), image.size[c]) * image.size[c]
            rows == {first + i : i \in {j \in 0 .. iMCUheight(c) - 1 :
                                          target(j) = p /\ first + j < blocks}}
        IN IF rows = {} THEN s.buffer[c][p] ELSE Max(rows)]]]

-----------------------------------------------------------------------------
(* prepare_for_output_pass.                                                *)
PassStarted(s, mode) ==
  [s EXCEPT !.post = mode, !.starting_row = 0, !.next_row = 0,
            !.buffer_full = FALSE, !.rowgroup_ctr = 0, !.output_iMCU_row = 0,
            !.next_row_out = max_v_samp, !.rows_to_go = output_height, !.spare_row = <<>>,
            !.xbuffer = IF need_context_rows THEN make_funny_pointers(@) ELSE @,
            !.whichptr = 1, !.context_state = "PREPARE_FOR_IMCU", !.iMCU_row_ctr = 0]
CrankStarted(s) == [s EXCEPT !.post = "2pass", !.starting_row = 0, !.next_row = 0]

prepare_for_output_pass(s, mapped) ==
  LET two == image.quantize = "two" /\ ~mapped IN
  /\ dummy' = two
  /\ d' = PassStarted(s, IF two THEN "prepass"
                         ELSE IF image.quantize = "none" THEN "pass" ELSE "1pass")
  /\ output_scanline' = 0
  /\ given' = <<>>
  /\ passes' = passes + 1
  /\ state' = IF two THEN "PRESCAN" ELSE "SCANNING"

(* A picture, with the options the application chooses for it.             *)
jpeg_read_header ==
  /\ state = "START"
  /\ image' \in {Prepared(i, s, f, q) :
                  i \in Images, s \in {DCTSIZE \div 4, DCTSIZE \div 2, DCTSIZE} \ {0},
                  f \in BOOLEAN, q \in {"none", "one", "two"}}
  /\ state' = "READY"
  /\ UNCHANGED <<colormap, dummy, d, pc, call, output_scanline, given, passes, late, empty>>

jpeg_start_decompress ==
  /\ state = "READY"
  /\ IF image.fractional
     THEN state' = "ERROR" /\ UNCHANGED <<colormap, dummy, d, output_scanline, given, passes>>
     ELSE prepare_for_output_pass(Fresh, FALSE) /\ UNCHANGED colormap
  /\ UNCHANGED <<image, pc, call, late, empty>>

-----------------------------------------------------------------------------
(* A call of process_data, which gives `got' rows when it returns: to the  *)
(* application, or to the dummy pass jpeg_start_decompress and             *)
(* jpeg_start_output run until the source suspends.                        *)
Idle == [room |-> 0, got |-> 0]
Returned(s, got) ==
  LET done == dummy /\ output_scanline + got >= output_height IN
  /\ d' = IF done THEN CrankStarted(s) ELSE s
  /\ output_scanline' = IF done THEN 0 ELSE output_scanline + got
  /\ dummy' = (dummy /\ ~done)
  /\ colormap' = (colormap \/ done)
  /\ state' = IF done THEN "SCANNING" ELSE state
  /\ pc' = "app" /\ call' = Idle
  /\ empty' = (got = 0)
GoesOn(s) ==
  /\ d' = s /\ pc' = "main"
  /\ UNCHANGED <<state, colormap, dummy, call, output_scanline, empty>>

(* The source is late, or decompress_data fills the buffer.                *)
process_data(room, arrives) ==
  /\ late' = (~d.buffer_full /\ ~arrives)
  /\ IF late' THEN Returned(d, 0)
     ELSE /\ d' = IF d.buffer_full THEN d ELSE decompress_data(d)
          /\ pc' = "main" /\ call' = [room |-> room, got |-> 0]
          /\ UNCHANGED <<state, colormap, dummy, output_scanline, empty>>
  /\ UNCHANGED <<image, given, passes>>
output_pass_setup(arrives) == state = "PRESCAN" /\ dummy /\ pc = "app" /\ process_data(0, arrives)
jpeg_read_scanlines(max_lines, arrives) ==
  /\ state = "SCANNING" /\ pc = "app" /\ output_scanline < output_height /\ d.post # "2pass"
  /\ process_data(max_lines, arrives)

(* process_data_crank_post.                                                *)
ReadKept(max_lines) ==
  /\ state = "SCANNING" /\ pc = "app" /\ output_scanline < output_height /\ d.post = "2pass"
  /\ LET p == post_process_2pass(d, max_lines) IN
     Returned(p.s, Len(p.rows)) /\ given' = given \o p.rows
  /\ late' = FALSE
  /\ UNCHANGED <<image, passes>>

(* process_data_context_main, CTX_PREPARE_FOR_IMCU.                        *)
PrepareForIMCU ==
  /\ pc = "main" /\ need_context_rows /\ d.context_state = "PREPARE_FOR_IMCU"
  /\ GoesOn(LET bottom == d.iMCU_row_ctr = total_iMCU_rows IN
            [d EXCEPT !.rowgroup_ctr = 0,
                      !.rowgroups_avail = IF bottom THEN (rows_left(1) - 1) \div rgroup(1) + 1
                                                    ELSE M - 1,
                      !.xbuffer = IF bottom THEN set_bottom_pointers(@, d.whichptr) ELSE @,
                      !.context_state = "PROCESS_IMCU"])
  /\ UNCHANGED <<image, given, passes, late>>

(* The call of post_process_data in each of the main controllers, and what *)
(* they do next.                                                           *)
PostProcess ==
  /\ pc = "main" /\ (need_context_rows => d.context_state # "PREPARE_FOR_IMCU")
  /\ LET p == post_process_data(d, call.room - call.got) IN
     /\ d' = p.s
     /\ call' = [call EXCEPT !.got = @ + Len(p.rows)]
     /\ given' = IF dummy THEN given ELSE given \o p.rows
  /\ pc' = "posted"
  /\ UNCHANGED <<image, state, colormap, dummy, output_scanline, passes, late, empty>>

process_data_simple_main ==
  /\ pc = "posted" /\ ~need_context_rows
  /\ Returned(IF d.rowgroup_ctr < M THEN d
              ELSE [d EXCEPT !.buffer_full = FALSE, !.rowgroup_ctr = 0], call.got)
  /\ UNCHANGED <<image, given, passes, late>>

(* CTX_POSTPONED_ROW.                                                      *)
PostponedRow ==
  /\ pc = "posted" /\ need_context_rows /\ d.context_state = "POSTPONED_ROW"
  /\ LET ready == [d EXCEPT !.context_state = "PREPARE_FOR_IMCU"] IN
     IF d.rowgroup_ctr < d.rowgroups_avail THEN Returned(d, call.got)
     ELSE IF call.got >= call.room THEN Returned(ready, call.got)
     ELSE GoesOn(ready)
  /\ UNCHANGED <<image, given, passes, late>>

(* CTX_PROCESS_IMCU: all but the last row group of this iMCU row.          *)
ProcessIMCU ==
  /\ pc = "posted" /\ need_context_rows /\ d.context_state = "PROCESS_IMCU"
  /\ Returned(IF d.rowgroup_ctr < d.rowgroups_avail THEN d
              ELSE [d EXCEPT
                !.xbuffer = IF d.iMCU_row_ctr = 1 THEN set_wraparound_pointers(@) ELSE @,
                !.whichptr = 3 - @,
                !.buffer_full = FALSE,
                !.rowgroup_ctr = M + 1,
                !.rowgroups_avail = M + 2,
                !.context_state = "POSTPONED_ROW"], call.got)
  /\ UNCHANGED <<image, given, passes, late>>

(* jpeg_finish_output, which needs no complete pass, and jpeg_start_output *)
(* with the colormap kept or dropped.                                      *)
jpeg_start_output(keep) ==
  /\ state = "SCANNING" /\ pc = "app" /\ passes < MaxPasses
  /\ prepare_for_output_pass(d, colormap /\ keep)
  /\ colormap' = (colormap /\ keep)
  /\ UNCHANGED <<image, pc, call, late, empty>>

-----------------------------------------------------------------------------
Init ==
  /\ image = <<>> /\ state = "START" /\ colormap = FALSE /\ dummy = FALSE
  /\ d = <<>> /\ pc = "app" /\ call = Idle /\ output_scanline = 0 /\ given = <<>>
  /\ passes = 0 /\ late = FALSE /\ empty = FALSE

Next ==
  \/ jpeg_read_header
  \/ jpeg_start_decompress
  \/ \E arrives \in BOOLEAN : output_pass_setup(arrives)
  \/ \E n \in Requests, arrives \in BOOLEAN : jpeg_read_scanlines(n, arrives)
  \/ \E n \in Requests : ReadKept(n)
  \/ PrepareForIMCU \/ PostProcess
  \/ process_data_simple_main \/ PostponedRow \/ ProcessIMCU
  \/ \E keep \in BOOLEAN : jpeg_start_output(keep)

Spec == Init /\ [][Next]_vars

-----------------------------------------------------------------------------
(* What the application should get: for each component the nearest row,    *)
(* and the next one on the other side, or the last real one at an edge.    *)
Clamped(c, r) == Max({0, Min({r, downsampled_height(c) - 1})})
Wanted(n) ==
  [c \in Comps |->
     LET near == (n * rgroup(c)) \div max_v_samp IN
     <<near, IF c \notin image.interpolated THEN near
             ELSE Clamped(c, IF n % 2 = 0 THEN near - 1 ELSE near + 1)>>]

(* The rows come in order, each once, made of the right rows of each       *)
(* component, however many are asked for at a time and wherever the source *)
(* is late (process_data_context_main, set_bottom_pointers, sep_upsample,  *)
(* merged_2v_upsample); and a call is without a row only when the source   *)
(* is late, as output_pass_setup takes it to be.  But for the last pass of *)
(* a two-pass quantization with vertical factors of 3 or 4, where          *)
(* post_process_2pass leaves next_row out of account at the bottom and may *)
(* give rows that do not exist.                                            *)
RowsRight ==
  state # "START" /\ (image.quantize = "two" => max_v_samp <= 2) =>
  /\ Len(given) <= output_height
  /\ \A n \in DOMAIN given : given[n] = Wanted(n - 1)
  /\ pc = "app" /\ empty => late
=============================================================================
