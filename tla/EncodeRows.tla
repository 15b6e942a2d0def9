----------------------------- MODULE EncodeRows -----------------------------
(***************************************************************************)
(* The input side of the compressor: how the lines the application writes, *)
(* any number at a time, become the MCUs the entropy encoder gets.  The    *)
(* preprocessor (jcprepct.c) gathers a row group, with the lines around it *)
(* when the picture is smoothed, the downsampler (jcsample.c) makes sample *)
(* rows of it, the main controller (jcmainct.c) keeps an iMCU row of them, *)
(* and the coefficient controller (jccoefct.c) cuts it into MCUs, at once  *)
(* or from arrays read again in each pass.  The destination may suspend at *)
(* any MCU: the application then passes again what was not taken.          *)
(*                                                                         *)
(* A sample row is known by the lines it is made of, `own' ones and `near' *)
(* ones; a block by its rows and its column, a flat one keeps its DC only. *)
(***************************************************************************)
EXTENDS Integers, Sequences, SequencesExt, FiniteSetsExt

CONSTANTS
  DCTSIZE,     (* rows of a block                                          *)
  Images,      (* [height, width, comps]: comps gives <<h, v>> factors     *)
  Requests     (* the numbers of lines written at a time                   *)

VARIABLES
  image,           (* the picture, its options and sizes                   *)
  state,           (* global_state                                         *)
  pc,              (* inside a call: "fill", "send"; outside: "app"        *)
  call,            (* in_rows_avail and *in_row_ctr of the call            *)
  next_scanline,
  prep,            (* the preprocessor: its buffer and counters            *)
  main,            (* the main controller: an iMCU row of samples          *)
  coef,            (* the coefficient controller: where it stands          *)
  whole_image,     (* the blocks kept for several passes                   *)
  pass_number,
  sent             (* the MCUs sent in each output pass                    *)

vars == <<image, state, pc, call, next_scanline, prep, main, coef, whole_image, pass_number,
          sent>>

-----------------------------------------------------------------------------
(* Sizes, kept in `image' (initial_setup and jinit_downsampler).           *)
ceil(n, k) == (n + k - 1) \div k
Setup(i, smooth, raw, scans, optimize) ==
  LET max_h == Max({f[1] : f \in ToSet(i.comps)})
      max_v == Max({f[2] : f \in ToSet(i.comps)})
      halved(c) == i.comps[c][1] * 2 = max_h /\ i.comps[c][2] * 2 = max_v
  IN [height |-> i.height, comps |-> i.comps, raw |-> raw, scans |-> scans,
      optimize |-> optimize, max_h |-> max_h, max_v |-> max_v,
      width_in_blocks |-> [c \in DOMAIN i.comps |->
                             ceil(i.width * i.comps[c][1], max_h * DCTSIZE)],
      height_in_blocks |-> [c \in DOMAIN i.comps |->
                              ceil(i.height * i.comps[c][2], max_v * DCTSIZE)],
      total_iMCU_rows |-> ceil(i.height, max_v * DCTSIZE),
      MCUs_per_row |-> ceil(i.width, max_h * DCTSIZE),
      smoothed |-> {c \in DOMAIN i.comps :
                      smooth /\ (i.comps[c] = <<max_h, max_v>> \/ halved(c))},
      fractional |-> ~raw /\ \E f \in ToSet(i.comps) : max_h % f[1] # 0 \/ max_v % f[2] # 0]

Comps == DOMAIN image.comps
v_samp(c) == image.comps[c][2]
h_samp(c) == image.comps[c][1]
max_v == image.max_v
need_context_rows == image.smoothed # {}
last_iMCU_row == image.total_iMCU_rows - 1

(* prepare_for_pass, finish_pass_master: with optimized tables each scan   *)
(* is gone through twice, the first time to count.                         *)
total_passes == Len(image.scans) * (IF image.optimize THEN 2 ELSE 1)
Gathering == image.optimize /\ pass_number % 2 = 0
ScanOf(p) == image.scans[1 + (IF image.optimize THEN p \div 2 ELSE p)]
Scan == ScanOf(pass_number)
interleaved(s) == Len(s) > 1

(* per_scan_setup.                                                         *)
MCUs_per_row(s) == IF interleaved(s) THEN image.MCUs_per_row ELSE image.width_in_blocks[s[1]]
MCU_width(s, c) == IF interleaved(s) THEN h_samp(c) ELSE 1
MCU_height(s, c) == IF interleaved(s) THEN v_samp(c) ELSE 1
Rest(n, k) == IF n % k = 0 THEN k ELSE n % k
last_row_height(c) == Rest(image.height_in_blocks[c], v_samp(c))
last_col_width(s, c) == Rest(image.width_in_blocks[c], MCU_width(s, c))

-----------------------------------------------------------------------------
(* The conversion buffer.  With context rows there are pointers to a row   *)
(* group more at either end, which come round.                             *)
NoLine == -1
buf_height == IF need_context_rows THEN 3 * max_v ELSE max_v
Slot(i) == i % buf_height
start_pass_prep ==
  [color_buf |-> [i \in 0 .. buf_height - 1 |-> NoLine], rows_to_go |-> image.height,
   next_buf_row |-> 0, this_row_group |-> 0, next_buf_stop |-> 2 * max_v]

(* Rows from .. to - 1 become what `line' says.                            *)
Stored(buf, from, to, line(_)) ==
  [s \in DOMAIN buf |->
     LET is == {i \in from .. to - 1 : Slot(i) = s}
     IN IF is = {} THEN buf[s] ELSE line(Max(is))]
expand_bottom_edge(buf, from, to) ==
  Stored(buf, from, to, LAMBDA i : buf[Slot(from - 1)])

(* What h2v2_smooth_downsample and fullsize_smooth_downsample read too:    *)
(* the rows above and below.                                               *)
SmoothedWith(buf, c, first, expand) ==
  IF c \in image.smoothed THEN {buf[Slot(first - 1)], buf[Slot(first + expand)]} ELSE {}
(* The output row r of a row group that starts at `at'.                    *)
Downsampled(buf, at, c, r) ==
  LET expand == max_v \div v_samp(c)
      first == at + r * expand
      row(i) == buf[Slot(i)]
  IN [own |-> {row(i) : i \in first .. first + expand - 1},
      near |-> SmoothedWith(buf, c, first, expand)]
sep_downsample(buffer, buf, at, group) ==
  [c \in Comps |-> [i \in DOMAIN buffer[c] |->
     IF i \div v_samp(c) = group THEN Downsampled(buf, at, c, i % v_samp(c)) ELSE buffer[c][i]]]

(* pre_process_data.                                                       *)
ConvertLines ==
  LET numrows == Min({(IF need_context_rows THEN prep.next_buf_stop ELSE max_v)
                        - prep.next_buf_row, call.avail - call.ctr})
      at == prep.next_buf_row
      line == next_scanline + call.ctr
  IN [p |-> [prep EXCEPT !.color_buf = Stored(@, at, at + numrows, LAMBDA i : line + i - at),
                         !.rows_to_go = @ - numrows, !.next_buf_row = @ + numrows],
      n |-> numrows]

pre_process_data ==
  /\ ~need_context_rows /\ call.ctr < call.avail /\ main.rowgroup_ctr < DCTSIZE
  /\ LET read == ConvertLines
         bottom == read.p.rows_to_go = 0
         filled == bottom \/ read.p.next_buf_row = max_v
         buf == IF bottom THEN expand_bottom_edge(read.p.color_buf, read.p.next_buf_row, max_v)
                          ELSE read.p.color_buf
         groups == main.rowgroup_ctr + (IF filled THEN 1 ELSE 0)
         down == IF filled THEN sep_downsample(main.buffer, buf, 0, main.rowgroup_ctr)
                           ELSE main.buffer
         padded == [c \in Comps |-> [i \in DOMAIN down[c] |->
                      IF i >= groups * v_samp(c) THEN down[c][groups * v_samp(c) - 1]
                                                 ELSE down[c][i]]]
     IN /\ prep' = [read.p EXCEPT !.color_buf = buf, !.next_buf_row = IF filled THEN 0 ELSE @]
        /\ main' = [main EXCEPT !.rowgroup_ctr = IF bottom THEN DCTSIZE ELSE groups,
                                !.buffer = IF bottom THEN padded ELSE down]
        /\ call' = [call EXCEPT !.ctr = @ + read.n]

(* pre_process_context: at the top the first line stands for those above,  *)
(* at the bottom the last one for those below.                             *)
UnpaddedTop(buf) == buf                                             \* mutant
pad_top(buf) == Stored(buf, -max_v, 0, LAMBDA i : buf[0])
pre_process_context ==
  /\ need_context_rows /\ main.rowgroup_ctr < DCTSIZE
  /\ call.ctr < call.avail \/ prep.rows_to_go = 0
  /\ LET reading == call.ctr < call.avail
         read == IF reading THEN ConvertLines ELSE [p |-> prep, n |-> 0]
         top == reading /\ prep.rows_to_go = image.height
         buf == IF ~reading
                THEN expand_bottom_edge(prep.color_buf, prep.next_buf_row, prep.next_buf_stop)
                ELSE IF top THEN pad_top(read.p.color_buf)
                ELSE read.p.color_buf
         next == IF reading THEN read.p.next_buf_row ELSE prep.next_buf_stop
         full == next = prep.next_buf_stop
         wrapped == IF next >= buf_height THEN 0 ELSE next
         group == prep.this_row_group + max_v
     IN /\ prep' = [read.p EXCEPT !.color_buf = buf,
                      !.next_buf_row = IF full THEN wrapped ELSE next,
                      !.this_row_group = IF ~full THEN @ ELSE IF group >= buf_height THEN 0
                                                              ELSE group,
                      !.next_buf_stop = IF full THEN wrapped + max_v ELSE @]
        /\ main' = IF ~full THEN main
                   ELSE [main EXCEPT
                           !.buffer = sep_downsample(@, buf, prep.this_row_group,
                                                     main.rowgroup_ctr),
                           !.rowgroup_ctr = @ + 1]
        /\ call' = [call EXCEPT !.ctr = @ + read.n]

-----------------------------------------------------------------------------
(* Blocks.                                                                 *)
forward_DCT(rows, c, y, x) ==
  [comp |-> c, rows |-> [i \in 1 .. DCTSIZE |-> rows[c][y * DCTSIZE + i - 1]],
   col |-> x, flat |-> FALSE]
Flat(b) == [b EXCEPT !.flat = TRUE]

(* The block at row y of the iMCU row and column x: a real one, or a dummy *)
(* one with the DC of the one before it in its MCU of a full scan.         *)
RealRow(iMCU_row, c, y) == iMCU_row < last_iMCU_row \/ y < last_row_height(c)
DctBlock(rows, iMCU_row, c, y, x) ==
  LET real(yy) == RealRow(iMCU_row, c, yy)
      last_y == last_row_height(c) - 1
      last_x == image.width_in_blocks[c] - 1
      mcu_end == (x \div h_samp(c) + 1) * h_samp(c) - 1
  IN IF real(y)
     THEN IF x <= last_x THEN forward_DCT(rows, c, y, x)
                         ELSE Flat(forward_DCT(rows, c, y, last_x))
     ELSE Flat(forward_DCT(rows, c, last_y, Min({last_x, mcu_end})))

(* The blocks of an MCU, in the order of the components, of the rows and   *)
(* of the columns.                                                         *)
MCUOf(s, y, col, block(_, _, _)) ==
  LET of(c) == [n \in 1 .. MCU_width(s, c) * MCU_height(s, c) |->
                  block(c, y + ((n - 1) \div MCU_width(s, c)),
                        col * MCU_width(s, c) + ((n - 1) % MCU_width(s, c)))]
  IN FlattenSeq([i \in DOMAIN s |-> of(s[i])])

MCU_rows_per_iMCU_row(s, iMCU_row) ==
  IF interleaved(s) THEN 1
  ELSE IF iMCU_row < last_iMCU_row THEN v_samp(s[1]) ELSE last_row_height(s[1])

start_pass_coef == [iMCU_row_num |-> 0, mcu_ctr |-> 0, MCU_vert_offset |-> 0]
(* Past the MCU that was written.                                          *)
NextMCU(k, s) ==
  IF k.mcu_ctr + 1 < MCUs_per_row(s) THEN [k EXCEPT !.mcu_ctr = @ + 1]
  ELSE IF k.MCU_vert_offset + 1 < MCU_rows_per_iMCU_row(s, k.iMCU_row_num)
  THEN [k EXCEPT !.mcu_ctr = 0, !.MCU_vert_offset = @ + 1]
  ELSE [iMCU_row_num |-> k.iMCU_row_num + 1, mcu_ctr |-> 0, MCU_vert_offset |-> 0]

(* compress_first_pass keeps the iMCU row in the arrays.                   *)
Kept(rows, iMCU_row) ==
  [c \in Comps |->
     whole_image[c] \o [y \in 1 .. v_samp(c) |-> [x \in 1 .. h_samp(c) * image.MCUs_per_row |->
                           DctBlock(rows, iMCU_row, c, y - 1, x - 1)]]]
KeepFirst == total_passes > 1 /\ pass_number = 0

(* compress_data, or compress_output from the arrays.                      *)
MCU(rows, arrays) ==
  MCUOf(Scan, coef.MCU_vert_offset, coef.mcu_ctr,
        LAMBDA c, y, x :
          IF total_passes > 1 THEN arrays[c][coef.iMCU_row_num * v_samp(c) + y + 1][x + 1]
          ELSE DctBlock(rows, coef.iMCU_row_num, c, y, x))

(* One MCU: written, unless the destination suspends.  A row begun again   *)
(* after a suspension is put in the arrays again, as it was.               *)
encode_mcu ==
  /\ LET arrays == IF KeepFirst /\ Len(whole_image[1]) = coef.iMCU_row_num * v_samp(1)
                   THEN Kept(main.buffer, coef.iMCU_row_num) ELSE whole_image
     IN /\ whole_image' = arrays
        /\ sent' = IF Gathering THEN sent
                   ELSE [sent EXCEPT ![pass_number] = Append(@, MCU(main.buffer, arrays))]
  /\ coef' = NextMCU(coef, Scan)

-----------------------------------------------------------------------------
(* The application and the main controller.                                *)
jpeg_start_compress(i) ==
  /\ state = "START"
  /\ image' = i
  /\ IF i.fractional
     THEN state' = "ERROR" /\ UNCHANGED <<prep, main, coef, whole_image, sent>>
     ELSE /\ state' = IF i.raw THEN "RAW_OK" ELSE "SCANNING"
          /\ prep' = start_pass_prep'
          /\ main' = [buffer |-> [c \in DOMAIN i.comps |-> [r \in 0 .. i.comps[c][2] * DCTSIZE - 1 |->
                                    [own |-> {NoLine}, near |-> {}]]],
                      rowgroup_ctr |-> 0, cur_iMCU_row |-> 0, suspended |-> FALSE]
          /\ coef' = start_pass_coef
          /\ whole_image' = [c \in DOMAIN i.comps |-> <<>>]
          /\ sent' = [p \in 0 .. total_passes' - 1 |-> <<>>]
  /\ UNCHANGED <<pc, call, next_scanline, pass_number>>

jpeg_write_scanlines(num_lines) ==
  /\ pc = "app" /\ state = "SCANNING" /\ next_scanline < image.height
  /\ call' = [avail |-> Min({num_lines, image.height - next_scanline}), ctr |-> 0]
  /\ pc' = IF main.rowgroup_ctr = DCTSIZE THEN "send" ELSE "fill"
  /\ UNCHANGED <<image, state, next_scanline, prep, main, coef, whole_image, pass_number, sent>>

(* process_data_simple_main, from one step to the next: read, return for   *)
(* more, send.                                                             *)
Fill ==
  /\ pc = "fill"
  /\ pre_process_data \/ pre_process_context
  /\ pc' = IF main'.rowgroup_ctr = DCTSIZE THEN "send" ELSE "fill"
  /\ UNCHANGED <<image, state, next_scanline, coef, whole_image, pass_number, sent>>

Return(row_ctr) ==
  /\ pc' = "app" /\ call' = [avail |-> 0, ctr |-> 0]
  /\ next_scanline' = next_scanline + row_ctr
ReturnForMore ==
  /\ pc = "fill" /\ main.rowgroup_ctr < DCTSIZE /\ call.ctr = call.avail
  /\ need_context_rows => prep.rows_to_go # 0
  /\ Return(call.ctr)
  /\ UNCHANGED <<image, state, prep, main, coef, whole_image, pass_number, sent>>

(* The row is done: the line held back is given again, and the call goes   *)
(* on with the next row, or returns after the last.                        *)
Sent ==
  /\ pc = "send" /\ state = "SCANNING"
  /\ encode_mcu
  /\ LET done == coef'.iMCU_row_num > coef.iMCU_row_num
         ctr == call.ctr + (IF done /\ main.suspended THEN 1 ELSE 0)
     IN /\ main' = IF done THEN [main EXCEPT !.suspended = FALSE, !.rowgroup_ctr = 0,
                                             !.cur_iMCU_row = @ + 1]
                           ELSE main
        /\ IF done /\ main'.cur_iMCU_row = image.total_iMCU_rows
           THEN Return(ctr)
           ELSE /\ pc' = IF done THEN "fill" ELSE "send"
                /\ call' = [call EXCEPT !.ctr = ctr]
                /\ UNCHANGED next_scanline
  /\ UNCHANGED <<image, state, prep, pass_number>>

(* Suspended: the last line read is said not to have been, once, or the    *)
(* application would take the picture for done.                            *)
Suspend ==
  /\ pc = "send" /\ state = "SCANNING" /\ ~Gathering
  /\ Return(call.ctr - (IF main.suspended THEN 0 ELSE 1))
  /\ main' = [main EXCEPT !.suspended = TRUE]
  /\ UNCHANGED <<image, state, prep, coef, whole_image, pass_number, sent>>

(* jpeg_write_raw_data: the application gives an iMCU row of samples.      *)
RawRow(c, r) == [own |-> {Min({r, ceil(image.height * v_samp(c), max_v) - 1})}, near |-> {}]
jpeg_write_raw_data ==
  /\ pc = "app" /\ state = "RAW_OK" /\ next_scanline < image.height
  /\ main' = [main EXCEPT !.buffer = [c \in Comps |-> [i \in DOMAIN main.buffer[c] |->
                RawRow(c, (next_scanline * v_samp(c)) \div max_v + i)]]]
  /\ pc' = "send"
  /\ UNCHANGED <<image, state, call, next_scanline, prep, coef, whole_image, pass_number, sent>>
RawSent ==
  /\ pc = "send" /\ state = "RAW_OK"
  /\ encode_mcu
  /\ IF coef'.iMCU_row_num > coef.iMCU_row_num
     THEN pc' = "app" /\ next_scanline' = next_scanline + max_v * DCTSIZE
     ELSE UNCHANGED <<pc, next_scanline>>
  /\ UNCHANGED <<image, state, call, prep, main, pass_number>>
RawSuspend ==
  /\ pc = "send" /\ state = "RAW_OK" /\ ~Gathering
  /\ pc' = "app"
  /\ UNCHANGED <<image, state, call, next_scanline, prep, main, coef, whole_image, pass_number,
                 sent>>

(* jpeg_finish_compress: the passes left are done from the arrays, and the *)
(* destination may no longer suspend.                                      *)
jpeg_finish_compress ==
  /\ pc = "app" /\ state \in {"SCANNING", "RAW_OK"}
  /\ state' = IF next_scanline < image.height THEN "ERROR"
              ELSE IF pass_number + 1 = total_passes THEN "DONE" ELSE "FINISHING"
  /\ IF state' = "FINISHING"
     THEN pass_number' = pass_number + 1 /\ coef' = start_pass_coef
     ELSE UNCHANGED <<pass_number, coef>>
  /\ UNCHANGED <<image, pc, call, next_scanline, prep, main, whole_image, sent>>
FinishMCU ==
  /\ state = "FINISHING"
  /\ sent' = IF Gathering THEN sent
             ELSE [sent EXCEPT ![pass_number] = Append(@, MCU(main.buffer, whole_image))]
  /\ LET next == NextMCU(coef, Scan)
         done == next.iMCU_row_num = image.total_iMCU_rows
     IN /\ coef' = IF done THEN start_pass_coef ELSE next
        /\ pass_number' = IF done /\ pass_number + 1 < total_passes THEN pass_number + 1
                          ELSE pass_number
        /\ state' = IF done /\ pass_number + 1 = total_passes THEN "DONE" ELSE state
  /\ UNCHANGED <<image, pc, call, next_scanline, prep, main, whole_image>>
CannotSuspend ==
  /\ state = "FINISHING" /\ ~Gathering
  /\ state' = "ERROR"
  /\ UNCHANGED <<image, pc, call, next_scanline, prep, main, coef, whole_image, pass_number, sent>>

-----------------------------------------------------------------------------
Init ==
  /\ image = <<>> /\ state = "START" /\ pc = "app"
  /\ call = [avail |-> 0, ctr |-> 0] /\ next_scanline = 0
  /\ prep = <<>> /\ main = <<>> /\ coef = <<>> /\ whole_image = <<>>
  /\ pass_number = 0 /\ sent = <<>>

(* A scan of all the components, or one for each.                          *)
Scans(n) == {<<[i \in 1 .. n |-> i]>>, [i \in 1 .. n |-> <<i>>]}
Start ==
  \E i \in Images, smooth, raw, optimize \in BOOLEAN :
    \E scans \in Scans(Len(i.comps)) :
      (raw => ~smooth) /\ jpeg_start_compress(Setup(i, smooth, raw, scans, optimize))
Next ==
  \/ Start
  \/ \E n \in Requests : jpeg_write_scanlines(n)
  \/ Fill \/ ReturnForMore \/ Sent \/ Suspend
  \/ jpeg_write_raw_data \/ RawSent \/ RawSuspend
  \/ jpeg_finish_compress \/ FinishMCU \/ CannotSuspend
Spec == Init /\ [][Next]_vars

-----------------------------------------------------------------------------
(* The lines a sample row should be made of: those it covers, and with     *)
(* smoothing the ones on either side, the first and the last line standing *)
(* for what is beyond them.  A row below the picture only has to be made   *)
(* of the last lines.                                                      *)
Clamped(n) == Max({0, Min({n, image.height - 1})})
Wanted(c, r) ==
  LET e == max_v \div v_samp(c) IN
  IF image.raw THEN [own |-> {r}, near |-> {}]
  ELSE [own |-> {Clamped(r * e + i) : i \in 0 .. e - 1},
        near |-> IF c \in image.smoothed THEN {Clamped(r * e - 1), Clamped(r * e + e)} ELSE {}]
SampleRows(c) == ceil(image.height * v_samp(c), max_v)
LastLines == Max({0, image.height - max_v - 1}) .. image.height - 1
RowRight(c, r, row) ==
  IF r < SampleRows(c) THEN row = Wanted(c, r)
  ELSE row.own \cup row.near \subseteq (IF image.raw THEN {SampleRows(c) - 1} ELSE LastLines)

(* A real block is made of its rows, a dummy one is the flat copy of the   *)
(* block before it in its MCU.                                             *)
BlockRight(mcu, n, c, y, x) ==
  IF y < image.height_in_blocks[c] /\ x < image.width_in_blocks[c]
  THEN /\ mcu[n].comp = c /\ mcu[n].col = x /\ ~mcu[n].flat
       /\ \A i \in 1 .. DCTSIZE : RowRight(c, y * DCTSIZE + i - 1, mcu[n].rows[i])
  ELSE mcu[n] = Flat(mcu[n - 1])

(* The place of each block of the k-th MCU of a scan.                      *)
Places(s, k) ==
  LET row == (k - 1) \div MCUs_per_row(s)
      col == (k - 1) % MCUs_per_row(s)
  IN FlattenSeq([i \in DOMAIN s |->
       LET c == s[i] IN
       [n \in 1 .. MCU_width(s, c) * MCU_height(s, c) |->
          <<c, row * MCU_height(s, c) + ((n - 1) \div MCU_width(s, c)),
            col * MCU_width(s, c) + ((n - 1) % MCU_width(s, c))>>]])
MCUs_in_scan(s) ==
  MCUs_per_row(s) * (IF interleaved(s) THEN image.total_iMCU_rows
                                       ELSE image.height_in_blocks[s[1]])

(* However many lines are written at a time and wherever the destination   *)
(* suspends, the MCUs of each scan are sent in order, each once, made of   *)
(* the right lines, and an application that has written all its lines, as  *)
(* next_scanline tells it, has every MCU of the pass sent (pre_process_data,*)
(* pre_process_context, compress_data, compress_first_pass,                *)
(* process_data_simple_main).                                              *)
BlocksRight ==
  state \notin {"START", "ERROR"} =>
  /\ \A p \in DOMAIN sent :
       \A k \in DOMAIN sent[p] :
         LET places == Places(ScanOf(p), k) IN
         /\ k <= MCUs_in_scan(ScanOf(p))
         /\ Len(sent[p][k]) = Len(places)
         /\ \A n \in DOMAIN places :
              BlockRight(sent[p][k], n, places[n][1], places[n][2], places[n][3])
  /\ call.ctr >= 0
  /\ pc = "app" /\ next_scanline >= image.height =>
       \A p \in DOMAIN sent :
         (p < pass_number \/ (p = pass_number /\ state # "FINISHING")) =>
         Len(sent[p]) = IF image.optimize /\ p % 2 = 0 THEN 0 ELSE MCUs_in_scan(ScanOf(p))
=============================================================================
