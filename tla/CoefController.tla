--------------------------- MODULE CoefController ---------------------------
(***************************************************************************)
(* The two sides of the decompressor and the coefficients between them:    *)
(* scans come in through src/lib/jpeg-6b-crop/jdinput.c and the input half *)
(* of jdcoefct.c, and passes over the picture go out through the output    *)
(* half, which may be of an earlier scan, of the one that is arriving, or  *)
(* of one to come.  The entry points of jdapistd.c, jdapimin.c and         *)
(* jdtrans.c order them; jddctmgr.c keeps the multipliers of each          *)
(* component.  The source may run dry at any MCU.                          *)
(*                                                                         *)
(* A block is the sequence of the scans decoded into it.  What smoothing   *)
(* makes of the blocks around is left out, not which blocks it reads.      *)
(***************************************************************************)
EXTENDS Integers, Sequences, SequencesExt, FiniteSetsExt

CONSTANTS
  SAVED_COEFS,  (* coefficients whose accuracy smoothing looks at          *)
  Images        (* [width, height, factors, progressive, scans]: sizes in  *)
                (* blocks at the full resolution; a scan is [comps, Ss,    *)
                (* Se, Al], the script being a valid one                   *)

(* Sizes are positive, factors 1 to 4 (initial_setup).  A scan names       *)
(* components of the picture (get_sos), and a sequential script codes each *)
(* component once: a first scan of them all is the only one.               *)
ImagesAssumption ==
  /\ SAVED_COEFS \in Nat
  /\ \A s \in Images :
       /\ s.width \in Nat \ {0} /\ s.height \in Nat \ {0} /\ s.progressive \in BOOLEAN
       /\ s.factors \in Seq((1 .. 4) \X (1 .. 4)) /\ s.factors # <<>>
       /\ s.scans \in Seq([comps : Seq(DOMAIN s.factors), Ss : Nat, Se : Nat, Al : Nat]) /\ s.scans # <<>>
       /\ \A n \in DOMAIN s.scans : s.scans[n].comps # <<>>
       /\ \/ s.progressive \/ Len(s.scans[1].comps) < Len(s.factors)
          \/ Len(s.scans) = 1 /\ ToSet(s.scans[1].comps) = DOMAIN s.factors

VARIABLES
  image,          (* the picture and, chosen by the application:           *)
                  (* do_block_smoothing, buffered_image                    *)
  global_state,
  call,           (* the entry point that forces input now, or "none"      *)
  i,              (* the input side, see ReadyInput                        *)
  o,              (* the output side                                       *)
  shown           (* the blocks given to the inverse DCT of the iMCU row   *)

vars == <<image, global_state, call, i, o, shown>>

-----------------------------------------------------------------------------
(* Dimensions (initial_setup, per_scan_setup).                             *)
ceil(n, k) == (n + k - 1) \div k
Comps == DOMAIN image.factors
h_samp(c) == image.factors[c][1]
v_samp(c) == image.factors[c][2]
max_h == Max({h_samp(c) : c \in Comps})
max_v == Max({v_samp(c) : c \in Comps})
width_in_blocks(c) == ceil(image.width * h_samp(c), max_h)
height_in_blocks(c) == ceil(image.height * v_samp(c), max_v)
total_iMCU_rows == ceil(image.height, max_v)
last_row_height(c) == IF height_in_blocks(c) % v_samp(c) = 0 THEN v_samp(c)
                      ELSE height_in_blocks(c) % v_samp(c)
has_multiple_scans == image.progressive \/ Len(image.scans[1].comps) < Len(image.factors)
full_buffer == has_multiple_scans \/ image.buffered

Scan == image.scans[i.scan]
Interleaved == Len(Scan.comps) > 1
MCU_width(c) == IF Interleaved THEN h_samp(c) ELSE 1
MCU_height(c) == IF Interleaved THEN v_samp(c) ELSE 1
MCUs_per_row == IF Interleaved THEN ceil(image.width, max_h) ELSE width_in_blocks(Scan.comps[1])

(* start_iMCU_row.                                                         *)
MCU_rows_per_iMCU_row ==
  CASE Interleaved -> 1
    [] ~Interleaved /\ i.iMCU_row < total_iMCU_rows - 1 -> v_samp(Scan.comps[1])
    [] OTHER -> last_row_height(Scan.comps[1])

(* A virtual array for each component, padded to whole iMCUs.              *)
Padded ==
  {b \in Comps \X (0 .. image.height + max_v) \X (0 .. image.width + max_h) :
     /\ b[2] < v_samp(b[1]) * ceil(height_in_blocks(b[1]), v_samp(b[1]))
     /\ b[3] < h_samp(b[1]) * ceil(width_in_blocks(b[1]), h_samp(b[1]))}

-----------------------------------------------------------------------------
(* The input side.                                                         *)
BlankBits(s) == [c \in DOMAIN s.factors |-> [k \in 0 .. SAVED_COEFS - 1 |-> -1]]

(* jinput's start_input_pass: the tables of a component are kept from its  *)
(* first scan, the accuracy of its coefficients is that of the scan which  *)
(* begins.                                                                 *)
start_input_pass(side, n) ==
  LET s == image.scans[n] IN
  [side EXCEPT
     !.scan = n, !.iMCU_row = 0, !.MCU_ctr = 0, !.MCU_vert_offset = 0, !.consume = "data",
     !.quant_table = @ \cup ToSet(s.comps),
     !.coef_bits = [c \in DOMAIN @ |-> [k \in DOMAIN @[c] |->
        IF c \in ToSet(s.comps) /\ k \in s.Ss .. s.Se THEN s.Al ELSE @[c][k]]]]

(* The blocks of the MCU at a column, for each MCU row of the iMCU row.    *)
MCU(yoffset, col) ==
  {<<b[1], i.iMCU_row * v_samp(b[1]) + yoffset + b[2], col * MCU_width(b[1]) + b[3]>> :
     b \in {a \in ToSet(Scan.comps) \X (0 .. max_v - 1) \X (0 .. max_h - 1) :
              a[2] < MCU_height(a[1]) /\ a[3] < MCU_width(a[1])}}
MCUsLeft == MCUs_per_row * (MCU_rows_per_iMCU_row - i.MCU_vert_offset) - i.MCU_ctr

(* Decoding the next k MCUs, then the source is dry or the row complete.   *)
Decoded(k) ==
  LET from == i.MCU_vert_offset * MCUs_per_row + i.MCU_ctr IN
  UNION {MCU(p \div MCUs_per_row, p % MCUs_per_row) : p \in from .. from + k - 1}
Counted(side, k) ==
  LET at == i.MCU_vert_offset * MCUs_per_row + i.MCU_ctr + k IN
  IF k < MCUsLeft
  THEN [side EXCEPT !.MCU_vert_offset = at \div MCUs_per_row, !.MCU_ctr = at % MCUs_per_row]
  ELSE [side EXCEPT !.MCU_vert_offset = 0, !.MCU_ctr = 0, !.iMCU_row = @ + 1,
                    !.consume = IF i.iMCU_row + 1 < total_iMCU_rows THEN @ ELSE "markers"]
Outcome(k) ==
  IF k < MCUsLeft THEN "SUSPENDED"
  ELSE IF i.iMCU_row + 1 < total_iMCU_rows THEN "ROW_COMPLETED" ELSE "SCAN_COMPLETED"

consume_data(ret) ==
  /\ i.consume = "data"
  /\ IF full_buffer
     THEN \E k \in 0 .. MCUsLeft :
            /\ ret = Outcome(k)
            /\ i' = [Counted(i, k) EXCEPT !.whole_image =
                       [b \in DOMAIN @ |-> IF b \in Decoded(k) THEN Append(@[b], i.scan) ELSE @[b]]]
     ELSE ret = "SUSPENDED" /\ UNCHANGED i             \* dummy_consume_data
  /\ UNCHANGED o

UnclampedScan == o.scan                                             \* mutant
ClampedScan == Min({o.scan, i.scan})
consume_markers(ret) ==
  /\ i.consume = "markers"
  /\ \/ i.eoi_reached /\ ret = "REACHED_EOI" /\ UNCHANGED <<i, o>>
     \/ ~i.eoi_reached /\ ret = "SUSPENDED" /\ UNCHANGED <<i, o>>
     \/ /\ ~i.eoi_reached /\ i.scan < Len(image.scans) /\ ret = "REACHED_SOS"
        /\ i' = start_input_pass(i, i.scan + 1) /\ UNCHANGED o
     \/ /\ ~i.eoi_reached /\ i.scan = Len(image.scans) /\ ret = "REACHED_EOI"
        /\ i' = [i EXCEPT !.eoi_reached = TRUE]
        /\ o' = [o EXCEPT !.scan = ClampedScan]
consume_input(ret) == consume_markers(ret) \/ consume_data(ret)

-----------------------------------------------------------------------------
(* The output side: a pass begins.  The multipliers of a component are     *)
(* made once its table is known, and smoothing is decided for the pass.    *)
smoothing_useful ==
  /\ image.smoothing /\ image.progressive
  /\ \A c \in Comps : c \in i.quant_table /\ i.coef_bits[c][0] >= 0
  /\ \E c \in Comps : \E k \in 1 .. SAVED_COEFS - 1 : i.coef_bits[c][k] # 0
idct_start_pass(multipliers) == multipliers \cup i.quant_table
output_pass_setup(side, n) ==
  [side EXCEPT !.scan = n, !.iMCU_row = 0, !.begun = i.scan,
               !.multipliers = idct_start_pass(@), !.smoothing = smoothing_useful,
               !.coef_bits_latch = IF smoothing_useful THEN i.coef_bits ELSE @]

(* Whether an iMCU row has to wait for input (decompress_data and          *)
(* decompress_smooth_data): the neighbours below are needed up to date.    *)
NoDelta == 0                                                        \* mutant
delta == IF Scan.Ss = 0 THEN 1 ELSE 0
InputBehind ==
  IF ~o.smoothing
  THEN i.scan < o.scan \/ (i.scan = o.scan /\ i.iMCU_row <= o.iMCU_row)
  ELSE /\ i.scan <= o.scan /\ ~i.eoi_reached
       /\ ~(i.scan = o.scan /\ i.iMCU_row > o.iMCU_row + delta)

block_rows(c) == IF o.iMCU_row < total_iMCU_rows - 1 THEN v_samp(c) ELSE last_row_height(c)
InRow(c, y) == y - o.iMCU_row * v_samp(c) \in 0 .. block_rows(c) - 1
first_row(y) == o.iMCU_row = 0 /\ y = 0
last_row(c, y) == o.iMCU_row = total_iMCU_rows - 1 /\ ~InRow(c, y + 1)
Around(c, y, x) ==
  {<<c, v, h>> : v \in {y, IF first_row(y) THEN y ELSE y - 1, IF last_row(c, y) THEN y ELSE y + 1},
                 h \in {x, Max({x - 1, 0}), Min({x + 1, width_in_blocks(c) - 1})}}

Blank == [row |-> -1, done |-> FALSE, blocks |-> <<>>, around |-> <<>>]
FromArrays ==
  LET blocks == {b \in DOMAIN i.whole_image : InRow(b[1], b[2]) /\ b[3] < width_in_blocks(b[1])}
  IN [row |-> o.iMCU_row, done |-> TRUE,
      blocks |-> [b \in blocks |-> i.whole_image[b]],
      around |-> [b \in IF o.smoothing THEN blocks ELSE {} |->
                    {i.whole_image[n] : n \in Around(b[1], b[2], b[3])}]]

(* decompress_onepass skips the dummy blocks of the MCUs at the edges, and *)
(* goes on with the row it has begun.                                      *)
Useful(c, y, x) ==
  /\ i.iMCU_row < total_iMCU_rows - 1 \/ y - i.iMCU_row * v_samp(c) < last_row_height(c)
  /\ x < width_in_blocks(c)
OnePass(k) ==
  LET kept == IF shown.done THEN <<>> ELSE shown.blocks
      new == {b \in Decoded(k) : Useful(b[1], b[2], b[3])}
  IN [row |-> o.iMCU_row, done |-> k = MCUsLeft, around |-> <<>>,
      blocks |-> [b \in DOMAIN kept \cup new |-> IF b \in new THEN <<1>> ELSE kept[b]]]

-----------------------------------------------------------------------------
(* The entry points.  The ones that force input go round their loop until  *)
(* the source is dry or they have what they need, and are called again.    *)
ReadyInput(s) ==
  [scan |-> 1, iMCU_row |-> 0, MCU_ctr |-> 0, MCU_vert_offset |-> 0, consume |-> "markers",
   eoi_reached |-> FALSE, quant_table |-> {}, coef_bits |-> BlankBits(s), whole_image |-> <<>>]
NoPass == [scan |-> 0, iMCU_row |-> 0, begun |-> 0, multipliers |-> {}, smoothing |-> FALSE,
           coef_bits_latch |-> <<>>]
NoImage == [width |-> 1, height |-> 1, factors |-> << <<1, 1>> >>, progressive |-> FALSE,
            scans |-> <<>>, smoothing |-> FALSE, buffered |-> FALSE]

Open ==
  /\ global_state = "START"
  /\ \E s \in Images, smoothing \in BOOLEAN, buffered \in BOOLEAN :
       /\ image' = [width |-> s.width, height |-> s.height, factors |-> s.factors,
                    progressive |-> s.progressive, scans |-> s.scans,
                    smoothing |-> smoothing, buffered |-> buffered]
       /\ i' = ReadyInput(s)
  /\ global_state' = "READY"
  /\ UNCHANGED <<call, o, shown>>

(* The modules are made and the first scan begins (master_selection,       *)
(* transdecode_master_selection, jinit_d_coef_controller).                 *)
Master(full) ==
  i' = [start_input_pass(i, 1) EXCEPT
          !.whole_image = [b \in IF full THEN Padded ELSE {} |-> <<>>]]

jpeg_start_decompress ==
  /\ call = "none"
  /\ \/ /\ global_state = "READY" /\ Master(full_buffer)
        /\ \/ image.buffered /\ global_state' = "BUFIMAGE" /\ UNCHANGED call
           \/ ~image.buffered /\ global_state' = "PRELOAD" /\ call' = "start"
     \/ global_state = "PRELOAD" /\ call' = "start" /\ UNCHANGED <<global_state, i>>
  /\ UNCHANGED <<image, o, shown>>
StartDone ==
  /\ call = "start" /\ (~has_multiple_scans \/ i.eoi_reached)
  /\ o' = output_pass_setup(o, i.scan)
  /\ global_state' = "RAW_OK" /\ call' = "none" /\ shown' = Blank
  /\ UNCHANGED <<image, i>>

jpeg_read_coefficients ==
  /\ call = "none"
  /\ \/ /\ global_state = "READY" /\ Master(TRUE)
        /\ image' = [image EXCEPT !.buffered = TRUE] /\ global_state' = "RDCOEFS"
     \/ global_state = "RDCOEFS" /\ UNCHANGED <<global_state, image, i>>
  /\ call' = "coefficients" /\ UNCHANGED <<o, shown>>
CoefficientsDone ==
  /\ call = "coefficients" /\ i.eoi_reached
  /\ global_state' = "STOPPING" /\ call' = "none"
  /\ shown' = [Blank EXCEPT !.done = TRUE, !.blocks = i.whole_image]
  /\ UNCHANGED <<image, i, o>>

jpeg_start_output(n) ==
  /\ call = "none" /\ global_state = "BUFIMAGE"
  /\ LET scan_number == IF n <= 0 THEN 1
                        ELSE IF i.eoi_reached /\ n > i.scan THEN i.scan ELSE n
     IN o' = output_pass_setup(o, scan_number)
  /\ global_state' = "RAW_OK" /\ shown' = Blank
  /\ UNCHANGED <<image, call, i>>

jpeg_read_raw_data ==
  /\ call = "none" /\ global_state = "RAW_OK" /\ o.iMCU_row < total_iMCU_rows
  /\ call' = "read" /\ UNCHANGED <<image, global_state, i, o, shown>>
decompress_data ==
  /\ call = "read" /\ full_buffer /\ ~InputBehind
  /\ shown' = FromArrays /\ o' = [o EXCEPT !.iMCU_row = @ + 1]
  /\ call' = "none" /\ UNCHANGED <<image, global_state, i>>
decompress_onepass ==
  /\ call = "read" /\ ~full_buffer
  /\ \E k \in 0 .. MCUsLeft :
       /\ i' = Counted(i, k) /\ shown' = OnePass(k)
       /\ o' = IF k < MCUsLeft THEN o ELSE [o EXCEPT !.iMCU_row = @ + 1]
  /\ call' = "none" /\ UNCHANGED <<image, global_state>>

jpeg_finish_output ==
  /\ call = "none"
  /\ (global_state = "RAW_OK" /\ image.buffered) \/ global_state = "BUFPOST"
  /\ global_state' = "BUFPOST" /\ call' = "finish_output"
  /\ UNCHANGED <<image, i, o, shown>>
FinishOutputDone ==
  /\ call = "finish_output" /\ ~(i.scan <= o.scan /\ ~i.eoi_reached)
  /\ global_state' = "BUFIMAGE" /\ call' = "none"
  /\ UNCHANGED <<image, i, o, shown>>

jpeg_finish_decompress ==
  /\ call = "none"
  /\ \/ global_state = "RAW_OK" /\ ~image.buffered /\ o.iMCU_row = total_iMCU_rows
     \/ global_state \in {"BUFIMAGE", "STOPPING"}
  /\ global_state' = "STOPPING" /\ call' = "finish"
  /\ UNCHANGED <<image, i, o, shown>>
FinishDone ==
  /\ call = "finish" /\ i.eoi_reached
  /\ global_state' = "ENDED" /\ call' = "none"                  \* jpeg_abort
  /\ UNCHANGED <<image, i, o, shown>>

jpeg_consume_input ==
  /\ call = "none"
  /\ global_state \in {"PRELOAD", "RAW_OK", "BUFIMAGE", "BUFPOST", "STOPPING"}
  /\ \E ret \in {"SUSPENDED", "ROW_COMPLETED", "SCAN_COMPLETED", "REACHED_SOS", "REACHED_EOI"} :
       consume_input(ret)
  /\ UNCHANGED <<image, global_state, call, shown>>

(* A turn of the loop of the entry point that is running.                  *)
NeedsInput ==
  \/ call = "start" /\ has_multiple_scans /\ ~i.eoi_reached
  \/ call \in {"coefficients", "finish"} /\ ~i.eoi_reached
  \/ call = "finish_output" /\ i.scan <= o.scan /\ ~i.eoi_reached
  \/ call = "read" /\ full_buffer /\ InputBehind
ForceInput ==
  /\ NeedsInput
  /\ \E ret \in {"SUSPENDED", "ROW_COMPLETED", "SCAN_COMPLETED", "REACHED_SOS", "REACHED_EOI"} :
       consume_input(ret) /\ call' = IF ret = "SUSPENDED" THEN "none" ELSE call
  /\ UNCHANGED <<image, global_state, shown>>

-----------------------------------------------------------------------------
Init == /\ image = NoImage /\ global_state = "START" /\ call = "none"
        /\ i = ReadyInput(NoImage) /\ o = NoPass /\ shown = Blank
Running ==
  \/ ForceInput \/ StartDone \/ CoefficientsDone \/ decompress_data \/ decompress_onepass
  \/ FinishOutputDone \/ FinishDone
Next ==
  \/ Open \/ jpeg_start_decompress \/ jpeg_read_coefficients \/ jpeg_read_raw_data
  \/ \E n \in 0 .. Len(image.scans) + 1 : jpeg_start_output(n)
  \/ jpeg_finish_output \/ jpeg_finish_decompress \/ jpeg_consume_input
  \/ Running
Spec == Init /\ [][Next]_vars
FairSpec == Spec /\ WF_vars(Running)

-----------------------------------------------------------------------------
(* The scans that concern a component, up to the nth.                      *)
ScansOf(c, n) == {s \in DOMAIN image.scans : s <= n /\ c \in ToSet(image.scans[s].comps)}
RealBlocks(row) ==
  {b \in Padded : b[2] \div v_samp(b[1]) = row /\ b[2] < height_in_blocks(b[1])
                                               /\ b[3] < width_in_blocks(b[1])}
OnceInOrder(got) == \A p, q \in DOMAIN got : p < q => got[p] < got[q]
(* The scan which the pass shows: there may be no such scan any more.      *)
PassScan == Min({o.scan, Len(image.scans)})

(* What a pass shows is complete: of every block that is not a dummy, each *)
(* scan up to the one asked for, once, whether the source ran dry within a *)
(* row or not and whichever side was ahead (MCU_ctr, the loops that force  *)
(* input); smoothing sees around it blocks whose DC is as far (delta), and *)
(* takes for exact only what is (coef_bits_latch).                         *)
Complete(b) ==
  LET got == shown.blocks[b] IN
  /\ OnceInOrder(got) /\ ScansOf(b[1], PassScan) \subseteq ToSet(got)
  /\ ScansOf(b[1], Min({PassScan, o.begun})) # {} => b[1] \in o.multipliers
SmoothedFrom(b) ==
  /\ \A near \in shown.around[b] :
       {s \in ScansOf(b[1], PassScan) : image.scans[s].Ss = 0} \subseteq ToSet(near)
  /\ o.begun <= PassScan =>
       \A k \in 1 .. SAVED_COEFS - 1 :
         o.coef_bits_latch[b[1]][k] = 0 =>
           \E s \in ToSet(shown.blocks[b]) :
             k \in image.scans[s].Ss .. image.scans[s].Se /\ image.scans[s].Al = 0
PassShowsScan ==
  shown.done =>
    IF shown.row = -1
    THEN \A b \in DOMAIN shown.blocks :
           b \in RealBlocks(b[2] \div v_samp(b[1])) =>
             OnceInOrder(shown.blocks[b]) /\ ToSet(shown.blocks[b]) = ScansOf(b[1], Len(image.scans))
    ELSE /\ DOMAIN shown.blocks = RealBlocks(shown.row)
         /\ \A b \in DOMAIN shown.blocks : Complete(b)
         /\ \A b \in DOMAIN shown.around : SmoothedFrom(b)

(* An entry point returns, even when a scan was asked for that never comes *)
(* (consume_markers brings output_scan_number back at the end).            *)
CallsReturn == call # "none" ~> call = "none"
=============================================================================
