---------------------------- MODULE PictureParts ----------------------------
(***************************************************************************)
(* The parts a photo goes through once the document hands it over.  They   *)
(* do not run at the same time: `part' is the one at work, chosen at the   *)
(* start, and the others stay as they are.  TransformPart, CoefPart and    *)
(* ColourPart hold three of them, what is proved of them being long.       *)
(***************************************************************************)
EXTENDS VirtualArray, TransformPart, CoefPart, ColourPart, Sequences, FiniteSets

CONSTANTS
  BlockSize, MaxRun, MAX_CORR_BITS, MAX_COMPS_IN_SCAN, CodedPictures,
  UserScripts,                                                (* of ScanCoding      *)
  Symbols, MaxLength, Counts,                                 (* of HuffmanTable    *)
  Segments, MaxDamage,                                        (* of RestartMarkers  *)
  DecodeSize, DecodedPictures, DecodeRequests, DecodePasses,  (* of DecodeRows      *)
  EncodeSize, Encoded, EncodeRequests,                        (* of EncodeRows      *)
  StreamSpaces, StreamRequests, Extras, MaxExtras, OtherAfter, MaxStreams, Limits,
  Chunks,                                                     (* of StreamHeaders   *)
  Blocks, QuantTables,                                        (* of BlockTransforms *)
  OnePassPictures, OnePassPasses,                             (* of OnePassQuant    *)
  TwoPassPictures, Colormaps, CellMax, TwoPassPasses          (* of TwoPassQuant    *)

VARIABLES
  part,
  c_picture, c_script, c_restart_interval, c_optimize_coding, c_scan, c_pass, c_mcu, c_enc, c_codes, c_dec,
  h_count, h_freq, h_branch, h_codesize, h_bits, h_huffval, h_making,
  r_input, r_unread_marker, r_insufficient_data, r_next_restart_num, r_resyncing,
  r_segment, r_got, r_damaged,
  d_image, d_state, d_colormap, d_dummy, d_d, d_pc, d_call, d_output_scanline, d_given, d_passes,
  d_late, d_empty,
  e_image, e_state, e_pc, e_call, e_next_scanline, e_prep, e_main, e_coef, e_whole_image,
  e_pass_number, e_sent,
  k_w, k_written, k_stream, k_r,
  b_block, b_table, b_method, b_pc, b_generation, b_work, b_shown, b_coefs,
  q_pc, q_picture, q_Ncolors, q_sv_colormap, q_colorindex, q_dither_mode, q_passes, q_row, q_ci, q_row_index,
  q_on_odd_row, q_fserrors, q_out, q_looked_up, q_first,
  m_pc, m_picture, m_dither_mode, m_passes, m_external, m_histogram, m_needs_zeroed, m_boxlist, m_colormap,
  m_row, m_col, m_on_odd_row, m_fserrors, m_cur, m_belowerr, m_bpreverr, m_out

codingVars == <<c_picture, c_script, c_restart_interval, c_optimize_coding, c_scan, c_pass, c_mcu, c_enc, c_codes,
                c_dec>>
tableVars == <<h_count, h_freq, h_branch, h_codesize, h_bits, h_huffval, h_making>>
restartVars == <<r_input, r_unread_marker, r_insufficient_data, r_next_restart_num, r_resyncing,
                 r_segment, r_got, r_damaged>>
decodeVars == <<d_image, d_state, d_colormap, d_dummy, d_d, d_pc, d_call, d_output_scanline, d_given, d_passes,
                d_late, d_empty>>
encodeVars == <<e_image, e_state, e_pc, e_call, e_next_scanline, e_prep, e_main, e_coef,
                e_whole_image, e_pass_number, e_sent>>
headersVars == <<k_w, k_written, k_stream, k_r>>
blocksVars == <<b_block, b_table, b_method, b_pc, b_generation, b_work, b_shown, b_coefs>>
quant1Vars == <<q_pc, q_picture, q_Ncolors, q_sv_colormap, q_colorindex, q_dither_mode, q_passes, q_row, q_ci,
                q_row_index, q_on_odd_row, q_fserrors, q_out, q_looked_up, q_first>>
quant2Vars == <<m_pc, m_picture, m_dither_mode, m_passes, m_external, m_histogram, m_needs_zeroed, m_boxlist,
                m_colormap, m_row, m_col, m_on_odd_row, m_fserrors, m_cur, m_belowerr, m_bpreverr, m_out>>

-----------------------------------------------------------------------------
Coding == INSTANCE ScanCoding WITH
  DCTSIZE2 <- BlockSize, Pictures <- CodedPictures,
  picture <- c_picture, script <- c_script, restart_interval <- c_restart_interval,
  optimize_coding <- c_optimize_coding,
  scan <- c_scan, pass <- c_pass, mcu <- c_mcu, enc <- c_enc, codes <- c_codes, dec <- c_dec
Table == INSTANCE HuffmanTable WITH
  count <- h_count, freq <- h_freq, branch <- h_branch, codesize <- h_codesize,
  bits <- h_bits, huffval <- h_huffval, making <- h_making
Restart == INSTANCE RestartMarkers WITH
  input <- r_input, unread_marker <- r_unread_marker,
  insufficient_data <- r_insufficient_data, next_restart_num <- r_next_restart_num,
  resyncing <- r_resyncing, segment <- r_segment, got <- r_got, damaged <- r_damaged
Decode == INSTANCE DecodeRows WITH
  DCTSIZE <- DecodeSize, Images <- DecodedPictures, Requests <- DecodeRequests,
  MaxPasses <- DecodePasses,
  image <- d_image, state <- d_state, colormap <- d_colormap, dummy <- d_dummy, d <- d_d, pc <- d_pc, call <- d_call,
  output_scanline <- d_output_scanline, given <- d_given, passes <- d_passes,
  late <- d_late, empty <- d_empty
Encode == INSTANCE EncodeRows WITH
  DCTSIZE <- EncodeSize, Images <- Encoded, Requests <- EncodeRequests,
  image <- e_image, state <- e_state, pc <- e_pc, call <- e_call,
  next_scanline <- e_next_scanline, prep <- e_prep, main <- e_main, coef <- e_coef,
  whole_image <- e_whole_image, pass_number <- e_pass_number, sent <- e_sent
Headers == INSTANCE StreamHeaders WITH
  Spaces <- StreamSpaces, Requests <- StreamRequests,
  w <- k_w, written <- k_written, stream <- k_stream, r <- k_r
Transforms == INSTANCE BlockTransforms WITH
  Tables <- QuantTables,
  block <- b_block, table <- b_table, method <- b_method, pc <- b_pc,
  generation <- b_generation, work <- b_work, shown <- b_shown, coefs <- b_coefs
OnePass == INSTANCE OnePassQuant WITH
  Pictures <- OnePassPictures, Passes <- OnePassPasses,
  pc <- q_pc, picture <- q_picture, Ncolors <- q_Ncolors, sv_colormap <- q_sv_colormap,
  colorindex <- q_colorindex, dither_mode <- q_dither_mode, passes <- q_passes, row <- q_row,
  ci <- q_ci, row_index <- q_row_index, on_odd_row <- q_on_odd_row, fserrors <- q_fserrors,
  out <- q_out, looked_up <- q_looked_up, first <- q_first
TwoPass == INSTANCE TwoPassQuant WITH
  Pictures <- TwoPassPictures, Passes <- TwoPassPasses,
  pc <- m_pc, picture <- m_picture, dither_mode <- m_dither_mode, passes <- m_passes,
  external <- m_external, histogram <- m_histogram, needs_zeroed <- m_needs_zeroed,
  boxlist <- m_boxlist, colormap <- m_colormap, row <- m_row, col <- m_col,
  on_odd_row <- m_on_odd_row, fserrors <- m_fserrors, cur <- m_cur, belowerr <- m_belowerr,
  bpreverr <- m_bpreverr, out <- m_out

ASSUME PicturesAssumption ==
  /\ Coding!SizesAssumption /\ Coding!PicturesAssumption
  /\ Table!HuffmanAssumption /\ Restart!SegmentsAssumption

-----------------------------------------------------------------------------
PartsInit ==
  /\ part \in {"transform", "coding", "table", "restart", "array", "decode", "encode", "headers",
              "coefs", "blocks", "colours", "quant1", "quant2"}
  /\ Tran!Init /\ Coding!Init /\ Table!Init /\ Restart!Init /\ Init
  /\ Decode!Init /\ Encode!Init /\ Headers!Init
  /\ Coefs!Init /\ Transforms!Init /\ Colours!Init /\ OnePass!Init /\ TwoPass!Init
(* Only p takes the step. *)
Alone(p) ==
  /\ part = p /\ UNCHANGED part
  /\ p # "transform" => UNCHANGED tranVars
  /\ p # "coding" => UNCHANGED codingVars
  /\ p # "table" => UNCHANGED tableVars
  /\ p # "restart" => UNCHANGED restartVars
  /\ p # "array" => UNCHANGED vars
  /\ p # "decode" => UNCHANGED decodeVars
  /\ p # "encode" => UNCHANGED encodeVars
  /\ p # "headers" => UNCHANGED headersVars
  /\ p # "coefs" => UNCHANGED coefsVars
  /\ p # "blocks" => UNCHANGED blocksVars
  /\ p # "colours" => UNCHANGED coloursVars
  /\ p # "quant1" => UNCHANGED quant1Vars
  /\ p # "quant2" => UNCHANGED quant2Vars
PartsNext ==
  \/ part = "transform" /\ Tran!Next /\ Alone("transform")
  \/ part = "coding" /\ Coding!Next /\ Alone("coding")
  \/ part = "table" /\ Table!Next /\ Alone("table")
  \/ part = "restart" /\ Restart!Next /\ Alone("restart")
  \/ part = "array" /\ Next /\ Alone("array")
  \/ part = "decode" /\ Decode!Next /\ Alone("decode")
  \/ part = "encode" /\ Encode!Next /\ Alone("encode")
  \/ part = "headers" /\ Headers!Next /\ Alone("headers")
  \/ part = "coefs" /\ Coefs!Next /\ Alone("coefs")
  \/ part = "blocks" /\ Transforms!Next /\ Alone("blocks")
  \/ part = "colours" /\ Colours!Next /\ Alone("colours")
  \/ part = "quant1" /\ OnePass!Next /\ Alone("quant1")
  \/ part = "quant2" /\ TwoPass!Next /\ Alone("quant2")
partsVars == <<part, vars, tranVars, codingVars, tableVars, restartVars, decodeVars, encodeVars,
               headersVars, coefsVars, blocksVars, coloursVars, quant1Vars, quant2Vars>>
(* The reader of a scan runs on once begun, and so does an entry point of  *)
(* the decompressor.                                                       *)
PartsSpec ==
  /\ PartsInit /\ [][PartsNext]_partsVars
  /\ WF_partsVars(part = "restart" /\ Restart!Read /\ Alone("restart"))
  /\ WF_partsVars(part = "coefs" /\ Coefs!Running /\ Alone("coefs"))

-----------------------------------------------------------------------------
(* The properties of the parts, as their modules state them.              *)
(* What is coded in any scans is what is read (jcphuff.c, jdphuff.c).      *)
CoefficientsSent == Coding!CoefficientsSent
(* Every symbol sent has a code (encode_mcu_gather, finish_pass_gather),   *)
(* and both sides derive the same codes (jpeg_gen_optimal_table).          *)
CodesAgree == Coding!SymbolsCoded /\ Table!CodesDecode
(* Damage stays in the segments it hits (jpeg_resync_to_restart).          *)
DamageStays == Restart!DamageStays
(* The reader ends a scan, on any damage (jpeg_resync_to_restart), and an  *)
(* entry point of the decompressor returns (consume_markers).              *)
ReadingEnds == Restart!ScanEnds /\ Coefs!CallsReturn
(* The rows given are those of the picture (process_data_context_main,     *)
(* sep_upsample, post_process_2pass).                                      *)
RowsRight == Decode!RowsRight
(* The blocks sent are those of the lines written (pre_process_context,    *)
(* compress_first_pass).                                                   *)
BlocksRight == Encode!BlocksRight
(* The headers read are those written (jcmarker.c, jdmarker.c).            *)
HeadersAgree == Headers!HeadersAgree
(* A block returns from the transforms as the tables allow (jcdctmgr.c,    *)
(* jidctint.c, jidctfst.c, jidctred.c).                                    *)
SamplesReturn == Transforms!SamplesReturn
(* Each pass maps its colours, whatever the mode before                    *)
(* (start_pass_1_quant).                                                   *)
PassesMapColours == OnePass!PassesMapColours
(* The colours are chosen and found (median_cut, fill_inverse_cmap).       *)
ColoursFound == TwoPass!ColoursFound
=============================================================================
