---------------------------- MODULE StreamHeaders ----------------------------
(***************************************************************************)
(* What the compressor says of its pictures in the markers (jcmarker.c,    *)
(* jcparam.c) and what the decompressor makes of it (jdmarker.c,           *)
(* jdinput.c, jdapimin.c).  Tables stay in both objects from one           *)
(* datastream to the next: one that was sent need not be sent again, and   *)
(* one that changed has to be.  The source may be late inside any marker,  *)
(* which is then parsed again from its start, or, when it is being saved,  *)
(* from where it was.                                                      *)
(*                                                                         *)
(* The contents of a table are a number, the coded data of a scan is the   *)
(* settings it was coded with.                                             *)
(***************************************************************************)
EXTENDS Integers, Sequences, SequencesExt, FiniteSetsExt, TLC

CONSTANTS
  Spaces,      (* the colour spaces of the pictures                        *)
  Requests,    (* how they are written: [script, optimize, all_tables,     *)
               (*   density, restart_interval, restart_in_rows]            *)
  Extras,      (* the markers the application writes: [m, length]          *)
  MaxExtras,   (* bound: of them in a datastream                           *)
  OtherAfter,  (* bound: the scans after which another encoder has new     *)
               (*   contents for a slot                                    *)
  MaxStreams,  (* bound: datastreams                                       *)
  Limits,      (* how much of a marker the reading application keeps       *)
  Chunks       (* how much of a marker arrives at a time                   *)

VARIABLES
  w,           (* the compressor: its parameters, tables and progress      *)
  written,     (* what it wrote in this datastream, to compare             *)
  stream,      (* the markers and data not read yet                        *)
  r            (* the decompressor                                         *)

vars == <<w, written, stream, r>>

APP0_DATA_LEN == 14
APP14_DATA_LEN == 12
Slots == {0, 1}
None == -1
Change(v) == (v + 1) % 2             (* other contents than before         *)

-----------------------------------------------------------------------------
(* Parameters: jpeg_set_colorspace gives each component <<id, quant, dc,   *)
(* ac>>.                                                                   *)
Comp(id, tbl) == [id |-> id, quant |-> tbl, dc |-> tbl, ac |-> tbl]
ColorComps(space) ==
  CASE space = "GRAYSCALE" -> <<Comp(1, 0)>>
    [] space = "RGB"       -> <<Comp(82, 0), Comp(71, 0), Comp(66, 0)>>
    [] space = "YCbCr"     -> <<Comp(1, 0), Comp(2, 1), Comp(3, 1)>>
    [] space = "CMYK"      -> <<Comp(67, 0), Comp(77, 0), Comp(89, 0), Comp(75, 0)>>
    [] space = "YCCK"      -> <<Comp(1, 0), Comp(2, 1), Comp(3, 1), Comp(4, 0)>>
write_JFIF_header(space) == space \in {"GRAYSCALE", "YCbCr"}
write_Adobe_marker(space) == space \in {"RGB", "CMYK", "YCCK"}

(* The scans of a picture: one, one for each component, or a progression.  *)
ScanOf(cs, Ss, Se, Ah, Al) == [comps |-> cs, Ss |-> Ss, Se |-> Se, Ah |-> Ah, Al |-> Al]
Script(name, n) ==
  LET all == [i \in 1 .. n |-> i]
      each(Ss, Se, Ah, Al) == [i \in 1 .. n |-> ScanOf(<<i>>, Ss, Se, Ah, Al)]
  IN CASE name = "one"  -> [progressive |-> FALSE, scans |-> <<ScanOf(all, 0, 63, 0, 0)>>]
       [] name = "each" -> [progressive |-> FALSE, scans |-> each(0, 63, 0, 0)]
       [] name = "progression" ->
            [progressive |-> TRUE,
             scans |-> <<ScanOf(all, 0, 0, 0, 1)>> \o each(1, 63, 0, 0)
                         \o <<ScanOf(all, 0, 0, 1, 0)>>]

(* per_scan_setup: an interval in rows becomes one in MCUs.  The pictures  *)
(* are one MCU wide, the first component of a coloured one twice as fine.  *)
MCUs_per_row(scan, n) == IF scan.comps = <<1>> /\ n > 1 THEN 2 ELSE 1
RestartInterval(x, scan) ==
  IF x.q.restart_in_rows > 0 THEN x.q.restart_in_rows * MCUs_per_row(scan, Len(x.comps))
  ELSE x.q.restart_interval

Tables(val) == [s \in Slots |-> [val |-> val, sent |-> FALSE]]

(* Between two datastreams: the first was read, or never written.          *)
Between == w.state = "START" /\ stream = <<>> /\ r.state = "START" /\ written.number < MaxStreams
jpeg_set_defaults(space) ==
  /\ Between
  /\ w' = [w EXCEPT !.space = space, !.quant = Tables(0), !.dc = Tables(0), !.ac = Tables(0)]
  /\ UNCHANGED <<written, stream, r>>
jpeg_set_quality ==
  /\ Between /\ w.space # "UNSET"
  /\ w' = [w EXCEPT !.quant = [s \in Slots |-> [val |-> Change(@[s].val), sent |-> FALSE]]]
  /\ UNCHANGED <<written, stream, r>>

jpeg_suppress_tables(x, suppress) ==
  LET all(t) == [s \in Slots |-> [t[s] EXCEPT !.sent = suppress]]
  IN [x EXCEPT !.quant = all(@), !.dc = all(@), !.ac = all(@)]

-----------------------------------------------------------------------------
(* The writer of markers: each emit_ gives the items it adds.              *)
emit_dqt(x, s) ==
  IF x.quant[s].sent THEN <<>> ELSE <<[m |-> "DQT", slot |-> s, val |-> x.quant[s].val]>>
emit_dht(x, s, is_ac) ==
  LET t == IF is_ac THEN x.ac[s] ELSE x.dc[s]
  IN IF t.sent THEN <<>> ELSE <<[m |-> "DHT", ac |-> is_ac, slot |-> s, val |-> t.val]>>

(* The tables a scan needs, as <<slot, is_ac>>.                            *)
UsesDC(progressive, scan) == ~progressive \/ (scan.Ss = 0 /\ scan.Ah = 0)
UsesAC(progressive, scan) == ~progressive \/ scan.Ss # 0
Needed(x, scan) ==
  LET of(c) == (IF UsesDC(x.script.progressive, scan) THEN <<<<c.dc, FALSE>>>> ELSE <<>>)
                 \o (IF UsesAC(x.script.progressive, scan) THEN <<<<c.ac, TRUE>>>> ELSE <<>>)
  IN FlattenSeq([i \in DOMAIN scan.comps |-> of(x.comps[scan.comps[i]])])

(* The tables in order, each once: the first emission marks it as sent.    *)
Once(seq) == SelectSeq([i \in DOMAIN seq |-> <<i, seq[i]>>],
                       LAMBDA p : \A j \in 1 .. p[1] - 1 : seq[j] # p[2])
Marked(t, ss) == [s \in Slots |-> [t[s] EXCEPT !.sent = @ \/ s \in ss]]

emit_jfif_app0(density) ==
  <<[m |-> "APP0", length |-> APP0_DATA_LEN, ours |-> TRUE, density |-> density]>>
emit_adobe_app14(space) ==
  <<[m |-> "APP14", length |-> APP14_DATA_LEN, ours |-> TRUE,
     transform |-> CASE space = "YCbCr" -> 1 [] space = "YCCK" -> 2 [] OTHER -> 0]>>
write_file_header(space, density) ==
  <<[m |-> "SOI"]>>
    \o (IF write_JFIF_header(space) THEN emit_jfif_app0(density) ELSE <<>>)
    \o (IF write_Adobe_marker(space) THEN emit_adobe_app14(space) ELSE <<>>)

write_frame_header(x) ==
  LET slots == Once([i \in DOMAIN x.comps |-> x.comps[i].quant]) IN
  FlattenSeq([i \in DOMAIN slots |-> emit_dqt(x, slots[i][2])])
    \o <<[m |-> "SOF", progressive |-> x.script.progressive,
          comps |-> [i \in DOMAIN x.comps |-> [id |-> x.comps[i].id, quant |-> x.comps[i].quant]]]>>
FrameWritten(x) == [x EXCEPT !.quant = Marked(@, {x.comps[i].quant : i \in DOMAIN x.comps})]

emit_dri(x, scan) ==
  IF RestartInterval(x, scan) = x.last_restart_interval THEN <<>>
  ELSE <<[m |-> "DRI", interval |-> RestartInterval(x, scan)]>>
emit_sos(x, scan) ==
  LET progressive == x.script.progressive
      td(c) == IF progressive /\ (scan.Ss # 0 \/ scan.Ah # 0) THEN 0 ELSE c.dc
      ta(c) == IF progressive /\ scan.Ss = 0 THEN 0 ELSE c.ac
      of(c) == [id |-> c.id, td |-> td(c), ta |-> ta(c)]
  IN <<[m |-> "SOS", comps |-> [i \in DOMAIN scan.comps |-> of(x.comps[scan.comps[i]])],
        Ss |-> scan.Ss, Se |-> scan.Se, Ah |-> scan.Ah, Al |-> scan.Al]>>
write_scan_header(x, scan) ==
  LET ts == Once(Needed(x, scan)) IN
  FlattenSeq([i \in DOMAIN ts |-> emit_dht(x, ts[i][2][1], ts[i][2][2])])
    \o emit_dri(x, scan) \o emit_sos(x, scan)
ScanWritten(x, scan) ==
  [x EXCEPT !.dc = Marked(@, {t[1] : t \in {u \in ToSet(Needed(x, scan)) : ~u[2]}}),
            !.ac = Marked(@, {t[1] : t \in {u \in ToSet(Needed(x, scan)) : u[2]}}),
            !.last_restart_interval = RestartInterval(x, scan)]

(* jpeg_write_tables: every table that was not sent.                       *)
write_tables_only(x) ==
  <<[m |-> "SOI"]>> \o emit_dqt(x, 0) \o emit_dqt(x, 1)
    \o emit_dht(x, 0, FALSE) \o emit_dht(x, 0, TRUE)
    \o emit_dht(x, 1, FALSE) \o emit_dht(x, 1, TRUE) \o <<[m |-> "EOI"]>>
jpeg_write_tables ==
  /\ Between /\ w.space # "UNSET" /\ ~r.behind
  /\ stream' = write_tables_only(w)
  /\ w' = jpeg_suppress_tables(w, TRUE)
  /\ written' = [written EXCEPT !.number = @ + 1, !.complete = FALSE]
  /\ UNCHANGED r

(* jpeg_start_compress.  A decompressor that missed tables can only read   *)
(* a datastream that has all of its own.                                   *)
jpeg_start_compress(q) ==
  /\ Between /\ w.space # "UNSET"
  /\ r.behind => q.all_tables
  /\ LET x == IF q.all_tables THEN jpeg_suppress_tables(w, FALSE) ELSE w
         comps == ColorComps(w.space)
         script == Script(q.script, Len(comps))
     IN /\ w' = [x EXCEPT !.state = "SCANNING", !.script = script, !.comps = comps, !.q = q,
                          !.scan_number = 0, !.last_restart_interval = 0]
        /\ written' = [number |-> written.number + 1, complete |-> q.all_tables,
                       space |-> w.space, density |-> q.density,
                       markers |-> Tail(write_file_header(w.space, q.density)),
                       quant |-> [i \in DOMAIN comps |-> None]]
  /\ stream' = write_file_header(w.space, q.density)
  /\ UNCHANGED r

jpeg_write_marker(marker) ==
  /\ w.state = "SCANNING" /\ w.scan_number = 0 /\ Len(written.markers) <= MaxExtras
  /\ stream' = Append(stream, marker)
  /\ written' = [written EXCEPT !.markers = Append(@, marker)]
  /\ UNCHANGED <<w, r>>

(* A scan: its tables are made anew when they are optimized, then come its *)
(* header, the header of the frame before the first, and its data.         *)
KeptAsSent(x, scan) ==                                    \* mutant
  LET made(t, is_ac) ==
        [s \in Slots |-> IF (x.q.optimize \/ x.script.progressive) /\ <<s, is_ac>> \in ToSet(Needed(x, scan))
                         THEN [val |-> Change(t[s].val), sent |-> t[s].sent] ELSE t[s]]
  IN [x EXCEPT !.dc = made(@, FALSE), !.ac = made(@, TRUE)]
Gathered(x, scan) ==
  LET made(t, is_ac) ==
        [s \in Slots |-> IF (x.q.optimize \/ x.script.progressive) /\ <<s, is_ac>> \in ToSet(Needed(x, scan))
                         THEN [val |-> Change(t[s].val), sent |-> FALSE] ELSE t[s]]
  IN [x EXCEPT !.dc = made(@, FALSE), !.ac = made(@, TRUE)]
Settings(x, quant, scan) ==
  [m |-> "DATA", scan |-> scan, progressive |-> x.script.progressive,
   restart_interval |-> RestartInterval(x, scan),
   quant |-> [i \in DOMAIN scan.comps |-> quant[scan.comps[i]]],
   tables |-> [i \in DOMAIN Needed(x, scan) |->
                 LET t == Needed(x, scan)[i] IN IF t[2] THEN x.ac[t[1]].val ELSE x.dc[t[1]].val]]
WriteScan ==
  /\ w.state = "SCANNING" /\ w.scan_number < Len(w.script.scans)
  /\ LET scan == w.script.scans[w.scan_number + 1]
         x == Gathered(w, scan)
         frame == IF w.scan_number = 0 THEN write_frame_header(x) ELSE <<>>
         y == IF w.scan_number = 0 THEN FrameWritten(x) ELSE x
         quant == [c \in DOMAIN written.quant |->
                     IF written.quant[c] = None /\ c \in ToSet(scan.comps)
                     THEN w.quant[w.comps[c].quant].val ELSE written.quant[c]]
     IN /\ w' = [ScanWritten(y, scan) EXCEPT !.scan_number = @ + 1]
        /\ stream' = stream \o frame \o write_scan_header(y, scan)
                       \o <<Settings(y, quant, scan)>>
        /\ written' = [written EXCEPT !.quant = quant]
  /\ UNCHANGED r

(* Another encoder may give a slot other contents between two scans; a     *)
(* component keeps those its first scan found (jdinput.c:202).             *)
OtherEncoderDQT(s) ==
  /\ w.state = "SCANNING" /\ w.scan_number \in OtherAfter /\ w.scan_number < Len(w.script.scans)
  /\ Last(stream).m = "DATA"
  /\ w' = [w EXCEPT !.quant[s].val = Change(@)]
  /\ stream' = Append(stream, [m |-> "DQT", slot |-> s, val |-> w'.quant[s].val])
  /\ UNCHANGED <<written, r>>

jpeg_finish_compress ==
  /\ w.state = "SCANNING" /\ w.scan_number = Len(w.script.scans)
  /\ w' = [w EXCEPT !.state = "START", !.script = <<>>, !.comps = <<>>, !.q = <<>>,
                    !.scan_number = 0, !.last_restart_interval = 0]
  /\ stream' = Append(stream, [m |-> "EOI"])
  /\ UNCHANGED <<written, r>>

-----------------------------------------------------------------------------
(* The decompressor.                                                       *)
Nothing(number) ==
  [number |-> number, complete |-> FALSE, space |-> "UNSET", density |-> <<>>,
   markers |-> <<>>, quant |-> <<>>]
NewTables == [s \in Slots |-> None]
(* reset_marker_reader and reset_input_controller; the tables stay.        *)
Reset ==
  [saw_SOI |-> FALSE, saw_SOF |-> FALSE, comp_info |-> <<>>, cur_marker |-> None, taken |-> 0,
   marker_list |-> <<>>, scan |-> <<>>, has_multiple_scans |-> FALSE, inheaders |-> TRUE,
   eoi_reached |-> FALSE, consume |-> "markers", error |-> "none"]
CreateDecompress(limits) ==
  Reset @@ [state |-> "START", behind |-> FALSE, limits |-> limits, quant |-> NewTables,
            dc |-> NewTables, ac |-> NewTables, restart_interval |-> None, saw_JFIF |-> FALSE,
            density |-> <<>>, Adobe |-> None, progressive |-> FALSE,
            jpeg_color_space |-> "UNKNOWN"]

(* jpeg_save_markers.                                                      *)
length_limit(x, m) ==
  LET limit == x.limits[IF m = "COM" THEN "COM" ELSE "APPn"] IN
  IF limit = 0 THEN 0
  ELSE CASE m = "APP0"  -> Max({limit, APP0_DATA_LEN})
         [] m = "APP14" -> Max({limit, APP14_DATA_LEN})
         [] OTHER       -> limit

Readable == stream # <<>> /\ w.state = "START"
jpeg_CreateDecompress(limits) ==
  /\ Readable /\ r.state = "START"
  /\ written.complete \/ r.limits = <<>>
  /\ r' = CreateDecompress(limits)
  /\ UNCHANGED <<w, written, stream>>

(* jpeg_consume_input begins a datastream.                                 *)
jpeg_read_header ==
  /\ Readable /\ r.state = "START" /\ r.limits # <<>>
  /\ r' = [(Reset @@ r) EXCEPT !.state = "INHEADER"]
  /\ UNCHANGED <<w, written, stream>>

Reading == Readable /\ r.state \in {"INHEADER", "SCANNING"} /\ r.error = "none"
item == Head(stream)
Fail(x, why) == [x EXCEPT !.error = why]

get_soi(x) == IF x.saw_SOI THEN Fail(x, "SOI_DUPLICATE")
              ELSE [x EXCEPT !.saw_SOI = TRUE, !.restart_interval = 0, !.density = <<0, 1, 1>>,
                             !.saw_JFIF = FALSE, !.Adobe = None,
                             !.jpeg_color_space = "UNKNOWN"]
(* `n' components are in; all of them when the marker is complete.         *)
get_sof(x, i, n) ==
  IF x.saw_SOF THEN Fail(x, "SOF_DUPLICATE")
  ELSE [x EXCEPT !.progressive = i.progressive, !.saw_SOF = n = Len(i.comps),
                 !.comp_info = [c \in 1 .. n |-> [id |-> i.comps[c].id, quant |-> i.comps[c].quant,
                                                   dc |-> None, ac |-> None, latched |-> None]]]
get_sos(x, i, n) ==
  LET index(id) == CHOOSE c \in DOMAIN x.comp_info : x.comp_info[c].id = id
      named(c) == {k \in 1 .. n : i.comps[k].id = x.comp_info[c].id}
  IN IF ~x.saw_SOF THEN Fail(x, "SOS_NO_SOF")
     ELSE IF \E k \in 1 .. n : \A c \in DOMAIN x.comp_info : x.comp_info[c].id # i.comps[k].id
     THEN Fail(x, "BAD_COMPONENT_ID")
     ELSE [x EXCEPT
             !.comp_info = [c \in DOMAIN @ |->
                IF named(c) = {} THEN @[c]
                ELSE [@[c] EXCEPT !.dc = i.comps[Max(named(c))].td,
                                  !.ac = i.comps[Max(named(c))].ta]],
             !.scan = ScanOf([k \in 1 .. n |-> index(i.comps[k].id)], i.Ss, i.Se, i.Ah, i.Al)]
get_dht(x, i) == IF i.ac THEN [x EXCEPT !.ac[i.slot] = i.val] ELSE [x EXCEPT !.dc[i.slot] = i.val]
get_dqt(x, i) == [x EXCEPT !.quant[i.slot] = i.val]
get_dri(x, i) == [x EXCEPT !.restart_interval = i.interval]

examine_app0(x, i, datalen) ==
  IF datalen >= APP0_DATA_LEN /\ i.ours
  THEN [x EXCEPT !.saw_JFIF = TRUE, !.density = i.density] ELSE x
examine_app14(x, i, datalen) ==
  IF datalen >= APP14_DATA_LEN /\ i.ours THEN [x EXCEPT !.Adobe = i.transform] ELSE x
Examined(x, i, datalen) ==
  CASE i.m = "APP0"  -> examine_app0(x, i, datalen)
    [] i.m = "APP14" -> examine_app14(x, i, datalen)
    [] OTHER         -> x
(* get_interesting_appn, skip_variable or save_marker, which goes on from  *)
(* the bytes it has: the source was moved past those it took (taken).      *)
bytes_read(x) == IF x.cur_marker = None THEN 0 ELSE x.cur_marker
process_marker(x, i) ==
  LET limit == length_limit(x, i.m)
      data_length == Min({limit, i.length})
      saved == [m |-> i.m, length |-> i.length, data_length |-> data_length,
                has |-> bytes_read(x) + (data_length - x.taken)]
  IN IF limit = 0 THEN Examined(x, i, Min({i.length, APP0_DATA_LEN}))
     ELSE Examined([x EXCEPT !.marker_list = Append(@, saved), !.cur_marker = None], i, data_length)

(* initial_setup and default_decompress_parms, at the first SOS.           *)
GuessedSpace(x) ==
  LET ids == [c \in DOMAIN x.comp_info |-> x.comp_info[c].id] IN
  CASE Len(ids) = 1 -> "GRAYSCALE"
    [] Len(ids) = 3 ->
         IF x.saw_JFIF THEN "YCbCr"
         ELSE IF x.Adobe # None THEN (IF x.Adobe = 0 THEN "RGB" ELSE "YCbCr")
         ELSE IF ids = <<82, 71, 66>> THEN "RGB" ELSE "YCbCr"
    [] Len(ids) = 4 -> IF x.Adobe \in {None, 0} THEN "CMYK" ELSE "YCCK"
    [] OTHER -> "UNKNOWN"
HeaderRead(x) ==
  [x EXCEPT !.inheaders = FALSE, !.state = "READY", !.jpeg_color_space = GuessedSpace(x),
            !.has_multiple_scans = x.progressive \/ Len(x.scan.comps) < Len(x.comp_info)]

latch_quant_tables(x) ==
  [x EXCEPT !.comp_info = [c \in DOMAIN @ |->
     IF c \in ToSet(x.scan.comps) /\ @[c].latched = None
     THEN [@[c] EXCEPT !.latched = x.quant[x.comp_info[c].quant]] ELSE @[c]]]
start_input_pass(x) ==
  LET l == latch_quant_tables(x) IN
  IF \E c \in ToSet(x.scan.comps) : l.comp_info[c].latched = None THEN Fail(x, "NO_QUANT_TABLE")
  ELSE [l EXCEPT !.consume = "data"]

(* consume_markers: what follows a SOS or an EOI.                          *)
ReachedSOS(x) ==
  IF x.error # "none" THEN x
  ELSE IF x.inheaders THEN HeaderRead(x)
  ELSE IF ~x.has_multiple_scans THEN Fail(x, "EOI_EXPECTED")
  ELSE start_input_pass(x)
ReachedEOI(x) ==
  IF ~x.inheaders THEN [x EXCEPT !.eoi_reached = TRUE]
  ELSE IF x.saw_SOF THEN Fail(x, "SOF_NO_SOS")
  ELSE [x EXCEPT !.state = "START", !.marker_list = <<>>]

read_marker(x, i) ==
  CASE i.m = "SOI" -> get_soi(x)
    [] i.m = "SOF" -> get_sof(x, i, Len(i.comps))
    [] i.m = "DQT" -> get_dqt(x, i)
    [] i.m = "DHT" -> get_dht(x, i)
    [] i.m = "DRI" -> get_dri(x, i)
    [] i.m = "SOS" -> ReachedSOS(get_sos(x, i, Len(i.comps)))
    [] i.m = "EOI" -> ReachedEOI(x)
    [] OTHER       -> process_marker(x, i)
ReadMarker ==
  /\ Reading /\ r.consume = "markers" /\ ~r.eoi_reached
  /\ r' = IF item.m = "DATA" THEN Fail(r, "NO_MARKER")
          ELSE [read_marker(r, item) EXCEPT !.taken = 0]
  /\ stream' = Tail(stream)
  /\ UNCHANGED <<w, written>>

(* The source is late inside the marker: what was parsed of it stays as it *)
(* is, a marker being saved also stays read.                               *)
Partly(x, i, n) ==
  LET data_length == Min({length_limit(x, i.m), i.length})
  IN CASE i.m = "SOF" -> get_sof(x, i, Len(i.comps) - 1)
       [] i.m = "SOS" -> get_sos(x, i, Len(i.comps) - 1)
       [] i.m = "DQT" -> [x EXCEPT !.quant[i.slot] = -2]
       [] i.m \in {"SOI", "DHT", "DRI", "EOI"} -> x
       [] data_length = 0 -> x
       [] OTHER -> LET has == Min({data_length, bytes_read(x) + n})
                   IN [x EXCEPT !.cur_marker = has, !.taken = has]
SuspendInMarker(n) ==
  /\ Reading /\ r.consume = "markers" /\ ~r.eoi_reached /\ item.m # "DATA"
  /\ r' = Partly(r, item, n)
  /\ UNCHANGED <<w, written, stream>>

jpeg_start_decompress ==
  /\ Readable /\ r.state = "READY" /\ r.error = "none"
  /\ r' = [start_input_pass(r) EXCEPT !.state = "SCANNING"]
  /\ UNCHANGED <<w, written, stream>>

(* The scan is read: finish_input_pass.                                    *)
ReadScan ==
  /\ Reading /\ r.consume = "data"
  /\ stream' = Tail(stream)
  /\ r' = [r EXCEPT !.consume = "markers"]
  /\ UNCHANGED <<w, written>>

jpeg_finish_decompress ==
  /\ r.state = "SCANNING" /\ r.eoi_reached
  /\ r' = [r EXCEPT !.state = "START", !.marker_list = <<>>,
                    !.behind = @ /\ ~written.complete]
  /\ written' = Nothing(written.number)
  /\ UNCHANGED <<w, stream>>
(* jpeg_abort: the header was enough, the application goes to the next     *)
(* datastream.                                                             *)
jpeg_abort ==
  /\ Readable /\ r.state = "READY"
  /\ r' = [r EXCEPT !.state = "START", !.marker_list = <<>>, !.behind = TRUE]
  /\ stream' = <<>>
  /\ written' = Nothing(written.number)
  /\ UNCHANGED w

-----------------------------------------------------------------------------
Init ==
  /\ w = [state |-> "START", space |-> "UNSET", quant |-> Tables(0), dc |-> Tables(0),
          ac |-> Tables(0), script |-> <<>>, comps |-> <<>>, q |-> <<>>,
          scan_number |-> 0, last_restart_interval |-> 0]
  /\ written = Nothing(0)
  /\ stream = <<>>
  /\ r = CreateDecompress(<<>>)

Next ==
  \/ \E space \in Spaces : jpeg_set_defaults(space)
  \/ jpeg_set_quality
  \/ jpeg_write_tables
  \/ \E q \in Requests : jpeg_start_compress(q)
  \/ \E marker \in Extras : jpeg_write_marker(marker)
  \/ WriteScan
  \/ \E s \in Slots : OtherEncoderDQT(s)
  \/ jpeg_finish_compress
  \/ \E limits \in Limits : jpeg_CreateDecompress(limits)
  \/ jpeg_read_header
  \/ ReadMarker
  \/ \E n \in Chunks : SuspendInMarker(n)
  \/ jpeg_start_decompress
  \/ ReadScan
  \/ jpeg_finish_decompress
  \/ jpeg_abort

Spec == Init /\ [][Next]_vars

-----------------------------------------------------------------------------
(* What the reader would decode a scan with.                               *)
TablesUsed ==
  LET of(c) == (IF UsesDC(r.progressive, r.scan) THEN <<r.dc[r.comp_info[c].dc]>> ELSE <<>>)
                 \o (IF UsesAC(r.progressive, r.scan) THEN <<r.ac[r.comp_info[c].ac]>> ELSE <<>>)
  IN FlattenSeq([i \in DOMAIN r.scan.comps |-> of(r.scan.comps[i])])
SettingsRead ==
  [m |-> "DATA", scan |-> r.scan, progressive |-> r.progressive,
   restart_interval |-> r.restart_interval,
   quant |-> [i \in DOMAIN r.scan.comps |-> r.comp_info[r.scan.comps[i]].latched],
   tables |-> TablesUsed]

(* The markers of the picture the application asked to keep, as far as it  *)
(* asked.                                                                  *)
MarkersSaved ==
  LET kept == SelectSeq(written.markers, LAMBDA i : length_limit(r, i.m) # 0)
      saved(i) == LET n == Min({length_limit(r, i.m), i.length})
                  IN [m |-> i.m, length |-> i.length, data_length |-> n, has |-> n]
  IN r.marker_list = [k \in DOMAIN kept |-> saved(kept[k])]

(* Whatever datastreams two objects exchange, with all their tables or     *)
(* with those that changed, wherever the source was late: the reader never *)
(* fails, decodes every scan with the tables, the quantization and the     *)
(* parameters it was coded with, and knows the colour space, the density   *)
(* and the markers of the picture once its header is read.                 *)
HeadersAgree ==
  /\ r.error = "none"
  /\ r.state = "SCANNING" /\ r.consume = "data" => item = SettingsRead
  /\ r.state \in {"READY", "SCANNING"} =>
       /\ r.jpeg_color_space = written.space
       /\ r.density = IF write_JFIF_header(written.space) THEN written.density ELSE <<0, 1, 1>>
       /\ MarkersSaved
  /\ r.state = "SCANNING" /\ r.eoi_reached =>
       \A c \in DOMAIN r.comp_info : r.comp_info[c].latched = written.quant[c]
=============================================================================
