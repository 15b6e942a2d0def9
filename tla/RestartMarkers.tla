--------------------------- MODULE RestartMarkers ---------------------------
(***************************************************************************)
(* How a photo with restart markers is read when data of it is damaged:    *)
(* src/lib/jpeg-6b-crop/jdmarker.c (read_restart_marker, next_marker,      *)
(* jpeg_resync_to_restart), jdhuff.c and jdphuff.c (process_restart,       *)
(* jpeg_fill_bit_buffer, decode_mcu).                                      *)
(*                                                                         *)
(* A scan is a sequence of segments of data, a restart marker after each   *)
(* but the last, then the marker that ends the file.  Damage takes items   *)
(* away, changes their data or the number of a marker; markers it changes  *)
(* all read the same number.                                               *)
(***************************************************************************)
EXTENDS Integers, Sequences, FiniteSets

CONSTANTS
  Segments,  (* how many segments the scan has                             *)
  MaxDamage  (* bound: items that are damaged                              *)

SegmentsAssumption == Segments \in Nat \ {0} /\ MaxDamage \in Nat

Data(i) == [kind |-> "data", value |-> i]
SpoiltData == [kind |-> "data", value |-> -1]
RST(n) == [kind |-> "RST", value |-> n % 8]
EOI == [kind |-> "EOI", value |-> 0]
None == [kind |-> "none", value |-> 0]
(* Of a segment: not decoded yet, or without any data.                     *)
NotYet == -2
Empty == -3

VARIABLES
  input,     (* what has not been read                                     *)
  unread_marker, insufficient_data, next_restart_num,
  resyncing, (* jpeg_resync_to_restart has a decision to make              *)
  segment,   (* the segment the decoder is at                              *)
  got,       (* what it has decoded of each                                *)
  damaged    (* history: the segments whose data, or the markers on either *)
             (* side of which, have been damaged                           *)

vars == <<input, unread_marker, insufficient_data, next_restart_num, resyncing,
          segment, got, damaged>>

(* Item 2i + 1 is the data of segment i, item 2i the marker before it.     *)
Whole == [j \in 1 .. 2 * Segments |->
            IF j = 2 * Segments THEN EOI
            ELSE IF j % 2 = 1 THEN Data(j \div 2) ELSE RST(j \div 2 - 1)]
Near(j) == IF j % 2 = 1 THEN {j \div 2} ELSE {j \div 2 - 1, j \div 2}

Damage ==
  /\ segment = -1
  /\ \E at \in {S \in SUBSET (1 .. 2 * Segments - 1) : Cardinality(S) <= MaxDamage} :
       \E how \in [at -> {"lost", "changed"}], n \in 0 .. 7 :
         LET item(j) == IF j \notin at THEN <<Whole[j]>>
                        ELSE IF how[j] = "lost" THEN <<>>
                        ELSE IF j % 2 = 1 THEN <<SpoiltData>> ELSE <<RST(n)>>
             items[j \in 0 .. 2 * Segments] == IF j = 0 THEN <<>> ELSE items[j - 1] \o item(j)
         IN /\ input' = items[2 * Segments]
            /\ damaged' = UNION {Near(j) : j \in at}
  /\ segment' = 0
  /\ UNCHANGED <<unread_marker, insufficient_data, next_restart_num, resyncing, got>>

IsMarker(item) == item.kind \in {"RST", "EOI"}

(* The MCUs of a segment.  The bit buffer is filled ahead: the marker that *)
(* follows may have been met already.  At a marker there is no data: the   *)
(* MCUs are left as they are, or are what zero bits say. *)
Decoding == segment \in 0 .. Segments - 1 /\ ~resyncing /\ got[segment] = NotYet
HasData == unread_marker = None /\ ~insufficient_data /\ Head(input).kind = "data"
DecodeSegment ==
  /\ Decoding /\ HasData
  /\ got' = [got EXCEPT ![segment] = Head(input).value]
  /\ \/ input' = Tail(input) /\ UNCHANGED unread_marker
     \/ /\ IsMarker(Head(Tail(input)))
        /\ unread_marker' = Head(Tail(input)) /\ input' = Tail(Tail(input))
  /\ insufficient_data' \in (IF Head(input) = SpoiltData /\ unread_marker' # None THEN BOOLEAN ELSE {FALSE})
  /\ UNCHANGED <<next_restart_num, resyncing, segment, damaged>>
DecodeEmpty ==
  /\ Decoding /\ ~HasData
  /\ IF insufficient_data \/ unread_marker # None THEN UNCHANGED <<input, unread_marker>>
     ELSE unread_marker' = Head(input) /\ input' = Tail(input)
  /\ insufficient_data' = TRUE
  /\ got' = [got EXCEPT ![segment] = Empty]
  /\ UNCHANGED <<next_restart_num, resyncing, segment, damaged>>

(* next_marker: data before it is skipped.  There is one, EOI at the end,  *)
(* which the source makes up when the file has none. *)
FirstMarker(s) == CHOOSE j \in DOMAIN s : IsMarker(s[j]) /\ \A k \in 1 .. j - 1 : ~IsMarker(s[k])
After(s, j) == SubSeq(s, j + 1, Len(s))

EndOfSegment == segment \in 0 .. Segments - 2 /\ got[segment] # NotYet
Restarted(unread) ==
  /\ unread_marker' = unread
  /\ insufficient_data' = (insufficient_data /\ unread # None)
  /\ next_restart_num' = (next_restart_num + 1) % 8
  /\ segment' = segment + 1
  /\ resyncing' = FALSE

(* read_restart_marker, up to the decision.                                *)
ReadRestartMarker ==
  /\ EndOfSegment /\ ~resyncing
  /\ LET j == FirstMarker(input)
         marker == IF unread_marker = None THEN input[j] ELSE unread_marker IN
     /\ input' = IF unread_marker = None THEN After(input, j) ELSE input
     /\ IF marker = RST(next_restart_num) THEN Restarted(None)
        ELSE /\ unread_marker' = marker /\ resyncing' = TRUE
             /\ UNCHANGED <<insufficient_data, next_restart_num, segment>>
  /\ UNCHANGED <<got, damaged>>

(* jpeg_resync_to_restart, a turn of its loop: a marker of the next two is *)
(* left to be read, one of the last two skipped, another one discarded.    *)
Within(n, d) == unread_marker = RST(next_restart_num + 8 + n * d)
WaitsForNext == unread_marker.kind = "EOI" \/ Within(1, 1)             \* mutant
WaitsFor == unread_marker.kind = "EOI" \/ Within(1, 1) \/ Within(1, 2)
SkipsBack == Within(-1, 1) \/ Within(-1, 2)
ResyncWait == resyncing /\ WaitsFor /\ Restarted(unread_marker) /\ UNCHANGED <<input, got, damaged>>
ResyncAdvanceUnread ==                                                 \* mutant
  resyncing /\ ~WaitsFor /\ SkipsBack /\ UNCHANGED vars
ResyncAdvance ==
  /\ resyncing /\ ~WaitsFor /\ SkipsBack
  /\ LET j == FirstMarker(input) IN unread_marker' = input[j] /\ input' = After(input, j)
  /\ UNCHANGED <<insufficient_data, next_restart_num, resyncing, segment, got, damaged>>
ResyncDiscard ==
  /\ resyncing /\ ~WaitsFor /\ ~SkipsBack
  /\ Restarted(None) /\ UNCHANGED <<input, got, damaged>>

Init ==
  /\ input = <<>> /\ unread_marker = None /\ insufficient_data = FALSE /\ next_restart_num = 0
  /\ resyncing = FALSE /\ segment = -1 /\ damaged = {}
  /\ got = [i \in 0 .. Segments - 1 |-> NotYet]
Read == DecodeSegment \/ DecodeEmpty \/ ReadRestartMarker \/ ResyncWait \/ ResyncAdvance \/ ResyncDiscard
Next == Damage \/ Read
Spec == Init /\ [][Next]_vars
FairSpec == Spec /\ WF_vars(Read)

-----------------------------------------------------------------------------
(* Damage stays where it is: a segment that is three or more away from the *)
(* damaged ones is decoded, and from its own data, with any two items of   *)
(* the scan lost or changed, markers changed to one number                 *)
(* (jpeg_resync_to_restart tells apart the two next markers and the two    *)
(* last ones).  Markers that read different numbers, ahead of what is due  *)
(* by one and then by two, leave the decoder three ahead of its data: it   *)
(* then discards every marker and stays out of step; nothing is claimed.   *)
Apart(i) == \A j \in damaged : i - j > 2 \/ j - i > 2
DamageStays ==
  \A i \in 0 .. Segments - 1 : Apart(i) => got[i] \in {NotYet, i}
(* The decoder gets to the end of the scan, whatever the damage.           *)
ScanEnds == segment = 0 ~> got[Segments - 1] # NotYet
=============================================================================
