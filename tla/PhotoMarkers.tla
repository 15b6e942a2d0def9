---------------------------- MODULE PhotoMarkers ----------------------------
(***************************************************************************)
(* What becomes of the markers of a JPEG photo (Exif, comments, ...) while *)
(* it is edited.  Edited in memory, they are kept as options of the image  *)
(* (src/lib/wxJPEGExifHandler/imagejpg.cpp) from the load to the save;     *)
(* edited losslessly, a comment is written by wrjpgcom                     *)
(* (src/src/wrjpgcom.inc), which copies the file marker by marker.         *)
(*                                                                         *)
(* A file is the sequence of its markers.  Of the seventeen kinds that are *)
(* kept five are modelled, the others behave as APP1 does.                 *)
(***************************************************************************)
EXTENDS Integers, Sequences, TLC
LOCAL INSTANCE SequencesExt
LOCAL INSTANCE Base64

CONSTANTS
  Photos,       (* the photos that may be opened                        *)
  Texts,        (* the comments the user may type                       *)
  SaveLimit,    (* bytes of a marker that are kept: 32000               *)
  LengthRange,  (* what the length of a marker counts modulo: 65536     *)
  MaxEdits      (* bound: edits and saves                               *)

Kinds == {"APP0", "APP1", "APP10", "APP11", "COM"}
Marker(kind, body) == [kind |-> kind, body |-> body]
Coded == <<Marker("DQT", <<>>), Marker("SOF", <<>>), Marker("SOS", <<>>)>>
(* Markers have a body, and a photo its tables, frame and scan in order;   *)
(* a file that is something else is read by another handler.  A comment    *)
(* has no length that wraps to less than its own two bytes.                *)
IsPhoto(p) ==
  /\ \A i \in DOMAIN p : p[i].kind \in Kinds => p[i].body # <<>>
  /\ p # <<>> => IsSuffix(Coded, p)
IsText(t) == (Len(t) + 2) % LengthRange >= 2

VARIABLES
  file,     (* the markers of the working file                          *)
  options,  (* the options of the image in memory                       *)
  lossless, (* m_bJPEGlossless                                          *)
  control,  (* the text of the comment control                          *)
  pending,  (* what wrjpgcom has not read yet of its input              *)
  out,      (* what it has written                                      *)
  pc,       (* where wrjpgcom is                                        *)
  edits,
  original, (* history: the file that was opened                        *)
  typed     (* history: the comments applied, the last one first        *)

vars == <<file, options, lossless, control, pending, out, pc, edits, original, typed>>
idle == pc = "idle" /\ edits < MaxEdits
notWriting == UNCHANGED <<pending, out, pc, original>>

-----------------------------------------------------------------------------
(* wxEJPGHandler::LoadFile: the markers libjpeg saved become options, one  *)
(* option for all the markers of a kind.                                   *)
Clip(body) == SubSeq(body, 1, IF Len(body) < SaveLimit THEN Len(body) ELSE SaveLimit)
LastOnly(o, m) == (m.kind :> EncodeBase64(Clip(m.body))) @@ o        \* mutant
Saved(o, m) ==
  LET value == EncodeBase64(Clip(m.body)) IN
  IF m.kind \notin Kinds THEN o
  ELSE IF m.kind \in DOMAIN o THEN [o EXCEPT ![m.kind] = @ \o <<Hash>> \o value]
  ELSE o @@ (m.kind :> value)
NoOptions == [k \in {} |-> <<>>]
OptionsOf(f) ==
  LET saved[i \in 0 .. Len(f)] == IF i = 0 THEN NoOptions ELSE Saved(saved[i - 1], f[i])
  IN saved[Len(f)]
(* imageUpdateExif, the part about the comment. *)
CommentOf(o) == IF "COM" \in DOMAIN o THEN DecodeBase64(o["COM"]) ELSE <<>>

(* wxEJPGHandler::SaveFile.  The tokens of an option, but for an empty one *)
(* at its end (wxStringTokenizer with wxTOKEN_RET_EMPTY).                  *)
Tokens(value) ==
  LET split[i \in 0 .. Len(value)] ==
        IF i = 0 THEN << <<>> >>
        ELSE IF value[i] = Hash THEN Append(split[i - 1], <<>>)
        ELSE Front(split[i - 1]) \o <<Append(Last(split[i - 1]), value[i])>>
      tokens == split[Len(value)]
  IN IF Last(tokens) = <<>> THEN Front(tokens) ELSE tokens
SAVE_OPTION(o, name, kind) ==
  IF name \notin DOMAIN o THEN <<>>
  ELSE LET tokens == Tokens(o[name]) IN
       [i \in DOMAIN tokens |-> Marker(kind, DecodeBase64(tokens[i]))]
(* The compressor writes a JFIF marker of its own, then come the options,  *)
(* those of APP10 as APP11. *)
JFIF == Marker("APP0", <<74>>)
Written(o) ==
  <<JFIF>> \o SAVE_OPTION(o, "APP0", "APP0") \o SAVE_OPTION(o, "APP1", "APP1")
    \o SAVE_OPTION(o, "APP10", "APP11") \o SAVE_OPTION(o, "APP11", "APP11")
    \o SAVE_OPTION(o, "COM", "COM") \o Coded
Writable(o) == \A i \in DOMAIN Written(o) : Len(Written(o)[i].body) + 2 < LengthRange

(* wxImageOpt, around every edit in memory. *)
getImageOptions(o) == [k \in DOMAIN o \cap Kinds |-> o[k]]
setOverwriting(o, kept) == kept @@ o                                 \* mutant
setImageOptions(o, kept) == o @@ kept

Open ==
  /\ pc = "closed"
  /\ \E p \in Photos : file' = p /\ original' = p
  /\ options' = OptionsOf(file') /\ control' = CommentOf(OptionsOf(file'))
  /\ lossless' = TRUE
  /\ pc' = "idle"
  /\ UNCHANGED <<pending, out, edits, typed>>

OnToggleJPEGLossless ==
  /\ idle /\ lossless
  /\ lossless' = FALSE
  /\ UNCHANGED <<file, options, control, edits, typed>> /\ notWriting

(* Crop, rotation, flip, resize: the new image has no options. *)
EditInMemory ==
  /\ idle /\ ~lossless
  /\ options' = setImageOptions(NoOptions, getImageOptions(options))
  /\ edits' = edits + 1
  /\ UNCHANGED <<file, lossless, control, typed>> /\ notWriting

(* OnImageWriteComment in memory: the image stays the same one. *)
CommentInMemory(text) ==
  /\ idle /\ ~lossless
  /\ options' = setImageOptions(("COM" :> EncodeBase64(text)) @@ options,
                                getImageOptions(options))
  /\ control' = text
  /\ typed' = <<text>> \o typed
  /\ edits' = edits + 1
  /\ UNCHANGED <<file, lossless>> /\ notWriting

(* OnFileSave of the image, which then loads what it has saved. *)
SaveInMemory ==
  /\ idle /\ ~lossless /\ Writable(options)
  /\ file' = Written(options)
  /\ options' = OptionsOf(file') /\ control' = CommentOf(OptionsOf(file'))
  /\ lossless' = TRUE
  /\ edits' = edits + 1
  /\ UNCHANGED typed /\ notWriting
(* libjpeg refuses a marker that is too long: the file has been emptied,   *)
(* and nothing of it is written (wxe_error_exit). *)
SaveRefused ==
  /\ idle /\ ~lossless /\ ~Writable(options)
  /\ file' = <<>>
  /\ lossless' = TRUE
  /\ edits' = edits + 1
  /\ UNCHANGED <<options, control, typed>> /\ notWriting

-----------------------------------------------------------------------------
(* OnImageWriteComment in lossless mode: wrjpgcom, with keep_COM 0.        *)
CommentLossless(text) ==
  /\ idle /\ lossless
  /\ control' = text
  /\ typed' = <<text>> \o typed
  /\ pending' = file /\ out' = <<>>
  /\ pc' = "scan"
  /\ edits' = edits + 1
  /\ UNCHANGED <<file, options, lossless, original>>

Reading(kinds) == pc = "scan" /\ pending # <<>> /\ Head(pending).kind \in kinds
Consume == pending' = Tail(pending) /\ UNCHANGED <<file, options, lossless, control, edits, original, typed>>

CopyVariable ==
  /\ Reading((Kinds \ {"COM"}) \cup {"DQT"})
  /\ out' = Append(out, Head(pending)) /\ Consume /\ UNCHANGED pc
(* An old comment goes; what follows a comment whose length was cut is not *)
(* a marker and is skipped by next_marker. *)
SkipVariable == Reading({"COM", "junk"}) /\ Consume /\ UNCHANGED <<out, pc>>

(* The length is written on 16 bits: a reader takes what that says for the *)
(* comment and the rest for garbage between two markers. *)
CommentMarker(text) ==
  LET told == ((Len(text) + 2) % LengthRange) - 2 IN
  <<Marker("COM", SubSeq(text, 1, told))>>
    \o (IF told < Len(text) THEN <<Marker("junk", SubSeq(text, told + 1, Len(text)))>>
                            ELSE <<>>)
InsertComment ==
  /\ Reading({"SOF"})
  /\ out' = out \o (IF control = <<>> THEN <<>> ELSE CommentMarker(control))
  /\ pc' = "copy"
  /\ UNCHANGED <<pending, file, options, lossless, control, edits, original, typed>>

(* The rest is copied, and the file is loaded. The output stream is never *)
(* closed: its last buffer is taken as written.                           *)
CopyRest ==
  /\ pc = "copy"
  /\ file' = out \o pending
  /\ options' = OptionsOf(file') /\ control' = CommentOf(OptionsOf(file'))
  /\ pending' = <<>> /\ out' = <<>>
  /\ pc' = "idle"
  /\ UNCHANGED <<lossless, edits, original, typed>>

(* ERREXIT does not leave: past the end of a file without a frame,         *)
(* next_marker reads for ever. *)
ReadPastEnd ==
  /\ pc = "scan" /\ pending = <<>>
  /\ pc' = "spinning"
  /\ UNCHANGED <<file, options, lossless, control, pending, out, edits, original, typed>>

-----------------------------------------------------------------------------
Init ==
  /\ file = <<>> /\ original = <<>> 
  /\ options = NoOptions /\ lossless = FALSE /\ control = <<>>
  /\ pending = <<>> /\ out = <<>> /\ pc = "closed"
  /\ edits = 0 /\ typed = <<>>

WriteComment == CopyVariable \/ SkipVariable \/ InsertComment \/ CopyRest \/ ReadPastEnd
Next ==
  \/ Open \/ OnToggleJPEGLossless \/ EditInMemory \/ SaveInMemory \/ SaveRefused
  \/ \E text \in Texts : CommentInMemory(text) \/ CommentLossless(text)
  \/ WriteComment
Spec == Init /\ [][Next]_vars
FairSpec == Spec /\ WF_vars(WriteComment)

-----------------------------------------------------------------------------
Bodies(f, kinds) ==
  LET ms == SelectSeq(f, LAMBDA m : m.kind \in kinds) IN
  [i \in DOMAIN ms |-> Clip(ms[i].body)]

(* After any sequence of edits and saves, in memory and lossless, the file *)
(* has the Exif markers it had, in their order (jpeg_save_markers,         *)
(* SAVE_OPTION, wxImageOpt, copy_variable), up to the bytes that are kept; *)
(* of APP10 and APP11 none is lost, though all become APP11.  A save that  *)
(* fails leaves an empty file.                                             *)
MarkersKept ==
  pc = "idle" /\ original # <<>> /\ file # <<>> =>
    /\ Bodies(file, {"APP1"}) = Bodies(original, {"APP1"})
    /\ Len(Bodies(file, {"APP10", "APP11"})) = Len(Bodies(original, {"APP10", "APP11"}))
    /\ SelectSeq(file, LAMBDA m : m.kind \notin Kinds \cup {"junk"}) = Coded

(* The comment shown, and kept or written, is the one applied last, by     *)
(* either route, cut to what is kept of a marker or to what its length can *)
(* say; until one is applied it is that of the photo, all its comments one *)
(* after the other (imageUpdateExif, OnImageWriteComment).                 *)
Tellable(text) == SubSeq(text, 1, ((Len(text) + 2) % LengthRange) - 2)
CommentShown ==
  pc = "idle" =>
    /\ control = CommentOf(options)
    /\ typed # <<>> => control \in {typed[1], Clip(typed[1]), Clip(Tellable(typed[1]))}
    /\ typed = <<>> => control = FlattenSeq(Bodies(original, {"COM"}))

(* Applying a comment to a JPEG file ends. *)
CommentReturns == pc = "scan" /\ file # <<>> ~> pc = "idle"
=============================================================================
