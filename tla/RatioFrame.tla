----------------------------- MODULE RatioFrame -----------------------------
(***************************************************************************)
(* The document side of the main window (src/src/RatioFrame.{h,cpp}): the  *)
(* photo being edited, the temporary files the lossless tools work on, the *)
(* undo and redo histories, and the disk underneath them.                  *)
(*                                                                         *)
(* A menu command starts a handler when the window is idle.  Handlers call *)
(* one another and stop in modal dialogs, so a running handler is the      *)
(* sequence `todo' of the calls it has still to make; one action is one    *)
(* call, or the code of a handler between two calls.  Nothing else can run *)
(* until todo is empty: the dialogs are modal.                             *)
(*                                                                         *)
(* A definition marked `mutant' is a mistake one could make in the one     *)
(* below it; nothing uses it (README, "Mutants").                          *)
(***************************************************************************)
EXTENDS Integers, Sequences, FiniteSets

CONSTANTS
  UserFiles,          (* names the user gives to photos                       *)
  Present,            (* the photos on disk when the program starts           *)
  JpegFiles,          (* the names that end in .jpg or .jpeg                  *)
  Turned,             (* photos whose Exif tag asks for a rotation            *)
  ReadOnly,           (* names in a place that cannot be written              *)
  None,               (* the empty name, and the picture of no file           *)
  MaxUndo,            (* the setting Main/UndoHistory                         *)
  AutoSave,           (* the setting Main/AutoSave                            *)
  AutoSaveElsewhere,  (* an auto-save folder or suffix is set                 *)
  AutoSaveDest,       (* where it sends each photo                            *)
  AutoCrop,           (* the setting Main/AutoCrop                            *)
  AutoRotateCrop,     (* the setting Main/AutoRotateCrop                      *)
  AutoSelectMax,      (* the setting Main/AutoSelectMax                       *)
  AutoRot,            (* the setting JPEG/AutoRot                             *)
  ToolsFail,          (* jpegtran, jhead or wrjpgcom may fail                 *)
  Commands,           (* the commands the user gives                          *)
  MaxFresh,           (* bound: versions and temporary files made by commands *)
  MaxHistory,         (* bound: entries in both histories                     *)
  MaxPending          (* bound: calls pending                                 *)

ASSUME FilesAssumption ==
  /\ UserFiles \cap Nat = {} /\ None \notin UserFiles /\ None \notin Nat
  /\ Present \subseteq UserFiles /\ JpegFiles \subseteq UserFiles
  /\ Turned \subseteq JpegFiles /\ ReadOnly \subseteq UserFiles
ASSUME SettingsAssumption ==
  /\ MaxUndo \in Nat
  /\ {AutoSave, AutoSaveElsewhere, AutoCrop, AutoRotateCrop, AutoSelectMax,
      AutoRot, ToolsFail} \subseteq BOOLEAN
  /\ AutoSaveDest \in [UserFiles -> UserFiles]
ASSUME BoundsAssumption == MaxFresh \in Nat /\ MaxHistory \in Nat /\ MaxPending \in Nat

VARIABLES
  disk,        (* the files that exist, with their contents              *)
  doc,         (* what the window edits: the fields an rpImage keeps     *)
  commented,   (* m_pTextComment->IsModified()                           *)
  orientation, (* m_iOrientation # 1                                     *)
  undo, redo,  (* m_HistoryUndo, m_HistoryRedo; the last entry is on top *)
  loading,     (* m_isFileLoading                                        *)
  todo,        (* the calls the running handler has still to make        *)
  fresh,       (* versions made and temporary names taken so far         *)
  running      (* the window exists                                      *)

vars == <<disk, doc, commented, orientation, undo, redo, loading, todo, fresh, running>>

-----------------------------------------------------------------------------
(* Data.  Temporary names are numbers, never given twice; so are the       *)
(* versions of a picture an edit produces.  A version is what is seen plus *)
(* what is written in its markers; `recoded' says the pixels have been     *)
(* through the JPEG encoder since the file was given, `exif' what the      *)
(* orientation tag says.                                                   *)
Path == UserFiles \cup Nat
Content == [version : UserFiles \cup Nat \cup {None}, recoded : BOOLEAN,
            exif : {"none", "upright", "turned"}]
Blank == [version |-> None, recoded |-> FALSE, exif |-> "none"]
Readable(c) == c.version # None

NoDocument == [orig |-> None, file |-> None, temp |-> FALSE, dirty |-> FALSE,
               lossless |-> FALSE, shown |-> Blank,
               zone |-> FALSE, line |-> FALSE, inclin |-> FALSE]
(* A document without the temporary flag is not on a temporary file.       *)
Opened == {d \in [orig : UserFiles, file : Path, temp : BOOLEAN,
                  dirty : BOOLEAN, lossless : BOOLEAN, shown : Content,
                  zone : BOOLEAN, line : BOOLEAN, inclin : BOOLEAN] :
             d.temp \/ d.file \notin Nat}
Doc == Opened \cup {NoDocument}

(* wxFile and the functions on files of wxWidgets, as far as they are used *)
Put(d, p, c) == [q \in DOMAIN d \cup {p} |-> IF q = p THEN c ELSE d[q]]
Without(d, ps) == [q \in DOMAIN d \ ps |-> d[q]]
Store(d, p, c) == IF p \in ReadOnly THEN d ELSE Put(d, p, c)
CopyFile(d, src, dest) == IF src \in DOMAIN d THEN Store(d, dest, d[src]) ELSE d
RenameFile(d, src, dest) ==
  IF src \in DOMAIN d /\ src # dest /\ {src, dest} \cap ReadOnly = {}
  THEN Put(Without(d, {src}), dest, d[src])
  ELSE d
Writable(p) == p \in DOMAIN disk /\ p \notin ReadOnly

(* wxImage::SaveFile: to JPEG the pixels are encoded again, elsewhere the  *)
(* markers are lost.                                                       *)
SaveFile(d, p, c, asJpeg) ==
  IF ~Readable(c) THEN d
  ELSE Store(d, p, IF asJpeg THEN [c EXCEPT !.recoded = TRUE]
                             ELSE [c EXCEPT !.exif = "none"])
isJPEGFile(p) == p \in JpegFiles

-----------------------------------------------------------------------------
(* Histories.                                                              *)
ImageUnmarked(d) == [kind |-> "image", doc |-> [d EXCEPT !.temp = FALSE]]   \* mutant
ImageOfOriginal(d) == [kind |-> "image", doc |-> [d EXCEPT !.file = d.orig]] \* mutant
ImageWithoutPicture(d) == [kind |-> "image", doc |-> [d EXCEPT !.shown = Blank]] \* mutant
Image(d) == [kind |-> "image",
             doc |-> IF d.lossless THEN [d EXCEPT !.shown = Blank] ELSE d]
Move(src, dest) == [kind |-> "move", src |-> src, dest |-> dest]
Entry == [kind : {"image"}, doc : Doc]
           \cup [kind : {"move"}, src : UserFiles, dest : UserFiles]

Elements(h) == {h[i] : i \in DOMAIN h}
TopOf(h) == h[Len(h)]
Below(h) == SubSeq(h, 1, Len(h) - 1)
Newest(h, n) == IF Len(h) > n THEN SubSeq(h, Len(h) - n + 1, Len(h)) ELSE h
Oldest(h, n) == {h[i] : i \in 1 .. Len(h) - n}

(* What the destructors of these entries remove (rpImage::~rpImage).       *)
Owned(es) == {e.doc.file : e \in {x \in es : x.kind = "image" /\ x.doc.temp}}

imageUndoPointOnly(d) ==                                            \* mutant
  /\ undo' = IF d.orig = None THEN undo ELSE Newest(Append(undo, Image(d)), MaxUndo)
  /\ redo' = redo
(* imageUndoPoint() when the document is d: the redo history is freed, d   *)
(* is recorded, and the entries above the limit are freed.                 *)
imageUndoPoint(d) ==
  /\ undo' = IF d.orig = None THEN undo ELSE Newest(Append(undo, Image(d)), MaxUndo)
  /\ redo' = IF d.orig = None THEN redo ELSE <<>>
UndoPointDiskKept(d) == disk                                        \* mutant
UndoPointDisk(d) ==
  IF d.orig = None THEN disk
  ELSE Without(disk, Owned(Elements(redo) \cup Oldest(Append(undo, Image(d)), MaxUndo)))

-----------------------------------------------------------------------------
(* Calls and handlers.                                                     *)
Ops == {"ImageLoad", "LoadBody", "LoadEnd", "Adopt", "ImageCleanup", "CleanupSave",
        "OnFileSave", "FileWrite", "OnFileSaveAs", "ImageSaveAs", "SaveAsEnd",
        "OnImageCrop", "OnDirCtrlChange", "DeleteTry", "DeleteEnd", "Destroy"}
Callers == {"OnFileOpen", "LoadFile", "ImageLoad", "OnClose", "OnFileSavePath", "nobody"}
(* Only these calls may come without the name of a photo.                  *)
Nameless(c) ==
  \/ c.op \in {"LoadEnd", "Adopt", "OnFileSave", "FileWrite", "OnFileSaveAs",
               "OnImageCrop", "Destroy"}
  \/ c.op \in {"ImageCleanup", "CleanupSave"} /\ c.by \in {"OnClose", "nobody"}
CallSet == {c \in [op : Ops, by : Callers, name : UserFiles \cup {None},
                   other : UserFiles \cup {None}, original : BOOLEAN] :
              c.name = None => Nameless(c)}

Call(op, name) ==
  [op |-> op, by |-> "nobody", name |-> name, other |-> None, original |-> FALSE]
LoadCall(name, original) == [Call("ImageLoad", name) EXCEPT !.original = original]
CleanupFor(by, name, original) ==
  [Call("ImageCleanup", name) EXCEPT !.by = by, !.original = original]

(* The code `if (ImageCleanup()) { ... }' of each caller.                  *)
IfClean(c) ==
  CASE c.by = "OnFileOpen" -> <<LoadCall(c.name, FALSE), Call("Adopt", c.name)>>
    [] c.by = "LoadFile"   -> <<LoadCall(c.name, TRUE)>>
    [] c.by = "ImageLoad"  -> <<[c EXCEPT !.op = "LoadBody"]>>
    [] c.by = "OnClose"    -> <<CleanupFor("nobody", None, FALSE), Call("Destroy", None)>>
    [] OTHER               -> <<>>

Idle == running /\ todo = <<>>
Calling(op) == todo # <<>> /\ Head(todo).op = op
Budget == fresh < MaxFresh
HistoryRoom == Len(undo) + Len(redo) < MaxHistory
(* A load or a cleanup crops, and a load rotates, when the settings say so. *)
CleanupBudget == AutoCrop => Budget
LoadBudget == (AutoRot \/ AutoCrop) => Budget
May(cmd) == Idle /\ cmd \in Commands /\ doc.orig # None
MayEdit(cmd) == May(cmd) /\ Budget /\ Readable(doc.shown)

onlyTodo == UNCHANGED <<disk, doc, commented, orientation, undo, redo, loading, fresh, running>>
notEdited == UNCHANGED <<commented, orientation, loading, running>>

-----------------------------------------------------------------------------
(* The two ways an edit is made, when the document is d on entry.          *)

(* The new file a lossless tool works on, and the file it copies.          *)
Source(d) == IF d.temp THEN d.file ELSE d.orig
WorkingUnmarked(d) == [d EXCEPT !.file = fresh + 1]                  \* mutant
Working(d) == [d EXCEPT !.file = fresh + 1, !.temp = TRUE]
Outcomes(c) == IF ~Readable(c) THEN {FALSE} ELSE IF ToolsFail THEN BOOLEAN ELSE {TRUE}

(* CallJPEGTranTryPerfect, CallJHead: `change' is what the tool makes.     *)
CallTool(d, change) ==
  LET before == UndoPointDisk(d) IN
  /\ imageUndoPoint(d)
  /\ fresh' = fresh + 1
  /\ \/ /\ Source(d) \notin DOMAIN before
        /\ disk' = Put(before, fresh + 1, Blank)
        /\ doc' = Working(d)
     \/ /\ Source(d) \in DOMAIN before
        /\ \E done \in Outcomes(before[Source(d)]) :
             LET made == IF done THEN change[before[Source(d)]] ELSE before[Source(d)] IN
             /\ disk' = Put(before, fresh + 1, made)
             /\ doc' = IF done
                       THEN [Working(d) EXCEPT !.shown = made, !.zone = FALSE, !.line = FALSE]
                       ELSE Working(d)

Retouched == [c \in Content |-> [c EXCEPT !.version = fresh + 1]]
Uprighted == [c \in Content |-> IF c.exif = "turned"
                                THEN [c EXCEPT !.version = fresh + 1, !.exif = "upright"]
                                ELSE c]
CallJPEGTranTryPerfect(d) == CallTool(d, Retouched)
CallJHead(d) == CallTool(d, Uprighted)

(* BEGIN_IMAGE_MANIP ... END_IMAGE_MANIP: `after' is the document left.    *)
ImageManip(d, after) ==
  /\ imageUndoPoint(d)
  /\ disk' = UndoPointDisk(d)
  /\ fresh' = fresh + 1
  /\ doc' = [after EXCEPT !.shown = Retouched[d.shown]]
NoTracker(d) == [d EXCEPT !.zone = FALSE, !.line = FALSE]
DirtyForgotten(d) == d                                              \* mutant
Dirty(d) == [d EXCEPT !.dirty = TRUE]

(* An edit jpegtran can make, done in memory when the mode is off.         *)
Edit(d, after) ==
  IF d.lossless THEN CallJPEGTranTryPerfect(d) ELSE ImageManip(d, after)

-----------------------------------------------------------------------------
(* Commands on the picture.                                                *)
Crop(d) == Edit(Dirty(d), NoTracker(Dirty(d)))

OnImageCrop ==
  /\ MayEdit("crop") /\ ~doc.inclin /\ doc.zone
  /\ Crop(doc)
  /\ UNCHANGED todo /\ notEdited

OnImageRotate ==                                   \* left and right
  /\ MayEdit("rotate")
  /\ Edit(Dirty(doc), NoTracker(Dirty(doc)))
  /\ UNCHANGED todo /\ notEdited

OnImageFlipHorizontal ==
  /\ MayEdit("flipH")
  /\ Edit(Dirty(doc), Dirty(doc))
  /\ UNCHANGED todo /\ notEdited

OnImageFlipVertical ==
  /\ MayEdit("flipV")
  /\ Edit(doc, doc)
  /\ UNCHANGED todo /\ notEdited

OnImageJPEGOptimize ==
  /\ MayEdit("optimize") /\ doc.lossless
  /\ CallJPEGTranTryPerfect(Dirty(doc))
  /\ UNCHANGED todo /\ notEdited

OnImageJPEGProgressive ==
  /\ MayEdit("progressive") /\ doc.lossless
  /\ CallJPEGTranTryPerfect(doc)
  /\ UNCHANGED todo /\ notEdited

Resize ==
  /\ MayEdit("resize")
  /\ ImageManip(doc, [NoTracker(Dirty(doc)) EXCEPT !.lossless = FALSE])
  /\ UNCHANGED todo /\ notEdited

(* OnImageInclin: the line is consumed, the best crop zone is selected,    *)
(* which is empty in a picture of a few pixels, and cropped at once when   *)
(* Main/AutoRotateCrop is set.                                             *)
Inclin(rest) ==
  /\ \E zone \in BOOLEAN :
       ImageManip(doc, [Dirty(doc) EXCEPT !.line = FALSE, !.zone = zone, !.inclin = FALSE])
  /\ todo' = IF AutoRotateCrop THEN <<Call("OnImageCrop", None)>> \o rest ELSE rest

OnImageInclin ==
  /\ MayEdit("inclin") /\ doc.inclin /\ doc.line
  /\ Inclin(<<>>)
  /\ notEdited

CropCalled ==
  /\ Calling("OnImageCrop")
  /\ \/ doc.zone /\ Crop(doc)
     \/ ~doc.zone /\ UNCHANGED <<disk, doc, undo, redo, fresh>>
  /\ todo' = Tail(todo)
  /\ notEdited

(* OnToggleJPEGLossless: the tool is enabled only while the mode is on.    *)
OnToggleJPEGLossless ==
  /\ May("toggle") /\ doc.lossless
  /\ doc' = [doc EXCEPT !.lossless = FALSE]
  /\ UNCHANGED <<disk, undo, redo, todo, fresh>> /\ notEdited

OnModeInclin ==
  /\ May("inclin") /\ ~doc.inclin
  /\ doc' = [doc EXCEPT !.inclin = TRUE, !.lossless = FALSE]
  /\ UNCHANGED <<disk, undo, redo, todo, fresh>> /\ notEdited

OnModeCrop ==
  /\ May("inclin") /\ doc.inclin
  /\ doc' = [doc EXCEPT !.inclin = FALSE]
  /\ UNCHANGED <<disk, undo, redo, todo, fresh>> /\ notEdited

(* The mouse draws or clears the tracker of the current mode.              *)
SelectZone ==
  /\ May("select")
  /\ doc' = IF doc.inclin THEN [doc EXCEPT !.line = ~@] ELSE [doc EXCEPT !.zone = ~@]
  /\ UNCHANGED <<disk, undo, redo, todo, fresh>> /\ notEdited

(* Typing in the comment: UpdateControlsState() then marks the document.   *)
TypeComment ==
  /\ May("comment") /\ Budget /\ ~commented
  /\ commented' = TRUE
  /\ doc' = Dirty(doc)
  /\ UNCHANGED <<disk, orientation, undo, redo, loading, todo, fresh, running>>

(* OnImageWriteComment: wrjpgcom copies the file when it fails, and the    *)
(* trackers stay.                                                          *)
WriteComment(d) ==
  /\ IF d.lossless
     THEN LET before == UndoPointDisk(d)  src == Source(d) IN
          /\ imageUndoPoint(d)
          /\ fresh' = fresh + 1
          /\ \/ /\ src \notin DOMAIN before
                /\ disk' = Put(before, fresh + 1, Blank) /\ doc' = Working(d)
             \/ /\ src \in DOMAIN before
                /\ \E done \in Outcomes(before[src]) :
                     LET made == IF done THEN Retouched[before[src]] ELSE before[src] IN
                     /\ disk' = Put(before, fresh + 1, made)
                     /\ doc' = IF done THEN [Working(d) EXCEPT !.shown = made] ELSE Working(d)
     ELSE ImageManip(d, d)
  /\ commented' = FALSE

OnImageWriteComment ==
  /\ May("comment") /\ commented
  /\ WriteComment(Dirty(doc))
  /\ UNCHANGED <<orientation, loading, todo, running>>

-----------------------------------------------------------------------------
(* Undo and redo.                                                          *)
Restorable(e) == {e.doc.orig, e.doc.file} \subseteq DOMAIN disk
RestoredUnseen(e) == [e.doc EXCEPT !.shown = doc.shown]             \* mutant
Restored(e) ==
  [e.doc EXCEPT !.shown = IF ~e.doc.lossless THEN @
                          ELSE IF Readable(disk[e.doc.file]) THEN disk[e.doc.file] ELSE Blank,
                !.dirty = @ \/ commented]

(* The orientation tag of a picture, or what was known before.             *)
imageUpdateExif(c, known) == IF c.exif = "none" THEN known ELSE c.exif = "turned"

(* rpImage::restore, then the entry is deleted: it takes its file with it  *)
(* unless it has been restored.                                            *)
RestoreImageFreed(e) ==                                             \* mutant
  /\ Restorable(e)
  /\ doc' = Restored(e)
  /\ commented' = FALSE
  /\ orientation' = orientation
  /\ disk' = Without(disk, Owned({e}))
RestoreImage(e) ==
  \/ /\ Restorable(e)
     /\ doc' = Restored(e)
     /\ commented' = FALSE
     /\ orientation' = imageUpdateExif(doc'.shown, orientation)
     /\ disk' = disk
  \/ /\ ~Restorable(e)
     /\ disk' = Without(disk, Owned({e}))
     /\ UNCHANGED <<doc, commented, orientation>>

Renamed(d, from, to) ==
  [d EXCEPT !.orig = to, !.file = IF @ = from THEN to ELSE @]

RestoreMove(e) ==
  /\ disk' = RenameFile(disk, e.dest, e.src)
  /\ doc' = Renamed(doc, e.dest, e.src)
  /\ UNCHANGED <<commented, orientation>>

OnImageUndo ==
  /\ Idle /\ "undo" \in Commands /\ undo # <<>> /\ HistoryRoom
  /\ LET e == TopOf(undo)  saved == Append(redo, Image(doc)) IN
     /\ undo' = Below(undo)
     /\ \/ e.kind = "image" /\ RestoreImage(e) /\ redo' = saved
        \/ e.kind = "move" /\ RestoreMove(e) /\ redo' = Append(saved, e)
  /\ UNCHANGED <<loading, todo, fresh, running>>

OnImageRedo ==
  /\ Idle /\ "redo" \in Commands /\ redo # <<>> /\ HistoryRoom
  /\ LET e == TopOf(redo)  saved == Append(undo, Image(doc)) IN
     /\ redo' = Below(redo)
     /\ \/ e.kind = "image" /\ RestoreImage(e) /\ undo' = saved
        \/ e.kind = "move" /\ RestoreMove(e) /\ undo' = Append(saved, e)
  /\ UNCHANGED <<loading, todo, fresh, running>>

(* OnFileMove, OnFileNameEndEdit: rpMove::save, recorded without a limit.  *)
MoveTo(dest) ==
  /\ dest # doc.orig /\ HistoryRoom
  /\ disk' = RenameFile(disk, doc.orig, dest)
  /\ doc' = Renamed(doc, doc.orig, dest)
  /\ undo' = Append(undo, Move(doc.orig, dest))
  /\ UNCHANGED <<redo, fresh>> /\ notEdited

OnFileMove(dest) == May("move") /\ MoveTo(dest) /\ UNCHANGED todo
OnFileNameEndEdit(name) == May("rename") /\ MoveTo(name) /\ UNCHANGED todo
OnFileMoveAndNext(dest, next) ==
  /\ May("moveNext") /\ LoadBudget /\ next \in DOMAIN disk \ {doc.orig}
  /\ MoveTo(dest)
  /\ todo' = <<Call("OnDirCtrlChange", next)>>

-----------------------------------------------------------------------------
(* Loading.                                                                *)
OnFileOpen(name) ==
  /\ Idle /\ "open" \in Commands /\ LoadBudget /\ name \in DOMAIN disk
  /\ todo' = <<CleanupFor("OnFileOpen", name, FALSE)>>
  /\ onlyTodo

(* LoadFile: a dropped file, the command line.                             *)
LoadFile(name) ==
  /\ Idle /\ "drop" \in Commands /\ LoadBudget /\ name \in DOMAIN disk
  /\ todo' = <<CleanupFor("LoadFile", name, TRUE)>>
  /\ onlyTodo

(* Selecting another file of the tree, OnFileNext and OnFilePrev.          *)
SelectFile(name) ==
  /\ Idle /\ "browse" \in Commands /\ LoadBudget /\ name \in DOMAIN disk
  /\ todo' = <<Call("OnDirCtrlChange", name)>>
  /\ onlyTodo

OnDirCtrlChange ==
  /\ Calling("OnDirCtrlChange")
  /\ LET name == Head(todo).name IN
     todo' = IF ~loading /\ name # doc.orig
             THEN <<CleanupFor("LoadFile", name, TRUE)>> \o Tail(todo)
             ELSE Tail(todo)
  /\ onlyTodo

OnFileReload ==
  /\ May("reload") /\ LoadBudget
  /\ doc' = [doc EXCEPT !.dirty = FALSE]
  /\ todo' = <<LoadCall(doc.orig, FALSE), Call("Adopt", None)>>
  /\ UNCHANGED <<disk, undo, redo, fresh>> /\ notEdited

(* ImageLoad takes its undo point before it asks to save the picture.      *)
ImageLoad ==
  /\ Calling("ImageLoad") /\ ~loading
  /\ imageUndoPoint(doc)
  /\ disk' = UndoPointDisk(doc)
  /\ loading' = TRUE
  /\ todo' = <<CleanupFor("ImageLoad", Head(todo).name, Head(todo).original),
               Call("LoadEnd", None)>> \o Tail(todo)
  /\ UNCHANGED <<doc, commented, orientation, fresh, running>>

ImageLoadRefused ==
  /\ Calling("ImageLoad") /\ loading
  /\ todo' = Tail(todo)
  /\ onlyTodo

(* The photo loaded becomes the one edited, not a step of its edition.     *)
AdoptsUnmarked(c) == ~doc.temp                                      \* mutant
Adopts(c) == ~doc.temp \/ c.original

LoadBody ==
  /\ Calling("LoadBody")
  /\ LET name == Head(todo).name
         adopts == Adopts(Head(todo))
         loads == name \in DOMAIN disk /\ Readable(disk[name])
     IN doc' = [doc EXCEPT
                  !.file = name,
                  !.orig = IF adopts THEN name ELSE @,
                  !.temp = IF adopts THEN FALSE ELSE @,
                  !.shown = IF loads THEN disk[name] ELSE @,
                  !.lossless = isJPEGFile(name),
                  !.zone = AutoSelectMax /\ ~doc.inclin,
                  !.line = doc.line /\ AutoSelectMax /\ ~doc.inclin]
  /\ commented' = FALSE
  /\ orientation' = imageUpdateExif(doc'.shown, FALSE)
  /\ todo' = Tail(todo)
  /\ UNCHANGED <<disk, undo, redo, loading, fresh, running>>

(* The end of ImageLoad, with the automatic rotation.                      *)
LoadEnd ==
  /\ Calling("LoadEnd")
  /\ loading' = FALSE
  /\ todo' = Tail(todo)
  /\ IF AutoRot /\ orientation
     THEN CallJHead(doc)
     ELSE UNCHANGED <<disk, doc, undo, redo, fresh>>
  /\ UNCHANGED <<commented, orientation, running>>

(* What OnFileOpen and OnFileReload assign after ImageLoad.                *)
Adopted(d, name) == [d EXCEPT !.file = name, !.orig = name, !.temp = FALSE]

Adopt ==
  /\ Calling("Adopt")
  /\ doc' = Adopted(doc, IF Head(todo).name = None THEN doc.orig ELSE Head(todo).name)
  /\ todo' = Tail(todo)
  /\ UNCHANGED <<disk, undo, redo, fresh>> /\ notEdited

-----------------------------------------------------------------------------
(* ImageCleanup.                                                           *)

(* OnToolAction, when the setting is on.                                   *)
AutoCropping ==
  /\ Calling("ImageCleanup") /\ AutoCrop
  /\ LET rest == <<[Head(todo) EXCEPT !.op = "CleanupSave"]>> \o Tail(todo) IN
     \/ doc.inclin /\ doc.line /\ Inclin(rest)
     \/ ~doc.inclin /\ doc.zone /\ Crop(doc) /\ todo' = rest
     \/ /\ IF doc.inclin THEN ~doc.line ELSE ~doc.zone
        /\ todo' = rest
        /\ UNCHANGED <<disk, doc, undo, redo, fresh>>
  /\ notEdited

CleaningUp == Calling("CleanupSave") \/ (Calling("ImageCleanup") /\ ~AutoCrop)

CleanupDone ==
  /\ CleaningUp /\ ~doc.dirty
  /\ todo' = IfClean(Head(todo)) \o Tail(todo)
  /\ onlyTodo

CleanupAutoSave ==
  /\ CleaningUp /\ doc.dirty /\ AutoSave
  /\ todo' = <<IF AutoSaveElsewhere THEN Call("ImageSaveAs", AutoSaveDest[doc.orig])
                                    ELSE Call("OnFileSave", None)>>
               \o IfClean(Head(todo)) \o Tail(todo)
  /\ onlyTodo

(* "The current image has unsaved changes."                                *)
PromptYes ==
  /\ CleaningUp /\ doc.dirty /\ ~AutoSave
  /\ todo' = <<Call("OnFileSave", None)>> \o IfClean(Head(todo)) \o Tail(todo)
  /\ onlyTodo
PromptNo ==
  /\ CleaningUp /\ doc.dirty /\ ~AutoSave
  /\ doc' = [doc EXCEPT !.dirty = FALSE]
  /\ todo' = IfClean(Head(todo)) \o Tail(todo)
  /\ UNCHANGED <<disk, undo, redo, fresh>> /\ notEdited
PromptCancel ==
  /\ CleaningUp /\ doc.dirty /\ ~AutoSave
  /\ todo' = Tail(todo)
  /\ onlyTodo

-----------------------------------------------------------------------------
(* Saving.                                                                 *)
FileSave == May("save") /\ LoadBudget /\ todo' = <<Call("OnFileSave", None)>> /\ onlyTodo
FileSaveAs ==
  /\ May("saveAs") /\ LoadBudget
  /\ todo' = <<Call("OnFileSaveAs", None)>>
  /\ onlyTodo
SavePathCall(dest) == [Call("ImageSaveAs", dest) EXCEPT !.by = "OnFileSavePath"]
OnFileSavePath(dest) ==
  /\ May("savePath") /\ CleanupBudget
  /\ todo' = <<SavePathCall(dest)>>
  /\ onlyTodo
OnFileSavePathAndNext(dest, next) ==
  /\ May("savePathNext") /\ LoadBudget /\ next \in DOMAIN disk
  /\ todo' = <<SavePathCall(dest), Call("OnDirCtrlChange", next)>>
  /\ onlyTodo

(* "You have modified the comment but not saved it."                       *)
SaveComment ==
  /\ Calling("OnFileSave") /\ commented
  /\ WriteComment(Dirty(doc))
  /\ todo' = <<Call("FileWrite", None)>> \o Tail(todo)
  /\ UNCHANGED <<orientation, loading, running>>
LeaveComment ==
  /\ Calling("OnFileSave") /\ commented /\ ~AutoSave
  /\ todo' = <<Call("FileWrite", None)>> \o Tail(todo)
  /\ onlyTodo

Writing == Calling("FileWrite") \/ (Calling("OnFileSave") /\ ~commented)

(* Clean(): UpdateControlsState() marks the document again when a comment  *)
(* is pending.                                                             *)
CleanForgotten(d) == d                                              \* mutant
CleanAlways(d) == [d EXCEPT !.dirty = FALSE]                        \* mutant
Clean(d) == [d EXCEPT !.dirty = commented]

WriteRefused ==
  /\ Writing /\ ~Writable(doc.orig)
  /\ todo' = <<Call("OnFileSaveAs", None)>> \o Tail(todo)
  /\ onlyTodo

WrittenBackwards == CopyFile(disk, doc.orig, doc.file)              \* mutant
Written == IF doc.file = doc.orig THEN disk ELSE CopyFile(disk, doc.file, doc.orig)

WriteLossless ==
  /\ Writing /\ Writable(doc.orig) /\ doc.lossless
  /\ disk' = Written
  /\ doc' = Clean(doc)
  /\ todo' = Tail(todo)
  /\ UNCHANGED <<undo, redo, fresh>> /\ notEdited

(* The file of the document once its temporary file is given up.           *)
SettledNever(d) == d                                                \* mutant
Settled(d) == IF d.temp THEN [d EXCEPT !.file = d.orig, !.temp = FALSE] ELSE d

WriteImage ==
  /\ Writing /\ Writable(doc.orig) /\ ~doc.lossless
  /\ LET d == Settled(doc) IN
     /\ disk' = SaveFile(disk, d.file, d.shown, isJPEGFile(d.file))
     /\ doc' = Clean(d)
     /\ todo' = IF loading THEN Tail(todo) ELSE <<LoadCall(d.file, FALSE)>> \o Tail(todo)
  /\ UNCHANGED <<undo, redo, fresh>> /\ notEdited

(* OnFileSaveAs: the file selector returns any name, or none.              *)
OnFileSaveAs(name) ==
  /\ Calling("OnFileSaveAs")
  /\ todo' = IF name = None THEN Tail(todo)
             ELSE <<Call("ImageSaveAs", name), LoadCall(name, FALSE)>> \o Tail(todo)
  /\ onlyTodo

ImageSaveAs ==
  /\ Calling("ImageSaveAs") /\ Len(todo) < MaxPending
  /\ LET name == Head(todo).name
         d == Settled(doc)
         copies == ~d.dirty /\ d.lossless /\ isJPEGFile(d.orig) /\ isJPEGFile(name)
     IN /\ disk' = IF copies THEN CopyFile(disk, d.file, name)
                   ELSE SaveFile(disk, name, d.shown, isJPEGFile(d.file))
        /\ doc' = Clean(d)
        /\ todo' = <<CleanupFor("nobody", None, FALSE), [Head(todo) EXCEPT !.op = "SaveAsEnd"]>>
                     \o Tail(todo)
  /\ UNCHANGED <<undo, redo, fresh>> /\ notEdited

(* OnFileSavePath then calls UpdateControlsState().                        *)
SavedAs(d, c) ==
  [d EXCEPT !.file = c.name, !.orig = c.name,
            !.dirty = @ \/ (commented /\ c.by = "OnFileSavePath")]

SaveAsEnd ==
  /\ Calling("SaveAsEnd")
  /\ doc' = SavedAs(doc, Head(todo))
  /\ todo' = Tail(todo)
  /\ UNCHANGED <<disk, undo, redo, fresh>> /\ notEdited

-----------------------------------------------------------------------------
(* Deleting, and leaving.                                                  *)

(* OnFileDelete, once confirmed: the next file of the tree is selected,    *)
(* the previous one when that has not moved away, then the file goes.      *)
OnFileDelete(next, prev) ==
  /\ May("delete") /\ LoadBudget
  /\ {next, prev} \ {None} \subseteq DOMAIN disk \ {doc.orig}
  /\ todo' = (IF next = None THEN <<>> ELSE <<Call("OnDirCtrlChange", next)>>)
               \o <<[Call("DeleteTry", doc.orig) EXCEPT !.other = prev],
                    Call("DeleteEnd", doc.orig)>>
  /\ onlyTodo

DeleteTry ==
  /\ Calling("DeleteTry")
  /\ LET prev == Head(todo).other IN
     todo' = IF doc.orig = Head(todo).name /\ prev # None
             THEN <<Call("OnDirCtrlChange", prev)>> \o Tail(todo)
             ELSE Tail(todo)
  /\ onlyTodo

DeletedCurrent(c) == {doc.orig} \ ReadOnly                          \* mutant
Deleted(c) == {c.name} \ ReadOnly

(* isInUpdate is set, so that Clean() does not mark the document again.    *)
DeleteEnd ==
  /\ Calling("DeleteEnd")
  /\ disk' = Without(disk, Deleted(Head(todo)))
  /\ doc' = [doc EXCEPT !.dirty = FALSE]
  /\ todo' = Tail(todo)
  /\ UNCHANGED <<undo, redo, fresh>> /\ notEdited

OnClose ==
  /\ Idle /\ "close" \in Commands /\ CleanupBudget
  /\ todo' = <<CleanupFor("OnClose", None, FALSE)>>
  /\ onlyTodo

(* ~RatioFrame, and the lists it holds.                                    *)
Destroy ==
  /\ Calling("Destroy")
  /\ disk' = Without(disk, (IF doc.temp THEN {doc.file} ELSE {})
                             \cup Owned(Elements(undo) \cup Elements(redo)))
  /\ undo' = <<>> /\ redo' = <<>>
  /\ running' = FALSE
  /\ todo' = <<>>
  /\ UNCHANGED <<doc, commented, orientation, loading, fresh>>

-----------------------------------------------------------------------------
Init ==
  /\ disk = [f \in Present |-> [version |-> f, recoded |-> FALSE,
                                exif |-> IF f \in Turned THEN "turned" ELSE "none"]]
  /\ doc = NoDocument
  /\ commented = FALSE /\ orientation = FALSE /\ loading = FALSE
  /\ undo = <<>> /\ redo = <<>> /\ todo = <<>>
  /\ fresh = 0
  /\ running = TRUE

EditCommand ==
  \/ OnImageCrop \/ OnImageRotate \/ OnImageFlipHorizontal \/ OnImageFlipVertical
  \/ OnImageJPEGOptimize \/ OnImageJPEGProgressive \/ Resize \/ OnImageInclin
  \/ OnToggleJPEGLossless \/ OnModeInclin \/ OnModeCrop \/ SelectZone
  \/ TypeComment \/ OnImageWriteComment
HistoryCommand == OnImageUndo \/ OnImageRedo
FileCommand ==
  \/ OnFileReload \/ FileSave \/ FileSaveAs \/ OnClose
  \/ \E name \in UserFiles :
       \/ OnFileOpen(name) \/ LoadFile(name) \/ SelectFile(name)
       \/ OnFileMove(name) \/ OnFileNameEndEdit(name) \/ OnFileSavePath(name)
       \/ \E next \in UserFiles : \/ OnFileMoveAndNext(name, next)
                                  \/ OnFileSavePathAndNext(name, next)
  \/ \E next, prev \in UserFiles \cup {None} : OnFileDelete(next, prev)
Command == EditCommand \/ HistoryCommand \/ FileCommand

(* One step of the handler that runs.                                      *)
Handler ==
  \/ OnDirCtrlChange \/ ImageLoad \/ ImageLoadRefused \/ LoadBody \/ LoadEnd \/ Adopt
  \/ AutoCropping \/ CropCalled \/ CleanupDone \/ CleanupAutoSave
  \/ PromptYes \/ PromptNo \/ PromptCancel
  \/ SaveComment \/ LeaveComment \/ WriteRefused \/ WriteLossless \/ WriteImage
  \/ \E name \in UserFiles \cup {None} : OnFileSaveAs(name)
  \/ ImageSaveAs \/ SaveAsEnd \/ DeleteTry \/ DeleteEnd \/ Destroy

Next == Command \/ Handler
Spec == Init /\ [][Next]_vars
(* A handler runs to its end, and the user answers the dialogs it opens.   *)
FairSpec == Spec /\ WF_vars(Handler)

-----------------------------------------------------------------------------
(* Properties.                                                             *)

(* Every variable holds a value of its type.                               *)
DiskOK(d) == DOMAIN d \subseteq Path /\ d \in [DOMAIN d -> Content]
TypeOK ==
  /\ DiskOK(disk)
  /\ doc \in Doc
  /\ {commented, orientation, loading, running} \subseteq BOOLEAN
  /\ undo \in Seq(Entry) /\ redo \in Seq(Entry)
  /\ todo \in Seq(CallSet)
  /\ fresh \in Nat
  /\ doc = NoDocument => undo = <<>> /\ redo = <<>> /\ ~commented /\ ~orientation

Entries == Elements(undo) \cup Elements(redo)
Images == {e \in Entries : e.kind = "image"}
Documents == {doc} \cup {e.doc : e \in Images}

(* A document whose temporary flag is set is on a temporary file: the      *)
(* destructors remove the file of such a document (RatioFrame.h:328,       *)
(* RatioFrame.cpp:776), so with the flag on a photo they would remove it.  *)
TempFlagSound == todo = <<>> => \A d \in Documents : d.temp => d.file \in Nat

(* A photo leaves the disk only when the user has it deleted, or moved: a  *)
(* name disappears in DeleteEnd, or its content is under another name.     *)
PhotosKept ==
  [][\A f \in UserFiles \cap DOMAIN disk :
       \/ f \in DOMAIN disk'
       \/ Calling("DeleteEnd") /\ Head(todo).name = f
       \/ \E g \in UserFiles \cap DOMAIN disk' : disk'[g] = disk[f]]_vars

(* Moving and renaming, and undoing that, lose no photo.                   *)
MovesLoseNothing ==
  [][Idle /\ todo' = <<>> =>
       \A f \in UserFiles \cap DOMAIN disk :
         \E g \in UserFiles \cap DOMAIN disk' : disk'[g] = disk[f]]_vars

(* A temporary file has one owner, the document or one entry, and exists   *)
(* as long as it has.                                                      *)
TempsOwnedOnce ==
  todo = <<>> /\ running =>
    LET h == undo \o redo
        mine == {i \in DOMAIN h : h[i].kind = "image" /\ h[i].doc.temp}
    IN /\ \A i \in mine : /\ h[i].doc.file \in DOMAIN disk
                          /\ ~(doc.temp /\ doc.file = h[i].doc.file)
                          /\ \A j \in mine \ {i} : h[i].doc.file # h[j].doc.file
       /\ doc.temp => doc.file \in DOMAIN disk

(* No temporary file outlives its owners, the window in the end.           *)
TempsReclaimed ==
  todo = <<>> =>
    \A t \in Nat \cap DOMAIN disk :
      /\ running
      /\ \E d \in Documents : d.temp /\ d.file = t

(* In lossless mode what is seen, its coding and its tag included, is the  *)
(* file the tools and Save work on.                                        *)
LosslessShowsWorkingFile ==
  todo = <<>> /\ doc.lossless /\ Source(doc) \in DOMAIN disk /\ Readable(disk[Source(doc)])
    => doc.shown = disk[Source(doc)]

(* Nothing to save means the photo is on disk as it is seen.               *)
CleanIsSaved ==
  todo = <<>> /\ ~doc.dirty /\ doc.orig \in DOMAIN disk
    => doc.shown.version = disk[doc.orig].version

(* A comment that is typed and not applied marks the document, so that the *)
(* next load or the end of the program asks about it.                      *)
CommentMarked == todo = <<>> /\ commented /\ running => doc.dirty

(* The histories keep at most the number of operations of the settings.    *)
HistoryBounded == Len(undo) + Len(redo) <= MaxUndo

(* Undo would bring back what an edit changed, but for the mark that there *)
(* is something to save.                                                   *)
EditsUndoable ==
  [][Idle /\ MaxUndo > 0 /\ fresh' > fresh =>
       LET e == TopOf(undo') IN
       /\ e.kind = "image"
       /\ {e.doc.orig, e.doc.file} \subseteq DOMAIN disk'
       /\ [e.doc EXCEPT !.shown = IF e.doc.lossless THEN disk'[e.doc.file] ELSE @,
                        !.dirty = doc.dirty] = doc]_vars

(* A temporary file is written once: what an undo entry recorded in it is  *)
(* still there when the entry is restored.                                 *)
TempsNeverRewritten ==
  [][\A t \in Nat \cap DOMAIN disk \cap DOMAIN disk' : disk'[t] = disk[t]]_vars

(* With the automatic save, the picture left behind is in some file.       *)
LeavingKeepsWork ==
  [][Calling("LoadBody") /\ doc.orig # None /\ doc'.orig # doc.orig
     => \E f \in UserFiles \cap DOMAIN disk : disk[f].version = doc.shown.version]_vars

(* Saving under another name writes what is seen, when that can be written *)
(* (RatioFrame.cpp:373, "Save the current file under another name.").      *)
SaveAsWritesShown ==
  [][Calling("ImageSaveAs") /\ Readable(doc.shown) =>
       LET name == Head(todo).name IN
       name \in DOMAIN disk' \ (ReadOnly \cup {doc.orig})
         => disk'[name].version = doc.shown.version]_vars

(* Every handler returns: none calls itself without end (one that did      *)
(* would stop at MaxPending calls), and none waits for a call that never   *)
(* comes.                                                                  *)
HandlersReturn == todo # <<>> ~> todo = <<>>
=============================================================================
