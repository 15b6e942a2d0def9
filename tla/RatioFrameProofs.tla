-------------------------- MODULE RatioFrameProofs --------------------------
(* Theorems about the document side of the main window, for every set of   *)
(* photos, every setting and every length of a session.                    *)
EXTENDS RatioFrame, SequenceTheorems, TLAPS

-----------------------------------------------------------------------------
(* Sequences.                                                              *)
LEMMA TopType == ASSUME NEW S, NEW h \in Seq(S), h # <<>>
                 PROVE  TopOf(h) \in S /\ Below(h) \in Seq(S) /\ Len(Below(h)) = Len(h) - 1
<1>1. Len(h) \in Nat /\ Len(h) # 0
  OBVIOUS
<1>2. Len(h) \in 1 .. Len(h) /\ Len(h) - 1 \in 0 .. Len(h)
  BY <1>1
<1>3. h[Len(h)] \in S
  BY <1>2
<1>4. \A i \in 1 .. Len(h) - 1 : h[i] \in S
  BY <1>1
<1>5. SubSeq(h, 1, Len(h) - 1) \in Seq(S)
  BY <1>1, <1>4, 1 \in Int, Len(h) - 1 \in Int, SubSeqProperties
<1>6. Len(SubSeq(h, 1, Len(h) - 1)) = IF 1 <= Len(h) - 1 THEN Len(h) - 1 - 1 + 1 ELSE 0
  BY <1>1, <1>4, 1 \in Int, Len(h) - 1 \in Int, SubSeqProperties
<1>7. Len(SubSeq(h, 1, Len(h) - 1)) = Len(h) - 1
  BY <1>1, <1>6
<1> QED BY <1>3, <1>5, <1>7 DEF TopOf, Below

LEMMA HeadType == ASSUME NEW S, NEW h \in Seq(S), h # <<>>
                  PROVE  Head(h) \in S /\ Tail(h) \in Seq(S)
  OBVIOUS

LEMMA ElementsType == ASSUME NEW S, NEW h \in Seq(S)
                      PROVE  Elements(h) \subseteq S
  BY DEF Elements

LEMMA NewestType ==
  ASSUME NEW S, NEW h \in Seq(S), NEW n \in Nat
  PROVE  /\ Newest(h, n) \in Seq(S)
         /\ Len(Newest(h, n)) <= n
         /\ Oldest(h, n) \subseteq S
<1>1. CASE Len(h) > n
  <2>1. /\ Len(h) - n + 1 \in 1 .. Len(h) + 1
        /\ Newest(h, n) = SubSeq(h, Len(h) - n + 1, Len(h))
    BY <1>1 DEF Newest
  <2>2. SubSeq(h, Len(h) - n + 1, Len(h)) \in Seq(S)
    BY <2>1
  <2>3. Len(SubSeq(h, Len(h) - n + 1, Len(h))) = n
    BY <2>1, <1>1
  <2> QED BY <2>1, <2>2, <2>3 DEF Oldest
<1>2. CASE ~(Len(h) > n)
  BY <1>2 DEF Newest, Oldest
<1> QED BY <1>1, <1>2

-----------------------------------------------------------------------------
(* Files.                                                                  *)
LEMMA PutType == ASSUME NEW d, DiskOK(d), NEW p \in Path, NEW c \in Content
                 PROVE  DiskOK(Put(d, p, c))
<1>1. PICK names \in SUBSET Path : d \in [names -> Content]
  BY DEF DiskOK
<1>2. names \cup {p} \in SUBSET Path /\ Put(d, p, c) \in [names \cup {p} -> Content]
  BY <1>1 DEF Put
<1> QED BY <1>2 DEF DiskOK

LEMMA WithoutType == ASSUME NEW d, DiskOK(d), NEW ps
                     PROVE  DiskOK(Without(d, ps))
<1>1. PICK names \in SUBSET Path : d \in [names -> Content]
  BY DEF DiskOK
<1>2. names \ ps \in SUBSET Path /\ Without(d, ps) \in [names \ ps -> Content]
  BY <1>1 DEF Without
<1> QED BY <1>2 DEF DiskOK

LEMMA DiskDomain == ASSUME NEW d, DiskOK(d)
                    PROVE  /\ DOMAIN d \subseteq Path
                           /\ \A p \in DOMAIN d : d[p] \in Content
  BY DEF DiskOK

LEMMA CopyType == ASSUME NEW d, DiskOK(d), NEW src, NEW dest \in Path
                  PROVE  DiskOK(CopyFile(d, src, dest))
  BY PutType, DiskDomain DEF CopyFile, Store

LEMMA RenameType == ASSUME NEW d, DiskOK(d), NEW src, NEW dest \in Path
                    PROVE  DiskOK(RenameFile(d, src, dest))
<1>1. DiskOK(Without(d, {src}))
  BY WithoutType
<1>2. ASSUME src \in DOMAIN d PROVE DiskOK(Put(Without(d, {src}), dest, d[src]))
  BY <1>1, <1>2, PutType, DiskDomain
<1> QED BY <1>2 DEF RenameFile

LEMMA SaveType == ASSUME NEW d, DiskOK(d), NEW p \in Path, NEW c \in Content, NEW jpeg
                  PROVE  DiskOK(SaveFile(d, p, c, jpeg))
<1>1. [c EXCEPT !.recoded = TRUE] \in Content /\ [c EXCEPT !.exif = "none"] \in Content
  BY DEF Content
<1> QED BY <1>1, PutType DEF SaveFile, Store

-----------------------------------------------------------------------------
(* Documents and histories.                                                *)
LEMMA BlankType == Blank \in Content
  BY DEF Blank, Content

LEMMA ChangeType == ASSUME fresh \in Nat
                    PROVE  Retouched \in [Content -> Content] /\ Uprighted \in [Content -> Content]
<1>1. ASSUME NEW c \in Content
      PROVE  /\ [c EXCEPT !.version = fresh + 1] \in Content
             /\ [c EXCEPT !.version = fresh + 1, !.exif = "upright"] \in Content
  <2>1. fresh + 1 \in UserFiles \cup Nat \cup {None}
    OBVIOUS
  <2> QED BY <1>1, <2>1 DEF Content
<1> QED BY <1>1 DEF Retouched, Uprighted

LEMMA OpenedDoc ==
  ASSUME NEW d \in Doc
  PROVE  /\ d.orig # None <=> d \in Opened
         /\ d.orig # None <=> d # NoDocument
         /\ d \in Opened => d.orig \in UserFiles /\ d.file \in Path
         /\ d.zone \/ d.line \/ d.dirty \/ d.temp \/ d.lossless => d \in Opened
         /\ d.shown \in Content
  BY FilesAssumption, BlankType DEF Doc, Opened, NoDocument

LEMMA ImageType == ASSUME NEW d \in Doc
                   PROVE  Image(d) \in Entry
<1>1. d.lossless => [d EXCEPT !.shown = Blank] \in Doc
  BY BlankType, OpenedDoc DEF Doc, Opened
<1> QED BY <1>1 DEF Image, Entry

LEMMA UndoPointType ==
  ASSUME TypeOK, NEW d \in Doc, imageUndoPoint(d)
  PROVE  undo' \in Seq(Entry) /\ redo' \in Seq(Entry)
<1>1. undo \in Seq(Entry) /\ redo \in Seq(Entry) /\ Append(undo, Image(d)) \in Seq(Entry)
  BY ImageType DEF TypeOK
<1>2. Newest(Append(undo, Image(d)), MaxUndo) \in Seq(Entry)
  BY <1>1, NewestType, SettingsAssumption
<1> QED BY <1>1, <1>2 DEF imageUndoPoint

LEMMA UndoPointDiskType == ASSUME TypeOK, NEW d
                           PROVE  DiskOK(UndoPointDisk(d))
  BY WithoutType DEF TypeOK, UndoPointDisk

(* What a step that goes through an undo point leaves well typed.          *)
EditOK == /\ DiskOK(disk') /\ doc' \in Opened
          /\ undo' \in Seq(Entry) /\ redo' \in Seq(Entry)
          /\ fresh' \in Nat

LEMMA WorkingType == ASSUME fresh \in Nat, NEW d \in Opened, NEW c \in Content
                     PROVE  /\ Working(d) \in Opened
                            /\ [Working(d) EXCEPT !.shown = c] \in Opened
                            /\ [Working(d) EXCEPT !.shown = c, !.zone = FALSE, !.line = FALSE] \in Opened
<1>1. fresh + 1 \in Path
  BY DEF Path
<1> QED BY <1>1 DEF Working, Opened

LEMMA CallToolType ==
  ASSUME TypeOK, NEW d \in Opened, NEW change \in [Content -> Content], CallTool(d, change)
  PROVE  EditOK
<1> DEFINE before == UndoPointDisk(d)
<1>1. fresh \in Nat /\ fresh' = fresh + 1 /\ fresh + 1 \in Path
  BY DEF TypeOK, CallTool, Path
<1>2. undo' \in Seq(Entry) /\ redo' \in Seq(Entry)
  BY UndoPointType DEF Doc, CallTool
<1>3. DiskOK(before)
  BY UndoPointDiskType
<1>4. CASE disk' = Put(before, fresh + 1, Blank) /\ doc' = Working(d)
  <2>1. DiskOK(disk')
    BY <1>1, <1>3, <1>4, PutType, BlankType
  <2>2. doc' \in Opened
    BY <1>1, <1>4, BlankType, WorkingType
  <2> QED BY <1>1, <1>2, <2>1, <2>2 DEF EditOK
<1>5. ASSUME Source(d) \in DOMAIN before, NEW done \in BOOLEAN,
             disk' = Put(before, fresh + 1,
                         IF done THEN change[before[Source(d)]] ELSE before[Source(d)]),
             doc' = IF done THEN [Working(d) EXCEPT !.shown = change[before[Source(d)]],
                                                    !.zone = FALSE, !.line = FALSE]
                    ELSE Working(d)
      PROVE EditOK
  <2>1. before[Source(d)] \in Content
    BY <1>3, <1>5, DiskDomain
  <2>2. change[before[Source(d)]] \in Content
    BY <2>1
  <2>3. DiskOK(disk')
    BY <1>1, <1>3, <1>5, <2>1, <2>2, PutType
  <2>4. doc' \in Opened
    BY <1>1, <1>5, <2>2, WorkingType
  <2> QED BY <1>1, <1>2, <2>3, <2>4 DEF EditOK
<1>6. \A c : Outcomes(c) \subseteq BOOLEAN
  BY DEF Outcomes
<1> HIDE DEF before
<1>7. \/ disk' = Put(before, fresh + 1, Blank) /\ doc' = Working(d)
      \/ /\ Source(d) \in DOMAIN before
         /\ \E done \in Outcomes(before[Source(d)]) :
              /\ disk' = Put(before, fresh + 1,
                             IF done THEN change[before[Source(d)]] ELSE before[Source(d)])
              /\ doc' = IF done THEN [Working(d) EXCEPT !.shown = change[before[Source(d)]],
                                                        !.zone = FALSE, !.line = FALSE]
                        ELSE Working(d)
  BY DEF CallTool, before
<1> QED BY <1>4, <1>5, <1>6, <1>7

LEMMA ImageManipType ==
  ASSUME TypeOK, NEW d \in Opened, NEW after \in Opened, ImageManip(d, after)
  PROVE  EditOK
<1>1. undo' \in Seq(Entry) /\ redo' \in Seq(Entry) /\ DiskOK(disk') /\ fresh' \in Nat
  BY UndoPointType, UndoPointDiskType DEF ImageManip, TypeOK, Doc
<1>2. Retouched[d.shown] \in Content
  BY ChangeType DEF TypeOK, Opened
<1>3. doc' \in Opened
  BY <1>2 DEF ImageManip, Opened
<1> QED BY <1>1, <1>3 DEF EditOK

LEMMA FlagsType == ASSUME NEW d \in Opened
                   PROVE  Dirty(d) \in Opened /\ NoTracker(d) \in Opened
  BY DEF Dirty, NoTracker, Opened

LEMMA EditType ==
  ASSUME TypeOK, NEW d \in Opened, NEW after \in Opened, Edit(d, after)
  PROVE  EditOK
<1>1. Retouched \in [Content -> Content]
  BY ChangeType DEF TypeOK
<1> QED BY <1>1, CallToolType, ImageManipType DEF Edit, CallJPEGTranTryPerfect

LEMMA WriteCommentType ==
  ASSUME TypeOK, NEW d \in Opened, WriteComment(d)
  PROVE  EditOK /\ commented' = FALSE
<1> DEFINE before == UndoPointDisk(d)
<1>0. commented' = FALSE
  BY DEF WriteComment
<1>1. CASE ~d.lossless
  BY <1>0, <1>1, ImageManipType DEF WriteComment
<1>2. CASE d.lossless
  <2>1. fresh \in Nat /\ fresh' = fresh + 1 /\ fresh + 1 \in Path
    BY <1>2 DEF TypeOK, WriteComment, Path
  <2>2. undo' \in Seq(Entry) /\ redo' \in Seq(Entry)
    BY <1>2, UndoPointType DEF Doc, WriteComment
  <2>3. DiskOK(before) /\ Retouched \in [Content -> Content]
    BY UndoPointDiskType, ChangeType DEF TypeOK
  <2>4. \A c : Outcomes(c) \subseteq BOOLEAN
    BY DEF Outcomes
  <2> HIDE DEF before
  <2>5. \/ disk' = Put(before, fresh + 1, Blank) /\ doc' = Working(d)
        \/ /\ Source(d) \in DOMAIN before
           /\ \E done \in BOOLEAN :
                /\ disk' = Put(before, fresh + 1,
                        IF done THEN Retouched[before[Source(d)]] ELSE before[Source(d)])
                /\ doc' = IF done
                          THEN [Working(d) EXCEPT !.shown = Retouched[before[Source(d)]]]
                          ELSE Working(d)
    BY <1>2, <2>4 DEF WriteComment, before
  <2>6. DiskOK(disk')
    BY <2>1, <2>3, <2>5, PutType, BlankType, DiskDomain
  <2>7. doc' \in Opened
    BY <2>1, <2>3, <2>5, WorkingType, BlankType, DiskDomain
  <2> QED BY <1>0, <2>1, <2>2, <2>6, <2>7 DEF EditOK
<1> QED BY <1>1, <1>2

-----------------------------------------------------------------------------
(* Calls.                                                                  *)
LEMMA CallType ==
  /\ \A name \in UserFiles :
       /\ \A op \in Ops : Call(op, name) \in CallSet
       /\ \A b \in BOOLEAN : LoadCall(name, b) \in CallSet
       /\ \A by \in Callers, b \in BOOLEAN : CleanupFor(by, name, b) \in CallSet
       /\ SavePathCall(name) \in CallSet
  /\ \A op \in {"LoadEnd", "Adopt", "OnFileSave", "FileWrite", "OnFileSaveAs",
              "OnImageCrop", "Destroy"} : Call(op, None) \in CallSet
  /\ CleanupFor("OnClose", None, FALSE) \in CallSet
  /\ CleanupFor("nobody", None, FALSE) \in CallSet
<1>1. /\ {"ImageLoad", "ImageCleanup", "ImageSaveAs"} \subseteq Ops
      /\ {"LoadEnd", "Adopt", "OnFileSave", "FileWrite", "OnFileSaveAs",
          "OnImageCrop", "Destroy"} \subseteq Ops
      /\ {"nobody", "OnFileSavePath", "OnClose"} \subseteq Callers
      /\ None \notin UserFiles
  BY FilesAssumption DEF Ops, Callers
<1>2. \A name \in UserFiles, op \in Ops : Call(op, name) \in CallSet
  BY <1>1 DEF Call, CallSet
<1>3. \A name \in UserFiles :
        /\ \A b \in BOOLEAN : LoadCall(name, b) \in CallSet
        /\ \A by \in Callers, b \in BOOLEAN : CleanupFor(by, name, b) \in CallSet
        /\ SavePathCall(name) \in CallSet
  BY <1>1 DEF Call, CallSet, LoadCall, CleanupFor, SavePathCall
<1>4. \A op \in {"LoadEnd", "Adopt", "OnFileSave", "FileWrite", "OnFileSaveAs",
               "OnImageCrop", "Destroy"} : Call(op, None) \in CallSet
  BY <1>1 DEF Call, CallSet, Nameless
<1>5. \A by \in {"OnClose", "nobody"} : CleanupFor(by, None, FALSE) \in CallSet
  BY <1>1 DEF Call, CallSet, CleanupFor, Nameless
<1> QED BY <1>2, <1>3, <1>4, <1>5

LEMMA CallFields ==
  ASSUME NEW c \in CallSet
  PROVE  /\ c.op \in Ops /\ c.by \in Callers /\ c.original \in BOOLEAN
         /\ c.name \in UserFiles \cup {None} /\ c.other \in UserFiles \cup {None}
         /\ ~Nameless(c) => c.name \in UserFiles
  BY DEF CallSet

LEMMA NextCallType ==
  ASSUME NEW c \in CallSet
  PROVE  /\ \A op \in Ops : c.name \in UserFiles => [c EXCEPT !.op = op] \in CallSet
         /\ c.op = "ImageCleanup" => [c EXCEPT !.op = "CleanupSave"] \in CallSet
         /\ \A n \in UserFiles \cup {None} : c.name \in UserFiles => [c EXCEPT !.other = n] \in CallSet
<1>1. None \notin UserFiles /\ "CleanupSave" \in Ops
  BY FilesAssumption DEF Ops
<1>2. \A op \in Ops : c.name \in UserFiles => [c EXCEPT !.op = op] \in CallSet
  BY <1>1 DEF CallSet
<1>3. \A n \in UserFiles \cup {None} : c.name \in UserFiles => [c EXCEPT !.other = n] \in CallSet
  BY <1>1 DEF CallSet
<1>4. c.op = "ImageCleanup" => [c EXCEPT !.op = "CleanupSave"] \in CallSet
  BY <1>1 DEF CallSet, Nameless
<1> QED BY <1>2, <1>3, <1>4

LEMMA CallSeqType == /\ <<>> \in Seq(CallSet)
                     /\ \A a \in CallSet : <<a>> \in Seq(CallSet)
                     /\ \A a, b \in CallSet : <<a, b>> \in Seq(CallSet)
  OBVIOUS

LEMMA IfCleanType == ASSUME NEW c \in CallSet, c.op \in {"ImageCleanup", "CleanupSave"}
                     PROVE  IfClean(c) \in Seq(CallSet)
<1>1. c.by \in {"OnFileOpen", "LoadFile", "ImageLoad"} => c.name \in UserFiles
  BY CallFields DEF Nameless
<1>2. c.by = "OnFileOpen" => /\ LoadCall(c.name, FALSE) \in CallSet
                            /\ Call("Adopt", c.name) \in CallSet
  BY <1>1, CallType DEF Ops
<1>3. c.by = "LoadFile" => LoadCall(c.name, TRUE) \in CallSet
  BY <1>1, CallType
<1>4. c.by = "ImageLoad" => [c EXCEPT !.op = "LoadBody"] \in CallSet
  BY <1>1, NextCallType DEF Ops
<1>5. CleanupFor("nobody", None, FALSE) \in CallSet /\ Call("Destroy", None) \in CallSet
  BY CallType
<1>6. \/ c.by = "OnFileOpen" /\ IfClean(c) = <<LoadCall(c.name, FALSE), Call("Adopt", c.name)>>
      \/ c.by = "LoadFile" /\ IfClean(c) = <<LoadCall(c.name, TRUE)>>
      \/ c.by = "ImageLoad" /\ IfClean(c) = <<[c EXCEPT !.op = "LoadBody"]>>
      \/ c.by = "OnClose"
         /\ IfClean(c) = <<CleanupFor("nobody", None, FALSE), Call("Destroy", None)>>
      \/ IfClean(c) = <<>>
  BY DEF IfClean
<1> QED BY <1>2, <1>3, <1>4, <1>5, <1>6, CallSeqType

LEMMA PendingType ==
  ASSUME TypeOK, todo # <<>>
  PROVE  /\ Head(todo) \in CallSet /\ Tail(todo) \in Seq(CallSet)
         /\ \A cs \in Seq(CallSet) : cs \o Tail(todo) \in Seq(CallSet)
  BY HeadType DEF TypeOK

-----------------------------------------------------------------------------
(* Type correctness, action by action.                                     *)
LEMMA EditKeepsType ==
  ASSUME TypeOK, EditOK, todo' \in Seq(CallSet),
         {commented, orientation, loading, running}' \subseteq BOOLEAN
  PROVE  TypeOK'
<1>1. doc' # NoDocument
  BY OpenedDoc, FilesAssumption DEF EditOK, Opened, NoDocument
<1> QED BY <1>1 DEF TypeOK, EditOK, Doc

LEMMA InclinType ==
  ASSUME TypeOK, doc \in Opened, NEW rest \in Seq(CallSet), Inclin(rest)
  PROVE  EditOK /\ todo' \in Seq(CallSet)
<1>1. \A zone \in BOOLEAN :
        [Dirty(doc) EXCEPT !.line = FALSE, !.zone = zone, !.inclin = FALSE] \in Opened
  BY FlagsType DEF Opened
<1>2. EditOK
  BY <1>1, ImageManipType DEF Inclin
<1>3. <<Call("OnImageCrop", None)>> \in Seq(CallSet)
  BY CallType, CallSeqType
<1>4. todo' \in Seq(CallSet)
  BY <1>3 DEF Inclin
<1> QED BY <1>2, <1>4

LEMMA MayType == ASSUME TypeOK, doc.orig # None
                 PROVE  /\ doc \in Opened /\ Dirty(doc) \in Opened
                        /\ NoTracker(Dirty(doc)) \in Opened
  BY OpenedDoc, FlagsType DEF TypeOK

LEMMA EditCommandType == ASSUME TypeOK, EditCommand PROVE TypeOK'
<1> USE DEF notEdited
<1>0. /\ doc \in Opened /\ Dirty(doc) \in Opened /\ NoTracker(Dirty(doc)) \in Opened
      /\ todo \in Seq(CallSet)
      /\ {commented, orientation, loading, running} \subseteq BOOLEAN
  <2>1. doc.orig # None
    BY DEF EditCommand, OnImageCrop, OnImageRotate, OnImageFlipHorizontal, OnImageFlipVertical,
           OnImageJPEGOptimize, OnImageJPEGProgressive, Resize, OnImageInclin,
           OnToggleJPEGLossless, OnModeInclin, OnModeCrop, SelectZone, TypeComment,
           OnImageWriteComment, MayEdit, May
  <2> QED BY <2>1, MayType DEF TypeOK
<1>1. CASE OnImageCrop
  BY <1>0, <1>1, EditType, EditKeepsType DEF OnImageCrop, Crop
<1>2. CASE OnImageRotate
  BY <1>0, <1>2, EditType, EditKeepsType DEF OnImageRotate
<1>3. CASE OnImageFlipHorizontal
  BY <1>0, <1>3, EditType, EditKeepsType DEF OnImageFlipHorizontal
<1>4. CASE OnImageFlipVertical
  BY <1>0, <1>4, EditType, EditKeepsType DEF OnImageFlipVertical
<1>5. CASE OnImageJPEGOptimize \/ OnImageJPEGProgressive
  <2>1. Retouched \in [Content -> Content]
    BY ChangeType DEF TypeOK
  <2> QED BY <1>0, <1>5, <2>1, CallToolType, EditKeepsType
          DEF OnImageJPEGOptimize, OnImageJPEGProgressive, CallJPEGTranTryPerfect
<1>6. CASE Resize
  <2>1. [NoTracker(Dirty(doc)) EXCEPT !.lossless = FALSE] \in Opened
    BY <1>0 DEF Opened
  <2> QED BY <1>0, <1>6, <2>1, ImageManipType, EditKeepsType DEF Resize
<1>7. CASE OnImageInclin
  <2>1. EditOK /\ todo' \in Seq(CallSet)
    BY <1>0, <1>7, InclinType, CallSeqType DEF OnImageInclin
  <2> QED BY <1>0, <1>7, <2>1, EditKeepsType DEF OnImageInclin
<1>8. CASE OnToggleJPEGLossless \/ OnModeInclin \/ OnModeCrop \/ SelectZone
  <2>1. doc' \in Opened /\ UNCHANGED <<disk, undo, redo, todo, fresh>> /\ notEdited
    BY <1>0, <1>8, ZenonT(60) DEF Opened, OnToggleJPEGLossless, OnModeInclin, OnModeCrop, SelectZone
  <2>2. EditOK
    BY <2>1 DEF EditOK, TypeOK
  <2> QED BY <1>0, <2>1, <2>2, EditKeepsType
<1>9. CASE TypeComment
  <2>1. EditOK
    BY <1>0, <1>9 DEF EditOK, TypeOK, TypeComment
  <2> QED BY <1>0, <1>9, <2>1, EditKeepsType DEF TypeComment
<1>10. CASE OnImageWriteComment
  BY <1>0, <1>10, WriteCommentType, EditKeepsType DEF OnImageWriteComment
<1> QED BY <1>1, <1>2, <1>3, <1>4, <1>5, <1>6, <1>7, <1>8, <1>9, <1>10 DEF EditCommand

LEMMA RestoredType == ASSUME TypeOK, NEW e \in Entry, e.kind = "image", Restorable(e)
                      PROVE  Restored(e) \in Opened
<1>1. e.doc \in Opened /\ commented \in BOOLEAN
  <2>1. e.doc \in Doc /\ e.doc.orig # None
    BY DiskDomain, FilesAssumption DEF Entry, TypeOK, Restorable, Path
  <2> QED BY <2>1, OpenedDoc DEF TypeOK
<1>2. disk[e.doc.file] \in Content
  BY DiskDomain DEF Restorable, TypeOK
<1>3. (IF ~e.doc.lossless THEN e.doc.shown
       ELSE IF Readable(disk[e.doc.file]) THEN disk[e.doc.file] ELSE Blank) \in Content
  BY <1>1, <1>2, BlankType DEF Opened
<1>4. (e.doc.dirty \/ commented) \in BOOLEAN
  BY <1>1
<1> QED BY <1>1, <1>3, <1>4 DEF Restored, Opened

(* What undo and redo leave well typed, but for the histories.             *)
RestoreOK == DiskOK(disk') /\ doc' \in Opened /\ {commented, orientation}' \subseteq BOOLEAN

LEMMA RestoreImageType == ASSUME TypeOK, doc \in Opened, NEW e \in Entry, e.kind = "image", RestoreImage(e)
                          PROVE  RestoreOK
<1>1. CASE Restorable(e)
  <2>1. doc' \in Opened /\ DiskOK(disk') /\ commented' = FALSE
    BY <1>1, RestoredType DEF RestoreImage, TypeOK
  <2>2. orientation' \in BOOLEAN
    BY <1>1 DEF RestoreImage, imageUpdateExif, TypeOK
  <2> QED BY <2>1, <2>2 DEF RestoreOK
<1>2. CASE ~Restorable(e)
  BY <1>2, WithoutType DEF RestoreImage, RestoreOK, TypeOK
<1> QED BY <1>1, <1>2

LEMMA RenamedType == ASSUME NEW d \in Opened, NEW from \in UserFiles, NEW to \in UserFiles
                     PROVE  Renamed(d, from, to) \in Opened
  BY FilesAssumption DEF Renamed, Opened, Path

LEMMA RestoreMoveType == ASSUME TypeOK, doc \in Opened, NEW e \in Entry, e.kind = "move", RestoreMove(e)
                         PROVE  RestoreOK
<1>1. e.src \in UserFiles /\ e.dest \in UserFiles
  BY DEF Entry
<1>2. DiskOK(disk') /\ doc' \in Opened
  BY <1>1, RenameType, RenamedType DEF RestoreMove, TypeOK, Path
<1> QED BY <1>2 DEF RestoreMove, RestoreOK, TypeOK

LEMMA HistoryCommandType == ASSUME TypeOK, HistoryCommand PROVE TypeOK'
<1>0. /\ undo \in Seq(Entry) /\ redo \in Seq(Entry) /\ Image(doc) \in Entry
      /\ \A h \in Seq(Entry), e \in Entry : Append(h, e) \in Seq(Entry)
      /\ undo # <<>> \/ redo # <<>> => doc \in Opened
  BY ImageType DEF TypeOK, Doc
<1>1. CASE OnImageUndo
  <2>1. TopOf(undo) \in Entry /\ Below(undo) \in Seq(Entry)
    BY <1>0, <1>1, TopType DEF OnImageUndo
  <2>2. undo' \in Seq(Entry) /\ redo' \in Seq(Entry)
    BY <1>0, <1>1, <2>1 DEF OnImageUndo
  <2>3. RestoreOK
    BY <1>0, <1>1, <2>1, RestoreImageType, RestoreMoveType DEF OnImageUndo
  <2>4. doc' \in Doc /\ doc' # NoDocument
    BY <2>3, FilesAssumption DEF RestoreOK, Doc, Opened, NoDocument
  <2> QED BY <1>1, <2>2, <2>3, <2>4 DEF OnImageUndo, RestoreOK, TypeOK
<1>2. CASE OnImageRedo
  <2>1. TopOf(redo) \in Entry /\ Below(redo) \in Seq(Entry)
    BY <1>0, <1>2, TopType DEF OnImageRedo
  <2>2. undo' \in Seq(Entry) /\ redo' \in Seq(Entry)
    BY <1>0, <1>2, <2>1 DEF OnImageRedo
  <2>3. RestoreOK
    BY <1>0, <1>2, <2>1, RestoreImageType, RestoreMoveType DEF OnImageRedo
  <2>4. doc' \in Doc /\ doc' # NoDocument
    BY <2>3, FilesAssumption DEF RestoreOK, Doc, Opened, NoDocument
  <2> QED BY <1>2, <2>2, <2>3, <2>4 DEF OnImageRedo, RestoreOK, TypeOK
<1> QED BY <1>1, <1>2 DEF HistoryCommand

LEMMA OnlyTodoType == ASSUME TypeOK, onlyTodo, todo' \in Seq(CallSet) PROVE TypeOK'
  BY DEF TypeOK, onlyTodo

(* A step that leaves an opened document and no more than the disk, the    *)
(* moves and the calls changed.                                            *)
LEMMA OpenedKeepsType ==
  ASSUME TypeOK, DiskOK(disk'), doc' \in Opened, undo' \in Seq(Entry), redo' \in Seq(Entry),
         todo' \in Seq(CallSet), fresh' = fresh,
         {commented, orientation, loading, running}' \subseteq BOOLEAN
  PROVE  TypeOK'
<1>1. EditOK
  BY DEF EditOK, TypeOK
<1> QED BY <1>1, EditKeepsType

LEMMA MoveType == ASSUME TypeOK, doc.orig # None, NEW dest \in UserFiles, MoveTo(dest),
                         todo' \in Seq(CallSet)
                  PROVE  TypeOK'
<1>1. doc \in Opened /\ doc.orig \in UserFiles
  BY MayType DEF Opened
<1>2. DiskOK(disk') /\ doc' \in Opened
  BY <1>1, RenameType, RenamedType DEF MoveTo, TypeOK, Path
<1>3. Move(doc.orig, dest) \in Entry
  BY <1>1 DEF Move, Entry
<1>4. undo' \in Seq(Entry)
  BY <1>3 DEF MoveTo, TypeOK
<1> QED BY <1>2, <1>4, OpenedKeepsType DEF MoveTo, TypeOK, notEdited

LEMMA FileCommandType == ASSUME TypeOK, FileCommand PROVE TypeOK'
<1>1. CASE OnFileReload
  <2>1. doc \in Opened /\ doc.orig \in UserFiles
    BY <1>1, MayType DEF OnFileReload, May, Opened
  <2>2. LoadCall(doc.orig, FALSE) \in CallSet /\ Call("Adopt", None) \in CallSet
    BY <2>1, CallType
  <2>3. todo' \in Seq(CallSet)
    BY <1>1, <2>2, CallSeqType DEF OnFileReload
  <2>4. doc' \in Opened
    BY <1>1, <2>1 DEF OnFileReload, Opened
  <2> QED BY <1>1, <2>3, <2>4, OpenedKeepsType DEF OnFileReload, notEdited, TypeOK
<1>2. CASE FileSave \/ FileSaveAs
  <2>1. Call("OnFileSave", None) \in CallSet /\ Call("OnFileSaveAs", None) \in CallSet
    BY CallType
  <2> QED BY <1>2, <2>1, CallSeqType, OnlyTodoType DEF FileSave, FileSaveAs
<1>3. CASE OnClose
  BY <1>3, CallType, CallSeqType, OnlyTodoType DEF OnClose
<1>4. ASSUME NEW name \in UserFiles,
             OnFileOpen(name) \/ LoadFile(name) \/ SelectFile(name) \/ OnFileSavePath(name)
      PROVE  TypeOK'
  <2>1. /\ CleanupFor("OnFileOpen", name, FALSE) \in CallSet
        /\ CleanupFor("LoadFile", name, TRUE) \in CallSet
        /\ Call("OnDirCtrlChange", name) \in CallSet
        /\ SavePathCall(name) \in CallSet
    BY CallType DEF Callers, Ops
  <2> QED BY <1>4, <2>1, CallSeqType, OnlyTodoType
          DEF OnFileOpen, LoadFile, SelectFile, OnFileSavePath
<1>5. ASSUME NEW name \in UserFiles, OnFileMove(name) \/ OnFileNameEndEdit(name)
      PROVE  TypeOK'
  <2>1. doc.orig # None /\ MoveTo(name) /\ todo' \in Seq(CallSet)
    BY <1>5 DEF OnFileMove, OnFileNameEndEdit, May, TypeOK
  <2> QED BY <2>1, MoveType
<1>6. ASSUME NEW name \in UserFiles, NEW next \in UserFiles,
             OnFileMoveAndNext(name, next) \/ OnFileSavePathAndNext(name, next)
      PROVE  TypeOK'
  <2>1. SavePathCall(name) \in CallSet /\ Call("OnDirCtrlChange", next) \in CallSet
    BY CallType DEF Ops
  <2>2. todo' \in Seq(CallSet)
    BY <1>6, <2>1, CallSeqType DEF OnFileMoveAndNext, OnFileSavePathAndNext
  <2>3. CASE OnFileMoveAndNext(name, next)
    BY <2>2, <2>3, MoveType DEF OnFileMoveAndNext, May
  <2>4. CASE OnFileSavePathAndNext(name, next)
    BY <2>2, <2>4, OnlyTodoType DEF OnFileSavePathAndNext
  <2> QED BY <1>6, <2>3, <2>4
<1>7. ASSUME NEW next \in UserFiles \cup {None}, NEW prev \in UserFiles \cup {None},
             OnFileDelete(next, prev)
      PROVE  TypeOK'
  <2> DEFINE first == IF next = None THEN <<>> ELSE <<Call("OnDirCtrlChange", next)>>
             try == Call("DeleteTry", doc.orig)
             rest == <<[try EXCEPT !.other = prev], Call("DeleteEnd", doc.orig)>>
  <2>1. doc.orig \in UserFiles
    BY <1>7, MayType DEF OnFileDelete, May, Opened
  <2>2. /\ next # None => Call("OnDirCtrlChange", next) \in CallSet
        /\ try \in CallSet /\ try.name \in UserFiles
        /\ Call("DeleteEnd", doc.orig) \in CallSet
    BY <2>1, CallType DEF Ops, Call
  <2> HIDE DEF try
  <2>3. [try EXCEPT !.other = prev] \in CallSet
    BY <2>2, NextCallType
  <2>4. first \in Seq(CallSet) /\ rest \in Seq(CallSet)
    BY <2>2, <2>3, CallSeqType
  <2>5. todo' = first \o rest /\ onlyTodo
    BY <1>7 DEF OnFileDelete, try
  <2> HIDE DEF first, rest
  <2> QED BY <2>4, <2>5, OnlyTodoType
<1> QED BY <1>1, <1>2, <1>3, <1>4, <1>5, <1>6, <1>7 DEF FileCommand

(* A step that only replaces the call at the head.                         *)
LEMMA ReplaceHeadType ==
  ASSUME TypeOK, todo # <<>>, onlyTodo, NEW cs \in Seq(CallSet), todo' = cs \o Tail(todo)
  PROVE  TypeOK'
  BY PendingType, OnlyTodoType

LEMMA LoadBodyType == ASSUME TypeOK, LoadBody PROVE TypeOK'
<1> DEFINE c == Head(todo)
           picture == IF c.name \in DOMAIN disk /\ Readable(disk[c.name])
                      THEN disk[c.name] ELSE doc.shown
           adopts == Adopts(c)
<1>1. c \in CallSet /\ Tail(todo) \in Seq(CallSet) /\ c.name \in UserFiles
  BY PendingType, CallFields DEF LoadBody, Calling, Nameless
<1>2. doc \in Doc /\ picture \in Content
  BY OpenedDoc, DiskDomain DEF TypeOK
<1>3. /\ isJPEGFile(c.name) \in BOOLEAN
      /\ (AutoSelectMax /\ ~doc.inclin) \in BOOLEAN
      /\ (doc.line /\ AutoSelectMax /\ ~doc.inclin) \in BOOLEAN
  BY DEF isJPEGFile
<1>4. c.name \in Path /\ c.name \notin Nat
  BY <1>1, FilesAssumption DEF Path
<1>5. doc' = [doc EXCEPT
                !.file = c.name,
                !.orig = IF adopts THEN c.name ELSE doc.orig,
                !.temp = IF adopts THEN FALSE ELSE doc.temp,
                !.shown = picture,
                !.lossless = isJPEGFile(c.name),
                !.zone = AutoSelectMax /\ ~doc.inclin,
                !.line = doc.line /\ AutoSelectMax /\ ~doc.inclin]
  BY <1>2 DEF LoadBody, Doc, Opened, NoDocument
<1>6. CASE doc \in Opened
  <2> DEFINE o == IF adopts THEN c.name ELSE doc.orig
             t == IF adopts THEN FALSE ELSE doc.temp
             z == AutoSelectMax /\ ~doc.inclin
             l == doc.line /\ AutoSelectMax /\ ~doc.inclin
             j == isJPEGFile(c.name)
  <2>1. o \in UserFiles /\ t \in BOOLEAN /\ z \in BOOLEAN /\ l \in BOOLEAN /\ j \in BOOLEAN
    BY <1>1, <1>3, <1>6 DEF Opened
  <2>2. doc' = [doc EXCEPT !.file = c.name, !.orig = o, !.temp = t, !.shown = picture,
                           !.lossless = j, !.zone = z, !.line = l]
    BY <1>5
  <2> HIDE DEF c, picture, adopts, o, t, z, l, j
  <2>3. doc' \in Opened
    BY <1>2, <1>4, <1>6, <2>1, <2>2, ZenonT(60) DEF Opened
  <2> QED BY <1>1, <2>3, OpenedKeepsType DEF LoadBody, imageUpdateExif, TypeOK
<1>7. CASE doc = NoDocument
  <2>1. adopts
    BY <1>7 DEF NoDocument, Adopts
  <2> HIDE DEF c, picture, adopts
  <2>2. doc' \in Opened
    BY <1>1, <1>2, <1>3, <1>4, <1>5, <1>7, <2>1 DEF Opened, NoDocument
  <2> QED BY <1>1, <2>2, OpenedKeepsType DEF LoadBody, imageUpdateExif, TypeOK
<1> QED BY <1>2, <1>6, <1>7 DEF Doc

LEMMA AdoptedType == ASSUME NEW d \in Doc, NEW name \in UserFiles
                     PROVE  Adopted(d, name) \in Opened
<1>0. name \in Path /\ name \notin Nat
  BY FilesAssumption DEF Path
<1>1. CASE d \in Opened
  BY <1>0, <1>1 DEF Opened, Adopted
<1>2. CASE d = NoDocument
  BY <1>0, <1>2, BlankType DEF Opened, NoDocument, Adopted
<1> QED BY <1>1, <1>2 DEF Doc

LEMMA LoadingType ==
  ASSUME TypeOK, OnDirCtrlChange \/ ImageLoad \/ ImageLoadRefused \/ LoadEnd \/ Adopt
  PROVE  TypeOK'
<1> DEFINE c == Head(todo)
<1>0. /\ todo # <<>> /\ c \in CallSet /\ Tail(todo) \in Seq(CallSet)
      /\ doc \in Doc /\ {commented, orientation, loading, running} \subseteq BOOLEAN
  <2>1. todo # <<>>
    BY DEF OnDirCtrlChange, ImageLoad, ImageLoadRefused, LoadEnd, Adopt, Calling
  <2> QED BY <2>1, PendingType DEF TypeOK
<1>1. CASE OnDirCtrlChange
  <2>1. CleanupFor("LoadFile", c.name, TRUE) \in CallSet
    BY <1>0, <1>1, CallType, CallFields DEF Callers, OnDirCtrlChange, Calling, Nameless
  <2>2. todo' \in Seq(CallSet)
    BY <1>0, <1>1, <2>1, CallSeqType, PendingType DEF OnDirCtrlChange
  <2> QED BY <1>1, <2>2, OnlyTodoType DEF OnDirCtrlChange
<1>2. CASE ImageLoad
  <2>1. CleanupFor("ImageLoad", c.name, c.original) \in CallSet /\ Call("LoadEnd", None) \in CallSet
    BY <1>0, <1>2, CallType, CallFields DEF Callers, ImageLoad, Calling, Nameless
  <2>2. todo' \in Seq(CallSet)
    BY <1>0, <1>2, <2>1, CallSeqType, PendingType DEF ImageLoad
  <2>3. undo' \in Seq(Entry) /\ redo' \in Seq(Entry)
    BY <1>0, <1>2, UndoPointType DEF ImageLoad
  <2>4. DiskOK(disk')
    BY <1>2, UndoPointDiskType DEF ImageLoad
  <2>5. doc = NoDocument => undo' = <<>> /\ redo' = <<>>
    BY <1>2 DEF ImageLoad, imageUndoPoint, NoDocument, TypeOK
  <2> QED BY <1>2, <2>2, <2>3, <2>4, <2>5 DEF ImageLoad, TypeOK
<1>3. CASE ImageLoadRefused
  BY <1>0, <1>3, OnlyTodoType DEF ImageLoadRefused
<1>4. CASE LoadEnd
  <2>1. Uprighted \in [Content -> Content]
    BY ChangeType DEF TypeOK
  <2>2. CASE AutoRot /\ orientation
    <3>1. doc \in Opened
      BY <2>2 DEF TypeOK, Doc
    <3>2. EditOK
      BY <1>4, <2>1, <2>2, <3>1, CallToolType DEF LoadEnd, CallJHead
    <3> QED BY <1>0, <1>4, <3>2, EditKeepsType DEF LoadEnd
  <2>3. CASE ~(AutoRot /\ orientation)
    BY <1>0, <1>4, <2>3 DEF LoadEnd, TypeOK
  <2> QED BY <2>2, <2>3
<1>5. CASE Adopt
  <2>1. CASE c.name = None /\ doc = NoDocument
    <3>1. doc' = [doc EXCEPT !.file = None, !.orig = None, !.temp = FALSE]
      BY <1>5, <2>1 DEF Adopt, Adopted, NoDocument
    <3>2. doc' = NoDocument
      BY <2>1, <3>1 DEF NoDocument
    <3> QED BY <1>0, <1>5, <2>1, <3>2 DEF Adopt, notEdited, TypeOK
  <2>2. CASE ~(c.name = None /\ doc = NoDocument)
    <3>1. \E name \in UserFiles :
            doc' = Adopted(doc, name)
      <4>1. c.name = None => doc.orig \in UserFiles
        BY <1>0, <2>2 DEF Doc, Opened
      <4>2. c.name # None => c.name \in UserFiles
        BY <1>0, CallFields
      <4> QED BY <1>5, <4>1, <4>2 DEF Adopt
    <3>2. doc' \in Opened
      BY <1>0, <3>1, AdoptedType
    <3> QED BY <1>0, <1>5, <3>2, OpenedKeepsType DEF Adopt, notEdited, TypeOK
  <2> QED BY <2>1, <2>2
<1> QED BY <1>1, <1>2, <1>3, <1>4, <1>5

LEMMA CleanupType ==
  ASSUME TypeOK, \/ AutoCropping \/ CropCalled \/ CleanupDone \/ CleanupAutoSave
                 \/ PromptYes \/ PromptNo \/ PromptCancel
  PROVE  TypeOK'
<1> DEFINE c == Head(todo)
<1>0. /\ todo # <<>> /\ c \in CallSet /\ Tail(todo) \in Seq(CallSet)
      /\ {commented, orientation, loading, running} \subseteq BOOLEAN
      /\ doc.zone \/ doc.line \/ doc.dirty =>
           /\ doc \in Opened /\ Dirty(doc) \in Opened /\ NoTracker(Dirty(doc)) \in Opened
  <2>1. todo # <<>>
    BY DEF AutoCropping, CropCalled, CleanupDone, CleanupAutoSave, PromptYes, PromptNo,
           PromptCancel, CleaningUp, Calling
  <2>2. doc.zone \/ doc.line \/ doc.dirty => doc \in Opened
    BY OpenedDoc DEF TypeOK
  <2> QED BY <2>1, <2>2, PendingType, FlagsType DEF TypeOK
<1>1. CASE AutoCropping
  <2> DEFINE rest == <<[c EXCEPT !.op = "CleanupSave"]>> \o Tail(todo)
  <2>1. rest \in Seq(CallSet)
    BY <1>0, <1>1, NextCallType, CallSeqType DEF AutoCropping, Calling
  <2>2. \/ doc.line /\ Inclin(rest)
        \/ doc.zone /\ Crop(doc) /\ todo' = rest
        \/ todo' = rest /\ UNCHANGED <<disk, doc, undo, redo, fresh>>
    BY <1>1 DEF AutoCropping
  <2>3. notEdited
    BY <1>1 DEF AutoCropping
  <2> HIDE DEF rest
  <2>4. CASE doc.line /\ Inclin(rest)
    BY <1>0, <2>1, <2>3, <2>4, InclinType, EditKeepsType DEF notEdited
  <2>5. CASE doc.zone /\ Crop(doc) /\ todo' = rest
    BY <1>0, <2>1, <2>3, <2>5, EditType, EditKeepsType DEF notEdited, Crop
  <2>6. CASE todo' = rest /\ UNCHANGED <<disk, doc, undo, redo, fresh>>
    BY <1>0, <2>1, <2>3, <2>6 DEF notEdited, TypeOK
  <2> QED BY <2>2, <2>4, <2>5, <2>6
<1>2. CASE CropCalled
  <2>1. CASE doc.zone /\ Crop(doc)
    BY <1>0, <1>2, <2>1, EditType, EditKeepsType DEF CropCalled, Crop, notEdited
  <2>2. CASE UNCHANGED <<disk, doc, undo, redo, fresh>>
    BY <1>0, <1>2, <2>2 DEF CropCalled, notEdited, TypeOK
  <2> QED BY <1>2, <2>1, <2>2 DEF CropCalled
<1>3. ASSUME CleaningUp PROVE IfClean(c) \in Seq(CallSet)
  BY <1>0, <1>3, IfCleanType DEF CleaningUp, Calling
<1>4. CASE CleanupDone
  BY <1>0, <1>3, <1>4, ReplaceHeadType DEF CleanupDone
<1>5. CASE CleanupAutoSave \/ PromptYes
  <2>1. doc \in Opened /\ CleaningUp
    BY <1>0, <1>5 DEF CleanupAutoSave, PromptYes
  <2>2. /\ Call("OnFileSave", None) \in CallSet
        /\ Call("ImageSaveAs", AutoSaveDest[doc.orig]) \in CallSet
    BY <2>1, CallType, SettingsAssumption DEF Ops, Opened
  <2>3. \E a \in CallSet : todo' = <<a>> \o IfClean(c) \o Tail(todo)
    BY <1>5, <2>2 DEF CleanupAutoSave, PromptYes
  <2>4. todo' \in Seq(CallSet)
    BY <1>0, <1>3, <2>1, <2>3, CallSeqType
  <2> QED BY <1>5, <2>4, OnlyTodoType DEF CleanupAutoSave, PromptYes
<1>6. CASE PromptNo
  <2>1. CleaningUp /\ doc' \in Opened /\ todo' = IfClean(c) \o Tail(todo)
    BY <1>0, <1>6 DEF PromptNo, Opened
  <2>2. todo' \in Seq(CallSet)
    BY <1>0, <1>3, <2>1
  <2> QED BY <1>0, <1>6, <2>1, <2>2, OpenedKeepsType DEF PromptNo, notEdited, TypeOK
<1>7. CASE PromptCancel
  BY <1>0, <1>7, OnlyTodoType DEF PromptCancel
<1> QED BY <1>1, <1>2, <1>4, <1>5, <1>6, <1>7

LEMMA SettledType == ASSUME NEW d \in Opened
                     PROVE  Settled(d) \in Opened /\ Settled(d).file \in Path
<1>1. d.orig \in Path /\ d.orig \notin Nat
  BY FilesAssumption DEF Opened, Path
<1> QED BY <1>1 DEF Settled, Opened

LEMMA CleanType == ASSUME NEW d \in Opened, commented \in BOOLEAN
                   PROVE  Clean(d) \in Opened
  BY DEF Clean, Opened

LEMMA WritingType ==
  ASSUME TypeOK, SaveComment \/ LeaveComment \/ WriteRefused \/ WriteLossless \/ WriteImage
  PROVE  TypeOK'
<1>0. /\ todo # <<>> /\ Tail(todo) \in Seq(CallSet)
      /\ \A cs \in Seq(CallSet) : cs \o Tail(todo) \in Seq(CallSet)
      /\ {commented, orientation, loading, running} \subseteq BOOLEAN
  <2>1. todo # <<>>
    BY DEF SaveComment, LeaveComment, WriteRefused, WriteLossless, WriteImage, Writing, Calling
  <2> QED BY <2>1, PendingType DEF TypeOK
<1>1. CASE SaveComment
  <2>1. Dirty(doc) \in Opened
    <3>1. doc \in Opened
      BY <1>1 DEF SaveComment, TypeOK, Doc
    <3> QED BY <3>1, FlagsType
  <2>2. EditOK /\ commented' = FALSE
    BY <1>1, <2>1, WriteCommentType DEF SaveComment
  <2>3. todo' \in Seq(CallSet)
    BY <1>0, <1>1, CallType, CallSeqType DEF SaveComment
  <2>4. {commented, orientation, loading, running}' \subseteq BOOLEAN
    BY <1>0, <1>1, <2>2 DEF SaveComment
  <2> QED BY <2>2, <2>3, <2>4, EditKeepsType
<1>2. CASE LeaveComment
  <2>1. todo' \in Seq(CallSet)
    BY <1>0, <1>2, CallType, CallSeqType DEF LeaveComment
  <2> QED BY <1>2, <2>1, OnlyTodoType DEF LeaveComment
<1>3. CASE WriteRefused
  <2>1. todo' \in Seq(CallSet)
    BY <1>0, <1>3, CallType, CallSeqType DEF WriteRefused
  <2> QED BY <1>3, <2>1, OnlyTodoType DEF WriteRefused
<1>4. ASSUME Writable(doc.orig) PROVE doc \in Opened /\ doc.orig \in UserFiles
  <2>1. doc.orig # None
    BY <1>4, DiskDomain, FilesAssumption DEF Writable, TypeOK, Path
  <2> QED BY <2>1, OpenedDoc DEF TypeOK
<1>5. CASE WriteLossless
  <2>1. doc \in Opened /\ doc.orig \in Path
    BY <1>4, <1>5 DEF WriteLossless, Path
  <2>2. DiskOK(disk')
    BY <1>5, <2>1, CopyType DEF WriteLossless, Written, TypeOK
  <2>3. doc' \in Opened
    BY <1>0, <1>5, <2>1, CleanType DEF WriteLossless
  <2> QED BY <1>0, <1>5, <2>2, <2>3, OpenedKeepsType DEF WriteLossless, notEdited, TypeOK
<1>6. CASE WriteImage
  <2> DEFINE d == Settled(doc)
  <2>1. d \in Opened /\ d.file \in Path /\ d.shown \in Content
    BY <1>4, <1>6, SettledType DEF WriteImage, Opened
  <2>2. DiskOK(disk')
    BY <1>6, <2>1, SaveType DEF WriteImage, TypeOK
  <2>3. doc' \in Opened
    BY <1>0, <1>6, <2>1, CleanType DEF WriteImage
  <2>4. d.file \in UserFiles
    <3>1. d.temp = FALSE
      BY <1>4, <1>6 DEF WriteImage, Settled, Opened
    <3> QED BY <2>1, <3>1 DEF Opened, Path
  <2>5. LoadCall(d.file, FALSE) \in CallSet
    BY <2>4, CallType
  <2>6. todo' \in Seq(CallSet)
    BY <1>0, <1>6, <2>5, CallSeqType DEF WriteImage
  <2> QED BY <1>0, <1>6, <2>2, <2>3, <2>6, OpenedKeepsType DEF WriteImage, notEdited, TypeOK
<1> QED BY <1>1, <1>2, <1>3, <1>5, <1>6

LEMMA SavingAsType ==
  ASSUME TypeOK, \/ \E name \in UserFiles \cup {None} : OnFileSaveAs(name)
                 \/ ImageSaveAs \/ SaveAsEnd
  PROVE  TypeOK'
<1> DEFINE c == Head(todo)
<1>0. /\ todo # <<>> /\ c \in CallSet /\ Tail(todo) \in Seq(CallSet)
      /\ \A cs \in Seq(CallSet) : cs \o Tail(todo) \in Seq(CallSet)
      /\ {commented, orientation, loading, running} \subseteq BOOLEAN /\ doc \in Doc
  <2>1. todo # <<>>
    BY DEF OnFileSaveAs, ImageSaveAs, SaveAsEnd, Calling
  <2> QED BY <2>1, PendingType DEF TypeOK
<1>1. ASSUME NEW name \in UserFiles \cup {None}, OnFileSaveAs(name)
      PROVE  TypeOK'
  <2>1. name \in UserFiles => <<Call("ImageSaveAs", name), LoadCall(name, FALSE)>> \in Seq(CallSet)
    BY CallType, CallSeqType DEF Ops
  <2>2. todo' \in Seq(CallSet)
    BY <1>0, <1>1, <2>1 DEF OnFileSaveAs
  <2> QED BY <1>1, <2>2, OnlyTodoType DEF OnFileSaveAs
<1>2. CASE ImageSaveAs
  <2> DEFINE d == Settled(doc)
  <2>1. c.name \in UserFiles /\ c.name \in Path
    BY <1>0, <1>2, CallFields DEF ImageSaveAs, Calling, Nameless, Path
  <2>2. d \in Doc /\ d.shown \in Content
    BY <1>0, SettledType, OpenedDoc DEF Doc, Settled, NoDocument
  <2>3. DiskOK(disk')
    BY <1>2, <2>1, <2>2, CopyType, SaveType DEF ImageSaveAs, TypeOK
  <2>4. /\ CleanupFor("nobody", None, FALSE) \in CallSet
        /\ [c EXCEPT !.op = "SaveAsEnd"] \in CallSet
    BY <1>0, <2>1, CallType, NextCallType DEF Ops
  <2>5. todo' \in Seq(CallSet)
    BY <1>0, <1>2, <2>4, CallSeqType DEF ImageSaveAs
  <2>6. CASE doc \in Opened
    <3>1. doc' \in Opened
      BY <1>0, <1>2, <2>6, SettledType, CleanType DEF ImageSaveAs
    <3> QED BY <1>0, <1>2, <2>3, <2>5, <3>1, OpenedKeepsType DEF ImageSaveAs, notEdited, TypeOK
  <2>7. CASE doc = NoDocument
    <3>1. doc' = NoDocument
      BY <1>2, <2>7 DEF ImageSaveAs, Settled, Clean, NoDocument, TypeOK
    <3> QED BY <1>0, <1>2, <2>3, <2>5, <2>7, <3>1 DEF ImageSaveAs, notEdited, TypeOK
  <2> QED BY <1>0, <2>6, <2>7 DEF Doc
<1>3. CASE SaveAsEnd
  <2>1. c.name \in UserFiles
    BY <1>0, <1>3, CallFields DEF SaveAsEnd, Calling, Nameless
  <2>2. doc' \in Opened
    <3> DEFINE dirty == doc.dirty \/ (commented /\ c.by = "OnFileSavePath")
    <3>1. doc' = [doc EXCEPT !.file = c.name, !.orig = c.name, !.dirty = dirty]
      BY <1>0, <1>3 DEF SaveAsEnd, SavedAs, Doc, Opened, NoDocument
    <3>2. dirty \in BOOLEAN
      BY <1>0 DEF Doc, Opened, NoDocument
    <3>3. c.name \in Path /\ c.name \notin Nat
      BY <2>1, FilesAssumption DEF Path
    <3> HIDE DEF dirty, c
    <3>4. CASE doc \in Opened
      BY <2>1, <3>1, <3>2, <3>3, <3>4 DEF Opened
    <3>5. CASE doc = NoDocument
      BY <2>1, <3>1, <3>2, <3>3, <3>5, BlankType DEF Opened, NoDocument
    <3> QED BY <1>0, <3>4, <3>5 DEF Doc
  <2> QED BY <1>0, <1>3, <2>2, OpenedKeepsType DEF SaveAsEnd, notEdited, TypeOK
<1> QED BY <1>1, <1>2, <1>3

LEMMA LeavingType == ASSUME TypeOK, DeleteTry \/ DeleteEnd \/ Destroy PROVE TypeOK'
<1> DEFINE c == Head(todo)
<1>0. /\ todo # <<>> /\ c \in CallSet /\ Tail(todo) \in Seq(CallSet)
      /\ \A cs \in Seq(CallSet) : cs \o Tail(todo) \in Seq(CallSet)
      /\ {commented, orientation, loading, running} \subseteq BOOLEAN /\ doc \in Doc
  <2>1. todo # <<>>
    BY DEF DeleteTry, DeleteEnd, Destroy, Calling
  <2> QED BY <2>1, PendingType DEF TypeOK
<1>1. CASE DeleteTry
  <2>1. c.other # None => Call("OnDirCtrlChange", c.other) \in CallSet
    BY <1>0, CallFields, CallType DEF Ops
  <2>2. todo' \in Seq(CallSet)
    BY <1>0, <1>1, <2>1, CallSeqType DEF DeleteTry
  <2> QED BY <1>1, <2>2, OnlyTodoType DEF DeleteTry
<1>2. CASE DeleteEnd
  <2>1. DiskOK(disk')
    BY <1>2, WithoutType DEF DeleteEnd, TypeOK
  <2>2. CASE doc \in Opened
    <3>1. doc' \in Opened
      BY <1>2, <2>2 DEF DeleteEnd, Opened
    <3> QED BY <1>0, <1>2, <2>1, <3>1, OpenedKeepsType DEF DeleteEnd, notEdited, TypeOK
  <2>3. CASE doc = NoDocument
    <3>1. doc' = NoDocument
      BY <1>2, <2>3 DEF DeleteEnd, NoDocument
    <3> QED BY <1>0, <1>2, <2>1, <2>3, <3>1 DEF DeleteEnd, notEdited, TypeOK
  <2> QED BY <1>0, <2>2, <2>3 DEF Doc
<1>3. CASE Destroy
  <2>1. DiskOK(disk')
    BY <1>3, WithoutType DEF Destroy, TypeOK
  <2>2. undo' \in Seq(Entry) /\ redo' \in Seq(Entry) /\ todo' \in Seq(CallSet)
    BY <1>3 DEF Destroy
  <2> QED BY <1>3, <2>1, <2>2 DEF Destroy, TypeOK
<1> QED BY <1>1, <1>2, <1>3

LEMMA NextType == ASSUME TypeOK, [Next]_vars PROVE TypeOK'
<1>1. CASE EditCommand
  BY <1>1, EditCommandType
<1>2. CASE HistoryCommand
  BY <1>2, HistoryCommandType
<1>3. CASE FileCommand
  BY <1>3, FileCommandType
<1>4. CASE Handler
  BY <1>4, LoadBodyType, LoadingType, CleanupType, WritingType, SavingAsType, LeavingType DEF Handler
<1>5. CASE UNCHANGED vars
  BY <1>5 DEF TypeOK, vars
<1> QED BY <1>1, <1>2, <1>3, <1>4, <1>5 DEF Next, Command

(* Every variable keeps its type, whatever the settings and the photos: in *)
(* particular a document without the temporary flag is never on a          *)
(* temporary file, and until a photo is opened there is nothing to undo.   *)
THEOREM TypeCorrect == Spec => []TypeOK
<1>1. Init => TypeOK
  <2> SUFFICES ASSUME Init PROVE TypeOK
    OBVIOUS
  <2>1. \A f \in Present : [version |-> f, recoded |-> FALSE,
                           exif |-> IF f \in Turned THEN "turned" ELSE "none"] \in Content
    BY FilesAssumption DEF Content
  <2>2. DiskOK(disk)
    BY <2>1, FilesAssumption DEF Init, DiskOK, Path
  <2>3. undo \in Seq(Entry) /\ redo \in Seq(Entry) /\ todo \in Seq(CallSet)
    BY DEF Init
  <2>4. doc \in Doc /\ fresh \in Nat
    BY DEF Init, Doc
  <2> QED BY <2>2, <2>3, <2>4 DEF Init, TypeOK
<1>2. TypeOK /\ [Next]_vars => TypeOK'
  BY NextType
<1> QED BY <1>1, <1>2, PTL DEF Spec

-----------------------------------------------------------------------------
(* The limit of the histories.                                             *)
OnlyImages(h) == \A i \in 1 .. Len(h) : h[i].kind = "image"
Bounded == /\ HistoryBounded
           /\ OnlyImages(undo) /\ OnlyImages(redo)

(* How a step can change the histories.                                    *)
LEMMA HistorySteps ==
  ASSUME [Next]_vars
  PROVE  \/ UNCHANGED <<undo, redo>>
         \/ \E d : imageUndoPoint(d)
         \/ OnImageUndo \/ OnImageRedo
         \/ /\ \E dest : MoveTo(dest)
            /\ Commands \cap {"move", "rename", "moveNext"} # {}
         \/ undo' = <<>> /\ redo' = <<>>
<1>0. \A d, after : Edit(d, after) => imageUndoPoint(d)
  BY DEF Edit, CallJPEGTranTryPerfect, CallTool, ImageManip
<1>1. CASE EditCommand
  <2>1. CASE OnImageCrop \/ OnImageRotate \/ OnImageFlipHorizontal \/ OnImageFlipVertical
    BY <1>0, <2>1 DEF OnImageCrop, Crop, OnImageRotate, OnImageFlipHorizontal, OnImageFlipVertical
  <2>2. CASE OnImageJPEGOptimize \/ OnImageJPEGProgressive \/ Resize \/ OnImageInclin
    BY <2>2 DEF OnImageJPEGOptimize, OnImageJPEGProgressive, Resize, OnImageInclin, Inclin,
                CallJPEGTranTryPerfect, CallTool, ImageManip
  <2>3. CASE OnToggleJPEGLossless \/ OnModeInclin \/ OnModeCrop \/ SelectZone \/ TypeComment
    BY <2>3 DEF OnToggleJPEGLossless, OnModeInclin, OnModeCrop, SelectZone, TypeComment
  <2>4. CASE OnImageWriteComment
    BY <2>4 DEF OnImageWriteComment, WriteComment, ImageManip
  <2> QED BY <1>1, <2>1, <2>2, <2>3, <2>4 DEF EditCommand
<1>2. CASE HistoryCommand
  BY <1>2 DEF HistoryCommand
<1>3. CASE FileCommand
  <2>1. CASE OnFileReload \/ FileSave \/ FileSaveAs \/ OnClose
    BY <2>1 DEF OnFileReload, FileSave, FileSaveAs, OnClose, onlyTodo
  <2>2. ASSUME NEW name \in UserFiles,
               OnFileMove(name) \/ OnFileNameEndEdit(name)
                 \/ \E next \in UserFiles : OnFileMoveAndNext(name, next)
        PROVE  MoveTo(name) /\ Commands \cap {"move", "rename", "moveNext"} # {}
    BY <2>2 DEF OnFileMove, OnFileNameEndEdit, OnFileMoveAndNext, May
  <2>3. ASSUME NEW name \in UserFiles,
               OnFileOpen(name) \/ LoadFile(name) \/ SelectFile(name) \/ OnFileSavePath(name)
                 \/ \E next \in UserFiles : OnFileSavePathAndNext(name, next)
        PROVE  UNCHANGED <<undo, redo>>
    BY <2>3 DEF OnFileOpen, LoadFile, SelectFile, OnFileSavePath, OnFileSavePathAndNext, onlyTodo
  <2>4. ASSUME NEW next, NEW prev, OnFileDelete(next, prev)
        PROVE  UNCHANGED <<undo, redo>>
    BY <2>4 DEF OnFileDelete, onlyTodo
  <2> QED BY <1>3, <2>1, <2>2, <2>3, <2>4 DEF FileCommand
<1>4. CASE Handler
  <2>1. CASE OnDirCtrlChange \/ ImageLoad \/ ImageLoadRefused \/ LoadBody \/ LoadEnd \/ Adopt
    BY <2>1 DEF OnDirCtrlChange, ImageLoad, ImageLoadRefused, LoadBody, LoadEnd, Adopt,
                CallJHead, CallTool, onlyTodo
  <2>2. CASE \/ AutoCropping \/ CropCalled \/ CleanupDone \/ CleanupAutoSave
             \/ PromptYes \/ PromptNo \/ PromptCancel
    BY <1>0, <2>2 DEF AutoCropping, CropCalled, CleanupDone, CleanupAutoSave, PromptYes, PromptNo,
                PromptCancel, Inclin, ImageManip, Crop, onlyTodo
  <2>3. CASE SaveComment \/ LeaveComment \/ WriteRefused \/ WriteLossless \/ WriteImage
    BY <2>3 DEF SaveComment, LeaveComment, WriteRefused, WriteLossless, WriteImage,
                WriteComment, ImageManip, onlyTodo
  <2>4. CASE \/ \E name \in UserFiles \cup {None} : OnFileSaveAs(name)
             \/ ImageSaveAs \/ SaveAsEnd \/ DeleteTry \/ DeleteEnd \/ Destroy
    BY <2>4 DEF OnFileSaveAs, ImageSaveAs, SaveAsEnd, DeleteTry, DeleteEnd, Destroy, onlyTodo
  <2> QED BY <1>4, <2>1, <2>2, <2>3, <2>4 DEF Handler
<1>5. CASE UNCHANGED vars
  BY <1>5 DEF vars
<1> QED BY <1>1, <1>2, <1>3, <1>4, <1>5 DEF Next, Command

(* An undo or a redo takes one entry from a history and puts one on the    *)
(* other.                                                                  *)
LEMMA ExchangeBounded ==
  ASSUME NEW from \in Seq(Entry), NEW to \in Seq(Entry), NEW d \in Doc,
         from # <<>>, OnlyImages(from), OnlyImages(to)
  PROVE  /\ TopOf(from).kind = "image"
         /\ Len(Below(from)) + Len(Append(to, Image(d))) = Len(from) + Len(to)
         /\ OnlyImages(Below(from)) /\ OnlyImages(Append(to, Image(d)))
<1>1. Image(d) \in Entry /\ Image(d).kind = "image"
  BY ImageType DEF Image
<1>2. /\ Len(from) \in Nat \ {0} /\ Len(to) \in Nat
      /\ Below(from) \in Seq(Entry) /\ Len(Below(from)) = Len(from) - 1
  BY TopType
<1>3. \A i \in 1 .. Len(from) - 1 : Below(from)[i] = from[i]
  BY <1>2, SubSeqProperties, 1 \in Int, Len(from) - 1 \in Int DEF Below
<1>4. OnlyImages(Below(from))
  BY <1>2, <1>3 DEF OnlyImages
<1>5. OnlyImages(Append(to, Image(d)))
  BY <1>1, <1>2 DEF OnlyImages
<1>6. TopOf(from).kind = "image"
  BY <1>2 DEF OnlyImages, TopOf
<1> QED BY <1>1, <1>2, <1>4, <1>5, <1>6

LEMMA NewestBounded ==
  ASSUME NEW h \in Seq(Entry), NEW d, OnlyImages(h)
  PROVE  LET r == Newest(Append(h, Image(d)), MaxUndo) IN Len(r) <= MaxUndo /\ OnlyImages(r)
<1> DEFINE long == Append(h, Image(d))
           S == Entry \cup {Image(d)}
<1>0. h \in Seq(S)
  OBVIOUS
<1>1. long \in Seq(S) /\ OnlyImages(long) /\ MaxUndo \in Nat /\ Len(long) \in Nat
  BY <1>0, SettingsAssumption DEF Image, OnlyImages
<1> HIDE DEF long, S
<1>2. Len(Newest(long, MaxUndo)) <= MaxUndo
  BY <1>1, NewestType
<1>3. CASE Len(long) > MaxUndo
  <2>1. Newest(long, MaxUndo) = SubSeq(long, Len(long) - MaxUndo + 1, Len(long))
    BY <1>3 DEF Newest
  <2>2. \A i \in 1 .. Len(Newest(long, MaxUndo)) :
          \E j \in 1 .. Len(long) : Newest(long, MaxUndo)[i] = long[j]
    BY <1>1, <1>3, <2>1, SMTT(30)
  <2> QED BY <1>1, <1>2, <2>2 DEF OnlyImages, long
<1>4. CASE ~(Len(long) > MaxUndo)
  BY <1>1, <1>2, <1>4 DEF Newest, long
<1> QED BY <1>3, <1>4

(* As long as no photo is moved or renamed, undo and redo together never   *)
(* hold more operations than the setting allows: an edit frees the redo    *)
(* history and cuts the undo history, undo and redo only pass entries from *)
(* one to the other.  Moves and renames are recorded without the limit     *)
(* (RatioFrame.cpp:1569, 2526), hence the assumption.                      *)
THEOREM HistoryWithinSetting ==
  ASSUME Commands \cap {"move", "rename", "moveNext"} = {}
  PROVE  Spec => []HistoryBounded
<1>1. Init => Bounded
  BY SettingsAssumption DEF Init, Bounded, HistoryBounded, OnlyImages
<1>2. ASSUME TypeOK, Bounded, [Next]_vars PROVE Bounded'
  <2>0. undo \in Seq(Entry) /\ redo \in Seq(Entry) /\ doc \in Doc
    BY <1>2 DEF TypeOK
  <2>1. CASE UNCHANGED <<undo, redo>>
    BY <1>2, <2>1 DEF Bounded, HistoryBounded, OnlyImages
  <2>2. ASSUME NEW d, imageUndoPoint(d) PROVE Bounded'
    <3>1. CASE d.orig = None
      BY <1>2, <2>2, <3>1 DEF imageUndoPoint, Bounded, HistoryBounded, OnlyImages
    <3>2. CASE d.orig # None
      <4>1. undo' = Newest(Append(undo, Image(d)), MaxUndo) /\ redo' = <<>>
        BY <2>2, <3>2 DEF imageUndoPoint
      <4>2. Len(undo') <= MaxUndo /\ OnlyImages(undo)'
        BY <1>2, <2>0, <4>1, NewestBounded DEF Bounded
      <4>3. Len(undo') \in Nat
        <5> DEFINE S == Entry \cup {Image(d)}
        <5>1. undo \in Seq(S)
          BY <2>0
        <5>2. Append(undo, Image(d)) \in Seq(S) /\ MaxUndo \in Nat
          BY <5>1, SettingsAssumption
        <5> HIDE DEF S
        <5>3. undo' \in Seq(S)
          BY <4>1, <5>2, NewestType
        <5> QED BY <5>3
      <4> QED BY <4>1, <4>2, <4>3, SettingsAssumption DEF Bounded, HistoryBounded, OnlyImages
    <3> QED BY <3>1, <3>2
  <2>3. CASE OnImageUndo
    <3>1. undo # <<>> /\ undo' = Below(undo) /\ redo' = Append(redo, Image(doc))
      BY <1>2, <2>0, <2>3, ExchangeBounded DEF OnImageUndo, Bounded
    <3>2. Len(undo') + Len(redo') = Len(undo) + Len(redo)
          /\ OnlyImages(undo') /\ OnlyImages(redo')
      BY <1>2, <2>0, <3>1, ExchangeBounded DEF Bounded
    <3> QED BY <1>2, <3>2 DEF Bounded, HistoryBounded, OnlyImages
  <2>4. CASE OnImageRedo
    <3>1. redo # <<>> /\ redo' = Below(redo) /\ undo' = Append(undo, Image(doc))
      BY <1>2, <2>0, <2>4, ExchangeBounded DEF OnImageRedo, Bounded
    <3>2. Len(redo') + Len(undo') = Len(redo) + Len(undo)
          /\ OnlyImages(undo') /\ OnlyImages(redo')
      BY <1>2, <2>0, <3>1, ExchangeBounded DEF Bounded
    <3>3. Len(redo') \in Nat /\ Len(undo') \in Nat
      BY <2>0, <3>1, TopType, ImageType
    <3> QED BY <1>2, <2>0, <3>2, <3>3 DEF Bounded, HistoryBounded, OnlyImages
  <2>5. CASE undo' = <<>> /\ redo' = <<>>
    BY <2>5, SettingsAssumption DEF Bounded, HistoryBounded, OnlyImages
  <2> QED BY <1>2, <2>1, <2>2, <2>3, <2>4, <2>5, HistorySteps
<1>3. Bounded => HistoryBounded
  BY DEF Bounded
<1> QED BY <1>1, <1>2, <1>3, TypeCorrect, PTL DEF Spec

-----------------------------------------------------------------------------
(* The temporary files.                                                    *)

(* Of the temporary files of d, e has some, as they are.                   *)
TempsAmong(e, d) == \A t \in Nat \cap DOMAIN e : t \in DOMAIN d /\ e[t] = d[t]
(* The names given are those up to fresh.                                  *)
TempsNamed == \A t \in Nat \cap DOMAIN disk : t <= fresh
(* A step makes the next temporary file, if any, and keeps or removes the  *)
(* others.                                                                 *)
MakesNext ==
  fresh' = fresh + 1 /\ \E d, c : TempsAmong(d, disk) /\ disk' = Put(d, fresh + 1, c)
TempsStep == fresh' >= fresh /\ (TempsAmong(disk', disk) \/ MakesNext)

LEMMA TempsOfFiles ==
  ASSUME NEW d
  PROVE  /\ \A ps : TempsAmong(Without(d, ps), d)
         /\ \A p, c : p \notin Nat => TempsAmong(Put(d, p, c), d)
         /\ \A src, dest : dest \notin Nat => TempsAmong(CopyFile(d, src, dest), d)
         /\ \A p, c, asJpeg : p \notin Nat => TempsAmong(SaveFile(d, p, c, asJpeg), d)
         /\ \A src, dest : dest \notin Nat => TempsAmong(RenameFile(d, src, dest), d)
<1> USE DEF TempsAmong
<1>1. \A e, ps : TempsAmong(Without(e, ps), e)
  BY DEF Without
<1>2. \A e, p, c : p \notin Nat => TempsAmong(Put(e, p, c), e)
  BY DEF Put
<1>3. TempsAmong(d, d)
  OBVIOUS
<1>4. ASSUME NEW src, NEW dest, dest \notin Nat
      PROVE  TempsAmong(RenameFile(d, src, dest), d)
  <2>1. \A c : TempsAmong(Put(Without(d, {src}), dest, c), Without(d, {src}))
    BY <1>2, <1>4
  <2>2. \A c : TempsAmong(Put(Without(d, {src}), dest, c), d)
    BY <2>1, <1>1
  <2> QED BY <2>2, <1>3 DEF RenameFile
<1> HIDE DEF TempsAmong
<1>5. \A p, c : p \notin Nat => TempsAmong(Store(d, p, c), d)
  BY <1>2, <1>3 DEF Store
<1>6. \A src, dest : dest \notin Nat => TempsAmong(CopyFile(d, src, dest), d)
  BY <1>3, <1>5 DEF CopyFile
<1>7. \A p, c, asJpeg : p \notin Nat => TempsAmong(SaveFile(d, p, c, asJpeg), d)
  BY <1>3, <1>5 DEF SaveFile
<1> QED BY <1>1, <1>2, <1>4, <1>6, <1>7

LEMMA TempsOfEdits ==
  ASSUME fresh \in Nat, NEW d
  PROVE  /\ TempsAmong(UndoPointDisk(d), disk)
         /\ \A change : CallTool(d, change) => TempsStep
         /\ \A after : ImageManip(d, after) => TempsStep
         /\ \A after : Edit(d, after) => TempsStep
         /\ WriteComment(d) => TempsStep
<1>1. TempsAmong(UndoPointDisk(d), disk)
  BY TempsOfFiles DEF UndoPointDisk, TempsAmong
<1>2. ASSUME NEW change, CallTool(d, change) PROVE TempsStep
  BY <1>1, <1>2 DEF CallTool, TempsStep, MakesNext
<1>3. ASSUME NEW after, ImageManip(d, after) PROVE TempsStep
  BY <1>1, <1>3 DEF ImageManip, TempsStep
<1>4. ASSUME WriteComment(d) PROVE TempsStep
  BY <1>1, <1>3, <1>4 DEF WriteComment, TempsStep, MakesNext
<1> QED BY <1>1, <1>2, <1>3, <1>4 DEF Edit, CallJPEGTranTryPerfect

LEMMA TempsKeptStep == ASSUME fresh \in Nat, TempsAmong(disk', disk), UNCHANGED fresh PROVE TempsStep
  BY DEF TempsStep

LEMMA TempsOfNext == ASSUME TypeOK, Next PROVE TempsStep
<1> USE DEF onlyTodo, notEdited
<1>0. /\ fresh \in Nat /\ doc \in Doc /\ todo \in Seq(CallSet)
      /\ undo \in Seq(Entry) /\ redo \in Seq(Entry) /\ TempsAmong(disk, disk)
  BY DEF TypeOK, TempsAmong
<1>1. CASE UNCHANGED <<disk, fresh>>
  BY <1>0, <1>1 DEF TempsStep
<1>2. CASE EditCommand
  <2>1. CASE OnImageCrop \/ OnImageRotate \/ OnImageFlipHorizontal \/ OnImageFlipVertical
    BY <1>0, <2>1, TempsOfEdits
       DEF OnImageCrop, Crop, OnImageRotate, OnImageFlipHorizontal, OnImageFlipVertical
  <2>2. CASE OnImageJPEGOptimize \/ OnImageJPEGProgressive \/ Resize \/ OnImageInclin
    BY <1>0, <2>2, TempsOfEdits
       DEF OnImageJPEGOptimize, OnImageJPEGProgressive, CallJPEGTranTryPerfect, Resize,
           OnImageInclin, Inclin
  <2>3. CASE \/ OnToggleJPEGLossless \/ OnModeInclin \/ OnModeCrop \/ SelectZone \/ TypeComment
    BY <1>1, <2>3 DEF OnToggleJPEGLossless, OnModeInclin, OnModeCrop, SelectZone, TypeComment
  <2>4. CASE OnImageWriteComment
    BY <1>0, <2>4, TempsOfEdits DEF OnImageWriteComment
  <2> QED BY <1>2, <2>1, <2>2, <2>3, <2>4 DEF EditCommand
<1>3. CASE HistoryCommand
  <2>1. ASSUME NEW h \in Seq(Entry), h # <<>>, UNCHANGED fresh,
               \/ TopOf(h).kind = "image" /\ RestoreImage(TopOf(h))
               \/ TopOf(h).kind = "move" /\ RestoreMove(TopOf(h))
        PROVE  TempsStep
    <3>1. TopOf(h) \in Entry
      BY <2>1, TopType
    <3>2. CASE TopOf(h).kind = "image" /\ RestoreImage(TopOf(h))
      <4>1. \/ disk' = disk
            \/ disk' = Without(disk, Owned({TopOf(h)}))
        BY <3>2 DEF RestoreImage
      <4>2. TempsAmong(disk', disk)
        BY <1>0, <4>1, TempsOfFiles
      <4> QED BY <1>0, <2>1, <4>2, TempsKeptStep
    <3>3. CASE TopOf(h).kind = "move" /\ RestoreMove(TopOf(h))
      <4>1. TopOf(h).src \notin Nat
        BY <3>1, <3>3, FilesAssumption DEF Entry
      <4>2. disk' = RenameFile(disk, TopOf(h).dest, TopOf(h).src)
        BY <3>3 DEF RestoreMove
      <4>3. TempsAmong(disk', disk)
        BY <4>1, <4>2, TempsOfFiles
      <4> QED BY <1>0, <2>1, <4>3, TempsKeptStep
    <3> QED BY <2>1, <3>2, <3>3
  <2> QED BY <1>0, <1>3, <2>1 DEF HistoryCommand, OnImageUndo, OnImageRedo
<1>4. CASE FileCommand
  <2>1. ASSUME NEW dest \in UserFiles, MoveTo(dest) PROVE TempsStep
    <3>1. dest \notin Nat
      BY FilesAssumption
    <3>2. TempsAmong(disk', disk) /\ UNCHANGED fresh
      BY <2>1, <3>1, TempsOfFiles DEF MoveTo
    <3> QED BY <1>0, <3>2, TempsKeptStep
  <2>2. CASE OnFileReload \/ FileSave \/ FileSaveAs \/ OnClose
    BY <1>1, <2>2 DEF OnFileReload, FileSave, FileSaveAs, OnClose
  <2>3. ASSUME NEW name \in UserFiles,
               \/ OnFileOpen(name) \/ LoadFile(name) \/ SelectFile(name)
               \/ OnFileMove(name) \/ OnFileNameEndEdit(name) \/ OnFileSavePath(name)
               \/ \E next \in UserFiles : \/ OnFileMoveAndNext(name, next)
                                          \/ OnFileSavePathAndNext(name, next)
        PROVE  TempsStep
    BY <1>1, <2>1, <2>3 DEF OnFileOpen, LoadFile, SelectFile, OnFileMove, OnFileNameEndEdit,
       OnFileSavePath, OnFileMoveAndNext, OnFileSavePathAndNext
  <2>4. ASSUME NEW next, NEW prev, OnFileDelete(next, prev) PROVE TempsStep
    BY <1>1, <2>4 DEF OnFileDelete
  <2> QED BY <1>4, <2>2, <2>3, <2>4 DEF FileCommand
<1>5. CASE Handler
  <2>0. Head(todo).name \notin Nat \/ todo = <<>>
    BY <1>0, HeadType, FilesAssumption DEF CallSet
  <2>1. CASE ImageLoad
    BY <1>0, <2>1, TempsOfEdits DEF ImageLoad, TempsStep
  <2>2. CASE LoadEnd \/ AutoCropping \/ CropCalled \/ SaveComment
    BY <1>0, <1>1, <2>2, TempsOfEdits
       DEF LoadEnd, CallJHead, AutoCropping, CropCalled, Crop, Inclin, SaveComment
  <2>3. CASE WriteLossless
    <3>1. doc.orig \notin Nat
      BY <1>0, OpenedDoc, FilesAssumption
    <3>2. TempsAmong(Written, disk)
      BY <1>0, <3>1, TempsOfFiles DEF Written
    <3>3. disk' = Written /\ UNCHANGED fresh
      BY <2>3 DEF WriteLossless
    <3> QED BY <1>0, <3>2, <3>3, TempsKeptStep
  <2>4. CASE WriteImage
    <3>1. Settled(doc).file \notin Nat
      <4>1. CASE doc.temp
        BY <1>0, <4>1, OpenedDoc, FilesAssumption DEF Settled, Opened
      <4>2. CASE ~doc.temp
        BY <1>0, <4>2, FilesAssumption DEF Settled, Doc, Opened, NoDocument
      <4> QED BY <4>1, <4>2
    <3> QED BY <1>0, <2>4, <3>1, TempsOfFiles, SMTT(30) DEF WriteImage, TempsStep
  <2>5. CASE ImageSaveAs
    <3>1. Head(todo).name \notin Nat /\ UNCHANGED fresh
      BY <2>0, <2>5 DEF ImageSaveAs, Calling
    <3>2. PICK src, c, asJpeg : \/ disk' = CopyFile(disk, src, Head(todo).name)
                               \/ disk' = SaveFile(disk, Head(todo).name, c, asJpeg)
      BY <2>5 DEF ImageSaveAs
    <3>3. TempsAmong(disk', disk)
      BY <3>1, <3>2, TempsOfFiles
    <3> QED BY <1>0, <3>1, <3>3, TempsKeptStep
  <2>6. CASE DeleteEnd \/ Destroy
    <3>1. UNCHANGED fresh /\ \E ps : disk' = Without(disk, ps)
      BY <2>6 DEF DeleteEnd, Destroy
    <3> QED BY <1>0, <3>1, TempsOfFiles, TempsKeptStep
  <2>7. CASE PromptNo \/ LoadBody \/ Adopt \/ SaveAsEnd
    BY <1>1, <2>7 DEF PromptNo, LoadBody, Adopt, SaveAsEnd
  <2>8. CASE \/ OnDirCtrlChange \/ ImageLoadRefused \/ CleanupDone \/ CleanupAutoSave
             \/ PromptYes \/ PromptCancel \/ LeaveComment \/ WriteRefused \/ DeleteTry
             \/ \E name \in UserFiles \cup {None} : OnFileSaveAs(name)
    BY <1>1, <2>8 DEF OnDirCtrlChange, ImageLoadRefused, CleanupDone, CleanupAutoSave, PromptYes,
       PromptCancel, LeaveComment, WriteRefused, DeleteTry, OnFileSaveAs
  <2> QED BY <1>5, <2>1, <2>2, <2>3, <2>4, <2>5, <2>6, <2>7, <2>8 DEF Handler
<1> QED BY <1>2, <1>3, <1>4, <1>5 DEF Next, Command

(* A step gives no name twice and writes no temporary file again.          *)
LEMMA TempsOfStep ==
  ASSUME TypeOK, TempsNamed, [Next]_vars
  PROVE  /\ TempsNamed'
         /\ UNCHANGED vars \/ \A t \in Nat \cap DOMAIN disk \cap DOMAIN disk' : disk'[t] = disk[t]
<1>0. fresh \in Nat /\ fresh' \in Nat
  BY NextType DEF TypeOK
<1>1. CASE UNCHANGED vars
  BY <1>1 DEF vars, TempsNamed
<1>2. CASE fresh' >= fresh /\ TempsAmong(disk', disk)
  BY <1>0, <1>2 DEF TempsAmong, TempsNamed
<1>3. CASE MakesNext
  <2>1. PICK d, c : /\ TempsAmong(d, disk) /\ fresh' = fresh + 1
                    /\ disk' = Put(d, fresh + 1, c)
    BY <1>3 DEF MakesNext
  <2>2. \A t \in Nat \cap DOMAIN disk' : t = fresh + 1 \/ (t \in DOMAIN disk /\ disk'[t] = disk[t])
    BY <2>1 DEF Put, TempsAmong
  <2> QED BY <1>0, <2>1, <2>2 DEF TempsNamed
<1> QED BY <1>1, <1>2, <1>3, TempsOfNext DEF TempsStep

LEMMA TempsNamedFirst == Init => TempsNamed
  BY FilesAssumption DEF Init, TempsNamed

(* Whatever the photos, the settings and the commands, a temporary file is *)
(* written when it is made and never again: no tool, save, move or undo    *)
(* changes what an entry of the histories has recorded in one.  A name is  *)
(* never given twice, and what is not marked as temporary is not on one,   *)
(* so that Save and Save As write elsewhere (RatioFrame.cpp, OnFileSave,   *)
(* ImageSaveAs, CallJPEGTran).                                             *)
THEOREM TempsWrittenOnce == Spec => TempsNeverRewritten
<1>1. TypeOK /\ TempsNamed /\ [Next]_vars
      => TempsNamed' /\ [\A t \in Nat \cap DOMAIN disk \cap DOMAIN disk' : disk'[t] = disk[t]]_vars
  BY TempsOfStep
<1> QED BY <1>1, TempsNamedFirst, TypeCorrect, PTL DEF Spec, TempsNeverRewritten
=============================================================================
