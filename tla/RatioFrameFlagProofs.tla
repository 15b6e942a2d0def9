------------------------ MODULE RatioFrameFlagProofs ------------------------
(* The temporary flag is never set on a photo, and so no photo is lost;    *)
(* a comment not yet applied marks the document: theorems about the        *)
(* document side of the main window for every set of photos and every      *)
(* length of a session.  The first two leave out the three operations that *)
(* edit inside a load or a save (README, section 4), the third is about    *)
(* them all but the deletion of a photo.                                   *)
EXTENDS RatioFrameProofs

(* No edit happens inside ImageCleanup or at the end of ImageLoad.         *)
NoNestedEdit == ~AutoRot /\ ~AutoCrop /\ "comment" \notin Commands

-----------------------------------------------------------------------------
(* The invariant.                                                          *)

(* The document is on a temporary file if it says so.                      *)
FlagSound(d) == d.temp => d.file \in Nat
SoundEntries(h) == \A e \in Elements(h) : e.kind = "image" => FlagSound(e.doc)

(* A load that may leave the flag on the photo it shows (the one with      *)
(* load_as_original unset): its caller clears the flag afterwards.         *)
ResumesLoad(c) ==
  /\ ~c.original
  /\ \/ c.op \in {"ImageLoad", "LoadBody"}
     \/ c.op \in {"ImageCleanup", "CleanupSave"} /\ c.by = "ImageLoad"
BeforeAdopt(t, i) ==
  IF t[i].op = "ImageLoad"
  THEN i + 1 \in 1 .. Len(t) /\ t[i + 1].op = "Adopt"
  ELSE i + 2 \in 1 .. Len(t) /\ t[i + 1].op = "LoadEnd" /\ t[i + 2].op = "Adopt"
Orderly(t) ==
  \A i \in 1 .. Len(t) : /\ t[i].op # "SaveAsEnd"
                         /\ ResumesLoad(t[i]) => BeforeAdopt(t, i)

(* After a save the flag is clear, and the photo may be loaded again       *)
(* without such care.                                                      *)
Ending(t) == Orderly(t) \/ (t # <<>> /\ t[1].op = "ImageLoad" /\ Orderly(Tail(t)))
ReturnsToSave(t) == Len(t) > 0 /\ t[1].op = "SaveAsEnd" /\ Ending(Tail(t))
CleansUpInSave(t) ==
  Len(t) > 1 /\ t[1].op \in {"ImageCleanup", "CleanupSave"} /\ t[1].by = "nobody"
    /\ ReturnsToSave(Tail(t))
LoadsSaved(t) ==
  Len(t) > 1 /\ ResumesLoad(t[1]) /\ t[1].op # "ImageLoad" /\ t[2].op = "LoadEnd"
    /\ Orderly(Tail(Tail(t)))
Saved(t) == Ending(t) \/ ReturnsToSave(t) \/ CleansUpInSave(t) \/ LoadsSaved(t)

CallsOrderly ==
  \/ Orderly(todo)
  \/ todo # <<>> /\ todo[1].op = "ImageSaveAs" /\ Ending(Tail(todo))
  \/ ~doc.temp /\ ~doc.dirty /\ Saved(todo)
(* Only between the load and the assignments that follow it may the flag   *)
(* be on a photo.                                                          *)
AdoptPending ==
  \/ Calling("Adopt")
  \/ Calling("LoadEnd") /\ Len(todo) > 1 /\ todo[2].op = "Adopt"
FlagInv ==
  /\ CallsOrderly
  /\ FlagSound(doc) \/ AdoptPending
  /\ SoundEntries(undo) /\ SoundEntries(redo)
  /\ ~commented

-----------------------------------------------------------------------------
(* Sequences of calls.                                                     *)
LEMMA PushCall ==
  ASSUME NEW S, NEW c, NEW t \in Seq(S)
  PROVE  /\ Len(<<c>> \o t) = Len(t) + 1
         /\ (<<c>> \o t)[1] = c /\ Head(<<c>> \o t) = c
         /\ \A i \in 1 .. Len(t) : (<<c>> \o t)[i + 1] = t[i]
         /\ Tail(<<c>> \o t) = t /\ <<c>> \o t # <<>>
<1> DEFINE U == S \cup {c}
<1>1. <<c>> \in Seq(U) /\ t \in Seq(U)
  OBVIOUS
<1>2. /\ Len(<<c>> \o t) = Len(t) + 1
      /\ (<<c>> \o t)[1] = c
      /\ \A i \in 1 .. Len(t) : (<<c>> \o t)[i + 1] = t[i]
      /\ <<c>> \o t \in Seq(U)
  BY <1>1, ConcatProperties
<1>3. Head(<<c>> \o t) = c /\ <<c>> \o t # <<>>
  BY <1>2
<1>4. Tail(<<c>> \o t) = t
  BY <1>1, <1>2
<1> QED BY <1>2, <1>3, <1>4

LEMMA TwoCalls == ASSUME NEW V, NEW c \in V, NEW b \in V
                  PROVE  <<c, b>> = <<c>> \o <<b>>
<1> DEFINE p == <<c, b>>
           r == <<c>> \o <<b>>
<1>1. /\ <<c>> \in Seq(V) /\ Len(<<c>>) = 1 /\ <<c>>[1] = c
      /\ <<b>> \in Seq(V) /\ Len(<<b>>) = 1 /\ <<b>>[1] = b
  OBVIOUS
<1>2. p \in Seq(V) /\ Len(p) = 2 /\ p[1] = c /\ p[2] = b
  OBVIOUS
<1>3. /\ r \in Seq(V) /\ Len(r) = 2
      /\ \A i \in 1 .. 2 : r[i] = IF i <= 1 THEN <<c>>[i] ELSE <<b>>[i - 1]
  BY <1>1, ConcatProperties
<1>4. r[1] = c /\ r[2] = b
  BY <1>1, <1>3
<1> HIDE DEF p, r
<1>5. \A i \in 1 .. 2 : p[i] = r[i]
  BY <1>2, <1>4
<1>6. p = r
  BY <1>2, <1>3, <1>5, SeqEqual
<1> QED BY <1>6 DEF p, r

LEMMA PushTwo ==
  ASSUME NEW S, NEW c, NEW b, NEW t \in Seq(S)
  PROVE  <<c, b>> \o t = <<c>> \o (<<b>> \o t)
<1> DEFINE V == S \cup {b, c}
<1>1. <<c>> \in Seq(V) /\ <<b>> \in Seq(V) /\ t \in Seq(V) /\ c \in V /\ b \in V
  OBVIOUS
<1>2. <<c, b>> = <<c>> \o <<b>>
  BY <1>1, TwoCalls
<1>3. (<<c>> \o <<b>>) \o t = <<c>> \o (<<b>> \o t)
  BY <1>1, ConcatAssociative
<1> QED BY <1>2, <1>3

LEMMA TailCalls ==
  ASSUME NEW S, NEW t \in Seq(S), t # <<>>
  PROVE  /\ Tail(t) \in Seq(S) /\ Len(Tail(t)) = Len(t) - 1 /\ Len(t) \in Nat \ {0}
         /\ Head(t) = t[1]
         /\ \A i \in 1 .. Len(t) - 1 : Tail(t)[i] = t[i + 1]
  OBVIOUS

Plain(c) == c.op # "SaveAsEnd" /\ ~ResumesLoad(c)

LEMMA OrderlyEmpty == Orderly(<<>>)
  BY DEF Orderly

LEMMA OrderlyTail == ASSUME NEW S, NEW t \in Seq(S), t # <<>>, Orderly(t)
                     PROVE  Orderly(Tail(t)) /\ t[1].op # "SaveAsEnd"
<1>1. t[1].op # "SaveAsEnd"
  BY TailCalls DEF Orderly
<1>2. SUFFICES ASSUME NEW i \in 1 .. Len(Tail(t))
               PROVE  /\ Tail(t)[i].op # "SaveAsEnd"
                      /\ ResumesLoad(Tail(t)[i]) => BeforeAdopt(Tail(t), i)
  BY <1>1 DEF Orderly
<1>3. i + 1 \in 1 .. Len(t) /\ Tail(t)[i] = t[i + 1]
  BY TailCalls
<1>4. ResumesLoad(t[i + 1]) => BeforeAdopt(t, i + 1)
  BY <1>3 DEF Orderly
<1>5. BeforeAdopt(t, i + 1) => BeforeAdopt(Tail(t), i)
  <2>1. i + 1 + 1 \in 1 .. Len(t) => i + 1 \in 1 .. Len(Tail(t)) /\ Tail(t)[i + 1] = t[i + 1 + 1]
    BY TailCalls
  <2>2. i + 1 + 2 \in 1 .. Len(t) => /\ i + 2 \in 1 .. Len(Tail(t)) /\ Tail(t)[i + 2] = t[i + 1 + 2]
                                    /\ i + 1 + 1 \in 1 .. Len(t)
    BY TailCalls
  <2> QED BY <1>3, <2>1, <2>2 DEF BeforeAdopt
<1> QED BY <1>3, <1>4, <1>5 DEF Orderly

LEMMA OrderlyPush ==
  ASSUME NEW S, NEW t \in Seq(S), Orderly(t), NEW c, c.op # "SaveAsEnd",
         ResumesLoad(c) => BeforeAdopt(<<c>> \o t, 1)
  PROVE  Orderly(<<c>> \o t)
<1> DEFINE r == <<c>> \o t
<1>1. SUFFICES ASSUME NEW i \in 1 .. Len(r)
               PROVE  /\ r[i].op # "SaveAsEnd"
                      /\ ResumesLoad(r[i]) => BeforeAdopt(r, i)
  BY DEF Orderly
<1>2. CASE i = 1
  BY <1>2, PushCall
<1>3. CASE i # 1
  <2>1. /\ i - 1 \in 1 .. Len(t) /\ Len(r) = Len(t) + 1 /\ i - 1 + 1 = i
        /\ \A j \in 1 .. Len(t) : r[j + 1] = t[j]
    BY <1>3, PushCall
  <2>2. r[i] = t[i - 1]
    BY <2>1
  <2>3. ResumesLoad(t[i - 1]) => BeforeAdopt(t, i - 1)
    BY <2>1 DEF Orderly
  <2>4. BeforeAdopt(t, i - 1) => BeforeAdopt(r, i)
    <3>1. i - 1 + 1 \in 1 .. Len(t) => i + 1 \in 1 .. Len(r) /\ r[i + 1] = t[i - 1 + 1]
      BY <2>1
    <3>2. i - 1 + 2 \in 1 .. Len(t) => /\ i + 2 \in 1 .. Len(r) /\ r[i + 2] = t[i - 1 + 2]
                                      /\ i - 1 + 1 \in 1 .. Len(t)
      BY <2>1
    <3> HIDE DEF r
    <3> QED BY <2>2, <3>1, <3>2 DEF BeforeAdopt
  <2> QED BY <2>1, <2>2, <2>3, <2>4 DEF Orderly
<1> QED BY <1>2, <1>3

(* The three ways calls are put before others.                             *)
LEMMA OrderlyPlain == ASSUME NEW S, NEW t \in Seq(S), Orderly(t), NEW c, Plain(c)
                      PROVE  Orderly(<<c>> \o t)
  BY OrderlyPush DEF Plain

LEMMA OrderlyLoad ==
  ASSUME NEW S, NEW t \in Seq(S), Orderly(t), t # <<>>, t[1].op = "Adopt", NEW c, c.op = "ImageLoad"
  PROVE  Orderly(<<c>> \o t)
<1>1. /\ 1 + 1 \in 1 .. Len(<<c>> \o t) /\ (<<c>> \o t)[1 + 1] = t[1] /\ (<<c>> \o t)[1] = c
  BY PushCall, TailCalls
<1> QED BY <1>1, OrderlyPush DEF BeforeAdopt

LEMMA OrderlyInner ==
  ASSUME NEW S, NEW t \in Seq(S), Orderly(t), Len(t) > 1, t[1].op = "LoadEnd", t[2].op = "Adopt",
         NEW c, c.op \notin {"SaveAsEnd", "ImageLoad"}
  PROVE  Orderly(<<c>> \o t)
<1>1. Len(<<c>> \o t) = Len(t) + 1 /\ Len(t) \in Nat
  BY PushCall
<1>2. /\ 1 + 2 \in 1 .. Len(<<c>> \o t)
      /\ (<<c>> \o t)[1 + 1] = t[1] /\ (<<c>> \o t)[2 + 1] = t[2] /\ (<<c>> \o t)[1] = c
  BY <1>1, PushCall
<1>3. 2 + 1 = 3 /\ 1 + 2 = 3
  OBVIOUS
<1>4. BeforeAdopt(<<c>> \o t, 1)
  BY <1>2, <1>3 DEF BeforeAdopt
<1> QED BY <1>4, OrderlyPush

LEMMA OrderlyFewCalls ==
  ASSUME NEW a, NEW b
  PROVE  /\ Plain(a) => Orderly(<<a>>)
         /\ Plain(a) /\ Plain(b) => Orderly(<<a, b>>)
         /\ a.op = "ImageLoad" /\ b.op = "Adopt" => Orderly(<<a, b>>)
<1>1. /\ Len(<<a>>) = 1 /\ <<a>>[1] = a
      /\ Len(<<a, b>>) = 2 /\ <<a, b>>[1] = a /\ <<a, b>>[2] = b
  OBVIOUS
<1>2. ASSUME NEW i \in 1 .. 1 PROVE i = 1
  OBVIOUS
<1>3. ASSUME NEW i \in 1 .. 2 PROVE i = 1 \/ i = 2
  OBVIOUS
<1>4. Plain(a) => Orderly(<<a>>)
  BY <1>1, <1>2 DEF Orderly, Plain
<1>5. Plain(a) /\ Plain(b) => Orderly(<<a, b>>)
  BY <1>1, <1>3 DEF Orderly, Plain
<1>6. a.op = "ImageLoad" /\ b.op = "Adopt" => Orderly(<<a, b>>)
  BY <1>1, <1>3 DEF Orderly, BeforeAdopt, ResumesLoad
<1> QED BY <1>4, <1>5, <1>6

-----------------------------------------------------------------------------
(* What a step does to the document and to the entries.                    *)
LEMMA HistoryElements ==
  ASSUME NEW S, NEW h \in Seq(S)
  PROVE  /\ \A e \in S : Elements(Append(h, e)) \subseteq Elements(h) \cup {e}
         /\ \A n \in Nat : Elements(Newest(h, n)) \subseteq Elements(h)
         /\ h # <<>> => TopOf(h) \in Elements(h) /\ Elements(Below(h)) \subseteq Elements(h)
<1>1. ASSUME NEW e \in S PROVE Elements(Append(h, e)) \subseteq Elements(h) \cup {e}
  <2>1. /\ DOMAIN Append(h, e) = 1 .. Len(h) + 1 /\ DOMAIN h = 1 .. Len(h)
        /\ Append(h, e)[Len(h) + 1] = e
        /\ \A i \in 1 .. Len(h) : Append(h, e)[i] = h[i]
    OBVIOUS
  <2> QED BY <2>1 DEF Elements
<1>2. ASSUME NEW n \in Nat PROVE Elements(Newest(h, n)) \subseteq Elements(h)
  <2>1. CASE Len(h) > n
    <3> DEFINE s == SubSeq(h, Len(h) - n + 1, Len(h))
    <3>1. /\ DOMAIN s = 1 .. n
          /\ \A i \in 1 .. n : s[i] = h[Len(h) - n + i] /\ Len(h) - n + i \in DOMAIN h
      BY <2>1
    <3>2. Newest(h, n) = s
      BY <2>1 DEF Newest
    <3> HIDE DEF s
    <3> QED BY <3>1, <3>2 DEF Elements
  <2> QED BY <2>1 DEF Newest
<1>3. ASSUME h # <<>> PROVE TopOf(h) \in Elements(h) /\ Elements(Below(h)) \subseteq Elements(h)
  <2>1. Len(h) \in DOMAIN h
    BY <1>3
  <2>2. DOMAIN Below(h) = 1 .. Len(h) - 1 /\ \A i \in 1 .. Len(h) - 1 : Below(h)[i] = h[i]
    BY <1>3, <2>1, SubSeqProperties DEF Below
  <2> QED BY <2>1, <2>2 DEF Elements, TopOf
<1> QED BY <1>1, <1>2, <1>3

LEMMA SoundAppend ==
  ASSUME NEW h \in Seq(Entry), SoundEntries(h), NEW e \in Entry, e.kind = "image" => FlagSound(e.doc)
  PROVE  SoundEntries(Append(h, e))
  BY HistoryElements DEF SoundEntries

LEMMA SoundImage == ASSUME NEW d \in Doc, FlagSound(d)
                    PROVE  Image(d) \in Entry /\ Image(d).kind = "image" /\ FlagSound(Image(d).doc)
<1>1. Image(d) \in Entry
  BY ImageType
<1>2. [d EXCEPT !.shown = Blank].temp = d.temp /\ [d EXCEPT !.shown = Blank].file = d.file
  BY DEF Doc, Opened, NoDocument
<1> QED BY <1>1, <1>2 DEF Image, FlagSound

LEMMA UndoPointSound ==
  ASSUME TypeOK, SoundEntries(undo), SoundEntries(redo), NEW d \in Doc, FlagSound(d), imageUndoPoint(d)
  PROVE  SoundEntries(undo') /\ SoundEntries(redo')
<1>1. undo \in Seq(Entry) /\ MaxUndo \in Nat
  BY SettingsAssumption DEF TypeOK
<1>2. SoundEntries(Append(undo, Image(d))) /\ Append(undo, Image(d)) \in Seq(Entry)
  BY <1>1, SoundImage, SoundAppend
<1>3. SoundEntries(Newest(Append(undo, Image(d)), MaxUndo))
  BY <1>1, <1>2, HistoryElements DEF SoundEntries
<1>4. SoundEntries(<<>>)
  BY DEF SoundEntries, Elements
<1> QED BY <1>3, <1>4 DEF imageUndoPoint

(* An edit of a sound document.                                            *)
EditSound == SoundEntries(undo') /\ SoundEntries(redo') /\ FlagSound(doc')

LEMMA CallToolSound ==
  ASSUME TypeOK, SoundEntries(undo), SoundEntries(redo), NEW d \in Opened, FlagSound(d),
         NEW change, CallTool(d, change)
  PROVE  EditSound
<1>1. SoundEntries(undo') /\ SoundEntries(redo')
  BY UndoPointSound DEF CallTool, Doc
<1>2. fresh + 1 \in Nat
  BY DEF TypeOK
<1>3. doc'.file = fresh + 1
  <2>1. ASSUME NEW x, doc' = [Working(d) EXCEPT !.shown = x, !.zone = FALSE, !.line = FALSE]
        PROVE  doc'.file = fresh + 1
    BY <2>1 DEF Working, Opened
  <2>2. ASSUME doc' = Working(d) PROVE doc'.file = fresh + 1
    BY <2>2 DEF Working, Opened
  <2> QED BY <2>1, <2>2 DEF CallTool
<1> QED BY <1>1, <1>2, <1>3 DEF EditSound, FlagSound

LEMMA ImageManipSound ==
  ASSUME TypeOK, SoundEntries(undo), SoundEntries(redo), NEW d \in Opened, FlagSound(d),
         NEW after \in Opened, FlagSound(after), ImageManip(d, after)
  PROVE  EditSound
<1>1. SoundEntries(undo') /\ SoundEntries(redo')
  BY UndoPointSound DEF ImageManip, Doc
<1>2. doc'.temp = after.temp /\ doc'.file = after.file
  BY DEF ImageManip, Opened
<1> QED BY <1>1, <1>2 DEF EditSound, FlagSound

LEMMA FlagsSound == ASSUME NEW d \in Opened, FlagSound(d)
                    PROVE  FlagSound(Dirty(d)) /\ FlagSound(NoTracker(d))
  BY DEF Dirty, NoTracker, FlagSound, Opened

LEMMA EditsSound ==
  ASSUME TypeOK, SoundEntries(undo), SoundEntries(redo), NEW d \in Opened, FlagSound(d),
         NEW after \in Opened, FlagSound(after), Edit(d, after)
  PROVE  EditSound
  BY CallToolSound, ImageManipSound DEF Edit, CallJPEGTranTryPerfect

-----------------------------------------------------------------------------
(* The invariant holds in every step.                                      *)
LEMMA SoundDocument == ASSUME FlagInv, ~Calling("Adopt"), ~Calling("LoadEnd")
                       PROVE  FlagSound(doc)
  BY DEF FlagInv, AdoptPending

LEMMA FlagInvAfterEdit ==
  ASSUME EditSound, Orderly(todo'), ~commented'
  PROVE  FlagInv'
  BY DEF EditSound, FlagInv, CallsOrderly

LEMMA EditCommandFlags == ASSUME TypeOK, FlagInv, NoNestedEdit, EditCommand PROVE FlagInv'
<1> USE DEF notEdited
<1>0. /\ doc \in Opened /\ Dirty(doc) \in Opened /\ NoTracker(Dirty(doc)) \in Opened
      /\ todo = <<>> /\ Orderly(todo) /\ ~commented
      /\ SoundEntries(undo) /\ SoundEntries(redo)
  <2>1. doc.orig # None /\ todo = <<>>
    BY DEF EditCommand, OnImageCrop, OnImageRotate, OnImageFlipHorizontal, OnImageFlipVertical,
           OnImageJPEGOptimize, OnImageJPEGProgressive, Resize, OnImageInclin,
           OnToggleJPEGLossless, OnModeInclin, OnModeCrop, SelectZone, TypeComment,
           OnImageWriteComment, MayEdit, May, Idle
  <2> QED BY <2>1, MayType, OrderlyEmpty DEF FlagInv
<1>1. FlagSound(doc) /\ FlagSound(Dirty(doc)) /\ FlagSound(NoTracker(Dirty(doc)))
  <2>1. FlagSound(doc)
    BY <1>0, SoundDocument DEF Calling
  <2> QED BY <1>0, <2>1, FlagsSound
<1>2. CASE OnImageCrop
  BY <1>0, <1>1, <1>2, EditsSound, FlagInvAfterEdit DEF OnImageCrop, Crop
<1>3. CASE OnImageRotate
  BY <1>0, <1>1, <1>3, EditsSound, FlagInvAfterEdit DEF OnImageRotate
<1>4. CASE OnImageFlipHorizontal
  BY <1>0, <1>1, <1>4, EditsSound, FlagInvAfterEdit DEF OnImageFlipHorizontal
<1>5. CASE OnImageFlipVertical
  BY <1>0, <1>1, <1>5, EditsSound, FlagInvAfterEdit DEF OnImageFlipVertical
<1>6. CASE OnImageJPEGOptimize \/ OnImageJPEGProgressive
  BY <1>0, <1>1, <1>6, CallToolSound, FlagInvAfterEdit
     DEF OnImageJPEGOptimize, OnImageJPEGProgressive, CallJPEGTranTryPerfect
<1>7. CASE Resize
  <2> DEFINE after == [NoTracker(Dirty(doc)) EXCEPT !.lossless = FALSE]
  <2>1. after \in Opened /\ FlagSound(after)
    BY <1>0, <1>1 DEF Opened, FlagSound
  <2> QED BY <1>0, <1>1, <1>7, <2>1, ImageManipSound, FlagInvAfterEdit DEF Resize
<1>8. CASE OnImageInclin
  <2>1. ASSUME NEW zone \in BOOLEAN
        PROVE  LET after == [Dirty(doc) EXCEPT !.line = FALSE, !.zone = zone, !.inclin = FALSE]
               IN  after \in Opened /\ FlagSound(after)
    BY <1>0, <1>1, ZenonT(60) DEF Opened, FlagSound
  <2>2. EditSound
    BY <1>0, <1>1, <1>8, <2>1, ImageManipSound DEF OnImageInclin, Inclin
  <2>3. Orderly(todo')
    <3>1. Plain(Call("OnImageCrop", None))
      BY DEF Plain, Call, ResumesLoad
    <3>2. <<Call("OnImageCrop", None)>> \o <<>> = <<Call("OnImageCrop", None)>>
      OBVIOUS
    <3> QED BY <1>8, <3>1, <3>2, OrderlyFewCalls, OrderlyEmpty DEF OnImageInclin, Inclin
  <2> QED BY <1>0, <1>8, <2>2, <2>3, FlagInvAfterEdit DEF OnImageInclin
<1>9. CASE OnToggleJPEGLossless \/ OnModeInclin \/ OnModeCrop \/ SelectZone
  <2>1. doc'.temp = doc.temp /\ doc'.file = doc.file /\ UNCHANGED <<undo, redo, todo, commented>>
    BY <1>0, <1>9 DEF Opened, OnToggleJPEGLossless, OnModeInclin, OnModeCrop, SelectZone
  <2> QED BY <1>0, <1>1, <2>1, FlagInvAfterEdit DEF EditSound, FlagSound
<1>10. CASE TypeComment \/ OnImageWriteComment
  BY <1>10 DEF NoNestedEdit, TypeComment, OnImageWriteComment, May
<1> QED BY <1>2, <1>3, <1>4, <1>5, <1>6, <1>7, <1>8, <1>9, <1>10 DEF EditCommand

LEMMA HistoryCommandFlags == ASSUME TypeOK, FlagInv, HistoryCommand PROVE FlagInv'
<1>0. /\ undo \in Seq(Entry) /\ redo \in Seq(Entry) /\ doc \in Doc
      /\ SoundEntries(undo) /\ SoundEntries(redo) /\ FlagSound(doc)
      /\ todo = <<>> /\ todo' = todo /\ Orderly(todo') /\ ~commented
  BY SoundDocument, OrderlyEmpty
     DEF TypeOK, FlagInv, Calling, HistoryCommand, OnImageUndo, OnImageRedo, Idle
<1>1. ASSUME NEW from \in Seq(Entry), NEW to \in Seq(Entry), from # <<>>,
             SoundEntries(from), SoundEntries(to)
      PROVE  /\ SoundEntries(Below(from)) /\ SoundEntries(Append(to, Image(doc)))
             /\ TopOf(from) \in Entry
             /\ TopOf(from).kind = "image" => FlagSound(TopOf(from).doc)
             /\ TopOf(from).kind = "move" =>
                  SoundEntries(Append(Append(to, Image(doc)), TopOf(from)))
  <2>1. TopOf(from) \in Elements(from) /\ Elements(Below(from)) \subseteq Elements(from)
    BY <1>1, HistoryElements
  <2>2. TopOf(from) \in Entry
    BY <1>1, TopType
  <2>3. SoundEntries(Append(to, Image(doc))) /\ Append(to, Image(doc)) \in Seq(Entry)
    BY <1>0, <1>1, SoundImage, SoundAppend
  <2>4. SoundEntries(Below(from)) /\ (TopOf(from).kind = "image" => FlagSound(TopOf(from).doc))
    BY <1>1, <2>1 DEF SoundEntries
  <2>5. TopOf(from).kind = "move" => SoundEntries(Append(Append(to, Image(doc)), TopOf(from)))
    BY <2>2, <2>3, SoundAppend
  <2> QED BY <2>2, <2>3, <2>4, <2>5
<1>2. ASSUME NEW e \in Entry, e.kind = "image", FlagSound(e.doc), RestoreImage(e)
      PROVE  FlagSound(doc') /\ ~commented'
  <2>1. Restorable(e) => doc'.temp = e.doc.temp /\ doc'.file = e.doc.file
    BY <1>2 DEF RestoreImage, Restored, Entry, Doc, Opened, NoDocument
  <2> QED BY <1>0, <1>2, <2>1 DEF RestoreImage, FlagSound
<1>3. ASSUME NEW e \in Entry, e.kind = "move", RestoreMove(e)
      PROVE  FlagSound(doc') /\ ~commented'
  <2>1. e.src \in UserFiles /\ e.dest \in UserFiles
    BY <1>3 DEF Entry
  <2>2. doc'.temp = doc.temp /\ (doc.temp => doc'.file = doc.file)
    BY <1>0, <1>3, <2>1, FilesAssumption
       DEF RestoreMove, Renamed, Doc, Opened, NoDocument, FlagSound
  <2> QED BY <1>0, <1>3, <2>2 DEF RestoreMove, FlagSound
<1>4. CASE OnImageUndo
  BY <1>0, <1>1, <1>2, <1>3, <1>4, FlagInvAfterEdit DEF OnImageUndo, EditSound
<1>5. CASE OnImageRedo
  BY <1>0, <1>1, <1>2, <1>3, <1>5, FlagInvAfterEdit DEF OnImageRedo, EditSound
<1> QED BY <1>4, <1>5 DEF HistoryCommand

(* A step that changes neither the document nor the entries.               *)
LEMMA FlagInvAfterCalls ==
  ASSUME FlagInv, FlagSound(doc), UNCHANGED <<doc, undo, redo, commented>>, Orderly(todo')
  PROVE  FlagInv'
  BY DEF FlagInv, CallsOrderly

LEMMA MoveFlags ==
  ASSUME TypeOK, FlagInv, doc.orig # None, FlagSound(doc), NEW dest \in UserFiles, MoveTo(dest),
         Orderly(todo')
  PROVE  FlagInv'
<1>0. doc \in Opened /\ doc.orig \in UserFiles /\ undo \in Seq(Entry)
  BY MayType DEF TypeOK, Opened
<1>1. FlagSound(doc')
  <2>1. doc'.temp = doc.temp /\ (doc.temp => doc'.file = doc.file)
    BY <1>0, FilesAssumption DEF MoveTo, Renamed, Opened, FlagSound
  <2> QED BY <2>1 DEF FlagSound
<1>2. Move(doc.orig, dest) \in Entry /\ Move(doc.orig, dest).kind # "image"
  BY <1>0 DEF Move, Entry
<1>3. SoundEntries(undo') /\ SoundEntries(redo')
  BY <1>0, <1>2, SoundAppend DEF MoveTo, FlagInv
<1> QED BY <1>1, <1>3, FlagInvAfterEdit DEF EditSound, MoveTo, notEdited, FlagInv

LEMMA FileCommandFlags == ASSUME TypeOK, FlagInv, FileCommand PROVE FlagInv'
<1>0. todo = <<>> /\ FlagSound(doc)
  <2>1. todo = <<>>
    BY DEF FileCommand, OnFileReload, FileSave, FileSaveAs, OnClose, OnFileOpen, LoadFile,
           SelectFile, OnFileMove, OnFileNameEndEdit, OnFileSavePath, OnFileMoveAndNext,
           OnFileSavePathAndNext, OnFileDelete, May, Idle
  <2> QED BY <2>1, SoundDocument DEF Calling
<1> USE DEF onlyTodo
<1>1. CASE OnFileReload
  <2>1. Orderly(todo')
    BY <1>1, OrderlyFewCalls DEF OnFileReload, LoadCall, Call
  <2>2. doc'.temp = doc.temp /\ doc'.file = doc.file
    BY <1>1, MayType DEF OnFileReload, May, Opened
  <2> QED BY <1>0, <1>1, <2>1, <2>2, FlagInvAfterEdit
          DEF OnFileReload, EditSound, FlagSound, FlagInv, notEdited
<1>2. CASE FileSave \/ FileSaveAs \/ OnClose
  <2>1. /\ Plain(Call("OnFileSave", None)) /\ Plain(Call("OnFileSaveAs", None))
        /\ Plain(CleanupFor("OnClose", None, FALSE))
    BY DEF Plain, ResumesLoad, Call, CleanupFor
  <2> QED BY <1>0, <1>2, <2>1, OrderlyFewCalls, FlagInvAfterCalls DEF FileSave, FileSaveAs, OnClose
<1>3. ASSUME NEW name \in UserFiles,
             OnFileOpen(name) \/ LoadFile(name) \/ SelectFile(name) \/ OnFileSavePath(name)
      PROVE  FlagInv'
  <2>1. /\ Plain(CleanupFor("OnFileOpen", name, FALSE)) /\ Plain(CleanupFor("LoadFile", name, TRUE))
        /\ Plain(Call("OnDirCtrlChange", name)) /\ Plain(SavePathCall(name))
    BY DEF Plain, ResumesLoad, Call, CleanupFor, SavePathCall
  <2> QED BY <1>0, <1>3, <2>1, OrderlyFewCalls, FlagInvAfterCalls
          DEF OnFileOpen, LoadFile, SelectFile, OnFileSavePath
<1>4. ASSUME NEW name \in UserFiles, OnFileMove(name) \/ OnFileNameEndEdit(name)
      PROVE  FlagInv'
  BY <1>0, <1>4, MoveFlags, OrderlyEmpty DEF OnFileMove, OnFileNameEndEdit, May
<1>5. ASSUME NEW name \in UserFiles, NEW next \in UserFiles,
             OnFileMoveAndNext(name, next) \/ OnFileSavePathAndNext(name, next)
      PROVE  FlagInv'
  <2>1. Plain(SavePathCall(name)) /\ Plain(Call("OnDirCtrlChange", next))
    BY DEF Plain, ResumesLoad, Call, SavePathCall
  <2>2. Orderly(todo')
    BY <1>5, <2>1, OrderlyFewCalls DEF OnFileMoveAndNext, OnFileSavePathAndNext
  <2> QED BY <1>0, <1>5, <2>2, MoveFlags, FlagInvAfterCalls
          DEF OnFileMoveAndNext, OnFileSavePathAndNext, May
<1>6. ASSUME NEW next \in UserFiles \cup {None}, NEW prev \in UserFiles \cup {None},
             OnFileDelete(next, prev)
      PROVE  FlagInv'
  <2> DEFINE try == [Call("DeleteTry", doc.orig) EXCEPT !.other = prev]
             end == Call("DeleteEnd", doc.orig)
             rest == <<try, end>>
             select == Call("OnDirCtrlChange", next)
  <2>1. Plain(select) /\ Plain(try) /\ Plain(end)
    BY DEF Plain, ResumesLoad, Call
  <2>3. /\ todo' = (IF next = None THEN <<>> ELSE <<select>>) \o rest
        /\ UNCHANGED <<doc, undo, redo, commented>>
    BY <1>6 DEF OnFileDelete
  <2> HIDE DEF try, end, select
  <2>2. Orderly(rest) /\ rest \in Seq({try, end})
    <3>1. Orderly(<<try, end>>)
      BY <2>1, OrderlyFewCalls
    <3>2. <<try, end>> \in Seq({try, end})
      OBVIOUS
    <3> QED BY <3>1, <3>2
  <2> HIDE DEF rest
  <2>4. <<>> \o rest = rest
    BY <2>2
  <2>5. Orderly(<<select>> \o rest)
    BY <2>1, <2>2, OrderlyPlain
  <2>6. Orderly(todo')
    BY <2>2, <2>3, <2>4, <2>5
  <2> QED BY <1>0, <2>3, <2>6, FlagInvAfterCalls
<1> QED BY <1>1, <1>2, <1>3, <1>4, <1>5, <1>6 DEF FileCommand

-----------------------------------------------------------------------------
(* One step of a handler.                                                  *)

(* All but a few calls are made from an orderly stack.                     *)
LEMMA HandlerContext ==
  ASSUME TypeOK, FlagInv, todo # <<>>
  PROVE  /\ Head(todo) = todo[1] /\ todo \in Seq(CallSet) /\ Tail(todo) \in Seq(CallSet)
         /\ Head(todo) \in CallSet
         /\ todo[1].op \notin {"ImageLoad", "LoadBody", "ImageCleanup", "CleanupSave",
                               "SaveAsEnd", "ImageSaveAs"} => Orderly(todo)
         /\ doc.dirty => Orderly(todo) \/ todo[1].op = "ImageSaveAs"
         /\ Orderly(todo) => Orderly(Tail(todo))
         /\ todo[1].op \notin {"Adopt", "LoadEnd"} => FlagSound(doc)
<1>1. /\ Head(todo) = todo[1] /\ todo \in Seq(CallSet) /\ Tail(todo) \in Seq(CallSet)
      /\ Head(todo) \in CallSet
  BY TailCalls, PendingType DEF TypeOK
<1>2. Orderly(todo) => Orderly(Tail(todo))
  BY <1>1, OrderlyTail
<1>3. todo[1].op \notin {"Adopt", "LoadEnd"} => FlagSound(doc)
  BY <1>1, SoundDocument DEF Calling
<1>4. todo[1].op \notin {"ImageLoad", "LoadBody", "ImageCleanup", "CleanupSave",
                        "SaveAsEnd", "ImageSaveAs"} => Orderly(todo)
  BY DEF FlagInv, CallsOrderly, Saved, Ending, ReturnsToSave, CleansUpInSave, LoadsSaved, ResumesLoad
<1>5. doc.dirty => Orderly(todo) \/ todo[1].op = "ImageSaveAs"
  BY DEF FlagInv, CallsOrderly
<1> QED BY <1>1, <1>2, <1>3, <1>4, <1>5

LEMMA LoadFlags == ASSUME TypeOK, FlagInv, OnDirCtrlChange \/ ImageLoad \/ ImageLoadRefused
                   PROVE  FlagInv'
<1> DEFINE c == Head(todo)
           rest == Tail(todo)
<1>0. /\ c = todo[1] /\ todo # <<>> /\ todo \in Seq(CallSet) /\ rest \in Seq(CallSet)
      /\ Orderly(todo) => Orderly(rest)
      /\ FlagSound(doc) /\ ~commented
  BY HandlerContext DEF OnDirCtrlChange, ImageLoad, ImageLoadRefused, Calling, FlagInv
<1>1. CASE OnDirCtrlChange
  <2>1. Orderly(rest)
    BY <1>0, <1>1, HandlerContext DEF OnDirCtrlChange, Calling
  <2>2. Plain(CleanupFor("LoadFile", c.name, TRUE))
    BY DEF Plain, ResumesLoad, CleanupFor, Call
  <2>3. Orderly(todo')
    BY <1>0, <1>1, <2>1, <2>2, OrderlyPlain DEF OnDirCtrlChange
  <2> QED BY <1>0, <1>1, <2>3, FlagInvAfterCalls DEF OnDirCtrlChange, onlyTodo
<1>2. Calling("ImageLoad") => Orderly(rest)
  BY <1>0 DEF Calling, FlagInv, CallsOrderly, Saved, Ending, ReturnsToSave, CleansUpInSave, LoadsSaved
<1>3. CASE ImageLoadRefused
  BY <1>0, <1>2, <1>3, FlagInvAfterCalls DEF ImageLoadRefused, onlyTodo
<1>4. CASE ImageLoad
  <2> DEFINE a == CleanupFor("ImageLoad", c.name, c.original)
             b == Call("LoadEnd", None)
  <2>1. SoundEntries(undo') /\ SoundEntries(redo') /\ UNCHANGED <<doc, commented>>
    BY <1>0, <1>4, UndoPointSound DEF ImageLoad, FlagInv, TypeOK
  <2>2. Plain(b) /\ a.op = "ImageCleanup" /\ (ResumesLoad(a) <=> ~c.original)
        /\ (ResumesLoad(c) <=> ~c.original) /\ b.op = "LoadEnd"
    BY <1>4 DEF Plain, ResumesLoad, CleanupFor, Call, ImageLoad, Calling
  <2>3. todo' = <<a, b>> \o rest /\ Orderly(rest)
    BY <1>2, <1>4 DEF ImageLoad
  <2> HIDE DEF a, b, c, rest
  <2> DEFINE t == <<b>> \o rest
  <2>4. /\ todo' = <<a>> \o t /\ Orderly(t) /\ t[1] = b /\ Tail(t) = rest /\ t \in Seq(CallSet \cup {b})
        /\ Len(t) = Len(rest) + 1
        /\ Len(rest) > 0 => t[2] = rest[1]
    <3>1. todo' = <<a>> \o t
      BY <1>0, <2>3, PushTwo
    <3>2. Orderly(t)
      BY <1>0, <2>2, <2>3, OrderlyPlain
    <3>3. Len(t) = Len(rest) + 1 /\ t[1] = b /\ Tail(t) = rest /\ \A i \in 1 .. Len(rest) : t[i + 1] = rest[i]
      BY <1>0, PushCall
    <3>4. Len(rest) > 0 => t[2] = rest[1]
      <4>1. Len(rest) > 0 => 1 \in 1 .. Len(rest)
        BY <1>0
      <4>2. 1 + 1 = 2
        OBVIOUS
      <4> QED BY <3>3, <4>1, <4>2
    <3>5. t \in Seq(CallSet \cup {b})
      BY <1>0
    <3> QED BY <3>1, <3>2, <3>3, <3>4, <3>5
  <2> HIDE DEF t
  <2>5. CASE c.original
    BY <1>0, <2>1, <2>2, <2>4, <2>5, OrderlyPlain, FlagInvAfterEdit DEF EditSound, FlagSound, Plain
  <2>6. CASE ~c.original /\ Orderly(todo)
    <3>1. 1 \in 1 .. Len(todo) /\ BeforeAdopt(todo, 1)
      BY <1>0, <2>2, <2>6, TailCalls DEF Orderly
    <3>2. Len(rest) > 0 /\ rest[1].op = "Adopt"
      BY <1>0, <1>4, <3>1, TailCalls DEF BeforeAdopt, ImageLoad, Calling, rest, c
    <3>3. Len(t) > 1 /\ t[1].op = "LoadEnd" /\ t[2].op = "Adopt"
      BY <1>0, <2>2, <2>4, <3>2
    <3>4. Orderly(todo')
      BY <2>2, <2>4, <3>3, OrderlyInner
    <3> QED BY <1>0, <2>1, <3>4, FlagInvAfterEdit DEF EditSound, FlagSound
  <2>7. CASE ~c.original /\ ~Orderly(todo)
    <3>1. ~doc.temp /\ ~doc.dirty
      BY <1>0, <1>4, <2>7 DEF FlagInv, CallsOrderly, ImageLoad, Calling
    <3>2. todo'[1] = a /\ Tail(todo') = t /\ Len(todo') > 1 /\ todo'[2] = b
      <4>1. Len(t) \in Nat \ {0} /\ Len(todo') = Len(t) + 1 /\ todo'[1] = a /\ Tail(todo') = t
            /\ \A i \in 1 .. Len(t) : todo'[i + 1] = t[i]
        BY <1>0, <2>4, PushCall
      <4>2. 1 \in 1 .. Len(t) /\ 1 + 1 = 2
        BY <4>1
      <4> QED BY <2>4, <4>1, <4>2
    <3>3. LoadsSaved(todo')
      BY <2>2, <2>3, <2>4, <2>7, <3>2 DEF LoadsSaved
    <3> QED BY <1>0, <2>1, <3>1, <3>3 DEF FlagInv, CallsOrderly, Saved, FlagSound
  <2> QED BY <2>5, <2>6, <2>7
<1> QED BY <1>1, <1>3, <1>4

LEMMA LoadBodyFlags == ASSUME TypeOK, FlagInv, LoadBody PROVE FlagInv'
<1> DEFINE c == Head(todo)
           rest == Tail(todo)
<1>0. /\ c = todo[1] /\ c.op = "LoadBody" /\ todo # <<>> /\ todo \in Seq(CallSet) /\ rest \in Seq(CallSet)
      /\ Orderly(todo) => Orderly(rest)
      /\ todo' = rest /\ ~commented' /\ SoundEntries(undo') /\ SoundEntries(redo')
  BY HandlerContext DEF LoadBody, Calling, FlagInv
<1>1. doc'.temp = (IF Adopts(c) THEN FALSE ELSE doc.temp)
  BY DEF LoadBody, TypeOK, Doc, Opened, NoDocument
<1>2. CASE Adopts(c) /\ Orderly(todo)
  BY <1>0, <1>1, <1>2, FlagInvAfterEdit DEF EditSound, FlagSound
<1>3. CASE ~Adopts(c) /\ Orderly(todo)
  <2>1. 1 \in 1 .. Len(todo) /\ ResumesLoad(todo[1])
    BY <1>0, <1>3, TailCalls DEF Adopts, ResumesLoad
  <2>2. BeforeAdopt(todo, 1)
    BY <1>3, <2>1 DEF Orderly
  <2>3. Len(rest) > 1 /\ rest[1].op = "LoadEnd" /\ rest[2].op = "Adopt" /\ Head(rest) = rest[1]
    BY <1>0, <2>2, TailCalls DEF BeforeAdopt
  <2> HIDE DEF rest, c
  <2>4. AdoptPending'
    BY <1>0, <2>3 DEF AdoptPending, Calling
  <2> QED BY <1>0, <1>3, <2>4 DEF FlagInv, CallsOrderly
<1>4. CASE ~Orderly(todo)
  <2>1. ~doc.temp /\ LoadsSaved(todo)
    BY <1>0, <1>4 DEF FlagInv, CallsOrderly, Saved, Ending, ReturnsToSave, CleansUpInSave
  <2>2. rest # <<>> /\ Plain(rest[1]) /\ Head(rest) = rest[1] /\ Orderly(Tail(rest))
    <3>1. Len(todo) > 1 /\ todo[2].op = "LoadEnd" /\ Orderly(Tail(rest))
      BY <2>1 DEF LoadsSaved
    <3>2. 1 \in 1 .. Len(todo) - 1 /\ 1 + 1 = 2
      BY <1>0, <3>1
    <3>3. Len(rest) > 0 /\ rest[1] = todo[2]
      BY <1>0, <3>1, <3>2, TailCalls
    <3> HIDE DEF rest
    <3> QED BY <1>0, <3>1, <3>3 DEF Plain, ResumesLoad
  <2> HIDE DEF rest, c
  <2>3. rest = <<rest[1]>> \o Tail(rest) /\ Tail(rest) \in Seq(CallSet)
    BY <1>0, <2>2
  <2>4. Orderly(rest)
    BY <2>2, <2>3, OrderlyPlain
  <2> QED BY <1>0, <1>1, <2>1, <2>4, FlagInvAfterEdit DEF EditSound, FlagSound, Adopts
<1> QED BY <1>2, <1>3, <1>4

LEMMA LoadEndFlags == ASSUME TypeOK, FlagInv, NoNestedEdit, LoadEnd \/ Adopt PROVE FlagInv'
<1> DEFINE c == Head(todo)
           rest == Tail(todo)
<1>0. /\ c = todo[1] /\ todo # <<>> /\ todo \in Seq(CallSet) /\ rest \in Seq(CallSet)
      /\ Orderly(todo) /\ Orderly(rest) /\ todo' = rest
      /\ UNCHANGED <<undo, redo, commented>> /\ ~commented
      /\ SoundEntries(undo) /\ SoundEntries(redo)
  BY HandlerContext DEF LoadEnd, Adopt, Calling, FlagInv, NoNestedEdit, notEdited
<1>1. CASE Adopt
  <2>1. doc'.temp = FALSE
    BY <1>1 DEF Adopt, Adopted, TypeOK, Doc, Opened, NoDocument
  <2> QED BY <1>0, <2>1, FlagInvAfterEdit DEF EditSound, FlagSound
<1>2. CASE LoadEnd
  <2>1. doc' = doc /\ c.op = "LoadEnd"
    BY <1>2 DEF LoadEnd, NoNestedEdit, Calling
  <2>2. CASE FlagSound(doc)
    BY <1>0, <2>1, <2>2, FlagInvAfterEdit DEF EditSound
  <2>3. CASE ~FlagSound(doc)
    <3>1. Len(todo) > 1 /\ todo[2].op = "Adopt"
      BY <1>0, <2>1, <2>3 DEF FlagInv, AdoptPending, Calling
    <3>2. rest # <<>> /\ Head(rest) = todo[2]
      BY <1>0, <3>1
    <3> HIDE DEF rest, c
    <3>3. AdoptPending'
      BY <1>0, <3>1, <3>2 DEF AdoptPending, Calling
    <3> QED BY <1>0, <3>3 DEF FlagInv, CallsOrderly
  <2> QED BY <2>2, <2>3
<1> QED BY <1>1, <1>2

(* What the caller of ImageCleanup goes on with.                           *)
LEMMA IfCleanOrderly ==
  ASSUME TypeOK, todo # <<>>, Orderly(todo), Head(todo).op \in {"ImageCleanup", "CleanupSave"}
  PROVE  /\ IfClean(Head(todo)) \o Tail(todo) \in Seq(CallSet)
         /\ Orderly(IfClean(Head(todo)) \o Tail(todo))
<1> DEFINE c == Head(todo)
           rest == Tail(todo)
<1>0. /\ c = todo[1] /\ c \in CallSet /\ c.op # "SaveAsEnd"
      /\ todo \in Seq(CallSet) /\ rest \in Seq(CallSet) /\ Orderly(rest)
  BY PendingType, TailCalls, OrderlyTail DEF TypeOK
<1>1. IfClean(c) \o rest \in Seq(CallSet)
  BY <1>0, IfCleanType
<1>2. CASE c.by = "OnFileOpen"
  <2> DEFINE a == LoadCall(c.name, FALSE)
             b == Call("Adopt", c.name)
  <2>1. a.op = "ImageLoad" /\ b.op = "Adopt" /\ Plain(b) /\ IfClean(c) = <<a, b>>
    BY <1>2 DEF LoadCall, Call, Plain, ResumesLoad, IfClean
  <2> HIDE DEF a, b, c, rest
  <2> DEFINE t == <<b>> \o rest
  <2>2. t \in Seq(CallSet \cup {b}) /\ Orderly(t) /\ t # <<>> /\ t[1] = b /\ <<a, b>> \o rest = <<a>> \o t
    BY <1>0, <2>1, OrderlyPlain, PushCall, PushTwo, SMTT(30)
  <2> HIDE DEF t
  <2>3. Orderly(<<a>> \o t)
    BY <2>1, <2>2, OrderlyLoad
  <2> QED BY <1>1, <2>1, <2>2, <2>3 DEF c, rest
<1>3. CASE c.by = "LoadFile"
  <2>1. Plain(LoadCall(c.name, TRUE)) /\ IfClean(c) = <<LoadCall(c.name, TRUE)>>
    BY <1>3 DEF LoadCall, Call, Plain, ResumesLoad, IfClean
  <2> QED BY <1>0, <1>1, <2>1, OrderlyPlain
<1>4. CASE c.by = "ImageLoad"
  <2> DEFINE a == [c EXCEPT !.op = "LoadBody"]
  <2>1. IfClean(c) = <<a>> /\ a.op = "LoadBody" /\ a.original = c.original
    BY <1>0, <1>4 DEF IfClean, CallSet
  <2>2. CASE c.original
    <3>1. Plain(a)
      BY <2>1, <2>2 DEF Plain, ResumesLoad
    <3> QED BY <1>0, <1>1, <2>1, <3>1, OrderlyPlain
  <2>3. CASE ~c.original
    <3>1. 1 \in 1 .. Len(todo) /\ ResumesLoad(todo[1])
      BY <1>0, <1>4, <2>3, TailCalls DEF ResumesLoad
    <3>2. BeforeAdopt(todo, 1)
      BY <3>1 DEF Orderly
    <3>3. Len(rest) > 1 /\ rest[1].op = "LoadEnd" /\ rest[2].op = "Adopt"
      BY <1>0, <3>2, TailCalls DEF BeforeAdopt
    <3> HIDE DEF rest, c, a
    <3>4. Orderly(<<a>> \o rest)
      BY <1>0, <2>1, <3>3, OrderlyInner
    <3> QED BY <1>1, <2>1, <3>4 DEF c, rest
  <2> QED BY <2>2, <2>3
<1>5. CASE c.by = "OnClose"
  <2> DEFINE a == CleanupFor("nobody", None, FALSE)
             b == Call("Destroy", None)
  <2>1. Plain(a) /\ Plain(b) /\ IfClean(c) = <<a, b>>
    BY <1>5 DEF CleanupFor, Call, Plain, ResumesLoad, IfClean
  <2> HIDE DEF a, b, c, rest
  <2>2. <<b>> \o rest \in Seq(CallSet \cup {b}) /\ Orderly(<<b>> \o rest)
    BY <1>0, <2>1, OrderlyPlain
  <2>3. Orderly(<<a>> \o (<<b>> \o rest))
    BY <2>1, <2>2, OrderlyPlain
  <2>4. <<a, b>> \o rest = <<a>> \o (<<b>> \o rest)
    BY <1>0, PushTwo
  <2> QED BY <1>1, <2>1, <2>3, <2>4 DEF c, rest
<1>6. CASE c.by \notin {"OnFileOpen", "LoadFile", "ImageLoad", "OnClose"}
  <2>1. IfClean(c) = <<>>
    BY <1>6 DEF IfClean
  <2>2. <<>> \o rest = rest
    BY <1>0
  <2> QED BY <1>0, <1>1, <2>1, <2>2
<1> QED BY <1>2, <1>3, <1>4, <1>5, <1>6

LEMMA CleanupFlags ==
  ASSUME TypeOK, FlagInv, NoNestedEdit,
         \/ AutoCropping \/ CleanupDone \/ CleanupAutoSave
         \/ PromptYes \/ PromptNo \/ PromptCancel
  PROVE  FlagInv'
<1> DEFINE c == Head(todo)
           rest == Tail(todo)
           next == IfClean(c) \o rest
<1> USE DEF onlyTodo, notEdited
<1>0. /\ c = todo[1] /\ todo # <<>> /\ todo \in Seq(CallSet) /\ rest \in Seq(CallSet)
      /\ c.op \in {"ImageCleanup", "CleanupSave"} /\ FlagSound(doc) /\ ~commented
      /\ Orderly(todo) => Orderly(rest) /\ next \in Seq(CallSet) /\ Orderly(next)
      /\ doc.dirty => Orderly(todo)
  <2>1. todo # <<>> /\ c.op \in {"ImageCleanup", "CleanupSave"}
    BY DEF AutoCropping, CleanupDone, CleanupAutoSave, PromptYes, PromptNo, PromptCancel,
           CleaningUp, Calling, NoNestedEdit
  <2> QED BY <2>1, HandlerContext, IfCleanOrderly DEF FlagInv
<1>1. CASE AutoCropping
  BY <1>1 DEF AutoCropping, NoNestedEdit
<1>2. CASE CleanupDone
  <2>1. todo' = next /\ UNCHANGED <<doc, undo, redo, commented>>
    BY <1>2 DEF CleanupDone
  <2>2. CASE Orderly(todo)
    BY <1>0, <2>1, <2>2, FlagInvAfterCalls
  <2>3. CASE ~Orderly(todo)
    <3>1. ~doc.temp /\ ~doc.dirty /\ (CleansUpInSave(todo) \/ LoadsSaved(todo))
      BY <1>0, <2>3 DEF FlagInv, CallsOrderly, Saved, Ending, ReturnsToSave
    <3>2. CASE CleansUpInSave(todo)
      <4>1. IfClean(c) = <<>> /\ <<>> \o rest = rest
        BY <1>0, <3>2 DEF CleansUpInSave, IfClean
      <4> QED BY <1>0, <2>1, <3>1, <3>2, <4>1 DEF FlagInv, CallsOrderly, Saved, CleansUpInSave
    <3>3. CASE LoadsSaved(todo)
      <4> DEFINE a == [c EXCEPT !.op = "LoadBody"]
      <4>1. /\ IfClean(c) = <<a>> /\ ResumesLoad(a) /\ a.op # "ImageLoad"
            /\ Len(todo) > 1 /\ todo[2].op = "LoadEnd" /\ Orderly(Tail(rest))
        BY <1>0, <3>3, HandlerContext DEF LoadsSaved, ResumesLoad, IfClean, CallSet
      <4>2. Len(rest) > 0 /\ rest[1] = todo[2]
        <5>1. 1 \in 1 .. Len(todo) - 1 /\ 1 + 1 = 2
          BY <1>0, <4>1
        <5> QED BY <1>0, <5>1, TailCalls
      <4> HIDE DEF a, rest, c
      <4> DEFINE t == <<a>> \o rest
      <4>3. Len(t) > 1 /\ t[1] = a /\ t[2] = rest[1] /\ Tail(t) = rest
        <5>1. Len(t) = Len(rest) + 1 /\ t[1] = a /\ Tail(t) = rest /\ \A i \in 1 .. Len(rest) : t[i + 1] = rest[i]
          BY <1>0, PushCall
        <5>2. 1 \in 1 .. Len(rest) /\ 1 + 1 = 2 /\ Len(rest) \in Nat
          BY <1>0, <4>2
        <5> QED BY <4>2, <5>1, <5>2
      <4>4. LoadsSaved(t)
        BY <4>1, <4>2, <4>3 DEF LoadsSaved
      <4> QED BY <1>0, <2>1, <3>1, <4>1, <4>4 DEF FlagInv, CallsOrderly, Saved
    <3> QED BY <3>1, <3>2, <3>3
  <2> QED BY <2>2, <2>3
<1>3. CASE CleanupAutoSave \/ PromptYes
  <2>1. PICK call : Plain(call) /\ todo' = <<call>> \o next
    <3>1. /\ Plain(Call("ImageSaveAs", AutoSaveDest[doc.orig])) /\ Plain(Call("OnFileSave", None))
      BY DEF Plain, ResumesLoad, Call
    <3>2. \A call : <<call>> \o IfClean(c) \o rest = <<call>> \o next
      <4> TAKE call
      <4>1. IfClean(c) \in Seq(CallSet)
        BY <1>0, IfCleanType, HandlerContext
      <4> DEFINE V == CallSet \cup {call}
      <4>2. <<call>> \in Seq(V) /\ IfClean(c) \in Seq(V) /\ rest \in Seq(V)
        BY <1>0, <4>1
      <4> QED BY <4>2, ConcatAssociative
    <3> QED BY <1>3, <3>1, <3>2 DEF CleanupAutoSave, PromptYes
  <2>2. Orderly(todo') /\ UNCHANGED <<doc, undo, redo, commented>>
    BY <1>0, <1>3, <2>1, OrderlyPlain DEF CleanupAutoSave, PromptYes
  <2> QED BY <1>0, <2>2, FlagInvAfterCalls
<1>4. CASE PromptNo
  <2>1. Orderly(todo')
    BY <1>0, <1>4 DEF PromptNo
  <2>2. doc'.temp = doc.temp /\ doc'.file = doc.file /\ UNCHANGED <<undo, redo, commented>>
    BY <1>4 DEF PromptNo, TypeOK, Doc, Opened, NoDocument
  <2> QED BY <1>0, <2>1, <2>2, FlagInvAfterEdit DEF EditSound, FlagSound, FlagInv
<1>5. CASE PromptCancel
  BY <1>0, <1>5, FlagInvAfterCalls DEF PromptCancel
<1> QED BY <1>1, <1>2, <1>3, <1>4, <1>5

LEMMA SettledSound == ASSUME NEW d \in Doc
                      PROVE  /\ FlagSound(Settled(d)) /\ ~Settled(d).temp /\ Settled(d) \in Doc
                             /\ Clean(Settled(d)).temp = Settled(d).temp
                             /\ Clean(Settled(d)).dirty = commented
                             /\ Clean(d).temp = d.temp /\ Clean(d).file = d.file
<1>1. Settled(d) \in Doc /\ ~Settled(d).temp
  <2>1. CASE d \in Opened
    <3>1. Settled(d) \in Opened
      BY <2>1, SettledType
    <3>2. ~Settled(d).temp
      BY <2>1 DEF Settled, Opened
    <3> QED BY <3>1, <3>2 DEF Doc
  <2>2. CASE d = NoDocument
    <3>1. Settled(d) = d /\ ~d.temp
      BY <2>2 DEF Settled, NoDocument
    <3> QED BY <3>1
  <2> QED BY <2>1, <2>2 DEF Doc
<1>2. ASSUME NEW e \in Doc
      PROVE  Clean(e).temp = e.temp /\ Clean(e).file = e.file /\ Clean(e).dirty = commented
  BY DEF Clean, Doc, Opened, NoDocument
<1> QED BY <1>1, <1>2 DEF FlagSound

LEMMA WritingFlags ==
  ASSUME TypeOK, FlagInv, SaveComment \/ LeaveComment \/ WriteRefused \/ WriteLossless \/ WriteImage
  PROVE  FlagInv'
<1> DEFINE rest == Tail(todo)
<1> USE DEF onlyTodo, notEdited
<1>0. /\ todo # <<>> /\ todo \in Seq(CallSet) /\ rest \in Seq(CallSet)
      /\ Orderly(todo) /\ Orderly(rest) /\ FlagSound(doc) /\ ~commented /\ doc \in Doc
      /\ SoundEntries(undo) /\ SoundEntries(redo)
  <2>1. todo # <<>> /\ Head(todo).op \in {"OnFileSave", "FileWrite"}
    BY DEF SaveComment, LeaveComment, WriteRefused, WriteLossless, WriteImage, Writing, Calling
  <2> QED BY <2>1, HandlerContext DEF FlagInv, TypeOK
<1>1. CASE SaveComment \/ LeaveComment
  BY <1>0, <1>1 DEF SaveComment, LeaveComment
<1>2. CASE WriteRefused
  <2>1. Plain(Call("OnFileSaveAs", None))
    BY DEF Plain, ResumesLoad, Call
  <2> QED BY <1>0, <1>2, <2>1, OrderlyPlain, FlagInvAfterCalls DEF WriteRefused
<1>3. CASE WriteLossless
  BY <1>0, <1>3, SettledSound, FlagInvAfterEdit DEF WriteLossless, EditSound, FlagSound
<1>4. CASE WriteImage
  <2> DEFINE d == Settled(doc)
             a == LoadCall(d.file, FALSE)
  <2>1. doc' = Clean(d) /\ UNCHANGED <<undo, redo, commented>>
        /\ (todo' = rest \/ todo' = <<a>> \o rest)
    BY <1>4 DEF WriteImage
  <2>2. ~doc'.temp /\ ~doc'.dirty
    BY <1>0, <2>1, SettledSound
  <2>3. a.op = "ImageLoad"
    BY DEF LoadCall, Call
  <2> HIDE DEF a, rest
  <2>4. Ending(todo')
    <3>1. /\ (<<a>> \o rest)[1] = a /\ Tail(<<a>> \o rest) = rest
          /\ <<a>> \o rest # <<>>
      BY <1>0, PushCall
    <3> QED BY <1>0, <2>1, <2>3, <3>1 DEF Ending
  <2> QED BY <1>0, <2>1, <2>2, <2>4 DEF FlagInv, CallsOrderly, Saved, FlagSound
<1> QED BY <1>1, <1>2, <1>3, <1>4

LEMMA SavingAsFlags ==
  ASSUME TypeOK, FlagInv, \/ \E name \in UserFiles \cup {None} : OnFileSaveAs(name)
                          \/ ImageSaveAs \/ SaveAsEnd
  PROVE  FlagInv'
<1> DEFINE c == Head(todo)
           rest == Tail(todo)
<1> USE DEF onlyTodo, notEdited
<1>0. /\ c = todo[1] /\ todo # <<>> /\ todo \in Seq(CallSet) /\ rest \in Seq(CallSet) /\ c \in CallSet
      /\ Orderly(todo) => Orderly(rest)
      /\ FlagSound(doc) /\ ~commented /\ doc \in Doc
      /\ SoundEntries(undo) /\ SoundEntries(redo)
  BY HandlerContext DEF OnFileSaveAs, ImageSaveAs, SaveAsEnd, Calling, FlagInv, TypeOK
<1>1. ASSUME NEW name \in UserFiles \cup {None}, OnFileSaveAs(name) PROVE FlagInv'
  <2> DEFINE a == Call("ImageSaveAs", name)
             b == LoadCall(name, FALSE)
  <2>1. Orderly(rest)
    BY <1>0, <1>1, HandlerContext DEF OnFileSaveAs, Calling
  <2>2. a.op = "ImageSaveAs" /\ b.op = "ImageLoad"
    BY DEF LoadCall, Call
  <2>3. UNCHANGED <<doc, undo, redo, commented>> /\ (todo' = rest \/ todo' = <<a, b>> \o rest)
    BY <1>1 DEF OnFileSaveAs
  <2> HIDE DEF a, b, rest
  <2>4. /\ <<a, b>> \o rest = <<a>> \o (<<b>> \o rest)
        /\ <<b>> \o rest \in Seq(CallSet \cup {b})
        /\ (<<b>> \o rest)[1] = b /\ Tail(<<b>> \o rest) = rest /\ <<b>> \o rest # <<>>
    BY <1>0, PushCall, PushTwo
  <2>5. Ending(<<b>> \o rest)
    BY <2>1, <2>2, <2>4 DEF Ending
  <2>6. CASE todo' = <<a, b>> \o rest
    <3>1. todo' # <<>> /\ todo'[1] = a /\ Tail(todo') = <<b>> \o rest
      BY <2>4, <2>6, PushCall
    <3> QED BY <1>0, <2>2, <2>3, <2>5, <3>1 DEF FlagInv, CallsOrderly
  <2> QED BY <1>0, <2>1, <2>3, <2>6, FlagInvAfterCalls
<1>2. CASE ImageSaveAs
  <2> DEFINE a == CleanupFor("nobody", None, FALSE)
             b == [c EXCEPT !.op = "SaveAsEnd"]
             t == <<b>> \o rest
  <2>1. doc' = Clean(Settled(doc)) /\ UNCHANGED <<undo, redo, commented>> /\ todo' = <<a, b>> \o rest
    BY <1>2 DEF ImageSaveAs
  <2>2. ~doc'.temp /\ ~doc'.dirty
    BY <1>0, <2>1, SettledSound
  <2>3. a.op = "ImageCleanup" /\ a.by = "nobody" /\ b.op = "SaveAsEnd"
    BY <1>0 DEF CleanupFor, Call, CallSet
  <2>4. Ending(rest)
    BY <1>0, <1>2 DEF ImageSaveAs, Calling, FlagInv, CallsOrderly, Saved, Ending,
                      ReturnsToSave, CleansUpInSave, LoadsSaved, ResumesLoad
  <2> HIDE DEF a, b, rest
  <2>5. t[1] = b /\ Tail(t) = rest /\ Len(t) > 0 /\ t \in Seq(CallSet \cup {b})
    BY <1>0, PushCall
  <2>6. ReturnsToSave(t)
    BY <2>3, <2>4, <2>5 DEF ReturnsToSave
  <2>7. todo' = <<a>> \o t
    BY <1>0, <2>1, PushTwo
  <2> HIDE DEF t
  <2>8. Len(todo') > 1 /\ todo'[1] = a /\ Tail(todo') = t
    BY <2>5, <2>7, PushCall
  <2>9. CleansUpInSave(todo')
    BY <2>3, <2>6, <2>8 DEF CleansUpInSave
  <2> QED BY <1>0, <2>1, <2>2, <2>9 DEF FlagInv, CallsOrderly, Saved, FlagSound
<1>3. CASE SaveAsEnd
  <2>1. ~doc.temp /\ ~doc.dirty /\ Ending(rest)
    <3>1. c.op = "SaveAsEnd" /\ ~Orderly(todo)
      BY <1>0, <1>3, OrderlyTail DEF SaveAsEnd, Calling
    <3> QED BY <1>0, <3>1 DEF FlagInv, CallsOrderly, Saved, Ending, ReturnsToSave,
                              CleansUpInSave, LoadsSaved, ResumesLoad
  <2>2. doc'.temp = doc.temp /\ (doc'.dirty => doc.dirty \/ commented)
    <3>1. doc'.temp = doc.temp
      BY <1>0, <1>3 DEF SaveAsEnd, SavedAs, Doc, Opened, NoDocument
    <3>2. doc'.dirty = (doc.dirty \/ (commented /\ c.by = "OnFileSavePath"))
      BY <1>0, <1>3 DEF SaveAsEnd, SavedAs, Doc, Opened, NoDocument
    <3> QED BY <3>1, <3>2
  <2> QED BY <1>0, <1>3, <2>1, <2>2 DEF SaveAsEnd, FlagInv, CallsOrderly, Saved, FlagSound
<1> QED BY <1>1, <1>2, <1>3

LEMMA LeavingFlags == ASSUME TypeOK, FlagInv, CropCalled \/ DeleteTry \/ DeleteEnd \/ Destroy
                      PROVE  FlagInv'
<1> DEFINE c == Head(todo)
           rest == Tail(todo)
<1> USE DEF onlyTodo, notEdited
<1>0. /\ c = todo[1] /\ todo # <<>> /\ todo \in Seq(CallSet) /\ rest \in Seq(CallSet)
      /\ Orderly(todo) /\ Orderly(rest) /\ FlagSound(doc) /\ ~commented /\ doc \in Doc
      /\ SoundEntries(undo) /\ SoundEntries(redo)
  BY HandlerContext DEF CropCalled, DeleteTry, DeleteEnd, Destroy, Calling, FlagInv, TypeOK
<1>1. CASE CropCalled
  <2>1. CASE doc.zone /\ Crop(doc)
    <3>1. doc \in Opened
      BY <1>0, <2>1 DEF Doc, NoDocument
    <3>2. Dirty(doc) \in Opened /\ NoTracker(Dirty(doc)) \in Opened
          /\ FlagSound(Dirty(doc)) /\ FlagSound(NoTracker(Dirty(doc)))
      BY <1>0, <3>1, FlagsType, FlagsSound
    <3>3. EditSound
      BY <1>0, <2>1, <3>1, <3>2, EditsSound DEF Crop
    <3> QED BY <1>0, <1>1, <3>3, FlagInvAfterEdit DEF CropCalled
  <2>2. CASE UNCHANGED <<disk, doc, undo, redo, fresh>>
    BY <1>0, <1>1, <2>2, FlagInvAfterCalls DEF CropCalled
  <2> QED BY <1>1, <2>1, <2>2 DEF CropCalled
<1>2. CASE DeleteTry
  <2>1. Plain(Call("OnDirCtrlChange", c.other))
    BY DEF Plain, ResumesLoad, Call
  <2> QED BY <1>0, <1>2, <2>1, OrderlyPlain, FlagInvAfterCalls DEF DeleteTry
<1>3. CASE DeleteEnd
  <2>1. doc'.temp = doc.temp /\ doc'.file = doc.file
    BY <1>0, <1>3 DEF DeleteEnd, Doc, Opened, NoDocument
  <2> QED BY <1>0, <1>3, <2>1, FlagInvAfterEdit DEF DeleteEnd, EditSound, FlagSound
<1>4. CASE Destroy
  BY <1>0, <1>4, OrderlyEmpty, FlagInvAfterEdit DEF Destroy, EditSound, SoundEntries, Elements
<1> QED BY <1>1, <1>2, <1>3, <1>4

LEMMA NextFlags == ASSUME TypeOK, FlagInv, NoNestedEdit, [Next]_vars PROVE FlagInv'
<1>1. CASE UNCHANGED vars
  BY <1>1 DEF vars, FlagInv, CallsOrderly, AdoptPending, Calling
<1>2. CASE Command
  BY <1>2, EditCommandFlags, HistoryCommandFlags, FileCommandFlags DEF Command
<1>3. CASE Handler
  BY <1>3, LoadFlags, LoadBodyFlags, LoadEndFlags, CleanupFlags, WritingFlags, SavingAsFlags,
     LeavingFlags DEF Handler
<1> QED BY <1>1, <1>2, <1>3 DEF Next

LEMMA InitFlags == Init => FlagInv
  BY OrderlyEmpty
     DEF Init, FlagInv, CallsOrderly, FlagSound, SoundEntries, Elements, NoDocument

LEMMA FlagsInvariant == ASSUME NoNestedEdit PROVE Spec => [](TypeOK /\ FlagInv)
<1>1. TypeOK /\ FlagInv /\ [Next]_vars => FlagInv'
  BY NextFlags
<1> QED BY <1>1, InitFlags, TypeCorrect, PTL DEF Spec

(* Without automatic rotation, automatic crop and comments, the document   *)
(* and every entry of the histories that has the temporary flag is on a    *)
(* temporary file whenever no handler runs: imageUndoPoint never records,  *)
(* and no destructor later removes (RatioFrame.h:328, RatioFrame.cpp:776), *)
(* a photo of the user.  The three exceptions are those where a photo is   *)
(* lost (run photo_lost_comment).                                          *)
THEOREM FlagNeverOnPhoto == ASSUME NoNestedEdit PROVE Spec => []TempFlagSound
<1>1. TypeOK /\ FlagInv => TempFlagSound
  <2> SUFFICES ASSUME FlagInv, todo = <<>>, NEW d \in Documents, d.temp
               PROVE  d.file \in Nat
    BY DEF TempFlagSound
  <2>1. FlagSound(doc)
    BY SoundDocument DEF Calling
  <2> QED BY <2>1 DEF FlagInv, Documents, Images, Entries, SoundEntries, FlagSound
<1> QED BY <1>1, FlagsInvariant, PTL

-----------------------------------------------------------------------------
(* What becomes of the photos.                                             *)
KeepsPhotos == UserFiles \cap DOMAIN disk \subseteq DOMAIN disk'
PhotosStep ==
  \A f \in UserFiles \cap DOMAIN disk :
    \/ f \in DOMAIN disk'
    \/ Calling("DeleteEnd") /\ Head(todo).name = f
    \/ \E g \in UserFiles \cap DOMAIN disk' : disk'[g] = disk[f]

LEMMA FilesKept ==
  /\ \A d, p, c : DOMAIN Put(d, p, c) = DOMAIN d \cup {p}
  /\ \A d, ps : ps \subseteq Nat => UserFiles \cap DOMAIN d \subseteq DOMAIN Without(d, ps)
  /\ \A d, src, dest : DOMAIN d \subseteq DOMAIN CopyFile(d, src, dest)
  /\ \A d, p, c, asJpeg : DOMAIN d \subseteq DOMAIN SaveFile(d, p, c, asJpeg)
<1>1. \A d, p, c : DOMAIN Put(d, p, c) = DOMAIN d \cup {p}
  BY DEF Put
<1>2. \A d, ps : ps \subseteq Nat => UserFiles \cap DOMAIN d \subseteq DOMAIN Without(d, ps)
  BY FilesAssumption DEF Without
<1>3. \A d, p, c : DOMAIN d \subseteq DOMAIN Store(d, p, c)
  <2> TAKE d, p, c
  <2>1. DOMAIN d \subseteq DOMAIN Put(d, p, c)
    <3>1. DOMAIN Put(d, p, c) = DOMAIN d \cup {p}
      BY <1>1
    <3> QED BY <3>1
  <2>2. Store(d, p, c) = d \/ Store(d, p, c) = Put(d, p, c)
    BY DEF Store
  <2> QED BY <2>1, <2>2
<1>4. \A d, src, dest : DOMAIN d \subseteq DOMAIN CopyFile(d, src, dest)
  BY <1>3 DEF CopyFile
<1>5. \A d, p, c, asJpeg : DOMAIN d \subseteq DOMAIN SaveFile(d, p, c, asJpeg)
  BY <1>3 DEF SaveFile
<1> QED BY <1>1, <1>2, <1>4, <1>5

LEMMA OwnedTemporary == ASSUME NEW es, \A e \in es : e.kind = "image" => FlagSound(e.doc)
                        PROVE  Owned(es) \subseteq Nat
  BY DEF Owned, FlagSound

LEMMA UndoPointKeepsPhotos ==
  ASSUME TypeOK, SoundEntries(undo), SoundEntries(redo), NEW d \in Doc, FlagSound(d)
  PROVE  UserFiles \cap DOMAIN disk \subseteq DOMAIN UndoPointDisk(d)
<1> DEFINE h == Append(undo, Image(d))
           es == Elements(redo) \cup Oldest(h, MaxUndo)
<1>1. h \in Seq(Entry) /\ SoundEntries(h) /\ MaxUndo \in Nat
  BY SoundImage, SoundAppend, SettingsAssumption DEF TypeOK
<1> HIDE DEF h
<1>2. Oldest(h, MaxUndo) \subseteq Elements(h)
  <2>1. DOMAIN h = 1 .. Len(h) /\ Len(h) \in Nat
    BY <1>1
  <2>2. 1 .. Len(h) - MaxUndo \subseteq DOMAIN h
    BY <1>1, <2>1
  <2> QED BY <2>2 DEF Oldest, Elements
<1>3. Owned(es) \subseteq Nat
  BY <1>1, <1>2, OwnedTemporary DEF SoundEntries
<1> QED BY <1>3, FilesKept DEF UndoPointDisk, h

LEMMA EditKeepsPhotos ==
  ASSUME TypeOK, SoundEntries(undo), SoundEntries(redo), NEW d \in Opened, FlagSound(d)
  PROVE  /\ \A change : CallTool(d, change) => KeepsPhotos
         /\ \A after : ImageManip(d, after) => KeepsPhotos
         /\ \A after : Edit(d, after) => KeepsPhotos
<1>1. UserFiles \cap DOMAIN disk \subseteq DOMAIN UndoPointDisk(d)
  BY UndoPointKeepsPhotos DEF Doc
<1>2. ASSUME NEW change, CallTool(d, change) PROVE KeepsPhotos
  <2>1. PICK c : disk' = Put(UndoPointDisk(d), fresh + 1, c)
    BY <1>2 DEF CallTool
  <2>2. DOMAIN disk' = DOMAIN UndoPointDisk(d) \cup {fresh + 1}
    BY <2>1, FilesKept
  <2> QED BY <1>1, <2>2 DEF KeepsPhotos
<1>3. \A after : ImageManip(d, after) => KeepsPhotos
  BY <1>1 DEF ImageManip, KeepsPhotos
<1> QED BY <1>2, <1>3 DEF Edit, CallJPEGTranTryPerfect

LEMMA RenameKeepsPhotos ==
  ASSUME NEW src, NEW dest \in UserFiles, disk' = RenameFile(disk, src, dest)
  PROVE  PhotosStep
<1>1. CASE disk' = disk
  BY <1>1 DEF PhotosStep
<1>2. CASE disk' = Put(Without(disk, {src}), dest, disk[src])
  <2>1. DOMAIN disk' = (DOMAIN disk \ {src}) \cup {dest} /\ disk'[dest] = disk[src]
    BY <1>2 DEF Put, Without
  <2> QED BY <2>1 DEF PhotosStep
<1> QED BY <1>1, <1>2 DEF RenameFile

LEMMA EditCommandKeepsPhotos ==
  ASSUME TypeOK, FlagInv, NoNestedEdit, EditCommand
  PROVE  KeepsPhotos
<1>0. /\ doc \in Opened /\ Dirty(doc) \in Opened /\ todo = <<>>
      /\ SoundEntries(undo) /\ SoundEntries(redo)
  <2>1. doc.orig # None /\ todo = <<>>
    BY DEF EditCommand, OnImageCrop, OnImageRotate, OnImageFlipHorizontal, OnImageFlipVertical,
           OnImageJPEGOptimize, OnImageJPEGProgressive, Resize, OnImageInclin,
           OnToggleJPEGLossless, OnModeInclin, OnModeCrop, SelectZone, TypeComment,
           OnImageWriteComment, MayEdit, May, Idle
  <2> QED BY <2>1, MayType DEF FlagInv
<1>1. FlagSound(doc) /\ FlagSound(Dirty(doc))
  BY <1>0, SoundDocument, FlagsSound DEF Calling
<1>2. /\ \A after : \A d \in {doc, Dirty(doc)} : Edit(d, after) => KeepsPhotos
      /\ \A after : \A d \in {doc, Dirty(doc)} : ImageManip(d, after) => KeepsPhotos
      /\ \A d \in {doc, Dirty(doc)} : CallJPEGTranTryPerfect(d) => KeepsPhotos
  BY <1>0, <1>1, EditKeepsPhotos DEF CallJPEGTranTryPerfect
<1>3. CASE OnImageCrop \/ OnImageRotate \/ OnImageFlipHorizontal \/ OnImageFlipVertical
  BY <1>2, <1>3 DEF OnImageCrop, Crop, OnImageRotate, OnImageFlipHorizontal, OnImageFlipVertical
<1>4. CASE OnImageJPEGOptimize \/ OnImageJPEGProgressive \/ Resize \/ OnImageInclin
  BY <1>2, <1>4 DEF OnImageJPEGOptimize, OnImageJPEGProgressive, Resize, OnImageInclin, Inclin
<1>5. CASE OnToggleJPEGLossless \/ OnModeInclin \/ OnModeCrop \/ SelectZone
  BY <1>5 DEF OnToggleJPEGLossless, OnModeInclin, OnModeCrop, SelectZone, KeepsPhotos
<1>6. CASE TypeComment \/ OnImageWriteComment
  BY <1>6 DEF NoNestedEdit, TypeComment, OnImageWriteComment, May
<1> QED BY <1>3, <1>4, <1>5, <1>6 DEF EditCommand

LEMMA HistoryCommandKeepsPhotos ==
  ASSUME TypeOK, FlagInv, HistoryCommand
  PROVE  PhotosStep
<1>1. ASSUME NEW h \in Seq(Entry), SoundEntries(h), h # <<>>,
             \/ TopOf(h).kind = "image" /\ RestoreImage(TopOf(h))
             \/ TopOf(h).kind = "move" /\ RestoreMove(TopOf(h))
      PROVE  PhotosStep
  <2>1. TopOf(h) \in Entry /\ TopOf(h) \in Elements(h)
    BY <1>1, TopType, HistoryElements
  <2> DEFINE e == TopOf(h)
  <2>2. CASE e.kind = "image" /\ RestoreImage(e)
    <3>1. Owned({e}) \subseteq Nat
      BY <1>1, <2>1, OwnedTemporary DEF SoundEntries
    <3>2. disk' = disk \/ disk' = Without(disk, Owned({e}))
      BY <2>2 DEF RestoreImage
    <3> QED BY <3>1, <3>2, FilesKept DEF PhotosStep
  <2>3. CASE e.kind = "move" /\ RestoreMove(e)
    BY <2>1, <2>3, RenameKeepsPhotos DEF RestoreMove, Entry
  <2> QED BY <1>1, <2>2, <2>3
<1> QED BY <1>1 DEF HistoryCommand, OnImageUndo, OnImageRedo, TypeOK, FlagInv

LEMMA HandlerKeepsPhotos ==
  ASSUME TypeOK, FlagInv, NoNestedEdit, Handler
  PROVE  PhotosStep
<1> USE DEF onlyTodo, notEdited
<1>0. /\ doc \in Doc /\ SoundEntries(undo) /\ SoundEntries(redo) /\ ~commented
      /\ KeepsPhotos => PhotosStep
  BY DEF TypeOK, FlagInv, KeepsPhotos, PhotosStep
<1>1. CASE disk' = disk
  BY <1>1 DEF PhotosStep
<1>2. CASE ImageLoad
  <2>1. FlagSound(doc)
    BY <1>2, SoundDocument DEF ImageLoad, Calling
  <2> QED BY <1>0, <1>2, <2>1, UndoPointKeepsPhotos DEF ImageLoad, KeepsPhotos
<1>3. CASE LoadEnd
  BY <1>1, <1>3 DEF LoadEnd, NoNestedEdit
<1>4. CASE CropCalled
  <2>1. CASE Crop(doc)
    <3>1. FlagSound(doc)
      BY <1>4, SoundDocument DEF CropCalled, Calling
    <3>2. CASE doc \in Opened
      BY <1>0, <2>1, <3>1, <3>2, FlagsType, FlagsSound, EditKeepsPhotos DEF Crop
    <3>3. CASE doc = NoDocument
      BY <1>1, <1>4, <3>3 DEF CropCalled, NoDocument
    <3> QED BY <1>0, <3>2, <3>3 DEF Doc
  <2> QED BY <1>1, <1>4, <2>1 DEF CropCalled
<1>5. CASE SaveComment
  BY <1>0, <1>5 DEF SaveComment
<1>6. CASE WriteLossless
  BY <1>0, <1>6, FilesKept DEF WriteLossless, Written, KeepsPhotos
<1>7. CASE WriteImage
  BY <1>0, <1>7, FilesKept DEF WriteImage, KeepsPhotos
<1>8. CASE ImageSaveAs
  <2>1. DOMAIN disk \subseteq DOMAIN disk'
    BY <1>8, FilesKept DEF ImageSaveAs
  <2> QED BY <1>0, <2>1 DEF KeepsPhotos
<1>9. CASE DeleteEnd
  <2>1. DOMAIN disk' = DOMAIN disk \ Deleted(Head(todo))
    BY <1>9 DEF DeleteEnd, Without
  <2> QED BY <1>9, <2>1 DEF DeleteEnd, Deleted, PhotosStep
<1>10. CASE Destroy
  <2> DEFINE gone == (IF doc.temp THEN {doc.file} ELSE {}) \cup Owned(Elements(undo) \cup Elements(redo))
  <2>1. FlagSound(doc)
    BY <1>10, SoundDocument DEF Destroy, Calling
  <2>2. Owned(Elements(undo) \cup Elements(redo)) \subseteq Nat
    BY <1>0, OwnedTemporary DEF SoundEntries
  <2>3. gone \subseteq Nat
    BY <2>1, <2>2 DEF FlagSound
  <2>4. disk' = Without(disk, gone)
    BY <1>10 DEF Destroy
  <2> HIDE DEF gone
  <2> QED BY <1>0, <2>3, <2>4, FilesKept DEF KeepsPhotos
<1>11. CASE AutoCropping
  BY <1>11 DEF AutoCropping, NoNestedEdit
<1>12. CASE PromptNo \/ LoadBody \/ Adopt \/ SaveAsEnd
  BY <1>1, <1>12 DEF PromptNo, LoadBody, Adopt, SaveAsEnd
<1>13. CASE \/ OnDirCtrlChange \/ ImageLoadRefused \/ CleanupDone \/ CleanupAutoSave
            \/ PromptYes \/ PromptCancel \/ LeaveComment \/ WriteRefused \/ DeleteTry
            \/ \E name \in UserFiles \cup {None} : OnFileSaveAs(name)
  BY <1>1, <1>13 DEF OnDirCtrlChange, ImageLoadRefused, CleanupDone, CleanupAutoSave, PromptYes,
     PromptCancel, LeaveComment, WriteRefused, DeleteTry, OnFileSaveAs
<1> QED BY <1>2, <1>3, <1>4, <1>5, <1>6, <1>7, <1>8, <1>9, <1>10, <1>11, <1>12, <1>13 DEF Handler

LEMMA FileCommandKeepsPhotos == ASSUME TypeOK, FileCommand PROVE PhotosStep
<1> USE DEF onlyTodo
<1>1. ASSUME NEW dest \in UserFiles, MoveTo(dest) PROVE PhotosStep
  BY <1>1, RenameKeepsPhotos DEF MoveTo
<1>2. CASE disk' = disk
  BY <1>2 DEF PhotosStep
<1>3. CASE OnFileReload \/ FileSave \/ FileSaveAs \/ OnClose
  BY <1>2, <1>3 DEF OnFileReload, FileSave, FileSaveAs, OnClose
<1>4. ASSUME NEW name \in UserFiles,
             \/ OnFileOpen(name) \/ LoadFile(name) \/ SelectFile(name)
             \/ OnFileMove(name) \/ OnFileNameEndEdit(name) \/ OnFileSavePath(name)
             \/ \E next \in UserFiles : OnFileMoveAndNext(name, next) \/ OnFileSavePathAndNext(name, next)
      PROVE  PhotosStep
  BY <1>1, <1>2, <1>4 DEF OnFileOpen, LoadFile, SelectFile, OnFileMove, OnFileNameEndEdit,
     OnFileSavePath, OnFileMoveAndNext, OnFileSavePathAndNext
<1>5. ASSUME NEW next, NEW prev, OnFileDelete(next, prev) PROVE PhotosStep
  BY <1>2, <1>5 DEF OnFileDelete
<1> QED BY <1>3, <1>4, <1>5 DEF FileCommand

(* Under the same conditions no step of the program makes a photo          *)
(* disappear, but OnFileDelete once confirmed, and a move or a rename,     *)
(* which leave its content under the other name: not the cleaning of the   *)
(* histories, not a save, not the end of the program, whatever edits, mode *)
(* switches, loads and undos came before.                                  *)
THEOREM NoPhotoLost == ASSUME NoNestedEdit PROVE Spec => PhotosKept
<1>1. TypeOK /\ FlagInv /\ [Next]_vars => [PhotosStep]_vars
  <2> SUFFICES ASSUME TypeOK, FlagInv, Next PROVE PhotosStep
    OBVIOUS
  <2>1. KeepsPhotos => PhotosStep
    BY DEF KeepsPhotos, PhotosStep
  <2> QED BY <2>1, EditCommandKeepsPhotos, HistoryCommandKeepsPhotos, FileCommandKeepsPhotos,
             HandlerKeepsPhotos DEF Next, Command
<1> QED BY <1>1, FlagsInvariant, PTL DEF Spec, PhotosKept, PhotosStep

-----------------------------------------------------------------------------
(* The mark that there is something to save, while a comment is pending.   *)

(* A load is refused while another one runs, which lasts until LoadEnd.    *)
Loose(t, l, i) == l /\ \A j \in 1 .. i - 1 : t[j].op # "LoadEnd"
Cleans(c) == c.op \in {"ImageCleanup", "CleanupSave"}
BeginsLoad(c) == Cleans(c) /\ c.by \in {"OnFileOpen", "LoadFile"}
(* The call takes the comment away with the picture, closes the window, or *)
(* sets the mark again.                                                    *)
Settles(c, loose) ==
  \/ c.op \in {"LoadBody", "Destroy"}
  \/ c.op = "SaveAsEnd" /\ c.by = "OnFileSavePath"
  \/ Cleans(c) /\ c.by \in {"ImageLoad", "OnClose"}
  \/ (c.op = "ImageLoad" \/ BeginsLoad(c)) /\ ~loose
(* The call may take the mark away and leave the comment.                  *)
Unmarks(c, loose) ==
  \/ Cleans(c) /\ c.by \notin {"OnFileOpen", "LoadFile", "ImageLoad", "OnClose"}
  \/ c.op = "ImageSaveAs" /\ c.by # "OnFileSavePath"
  \/ c.op \in {"OnFileSave", "FileWrite", "OnFileSaveAs"} /\ loose
SettledAfter(t, l, i) == \E j \in i + 1 .. Len(t) : Settles(t[j], Loose(t, l, j))
MarkKept(t, l) ==
  /\ \A i \in 1 .. Len(t) : t[i].op # "DeleteEnd"
  /\ l => \E i \in 1 .. Len(t) : t[i].op = "LoadEnd"
  /\ \A i \in 1 .. Len(t) : BeginsLoad(t[i]) => ~Loose(t, l, i)
  /\ ~AutoSave => \A i \in 1 .. Len(t) : Unmarks(t[i], Loose(t, l, i)) => SettledAfter(t, l, i)
MarkHeld ==
  MarkKept(todo, loading) /\ (commented /\ ~doc.dirty => SettledAfter(todo, loading, 0))
MarkInv == running => MarkHeld

LEMMA LessLoose ==
  ASSUME NEW c, NEW a, NEW b, a => b
  PROVE  (Settles(c, b) => Settles(c, a)) /\ (Unmarks(c, a) => Unmarks(c, b))
  BY DEF Settles, Unmarks

(* The next call is made, or a load ends.                                  *)
LEMMA MarkTail ==
  ASSUME NEW S, NEW t \in Seq(S), t # <<>>, NEW l, NEW m, m => l /\ t[1].op # "LoadEnd",
         MarkKept(t, l)
  PROVE  /\ MarkKept(Tail(t), m)
         /\ t[1].op # "DeleteEnd"
         /\ BeginsLoad(t[1]) => ~l
         /\ ~AutoSave /\ Unmarks(t[1], l) => SettledAfter(Tail(t), m, 0)
         /\ SettledAfter(t, l, 0) => Settles(t[1], l) \/ SettledAfter(Tail(t), m, 0)
<1> DEFINE r == Tail(t)
<1>1. /\ r \in Seq(S) /\ Len(r) = Len(t) - 1 /\ Len(t) \in Nat \ {0}
      /\ \A i \in 1 .. Len(r) : r[i] = t[i + 1]
  BY TailCalls
<1> HIDE DEF r
<1>2. \A i \in 1 .. Len(r) : Loose(r, m, i) => Loose(t, l, i + 1)
  <2> SUFFICES ASSUME NEW i \in 1 .. Len(r), Loose(r, m, i), NEW j \in 1 .. i
               PROVE  l /\ t[j].op # "LoadEnd"
    BY DEF Loose
  <2>1. CASE j = 1
    BY <2>1 DEF Loose
  <2>2. CASE j # 1
    <3>1. j - 1 \in 1 .. i - 1 /\ j - 1 \in 1 .. Len(r) /\ r[j - 1] = t[j]
      BY <1>1, <2>2
    <3> QED BY <3>1 DEF Loose
  <2> QED BY <2>1, <2>2
<1>3. \A i \in 1 .. Len(r) : /\ Settles(t[i + 1], Loose(t, l, i + 1)) => Settles(r[i], Loose(r, m, i))
                             /\ Unmarks(r[i], Loose(r, m, i)) => Unmarks(t[i + 1], Loose(t, l, i + 1))
                             /\ i + 1 \in 1 .. Len(t)
  <2> TAKE i \in 1 .. Len(r)
  <2>1. r[i] = t[i + 1] /\ i + 1 \in 1 .. Len(t)
    BY <1>1
  <2>2. Loose(r, m, i) => Loose(t, l, i + 1)
    BY <1>2
  <2> QED BY <2>1, <2>2 DEF Settles, Unmarks
<1>4. ASSUME NEW i \in 0 .. Len(r), SettledAfter(t, l, i + 1) PROVE SettledAfter(r, m, i)
  <2>1. PICK j \in i + 2 .. Len(t) : Settles(t[j], Loose(t, l, j))
    BY <1>4 DEF SettledAfter
  <2>2. j - 1 \in i + 1 .. Len(r) /\ (j - 1) + 1 = j /\ j - 1 \in 1 .. Len(r)
    BY <1>1
  <2> QED BY <1>3, <2>1, <2>2 DEF SettledAfter
<1>5. Loose(t, l, 1) <=> l
  BY DEF Loose
<1>6. 1 \in 1 .. Len(t) /\ 0 \in 0 .. Len(r)
  BY <1>1
<1>7. /\ t[1].op # "DeleteEnd"
      /\ BeginsLoad(t[1]) => ~l
      /\ ~AutoSave /\ Unmarks(t[1], l) => SettledAfter(t, l, 1)
  <2>1. BeginsLoad(t[1]) => ~Loose(t, l, 1)
    BY <1>6 DEF MarkKept
  <2>2. ~AutoSave /\ Unmarks(t[1], Loose(t, l, 1)) => SettledAfter(t, l, 1)
    BY <1>6 DEF MarkKept
  <2>3. Unmarks(t[1], l) => Unmarks(t[1], Loose(t, l, 1))
    BY <1>5, LessLoose
  <2> QED BY <1>5, <1>6, <2>1, <2>2, <2>3 DEF MarkKept
<1>8. SettledAfter(t, l, 0) => Settles(t[1], l) \/ SettledAfter(t, l, 1)
  <2> SUFFICES ASSUME NEW j \in 1 .. Len(t), Settles(t[j], Loose(t, l, j)), ~Settles(t[1], l)
               PROVE  SettledAfter(t, l, 1)
    BY DEF SettledAfter
  <2>1. j # 1
    BY <1>5, LessLoose
  <2>2. j \in 2 .. Len(t)
    BY <1>1, <2>1
  <2> QED BY <2>2 DEF SettledAfter
<1>9. MarkKept(r, m)
  <2>1. \A i \in 1 .. Len(r) : r[i].op # "DeleteEnd"
    BY <1>1, <1>3 DEF MarkKept
  <2>2. ASSUME m PROVE \E i \in 1 .. Len(r) : r[i].op = "LoadEnd"
    <3>1. PICK k \in 1 .. Len(t) : t[k].op = "LoadEnd"
      BY <2>2 DEF MarkKept
    <3>2. k # 1
      BY <2>2, <3>1
    <3>3. k - 1 \in 1 .. Len(r) /\ r[k - 1] = t[k]
      BY <1>1, <3>2
    <3> QED BY <3>1, <3>3
  <2>3. \A i \in 1 .. Len(r) : BeginsLoad(r[i]) => ~Loose(r, m, i)
    BY <1>1, <1>2, <1>3 DEF MarkKept
  <2>4. ASSUME ~AutoSave, NEW i \in 1 .. Len(r), Unmarks(r[i], Loose(r, m, i))
        PROVE  SettledAfter(r, m, i)
    <3>1. SettledAfter(t, l, i + 1)
      BY <1>3, <2>4 DEF MarkKept
    <3>2. i \in 0 .. Len(r)
      BY <1>1
    <3> QED BY <1>4, <3>1, <3>2
  <2> QED BY <2>1, <2>2, <2>3, <2>4 DEF MarkKept
<1>10. SettledAfter(t, l, 1) => SettledAfter(r, m, 0)
  BY <1>4, <1>6
<1> QED BY <1>7, <1>8, <1>9, <1>10 DEF r

(* A call is pushed, perhaps the end of a load.                            *)
LEMMA MarkPush ==
  ASSUME NEW S, NEW t \in Seq(S), NEW c, NEW l, NEW m, m => l \/ c.op = "LoadEnd",
         MarkKept(t, l), c.op # "DeleteEnd",
         BeginsLoad(c) => ~m,
         ~AutoSave /\ Unmarks(c, m) => SettledAfter(t, l, 0)
  PROVE  /\ MarkKept(<<c>> \o t, m)
         /\ Settles(c, m) \/ SettledAfter(t, l, 0) => SettledAfter(<<c>> \o t, m, 0)
<1> DEFINE u == <<c>> \o t
<1>1. /\ Len(u) = Len(t) + 1 /\ u[1] = c /\ \A i \in 1 .. Len(t) : u[i + 1] = t[i]
      /\ Len(t) \in Nat
  BY PushCall
<1> HIDE DEF u
<1>2. \A i \in 1 .. Len(t) : Loose(u, m, i + 1) => Loose(t, l, i)
  <2> SUFFICES ASSUME NEW i \in 1 .. Len(t), Loose(u, m, i + 1)
               PROVE  l /\ \A j \in 1 .. i - 1 : t[j].op # "LoadEnd"
    BY DEF Loose
  <2>1. m /\ \A j \in 1 .. i : u[j].op # "LoadEnd"
    BY DEF Loose
  <2>2. u[1].op # "LoadEnd"
    BY <2>1
  <2>3. \A j \in 1 .. i - 1 : j + 1 \in 1 .. i /\ u[j + 1] = t[j]
    BY <1>1
  <2> QED BY <1>1, <2>1, <2>2, <2>3
<1>3. \A i \in 1 .. Len(t) : /\ Settles(t[i], Loose(t, l, i)) => Settles(u[i + 1], Loose(u, m, i + 1))
                             /\ Unmarks(u[i + 1], Loose(u, m, i + 1)) => Unmarks(t[i], Loose(t, l, i))
  <2> TAKE i \in 1 .. Len(t)
  <2>1. u[i + 1] = t[i]
    BY <1>1
  <2>2. Loose(u, m, i + 1) => Loose(t, l, i)
    BY <1>2
  <2> QED BY <2>1, <2>2 DEF Settles, Unmarks
<1>4. ASSUME NEW i \in 0 .. Len(t), SettledAfter(t, l, i)
      PROVE  SettledAfter(u, m, i + 1) /\ SettledAfter(u, m, 0)
  <2>1. PICK j \in i + 1 .. Len(t) : Settles(t[j], Loose(t, l, j))
    BY <1>4 DEF SettledAfter
  <2>2. j + 1 \in i + 2 .. Len(u) /\ j + 1 \in 1 .. Len(u) /\ j \in 1 .. Len(t)
    BY <1>1
  <2> QED BY <1>3, <2>1, <2>2 DEF SettledAfter
<1>5. Loose(u, m, 1) <=> m
  BY DEF Loose
<1>6. 1 \in 1 .. Len(u) /\ 0 \in 0 .. Len(t)
  BY <1>1
<1>7. Settles(c, m) => SettledAfter(u, m, 0)
  <2>1. Settles(c, m) => Settles(u[1], Loose(u, m, 1))
    BY <1>1, <1>5 DEF Settles
  <2> QED BY <1>6, <2>1 DEF SettledAfter
<1>8. \A i \in 1 .. Len(u) : i = 1 \/ (i - 1 \in 1 .. Len(t) /\ (i - 1) + 1 = i)
  BY <1>1
<1>9. MarkKept(u, m)
  <2>1. ASSUME NEW i \in 1 .. Len(u) PROVE u[i].op # "DeleteEnd"
    <3>1. CASE i = 1
      BY <1>1, <3>1
    <3>2. CASE i # 1
      <4>1. i - 1 \in 1 .. Len(t) /\ u[i] = t[i - 1]
        BY <1>1, <1>8, <3>2
      <4> QED BY <4>1 DEF MarkKept
    <3> QED BY <3>1, <3>2
  <2>2. ASSUME m PROVE \E i \in 1 .. Len(u) : u[i].op = "LoadEnd"
    <3>1. CASE c.op = "LoadEnd"
      BY <1>1, <1>6, <3>1
    <3>2. CASE l
      <4>1. PICK k \in 1 .. Len(t) : t[k].op = "LoadEnd"
        BY <3>2 DEF MarkKept
      <4>2. k + 1 \in 1 .. Len(u) /\ u[k + 1] = t[k]
        BY <1>1
      <4> QED BY <4>1, <4>2
    <3> QED BY <2>2, <3>1, <3>2
  <2>3. ASSUME NEW i \in 1 .. Len(u), BeginsLoad(u[i]) PROVE ~Loose(u, m, i)
    <3>1. CASE i = 1
      BY <1>1, <1>5, <2>3, <3>1
    <3>2. CASE i # 1
      <4>1. i - 1 \in 1 .. Len(t) /\ (i - 1) + 1 = i
        BY <1>8, <3>2
      <4>2. u[i] = t[i - 1] /\ (Loose(u, m, i) => Loose(t, l, i - 1))
        BY <1>1, <1>2, <4>1
      <4> QED BY <2>3, <4>1, <4>2 DEF MarkKept
    <3> QED BY <3>1, <3>2
  <2>4. ASSUME ~AutoSave, NEW i \in 1 .. Len(u), Unmarks(u[i], Loose(u, m, i))
        PROVE  SettledAfter(u, m, i)
    <3>1. CASE i = 1
      <4>1. Unmarks(c, m)
        BY <1>1, <1>5, <2>4, <3>1 DEF Unmarks
      <4>2. SettledAfter(u, m, 0 + 1)
        BY <1>4, <1>6, <2>4, <4>1
      <4> QED BY <3>1, <4>2
    <3>2. CASE i # 1
      <4>1. i - 1 \in 1 .. Len(t) /\ (i - 1) + 1 = i /\ i - 1 \in 0 .. Len(t)
        BY <1>1, <1>8, <3>2
      <4>2. Unmarks(t[i - 1], Loose(t, l, i - 1))
        BY <1>3, <2>4, <4>1
      <4>3. SettledAfter(t, l, i - 1)
        BY <2>4, <4>1, <4>2 DEF MarkKept
      <4>4. SettledAfter(u, m, (i - 1) + 1)
        BY <1>4, <4>1, <4>3
      <4> QED BY <4>1, <4>4
    <3> QED BY <3>1, <3>2
  <2> QED BY <2>1, <2>2, <2>3, <2>4 DEF MarkKept
<1> QED BY <1>4, <1>6, <1>7, <1>9 DEF u

LEMMA MarkEmpty ==
  /\ \A l : MarkKept(<<>>, l) <=> ~l
  /\ \A l : ~SettledAfter(<<>>, l, 0)
<1>1. Len(<<>>) = 0 /\ \A i : i \notin 1 .. 0
  OBVIOUS
<1>2. \A l : MarkKept(<<>>, l) <=> ~l
  BY <1>1 DEF MarkKept
<1>3. \A l : ~SettledAfter(<<>>, l, 0)
  BY <1>1 DEF SettledAfter
<1> QED BY <1>2, <1>3

LEMMA CallKinds ==
  /\ \A op, name : Call(op, name).op = op /\ Call(op, name).by = "nobody"
  /\ \A name, b : LoadCall(name, b).op = "ImageLoad" /\ LoadCall(name, b).by = "nobody"
  /\ \A by, name, b : CleanupFor(by, name, b).op = "ImageCleanup" /\ CleanupFor(by, name, b).by = by
  /\ \A name : SavePathCall(name).op = "ImageSaveAs" /\ SavePathCall(name).by = "OnFileSavePath"
<1>1. \A op, name : Call(op, name).op = op /\ Call(op, name).by = "nobody"
  BY DEF Call
<1>2. \A name, b : LoadCall(name, b).op = "ImageLoad" /\ LoadCall(name, b).by = "nobody"
  BY DEF Call, LoadCall
<1>3. \A by, name, b : CleanupFor(by, name, b).op = "ImageCleanup" /\ CleanupFor(by, name, b).by = by
  BY DEF Call, CleanupFor
<1>4. \A name : SavePathCall(name).op = "ImageSaveAs" /\ SavePathCall(name).by = "OnFileSavePath"
  BY DEF Call, SavePathCall
<1> QED BY <1>1, <1>2, <1>3, <1>4

(* Calls of no account, and a load while none runs.                        *)
LEMMA MarkPushOther ==
  ASSUME NEW S, NEW t \in Seq(S), NEW c, NEW l, MarkKept(t, l),
         c.op \in {"ImageLoad", "LoadBody", "Adopt", "OnImageCrop", "OnDirCtrlChange",
                   "Destroy", "SaveAsEnd", "DeleteTry"}
  PROVE  /\ MarkKept(<<c>> \o t, l)
         /\ Settles(c, l) \/ SettledAfter(t, l, 0) => SettledAfter(<<c>> \o t, l, 0)
<1>1. c.op # "DeleteEnd" /\ ~BeginsLoad(c) /\ ~Unmarks(c, l)
  BY DEF BeginsLoad, Cleans, Unmarks
<1> QED BY <1>1, MarkPush

LEMMA MarkIfClean ==
  ASSUME NEW c \in CallSet, Cleans(c), NEW r \in Seq(CallSet), NEW l, MarkKept(r, l),
         BeginsLoad(c) => ~l,
         ~AutoSave /\ Unmarks(c, l) => SettledAfter(r, l, 0)
  PROVE  /\ MarkKept(IfClean(c) \o r, l)
         /\ Settles(c, l) \/ SettledAfter(r, l, 0) => SettledAfter(IfClean(c) \o r, l, 0)
         /\ ~AutoSave => SettledAfter(IfClean(c) \o r, l, 0)
<1>1. CASE c.by = "OnFileOpen"
  <2> DEFINE a == LoadCall(c.name, FALSE)
             b == Call("Adopt", c.name)
  <2>1. a.op = "ImageLoad" /\ b.op = "Adopt" /\ IfClean(c) = <<a, b>>
    <3>1. a.op = "ImageLoad" /\ b.op = "Adopt"
      BY CallKinds
    <3>2. IfClean(c) = <<a, b>>
      BY <1>1 DEF IfClean
    <3> QED BY <3>1, <3>2
  <2>2. ~l
    BY <1>1 DEF BeginsLoad
  <2> HIDE DEF a, b
  <2> DEFINE t == <<b>> \o r
  <2>3. t \in Seq(CallSet \cup {b}) /\ IfClean(c) \o r = <<a>> \o t
    BY <2>1, PushTwo
  <2>4. MarkKept(t, l)
    BY <2>1, MarkPushOther
  <2> HIDE DEF t
  <2>5. Settles(a, l)
    BY <2>1, <2>2 DEF Settles
  <2>6. MarkKept(<<a>> \o t, l) /\ SettledAfter(<<a>> \o t, l, 0)
    BY <2>1, <2>3, <2>4, <2>5, MarkPushOther
  <2> QED BY <2>3, <2>6
<1>2. CASE c.by \in {"LoadFile", "ImageLoad"}
  <2>1. \E a : IfClean(c) = <<a>> /\ a.op \in {"ImageLoad", "LoadBody"} /\ Settles(a, l)
    <3>1. CASE c.by = "LoadFile"
      <4>1. IfClean(c) = <<LoadCall(c.name, TRUE)>> /\ ~l
        BY <3>1 DEF IfClean, BeginsLoad
      <4>2. LoadCall(c.name, TRUE).op = "ImageLoad"
        BY CallKinds
      <4>3. Settles(LoadCall(c.name, TRUE), l)
        BY <4>1, <4>2 DEF Settles
      <4> QED BY <4>1, <4>2, <4>3
    <3>2. CASE c.by = "ImageLoad"
      <4>1. IfClean(c) = <<[c EXCEPT !.op = "LoadBody"]>>
        BY <3>2 DEF IfClean
      <4>2. [c EXCEPT !.op = "LoadBody"].op = "LoadBody"
        BY DEF CallSet
      <4>3. Settles([c EXCEPT !.op = "LoadBody"], l)
        BY <4>2 DEF Settles
      <4> QED BY <4>1, <4>2, <4>3
    <3> QED BY <1>2, <3>1, <3>2
  <2> QED BY <2>1, MarkPushOther
<1>3. CASE c.by = "OnClose"
  <2> DEFINE a == CleanupFor("nobody", None, FALSE)
             b == Call("Destroy", None)
  <2>1. a.op = "ImageCleanup" /\ a.by = "nobody" /\ b.op = "Destroy" /\ IfClean(c) = <<a, b>>
    <3>1. IfClean(c) = <<a, b>>
      BY <1>3 DEF IfClean
    <3>2. a.op = "ImageCleanup" /\ a.by = "nobody"
      BY DEF CleanupFor, Call
    <3>3. b.op = "Destroy"
      BY DEF Call
    <3> QED BY <3>1, <3>2, <3>3
  <2> HIDE DEF a, b
  <2> DEFINE t == <<b>> \o r
  <2>2. t \in Seq(CallSet \cup {b}) /\ IfClean(c) \o r = <<a>> \o t
    BY <2>1, PushTwo
  <2>3. MarkKept(t, l) /\ SettledAfter(t, l, 0)
    <3>1. Settles(b, l)
      BY <2>1 DEF Settles
    <3> QED BY <2>1, <3>1, MarkPushOther
  <2> HIDE DEF t
  <2>4. ~BeginsLoad(a) /\ a.op # "DeleteEnd"
    BY <2>1 DEF BeginsLoad
  <2>5. MarkKept(<<a>> \o t, l) /\ SettledAfter(<<a>> \o t, l, 0)
    BY <2>2, <2>3, <2>4, MarkPush
  <2> QED BY <2>2, <2>5
<1>4. CASE c.by \notin {"OnFileOpen", "LoadFile", "ImageLoad", "OnClose"}
  <2>1. IfClean(c) \o r = r
    <3>1. IfClean(c) = <<>>
      BY <1>4 DEF IfClean
    <3> QED BY <3>1
  <2>2. ~Settles(c, l) /\ Unmarks(c, l)
    BY <1>4 DEF Settles, Unmarks, Cleans, BeginsLoad
  <2> QED BY <2>1, <2>2
<1> QED BY <1>1, <1>2, <1>3, <1>4

LEMMA MarkCall ==
  ASSUME NEW c, c.op # "DeleteEnd"
  PROVE  /\ ~Unmarks(c, FALSE) \/ AutoSave => MarkKept(<<c>>, FALSE)
         /\ Settles(c, FALSE) => SettledAfter(<<c>>, FALSE, 0)
<1>1. <<c>> = <<c>> \o <<>> /\ <<>> \in Seq({c})
  OBVIOUS
<1>2. MarkKept(<<>>, FALSE)
  BY MarkEmpty
<1>3. ~Unmarks(c, FALSE) \/ AutoSave =>
        /\ MarkKept(<<c>> \o <<>>, FALSE)
        /\ Settles(c, FALSE) => SettledAfter(<<c>> \o <<>>, FALSE, 0)
  BY <1>1, <1>2, MarkPush
<1>4. Settles(c, FALSE) => SettledAfter(<<c>>, FALSE, 0)
  <2>1. Len(<<c>>) = 1 /\ <<c>>[1] = c /\ 1 \in 0 + 1 .. 1
    OBVIOUS
  <2> QED BY <2>1 DEF SettledAfter, Settles, Loose
<1> QED BY <1>1, <1>3, <1>4

(* What an edit does to the mark.                                          *)
LEMMA EditDirty ==
  ASSUME TypeOK, NEW d \in Opened
  PROVE  /\ \A change : CallTool(d, change) => doc'.dirty = d.dirty
         /\ \A after \in Opened : ImageManip(d, after) => doc'.dirty = after.dirty
         /\ \A after \in Opened : Edit(d, after) /\ d.dirty /\ after.dirty => doc'.dirty
<1>0. fresh \in Nat
  BY DEF TypeOK
<1>1. ASSUME NEW change, CallTool(d, change) PROVE doc'.dirty = d.dirty
  <2> DEFINE w == Working(d)
  <2>1. w \in Opened /\ w.dirty = d.dirty
    <3>1. w \in Opened
      BY <1>0, BlankType, WorkingType
    <3> QED BY <3>1 DEF Working, Opened
  <2>2. doc' = w \/ \E made : doc' = [w EXCEPT !.shown = made, !.zone = FALSE, !.line = FALSE]
    BY <1>1 DEF CallTool
  <2> HIDE DEF w
  <2>3. \A made : [w EXCEPT !.shown = made, !.zone = FALSE, !.line = FALSE].dirty = w.dirty
    BY <2>1 DEF Opened
  <2> QED BY <2>1, <2>2, <2>3
<1>2. ASSUME NEW after \in Opened, ImageManip(d, after) PROVE doc'.dirty = after.dirty
  BY <1>2 DEF ImageManip, Opened
<1>3. ASSUME NEW after \in Opened, Edit(d, after), d.dirty, after.dirty PROVE doc'.dirty
  BY <1>1, <1>2, <1>3 DEF Edit, CallJPEGTranTryPerfect
<1> QED BY <1>1, <1>2, <1>3

LEMMA FlagsDirty ==
  ASSUME NEW d \in Opened
  PROVE  /\ Dirty(d) \in Opened /\ Dirty(d).dirty
         /\ NoTracker(Dirty(d)) \in Opened /\ NoTracker(Dirty(d)).dirty
<1>1. Dirty(d) \in Opened /\ Dirty(d).dirty
  BY DEF Dirty, Opened
<1> DEFINE e == Dirty(d)
<1>2. NoTracker(e) \in Opened /\ NoTracker(e).dirty = e.dirty
  <2> HIDE DEF e
  <2>1. e \in Opened
    BY <1>1 DEF e
  <2> QED BY <2>1 DEF NoTracker, Opened
<1> QED BY <1>1, <1>2

LEMMA InclinDirty ==
  ASSUME TypeOK, doc \in Opened, NEW rest, Inclin(rest)
  PROVE  doc'.dirty
<1> DEFINE e == Dirty(doc)
<1>1. e \in Opened /\ e.dirty
  BY FlagsDirty
<1>2. PICK zone \in BOOLEAN : ImageManip(doc, [e EXCEPT !.line = FALSE, !.zone = zone, !.inclin = FALSE])
  BY DEF Inclin
<1> HIDE DEF e
<1> DEFINE after == [e EXCEPT !.line = FALSE, !.zone = zone, !.inclin = FALSE]
<1>3. after \in Opened /\ after.dirty = e.dirty
  BY <1>1 DEF Opened
<1>4. ImageManip(doc, after)
  BY <1>2
<1> HIDE DEF after
<1> QED BY <1>1, <1>3, <1>4, EditDirty

LEMMA CropDirty == ASSUME TypeOK, doc \in Opened, Crop(doc) PROVE doc'.dirty
  BY FlagsDirty, EditDirty DEF Crop

LEMMA EditMark ==
  ASSUME TypeOK, EditCommand, commented => doc.dirty
  PROVE  /\ commented' => doc'.dirty
         /\ UNCHANGED <<loading, running>>
         /\ todo' = <<>> \/ todo' = <<Call("OnImageCrop", None)>>
<1> USE DEF notEdited
<1>0. /\ doc \in Opened /\ Dirty(doc) \in Opened /\ Dirty(doc).dirty
      /\ NoTracker(Dirty(doc)) \in Opened /\ NoTracker(Dirty(doc)).dirty
      /\ todo = <<>>
  <2>1. doc.orig # None /\ todo = <<>>
    BY DEF EditCommand, OnImageCrop, OnImageRotate, OnImageFlipHorizontal, OnImageFlipVertical,
           OnImageJPEGOptimize, OnImageJPEGProgressive, Resize, OnImageInclin,
           OnToggleJPEGLossless, OnModeInclin, OnModeCrop, SelectZone, TypeComment,
           OnImageWriteComment, MayEdit, May, Idle
  <2> QED BY <2>1, MayType, FlagsDirty DEF TypeOK
<1>1. CASE OnImageCrop
  BY <1>0, <1>1, CropDirty DEF OnImageCrop
<1>2. CASE OnImageRotate
  BY <1>0, <1>2, EditDirty DEF OnImageRotate
<1>3. CASE OnImageFlipHorizontal
  BY <1>0, <1>3, EditDirty DEF OnImageFlipHorizontal
<1>4. CASE OnImageFlipVertical
  BY <1>0, <1>4, EditDirty DEF OnImageFlipVertical
<1>5. CASE OnImageJPEGOptimize \/ OnImageJPEGProgressive
  BY <1>0, <1>5, EditDirty DEF OnImageJPEGOptimize, OnImageJPEGProgressive, CallJPEGTranTryPerfect
<1>6. CASE Resize
  <2> DEFINE e == NoTracker(Dirty(doc))
             after == [e EXCEPT !.lossless = FALSE]
  <2>1. ImageManip(doc, after) /\ UNCHANGED todo /\ notEdited
    BY <1>6 DEF Resize
  <2>2. e \in Opened /\ e.dirty
    BY <1>0
  <2> HIDE DEF e
  <2>3. after \in Opened /\ after.dirty = e.dirty
    BY <2>2 DEF Opened
  <2> HIDE DEF after
  <2> QED BY <1>0, <2>1, <2>2, <2>3, EditDirty
<1>7. CASE OnImageInclin
  <2>1. Inclin(<<>>) /\ notEdited
    BY <1>7 DEF OnImageInclin
  <2>2. todo' = <<>> \/ todo' = <<Call("OnImageCrop", None)>> \o <<>>
    BY <2>1 DEF Inclin
  <2> QED BY <1>0, <2>1, <2>2, InclinDirty
<1>8. CASE OnToggleJPEGLossless \/ OnModeInclin \/ OnModeCrop \/ SelectZone
  <2>1. UNCHANGED todo /\ notEdited
    BY <1>8 DEF OnToggleJPEGLossless, OnModeInclin, OnModeCrop, SelectZone
  <2>2. doc'.dirty = doc.dirty
    BY <1>0, <1>8 DEF Opened, OnToggleJPEGLossless, OnModeInclin, OnModeCrop, SelectZone
  <2> QED BY <1>0, <2>1, <2>2
<1>9. CASE TypeComment
  BY <1>0, <1>9 DEF TypeComment
<1>10. CASE OnImageWriteComment
  <2>1. commented' = FALSE
    BY <1>10 DEF OnImageWriteComment, WriteComment
  <2> QED BY <1>0, <1>10, <2>1 DEF OnImageWriteComment
<1> QED BY <1>1, <1>2, <1>3, <1>4, <1>5, <1>6, <1>7, <1>8, <1>9, <1>10 DEF EditCommand

LEMMA RenamedDirty == ASSUME NEW d \in Doc, NEW from, NEW to PROVE Renamed(d, from, to).dirty = d.dirty
  BY DEF Renamed, Doc, Opened, NoDocument

LEMMA HistoryMark ==
  ASSUME TypeOK, HistoryCommand, commented => doc.dirty
  PROVE  (commented' => doc'.dirty) /\ UNCHANGED <<loading, running, todo>>
<1>1. doc \in Doc
  BY DEF TypeOK
<1>2. ASSUME NEW e, RestoreImage(e) PROVE commented' => doc'.dirty
  BY <1>2 DEF RestoreImage
<1>3. ASSUME NEW e, RestoreMove(e) PROVE commented' => doc'.dirty
  BY <1>1, <1>3, RenamedDirty DEF RestoreMove
<1> QED BY <1>2, <1>3 DEF HistoryCommand, OnImageUndo, OnImageRedo

(* A command of the menu begins with calls that keep the mark.             *)
LEMMA FileMark ==
  ASSUME TypeOK, FileCommand, "delete" \notin Commands, ~loading, commented => doc.dirty
  PROVE  /\ MarkKept(todo', FALSE)
         /\ commented' /\ ~doc'.dirty => SettledAfter(todo', FALSE, 0)
         /\ UNCHANGED <<loading, running>>
<1> USE DEF onlyTodo, notEdited
<1>0. ASSUME NEW dest, MoveTo(dest)
      PROVE  doc'.dirty = doc.dirty /\ UNCHANGED <<commented, loading, running>>
  <2>1. doc \in Doc
    BY DEF TypeOK
  <2> QED BY <1>0, <2>1, RenamedDirty DEF MoveTo
<1>1. ASSUME NEW c, todo' = <<c>>, UNCHANGED <<loading, running, commented>>, doc'.dirty = doc.dirty,
             \/ c.op \in {"OnFileSave", "OnFileSaveAs", "OnDirCtrlChange"}
             \/ c.op = "ImageCleanup" /\ c.by \in {"OnFileOpen", "LoadFile", "OnClose"}
             \/ c.op = "ImageSaveAs" /\ c.by = "OnFileSavePath"
      PROVE  /\ MarkKept(todo', FALSE)
             /\ commented' /\ ~doc'.dirty => SettledAfter(todo', FALSE, 0)
             /\ UNCHANGED <<loading, running>>
  <2>1. c.op # "DeleteEnd" /\ ~Unmarks(c, FALSE)
    BY <1>1 DEF Unmarks, Cleans
  <2> QED BY <1>1, <2>1, MarkCall
<1>2. CASE OnFileReload
  <2> DEFINE a == LoadCall(doc.orig, FALSE)
             b == Call("Adopt", None)
  <2>1. todo' = <<a, b>> /\ UNCHANGED <<loading, running>>
    BY <1>2 DEF OnFileReload
  <2>2. a.op = "ImageLoad" /\ b.op = "Adopt"
    BY CallKinds
  <2> HIDE DEF a, b
  <2>3. todo' = <<a>> \o <<b>> /\ <<b>> \in Seq({a, b})
    <3>1. a \in {a, b} /\ b \in {a, b}
      OBVIOUS
    <3>2. <<a, b>> = <<a>> \o <<b>>
      BY <3>1, TwoCalls
    <3>3. <<b>> \in Seq({a, b})
      BY <3>1
    <3> QED BY <2>1, <3>2, <3>3
  <2>4. MarkKept(<<b>>, FALSE)
    BY <2>2, MarkCall DEF Unmarks, Cleans
  <2>5. Settles(a, FALSE)
    BY <2>2 DEF Settles
  <2>6. MarkKept(<<a>> \o <<b>>, FALSE) /\ SettledAfter(<<a>> \o <<b>>, FALSE, 0)
    BY <2>2, <2>3, <2>4, <2>5, MarkPushOther
  <2> QED BY <2>1, <2>3, <2>6
<1>3. CASE FileSave \/ FileSaveAs
  <2>1. /\ \/ todo' = <<Call("OnFileSave", None)>>
           \/ todo' = <<Call("OnFileSaveAs", None)>>
        /\ UNCHANGED <<loading, running, commented, doc>>
    BY <1>3 DEF FileSave, FileSaveAs
  <2>2. Call("OnFileSave", None).op = "OnFileSave" /\ Call("OnFileSaveAs", None).op = "OnFileSaveAs"
    BY CallKinds
  <2> QED BY <1>1, <2>1, <2>2
<1>4. CASE OnClose
  <2>1. todo' = <<CleanupFor("OnClose", None, FALSE)>> /\ UNCHANGED <<loading, running, commented, doc>>
    BY <1>4 DEF OnClose
  <2>2. /\ CleanupFor("OnClose", None, FALSE).op = "ImageCleanup"
        /\ CleanupFor("OnClose", None, FALSE).by = "OnClose"
    BY DEF CleanupFor, Call
  <2> QED BY <1>1, <2>1, <2>2
<1>5. ASSUME NEW name \in UserFiles, OnFileOpen(name) \/ LoadFile(name)
      PROVE  \E by \in {"OnFileOpen", "LoadFile"}, original \in BOOLEAN :
               todo' = <<CleanupFor(by, name, original)>> /\ UNCHANGED <<loading, running, commented, doc>>
  BY <1>5 DEF OnFileOpen, LoadFile
<1>6. ASSUME NEW name \in UserFiles,
             SelectFile(name) \/ (\E next \in UserFiles : OnFileMoveAndNext(name, next))
      PROVE  /\ UNCHANGED <<loading, running, commented>> /\ doc'.dirty = doc.dirty
             /\ \E n : todo' = <<Call("OnDirCtrlChange", n)>>
  BY <1>0, <1>6 DEF SelectFile, OnFileMoveAndNext
<1>7. ASSUME NEW name \in UserFiles, NEW next \in UserFiles, OnFileSavePathAndNext(name, next)
      PROVE  /\ MarkKept(todo', FALSE)
             /\ UNCHANGED <<loading, running, commented, doc>>
  <2> DEFINE a == SavePathCall(name)
             b == Call("OnDirCtrlChange", next)
  <2>1. todo' = <<a, b>> /\ UNCHANGED <<loading, running, commented, doc>>
    BY <1>7 DEF OnFileSavePathAndNext
  <2>2. a.op = "ImageSaveAs" /\ a.by = "OnFileSavePath" /\ b.op = "OnDirCtrlChange"
    BY CallKinds
  <2> HIDE DEF a, b
  <2>3. todo' = <<a>> \o <<b>> /\ <<b>> \in Seq({a, b})
    <3>1. a \in {a, b} /\ b \in {a, b}
      OBVIOUS
    <3>2. <<a, b>> = <<a>> \o <<b>>
      BY <3>1, TwoCalls
    <3>3. <<b>> \in Seq({a, b})
      BY <3>1
    <3> QED BY <2>1, <3>2, <3>3
  <2>4. MarkKept(<<b>>, FALSE)
    BY <2>2, MarkCall DEF Unmarks, Cleans
  <2>5. a.op # "DeleteEnd" /\ ~BeginsLoad(a) /\ ~Unmarks(a, FALSE)
    BY <2>2 DEF BeginsLoad, Cleans, Unmarks
  <2>6. MarkKept(<<a>> \o <<b>>, FALSE)
    BY <2>3, <2>4, <2>5, MarkPush
  <2> QED BY <2>1, <2>3, <2>6
<1>8. ASSUME NEW name \in UserFiles, OnFileSavePath(name)
      PROVE  todo' = <<SavePathCall(name)>> /\ UNCHANGED <<loading, running, commented, doc>>
  BY <1>8 DEF OnFileSavePath
<1>9. ASSUME NEW name \in UserFiles, OnFileMove(name) \/ OnFileNameEndEdit(name)
      PROVE  todo' = <<>> /\ UNCHANGED <<loading, running, commented>> /\ doc'.dirty = doc.dirty
  BY <1>0, <1>9 DEF OnFileMove, OnFileNameEndEdit, May, Idle
<1>10. ASSUME NEW next, NEW prev PROVE ~OnFileDelete(next, prev)
  BY DEF OnFileDelete, May
<1>11. ASSUME NEW name \in UserFiles,
              \/ OnFileOpen(name) \/ LoadFile(name) \/ SelectFile(name)
              \/ OnFileMove(name) \/ OnFileNameEndEdit(name) \/ OnFileSavePath(name)
              \/ \E next \in UserFiles : OnFileMoveAndNext(name, next) \/ OnFileSavePathAndNext(name, next)
       PROVE  /\ MarkKept(todo', FALSE)
              /\ commented' /\ ~doc'.dirty => SettledAfter(todo', FALSE, 0)
              /\ UNCHANGED <<loading, running>>
  <2>1. CASE OnFileOpen(name) \/ LoadFile(name)
    <3>1. PICK by \in {"OnFileOpen", "LoadFile"}, original \in BOOLEAN :
            todo' = <<CleanupFor(by, name, original)>> /\ UNCHANGED <<loading, running, commented, doc>>
      BY <1>5, <2>1
    <3>2. CleanupFor(by, name, original).op = "ImageCleanup" /\ CleanupFor(by, name, original).by = by
      BY DEF CleanupFor, Call
    <3> QED BY <1>1, <3>1, <3>2
  <2>2. CASE SelectFile(name) \/ \E next \in UserFiles : OnFileMoveAndNext(name, next)
    <3>1. PICK n : todo' = <<Call("OnDirCtrlChange", n)>>
      BY <1>6, <2>2
    <3>2. UNCHANGED <<loading, running, commented>> /\ doc'.dirty = doc.dirty
      BY <1>6, <2>2
    <3>3. Call("OnDirCtrlChange", n).op = "OnDirCtrlChange"
      BY CallKinds
    <3> QED BY <1>1, <3>1, <3>2, <3>3
  <2>3. CASE \E next \in UserFiles : OnFileSavePathAndNext(name, next)
    BY <1>7, <2>3
  <2>4. CASE OnFileSavePath(name)
    <3>1. SavePathCall(name).op = "ImageSaveAs" /\ SavePathCall(name).by = "OnFileSavePath"
      BY CallKinds
    <3> QED BY <1>1, <1>8, <2>4, <3>1
  <2>5. CASE OnFileMove(name) \/ OnFileNameEndEdit(name)
    BY <1>9, <2>5, MarkEmpty
  <2> QED BY <1>11, <2>1, <2>2, <2>3, <2>4, <2>5
<1> QED BY <1>2, <1>3, <1>4, <1>10, <1>11 DEF FileCommand

LEMMA MarkContext ==
  ASSUME TypeOK, MarkHeld, todo # <<>>
  PROVE  /\ Head(todo) \in CallSet /\ Tail(todo) \in Seq(CallSet)
         /\ Head(todo).op # "DeleteEnd"
         /\ BeginsLoad(Head(todo)) => ~loading
         /\ Head(todo).op # "LoadEnd" =>
              /\ MarkKept(Tail(todo), loading)
              /\ ~AutoSave /\ Unmarks(Head(todo), loading) => SettledAfter(Tail(todo), loading, 0)
              /\ commented /\ ~doc.dirty =>
                   Settles(Head(todo), loading) \/ SettledAfter(Tail(todo), loading, 0)
         /\ Head(todo).op = "LoadEnd" =>
              /\ MarkKept(Tail(todo), FALSE)
              /\ commented /\ ~doc.dirty => SettledAfter(Tail(todo), FALSE, 0)
<1>1. /\ Head(todo) \in CallSet /\ Tail(todo) \in Seq(CallSet)
      /\ todo \in Seq(CallSet) /\ Head(todo) = todo[1]
  BY PendingType, TailCalls DEF TypeOK
<1>2. MarkKept(todo, loading)
  BY DEF MarkHeld
<1>3. CASE Head(todo).op # "LoadEnd"
  <2>1. /\ MarkKept(Tail(todo), loading)
        /\ todo[1].op # "DeleteEnd"
        /\ BeginsLoad(todo[1]) => ~loading
        /\ ~AutoSave /\ Unmarks(todo[1], loading) => SettledAfter(Tail(todo), loading, 0)
        /\ SettledAfter(todo, loading, 0) => Settles(todo[1], loading) \/ SettledAfter(Tail(todo), loading, 0)
    BY <1>1, <1>2, <1>3, MarkTail
  <2> QED BY <1>1, <1>3, <2>1 DEF MarkHeld
<1>4. CASE Head(todo).op = "LoadEnd"
  <2>1. /\ MarkKept(Tail(todo), FALSE)
        /\ BeginsLoad(todo[1]) => ~loading
        /\ SettledAfter(todo, loading, 0) => Settles(todo[1], loading) \/ SettledAfter(Tail(todo), FALSE, 0)
    BY <1>1, <1>2, MarkTail
  <2>2. ~Settles(todo[1], loading)
    BY <1>1, <1>4 DEF Settles, Cleans, BeginsLoad
  <2> QED BY <1>1, <1>4, <2>1, <2>2 DEF MarkHeld
<1> QED BY <1>3, <1>4

LEMMA LoadMark ==
  ASSUME TypeOK, MarkHeld,
         OnDirCtrlChange \/ ImageLoad \/ ImageLoadRefused \/ LoadBody \/ LoadEnd \/ Adopt
  PROVE  MarkHeld'
<1> USE DEF onlyTodo, notEdited
<1> DEFINE h == Head(todo)
           r == Tail(todo)
<1>0. /\ todo # <<>> /\ h \in CallSet /\ r \in Seq(CallSet) /\ doc \in Doc
      /\ {commented, loading} \subseteq BOOLEAN
  BY MarkContext DEF OnDirCtrlChange, ImageLoad, ImageLoadRefused, LoadBody, LoadEnd, Adopt, Calling, TypeOK
<1>1. CASE OnDirCtrlChange
  <2> DEFINE c == CleanupFor("LoadFile", h.name, TRUE)
  <2>1. /\ h.op = "OnDirCtrlChange" /\ UNCHANGED <<doc, commented, loading>>
        /\ todo' = r \/ (~loading /\ todo' = <<c>> \o r)
    BY <1>1 DEF OnDirCtrlChange, Calling
  <2>2. MarkKept(r, loading) /\ (commented /\ ~doc.dirty => SettledAfter(r, loading, 0))
    BY <1>0, <2>1, MarkContext DEF Settles, Cleans, BeginsLoad
  <2>3. c.op = "ImageCleanup" /\ c.by = "LoadFile"
    BY DEF CleanupFor, Call
  <2>4. ~Unmarks(c, loading) /\ c.op # "DeleteEnd"
    BY <2>3 DEF Unmarks, Cleans
  <2> HIDE DEF c, h, r
  <2>5. ~loading => /\ MarkKept(<<c>> \o r, loading)
                    /\ SettledAfter(r, loading, 0) => SettledAfter(<<c>> \o r, loading, 0)
    BY <1>0, <2>2, <2>4, MarkPush
  <2> QED BY <2>1, <2>2, <2>5 DEF MarkHeld
<1>2. CASE ImageLoad
  <2> DEFINE a == CleanupFor("ImageLoad", h.name, h.original)
             b == Call("LoadEnd", None)
  <2>1. /\ h.op = "ImageLoad" /\ ~loading /\ loading' = TRUE /\ UNCHANGED <<doc, commented>>
        /\ todo' = <<a, b>> \o r
    BY <1>2 DEF ImageLoad, Calling
  <2>2. MarkKept(r, FALSE)
    BY <1>0, <2>1, MarkContext
  <2>3. a.op = "ImageCleanup" /\ a.by = "ImageLoad" /\ b.op = "LoadEnd"
    BY DEF CleanupFor, Call
  <2> HIDE DEF a, b, h, r
  <2> DEFINE t == <<b>> \o r
  <2>4. MarkKept(t, TRUE)
    <3>1. ~BeginsLoad(b) /\ ~Unmarks(b, TRUE) /\ b.op # "DeleteEnd"
      BY <2>3 DEF BeginsLoad, Unmarks, Cleans
    <3> QED BY <1>0, <2>2, <2>3, <3>1, MarkPush
  <2>5. t \in Seq(CallSet \cup {b}) /\ todo' = <<a>> \o t
    BY <1>0, <2>1, PushTwo
  <2> HIDE DEF t
  <2>6. ~BeginsLoad(a) /\ ~Unmarks(a, TRUE) /\ a.op # "DeleteEnd" /\ Settles(a, TRUE)
    BY <2>3 DEF BeginsLoad, Unmarks, Cleans, Settles
  <2>7. MarkKept(<<a>> \o t, TRUE) /\ SettledAfter(<<a>> \o t, TRUE, 0)
    BY <2>4, <2>5, <2>6, MarkPush
  <2> QED BY <2>1, <2>5, <2>7 DEF MarkHeld
<1>3. CASE ImageLoadRefused
  <2>1. h.op = "ImageLoad" /\ loading /\ UNCHANGED <<doc, commented, loading>> /\ todo' = r
    BY <1>3 DEF ImageLoadRefused, Calling
  <2>2. ~Settles(h, loading)
    BY <2>1 DEF Settles, Cleans, BeginsLoad
  <2> QED BY <1>0, <2>1, <2>2, MarkContext DEF MarkHeld
<1>4. CASE LoadBody
  <2>1. h.op = "LoadBody" /\ commented' = FALSE /\ UNCHANGED loading /\ todo' = r
    BY <1>4 DEF LoadBody, Calling
  <2> QED BY <1>0, <2>1, MarkContext DEF MarkHeld
<1>5. CASE LoadEnd
  <2>1. h.op = "LoadEnd" /\ loading' = FALSE /\ UNCHANGED commented /\ todo' = r
    BY <1>5 DEF LoadEnd, Calling
  <2>2. doc'.dirty = doc.dirty
    <3>1. orientation => doc \in Opened
      BY DEF TypeOK, Doc
    <3> QED BY <1>5, <3>1, EditDirty DEF LoadEnd, CallJHead
  <2> QED BY <1>0, <2>1, <2>2, MarkContext DEF MarkHeld
<1>6. CASE Adopt
  <2>1. h.op = "Adopt" /\ UNCHANGED <<commented, loading>> /\ todo' = r
    BY <1>6 DEF Adopt, Calling
  <2>2. doc'.dirty = doc.dirty
    BY <1>0, <1>6 DEF Adopt, Adopted, Doc, Opened, NoDocument
  <2>3. ~Settles(h, loading)
    BY <2>1 DEF Settles, Cleans, BeginsLoad
  <2> QED BY <1>0, <2>1, <2>2, <2>3, MarkContext DEF MarkHeld
<1> QED BY <1>1, <1>2, <1>3, <1>4, <1>5, <1>6

(* An action of the cleanup leaves the mark, or goes on to what settles it. *)
LEMMA CleanupMark ==
  ASSUME TypeOK, MarkHeld,
         \/ AutoCropping \/ CropCalled \/ CleanupDone \/ CleanupAutoSave
         \/ PromptYes \/ PromptNo \/ PromptCancel
  PROVE  MarkHeld'
<1> USE DEF onlyTodo, notEdited
<1> DEFINE h == Head(todo)
           r == Tail(todo)
<1>0. /\ todo # <<>> /\ h \in CallSet /\ r \in Seq(CallSet) /\ doc \in Doc
      /\ h.op \in {"ImageCleanup", "CleanupSave", "OnImageCrop"}
      /\ UNCHANGED <<commented, loading>>
      /\ MarkKept(r, loading)
      /\ ~AutoSave /\ Unmarks(h, loading) => SettledAfter(r, loading, 0)
      /\ BeginsLoad(h) => ~loading
      /\ commented /\ ~doc.dirty => Settles(h, loading) \/ SettledAfter(r, loading, 0)
  <2>1. todo # <<>> /\ UNCHANGED <<commented, loading>>
        /\ h.op \in {"ImageCleanup", "CleanupSave", "OnImageCrop"}
    BY DEF AutoCropping, CropCalled, CleanupDone, CleanupAutoSave, PromptYes, PromptNo,
           PromptCancel, CleaningUp, Calling
  <2>2. doc \in Doc
    BY DEF TypeOK
  <2> QED BY <2>1, <2>2, MarkContext
<1>1. CASE AutoCropping
  <2> DEFINE x == [h EXCEPT !.op = "CleanupSave"]
             t == <<x>> \o r
             a == Call("OnImageCrop", None)
  <2>1. x.op = "CleanupSave" /\ x.by = h.by /\ h.op = "ImageCleanup"
    BY <1>0, <1>1 DEF CallSet, AutoCropping, Calling
  <2>2. /\ Settles(x, loading) <=> Settles(h, loading)
        /\ Unmarks(x, loading) <=> Unmarks(h, loading)
        /\ BeginsLoad(x) <=> BeginsLoad(h)
    BY <2>1 DEF Settles, Unmarks, BeginsLoad, Cleans
  <2>3. MarkKept(t, loading) /\ (commented /\ ~doc.dirty => SettledAfter(t, loading, 0))
    <3> HIDE DEF x, h, r
    <3>1. x.op # "DeleteEnd"
      BY <2>1
    <3> QED BY <1>0, <2>2, <3>1, MarkPush
  <2>4. a.op = "OnImageCrop"
    BY CallKinds
  <2>5. t \in Seq(CallSet \cup {x})
    BY <1>0, PushTwo
  <2>6. \/ doc.inclin /\ Inclin(t)
        \/ doc.zone /\ Crop(doc) /\ todo' = t
        \/ todo' = t /\ UNCHANGED doc
    BY <1>1 DEF AutoCropping
  <2> HIDE DEF t, a, x, h, r
  <2>7. CASE doc.inclin /\ Inclin(t)
    <3>1. doc \in Opened
      BY <1>0, <2>7 DEF Doc, NoDocument
    <3>2. doc'.dirty
      BY <2>7, <3>1, InclinDirty
    <3>3. todo' = t \/ todo' = <<a>> \o t
      BY <2>7 DEF Inclin, a
    <3>4. MarkKept(<<a>> \o t, loading)
      BY <2>3, <2>4, <2>5, MarkPushOther
    <3> QED BY <1>0, <2>3, <3>2, <3>3, <3>4 DEF MarkHeld
  <2>8. CASE doc.zone /\ Crop(doc) /\ todo' = t
    <3>1. doc \in Opened
      BY <1>0, <2>8 DEF Doc, NoDocument
    <3> QED BY <1>0, <2>3, <2>8, <3>1, CropDirty DEF MarkHeld
  <2>9. CASE todo' = t /\ UNCHANGED doc
    BY <1>0, <2>3, <2>9 DEF MarkHeld
  <2> QED BY <2>6, <2>7, <2>8, <2>9
<1>2. CASE CropCalled
  <2>1. h.op = "OnImageCrop" /\ todo' = r /\ (UNCHANGED doc \/ (doc.zone /\ Crop(doc)))
    BY <1>2 DEF CropCalled, Calling
  <2>2. ~Settles(h, loading)
    BY <2>1 DEF Settles, Cleans, BeginsLoad
  <2>3. doc.zone => doc \in Opened
    BY <1>0 DEF Doc, NoDocument
  <2> QED BY <1>0, <2>1, <2>2, <2>3, CropDirty DEF MarkHeld
<1>3. CASE CleanupDone \/ CleanupAutoSave \/ PromptYes \/ PromptNo \/ PromptCancel
  <2> DEFINE u == IfClean(h) \o r
  <2>1. Cleans(h)
    BY <1>3 DEF Cleans, CleanupDone, CleanupAutoSave, PromptYes, PromptNo, PromptCancel,
                CleaningUp, Calling
  <2>2. /\ MarkKept(u, loading)
        /\ Settles(h, loading) \/ SettledAfter(r, loading, 0) => SettledAfter(u, loading, 0)
        /\ ~AutoSave => SettledAfter(u, loading, 0)
    BY <1>0, <2>1, MarkIfClean
  <2>3. u \in Seq(CallSet)
    <3>1. IfClean(h) \in Seq(CallSet)
      BY <1>0, <2>1, IfCleanType DEF Cleans
    <3> QED BY <1>0, <3>1, ConcatProperties
  <2>4. \/ todo' = u /\ UNCHANGED doc
        \/ todo' = u /\ ~AutoSave
        \/ todo' = r /\ doc'.dirty
        \/ /\ UNCHANGED doc
           /\ \E x : /\ x.op = "OnFileSave" \/ (AutoSave /\ x.op = "ImageSaveAs" /\ x.by = "nobody")
                     /\ todo' = <<x>> \o u /\ doc'.dirty
    <3>1. CASE CleanupDone
      BY <3>1 DEF CleanupDone
    <3>2. CASE CleanupAutoSave
      <4> DEFINE x == IF AutoSaveElsewhere THEN Call("ImageSaveAs", AutoSaveDest[doc.orig])
                                           ELSE Call("OnFileSave", None)
      <4>1. AutoSave /\ UNCHANGED doc /\ doc'.dirty /\ todo' = <<x>> \o IfClean(h) \o r
        BY <3>2 DEF CleanupAutoSave
      <4>2. x.op = "OnFileSave" \/ (x.op = "ImageSaveAs" /\ x.by = "nobody")
        BY CallKinds
      <4> HIDE DEF x
      <4>3. <<x>> \o IfClean(h) \o r = <<x>> \o u
        <5>1. IfClean(h) \in Seq(CallSet)
          BY <1>0, <2>1, IfCleanType DEF Cleans
        <5>2. /\ IfClean(h) \in Seq(CallSet \cup {x}) /\ r \in Seq(CallSet \cup {x})
              /\ <<x>> \in Seq(CallSet \cup {x})
          BY <1>0, <5>1
        <5> QED BY <5>2, ConcatAssociative
      <4> QED BY <4>1, <4>2, <4>3
    <3>3. CASE PromptYes
      <4> DEFINE x == Call("OnFileSave", None)
      <4>1. UNCHANGED doc /\ doc'.dirty /\ todo' = <<x>> \o IfClean(h) \o r
        BY <3>3 DEF PromptYes
      <4>2. x.op = "OnFileSave"
        BY CallKinds
      <4> HIDE DEF x
      <4>3. <<x>> \o IfClean(h) \o r = <<x>> \o u
        <5>1. IfClean(h) \in Seq(CallSet)
          BY <1>0, <2>1, IfCleanType DEF Cleans
        <5>2. /\ IfClean(h) \in Seq(CallSet \cup {x}) /\ r \in Seq(CallSet \cup {x})
              /\ <<x>> \in Seq(CallSet \cup {x})
          BY <1>0, <5>1
        <5> QED BY <5>2, ConcatAssociative
      <4> QED BY <4>1, <4>2, <4>3
    <3>4. CASE PromptNo
      BY <3>4 DEF PromptNo
    <3>5. CASE PromptCancel
      BY <3>5 DEF PromptCancel
    <3> QED BY <1>3, <3>1, <3>2, <3>3, <3>4, <3>5
  <2> HIDE DEF u, h, r
  <2>5. ASSUME NEW x, x.op = "OnFileSave" \/ (AutoSave /\ x.op = "ImageSaveAs")
        PROVE  MarkKept(<<x>> \o u, loading)
    <3>1. x.op # "DeleteEnd" /\ ~BeginsLoad(x)
      BY <2>5 DEF BeginsLoad, Cleans
    <3> QED BY <2>2, <2>3, <3>1, MarkPush
  <2> QED BY <1>0, <2>2, <2>4, <2>5 DEF MarkHeld
<1> QED BY <1>1, <1>2, <1>3

LEMMA WritingMark ==
  ASSUME TypeOK, MarkHeld,
         SaveComment \/ LeaveComment \/ WriteRefused \/ WriteLossless \/ WriteImage
  PROVE  MarkHeld'
<1> USE DEF onlyTodo, notEdited
<1> DEFINE h == Head(todo)
           r == Tail(todo)
<1>0. /\ todo # <<>> /\ h \in CallSet /\ r \in Seq(CallSet) /\ doc \in Doc
      /\ h.op \in {"OnFileSave", "FileWrite"} /\ UNCHANGED loading
      /\ MarkKept(r, loading)
      /\ ~AutoSave /\ Unmarks(h, loading) => SettledAfter(r, loading, 0)
      /\ commented /\ ~doc.dirty => SettledAfter(r, loading, 0)
  <2>1. todo # <<>> /\ UNCHANGED loading /\ h.op \in {"OnFileSave", "FileWrite"}
    BY DEF SaveComment, LeaveComment, WriteRefused, WriteLossless, WriteImage, Writing, Calling
  <2>2. doc \in Doc
    BY DEF TypeOK
  <2>3. ~Settles(h, loading)
    BY <2>1 DEF Settles, Cleans, BeginsLoad
  <2> QED BY <2>1, <2>2, <2>3, MarkContext
(* The save goes on, in the same load.                                     *)
<1>1. ASSUME NEW x, x.op \in {"FileWrite", "OnFileSaveAs"}
      PROVE  /\ MarkKept(<<x>> \o r, loading)
             /\ SettledAfter(r, loading, 0) => SettledAfter(<<x>> \o r, loading, 0)
  <2>1. x.op # "DeleteEnd" /\ ~BeginsLoad(x)
    BY <1>1 DEF BeginsLoad, Cleans
  <2>2. Unmarks(x, loading) => Unmarks(h, loading)
    BY <1>0, <1>1 DEF Unmarks, Cleans
  <2> HIDE DEF h, r
  <2> QED BY <1>0, <2>1, <2>2, MarkPush
<1>2. CASE SaveComment
  <2>1. commented' = FALSE /\ todo' = <<Call("FileWrite", None)>> \o r
    BY <1>2 DEF SaveComment, WriteComment
  <2>2. Call("FileWrite", None).op = "FileWrite"
    BY CallKinds
  <2>3. MarkKept(<<Call("FileWrite", None)>> \o r, loading)
    BY <1>1, <2>2
  <2> HIDE DEF h, r
  <2> QED BY <1>0, <2>1, <2>3 DEF MarkHeld
<1>3. CASE LeaveComment \/ WriteRefused
  <2>1. /\ \E op \in {"FileWrite", "OnFileSaveAs"} : todo' = <<Call(op, None)>> \o r
        /\ UNCHANGED <<commented, doc>>
    BY <1>3 DEF LeaveComment, WriteRefused
  <2>2. PICK op \in {"FileWrite", "OnFileSaveAs"} : todo' = <<Call(op, None)>> \o r
    BY <2>1
  <2>3. Call(op, None).op \in {"FileWrite", "OnFileSaveAs"}
    BY <2>2, CallKinds
  <2>4. /\ MarkKept(<<Call(op, None)>> \o r, loading)
        /\ SettledAfter(r, loading, 0) => SettledAfter(<<Call(op, None)>> \o r, loading, 0)
    BY <1>1, <2>3
  <2> HIDE DEF h, r
  <2> QED BY <1>0, <2>1, <2>2, <2>4 DEF MarkHeld
<1>4. CASE WriteLossless
  <2>1. doc' = Clean(doc) /\ UNCHANGED commented /\ todo' = r
    BY <1>4 DEF WriteLossless
  <2>2. doc'.dirty = commented
    BY <1>0, <2>1 DEF Clean, Doc, Opened, NoDocument
  <2> HIDE DEF h, r
  <2> QED BY <1>0, <2>1, <2>2 DEF MarkHeld
<1>5. CASE WriteImage
  <2> DEFINE a == LoadCall(Settled(doc).file, FALSE)
  <2>1. /\ doc' = Clean(Settled(doc)) /\ UNCHANGED commented
        /\ todo' = r \/ todo' = <<a>> \o r
    BY <1>5 DEF WriteImage
  <2>2. a.op = "ImageLoad"
    BY CallKinds
  <2> HIDE DEF a, h, r
  <2>3. MarkKept(<<a>> \o r, loading)
    BY <1>0, <2>2, MarkPushOther
  <2>4. doc'.dirty = commented
    BY <1>0, <2>1, SettledSound
  <2> QED BY <1>0, <2>1, <2>3, <2>4 DEF MarkHeld
<1> QED BY <1>2, <1>3, <1>4, <1>5

LEMMA SavingAsMark ==
  ASSUME TypeOK, MarkHeld,
         \/ \E name \in UserFiles \cup {None} : OnFileSaveAs(name)
         \/ ImageSaveAs \/ SaveAsEnd \/ DeleteTry
  PROVE  MarkHeld'
<1> USE DEF onlyTodo, notEdited
<1> DEFINE h == Head(todo)
           r == Tail(todo)
<1>0. /\ todo # <<>> /\ h \in CallSet /\ r \in Seq(CallSet) /\ doc \in Doc
      /\ UNCHANGED <<commented, loading>>
      /\ MarkKept(r, loading)
      /\ ~AutoSave /\ Unmarks(h, loading) => SettledAfter(r, loading, 0)
      /\ commented /\ ~doc.dirty => Settles(h, loading) \/ SettledAfter(r, loading, 0)
  <2>1. /\ todo # <<>> /\ UNCHANGED <<commented, loading>>
        /\ h.op \in {"OnFileSaveAs", "ImageSaveAs", "SaveAsEnd", "DeleteTry"}
    BY DEF OnFileSaveAs, ImageSaveAs, SaveAsEnd, DeleteTry, Calling
  <2>2. doc \in Doc
    BY DEF TypeOK
  <2> QED BY <2>1, <2>2, MarkContext
<1>1. ASSUME NEW name, OnFileSaveAs(name) PROVE MarkHeld'
  <2> DEFINE a == Call("ImageSaveAs", name)
             b == LoadCall(name, FALSE)
             t == <<b>> \o r
  <2>1. /\ h.op = "OnFileSaveAs" /\ UNCHANGED doc
        /\ todo' = r \/ todo' = <<a, b>> \o r
    BY <1>1 DEF OnFileSaveAs, Calling
  <2>2. a.op = "ImageSaveAs" /\ a.by = "nobody" /\ b.op = "ImageLoad"
    BY CallKinds
  <2>3. ~Settles(h, loading) /\ Unmarks(h, loading) = loading
    <3>1. loading \in BOOLEAN
      BY DEF TypeOK
    <3> QED BY <2>1, <3>1 DEF Settles, Unmarks, Cleans, BeginsLoad
  <2> HIDE DEF a, b, h, r
  <2>4. <<a, b>> \o r = <<a>> \o t /\ t \in Seq(CallSet \cup {b})
    BY <1>0, PushTwo
  <2>5. /\ MarkKept(t, loading)
        /\ Settles(b, loading) \/ SettledAfter(r, loading, 0) => SettledAfter(t, loading, 0)
    BY <1>0, <2>2, MarkPushOther
  <2>6. ~loading => Settles(b, loading)
    BY <2>2 DEF Settles
  <2>7. ~AutoSave => SettledAfter(t, loading, 0)
    BY <1>0, <2>3, <2>5, <2>6
  <2>8. a.op # "DeleteEnd" /\ ~BeginsLoad(a)
    BY <2>2 DEF BeginsLoad, Cleans
  <2> HIDE DEF t
  <2>9. /\ MarkKept(<<a>> \o t, loading)
        /\ SettledAfter(t, loading, 0) => SettledAfter(<<a>> \o t, loading, 0)
    BY <2>4, <2>5, <2>7, <2>8, MarkPush
  <2> QED BY <1>0, <2>1, <2>3, <2>4, <2>5, <2>9 DEF MarkHeld
<1>2. CASE ImageSaveAs
  <2> DEFINE a == CleanupFor("nobody", None, FALSE)
             b == [h EXCEPT !.op = "SaveAsEnd"]
             t == <<b>> \o r
  <2>1. /\ h.op = "ImageSaveAs" /\ doc' = Clean(Settled(doc)) /\ todo' = <<a, b>> \o r
    BY <1>2 DEF ImageSaveAs, Calling
  <2>2. a.op = "ImageCleanup" /\ a.by = "nobody"
    BY DEF CleanupFor, Call
  <2>3. b.op = "SaveAsEnd" /\ b.by = h.by
    BY <1>0 DEF CallSet
  <2> HIDE DEF a, b, h, r
  <2>4. <<a, b>> \o r = <<a>> \o t /\ t \in Seq(CallSet \cup {b})
    BY <1>0, PushTwo
  <2>5. /\ MarkKept(t, loading)
        /\ Settles(b, loading) \/ SettledAfter(r, loading, 0) => SettledAfter(t, loading, 0)
    BY <1>0, <2>3, MarkPushOther
  <2>6. Settles(b, loading) \/ Unmarks(h, loading)
    BY <2>1, <2>3 DEF Settles, Unmarks
  <2>7. ~AutoSave => SettledAfter(t, loading, 0)
    BY <1>0, <2>5, <2>6
  <2>8. a.op # "DeleteEnd" /\ ~BeginsLoad(a)
    BY <2>2 DEF BeginsLoad, Cleans
  <2> HIDE DEF t
  <2>9. MarkKept(<<a>> \o t, loading)
    BY <2>4, <2>5, <2>7, <2>8, MarkPush
  <2>10. doc'.dirty = commented
    BY <1>0, <2>1, SettledSound
  <2> QED BY <1>0, <2>1, <2>4, <2>9, <2>10 DEF MarkHeld
<1>3. CASE SaveAsEnd
  <2>1. h.op = "SaveAsEnd" /\ doc' = SavedAs(doc, h) /\ todo' = r
    BY <1>3 DEF SaveAsEnd, Calling
  <2>2. doc'.dirty = (doc.dirty \/ (commented /\ h.by = "OnFileSavePath"))
    BY <1>0, <2>1 DEF SavedAs, Doc, Opened, NoDocument
  <2>3. Settles(h, loading) => h.by = "OnFileSavePath"
    BY <2>1 DEF Settles, Cleans, BeginsLoad
  <2> QED BY <1>0, <2>1, <2>2, <2>3 DEF MarkHeld
<1>4. CASE DeleteTry
  <2> DEFINE a == Call("OnDirCtrlChange", h.other)
  <2>1. h.op = "DeleteTry" /\ UNCHANGED doc /\ (todo' = r \/ todo' = <<a>> \o r)
    BY <1>4 DEF DeleteTry, Calling
  <2>2. a.op = "OnDirCtrlChange"
    BY CallKinds
  <2>3. ~Settles(h, loading)
    BY <2>1 DEF Settles, Cleans, BeginsLoad
  <2> HIDE DEF a, h, r
  <2>4. /\ MarkKept(<<a>> \o r, loading)
        /\ SettledAfter(r, loading, 0) => SettledAfter(<<a>> \o r, loading, 0)
    BY <1>0, <2>2, MarkPushOther
  <2> QED BY <1>0, <2>1, <2>3, <2>4 DEF MarkHeld
<1> QED BY <1>1, <1>2, <1>3, <1>4

(* A window that is closed is not opened again.                            *)
LEMMA RunningOnly ==
  /\ Command => running /\ todo = <<>>
  /\ Handler => UNCHANGED running \/ ~running'
<1> USE DEF onlyTodo, notEdited
<1>1. EditCommand => running /\ todo = <<>>
  BY DEF EditCommand, OnImageCrop, OnImageRotate, OnImageFlipHorizontal, OnImageFlipVertical,
         OnImageJPEGOptimize, OnImageJPEGProgressive, Resize, OnImageInclin,
         OnToggleJPEGLossless, OnModeInclin, OnModeCrop, SelectZone, TypeComment,
         OnImageWriteComment, MayEdit, May, Idle
<1>2. HistoryCommand => running /\ todo = <<>>
  BY DEF HistoryCommand, OnImageUndo, OnImageRedo, Idle
<1>3. FileCommand => running /\ todo = <<>>
  BY DEF FileCommand, OnFileReload, FileSave, FileSaveAs, OnClose, OnFileOpen, LoadFile, SelectFile,
         OnFileMove, OnFileNameEndEdit, OnFileSavePath, OnFileMoveAndNext, OnFileSavePathAndNext,
         OnFileDelete, May, Idle
<1>4. Handler => UNCHANGED running \/ ~running'
  BY DEF Handler, OnDirCtrlChange, ImageLoad, ImageLoadRefused, LoadBody, LoadEnd, Adopt,
         AutoCropping, CropCalled, CleanupDone, CleanupAutoSave, PromptYes, PromptNo, PromptCancel,
         SaveComment, LeaveComment, WriteRefused, WriteLossless, WriteImage, OnFileSaveAs,
         ImageSaveAs, SaveAsEnd, DeleteTry, DeleteEnd, Destroy
<1> QED BY <1>1, <1>2, <1>3, <1>4 DEF Command

LEMMA NextMark == ASSUME TypeOK, MarkInv, "delete" \notin Commands, [Next]_vars PROVE MarkInv'
<1>1. CASE UNCHANGED vars
  BY <1>1 DEF vars, MarkInv, MarkHeld
<1>2. CASE Command
  <2>1. running /\ todo = <<>> /\ MarkHeld
    BY <1>2, RunningOnly DEF MarkInv
  <2>2. ~loading /\ (commented => doc.dirty) /\ MarkKept(<<>>, FALSE)
    BY <2>1, MarkEmpty DEF MarkHeld
  <2>3. loading \in BOOLEAN
    BY DEF TypeOK
  <2>4. CASE EditCommand
    <3> DEFINE a == Call("OnImageCrop", None)
    <3>1. /\ commented' => doc'.dirty
          /\ ~loading' /\ (todo' = <<>> \/ todo' = <<a>>)
      BY <2>2, <2>4, EditMark
    <3>2. a.op = "OnImageCrop"
      BY CallKinds
    <3> HIDE DEF a
    <3>3. MarkKept(<<a>>, FALSE)
      BY <3>2, MarkCall DEF Unmarks, Cleans
    <3>4. loading' = FALSE
      BY <2>2, <2>3, <2>4, EditMark
    <3> QED BY <2>2, <3>1, <3>3, <3>4 DEF MarkInv, MarkHeld
  <2>5. CASE HistoryCommand
    <3>1. (commented' => doc'.dirty) /\ UNCHANGED <<loading, todo>>
      BY <2>2, <2>5, HistoryMark
    <3> QED BY <2>1, <3>1 DEF MarkInv, MarkHeld
  <2>6. CASE FileCommand
    <3>1. /\ MarkKept(todo', FALSE)
          /\ commented' /\ ~doc'.dirty => SettledAfter(todo', FALSE, 0)
          /\ UNCHANGED loading
      BY <2>2, <2>6, FileMark
    <3>2. loading' = FALSE
      BY <2>2, <2>3, <3>1
    <3> QED BY <3>1, <3>2 DEF MarkInv, MarkHeld
  <2> QED BY <1>2, <2>4, <2>5, <2>6 DEF Command
<1>3. CASE Handler
  <2> SUFFICES ASSUME running' PROVE MarkHeld'
    BY DEF MarkInv
  <2>1. MarkHeld
    BY <1>3, RunningOnly DEF MarkInv
  <2>2. ~DeleteEnd
    BY <2>1, MarkContext DEF DeleteEnd, Calling
  <2>3. ~Destroy
    BY DEF Destroy
  <2> QED BY <1>3, <2>1, <2>2, <2>3, LoadMark, CleanupMark, WritingMark, SavingAsMark DEF Handler
<1> QED BY <1>1, <1>2, <1>3 DEF Next

LEMMA InitMark == Init => MarkInv
  BY MarkEmpty DEF Init, MarkInv, MarkHeld

(* As long as no photo is deleted, whatever the settings, a comment that   *)
(* is typed and not applied marks the document whenever no handler runs:   *)
(* UpdateControlsState (RatioFrame.cpp) sets the mark again after a save,  *)
(* an undo or a load that took it away, so that the next load or the end   *)
(* of the program asks.  OnFileDelete is the exception: it clears the mark *)
(* with isInUpdate set.                                                    *)
THEOREM CommentIsMarked == ASSUME "delete" \notin Commands PROVE Spec => []CommentMarked
<1>1. TypeOK /\ MarkInv => CommentMarked
  BY MarkEmpty DEF CommentMarked, MarkInv, MarkHeld
<1>2. TypeOK /\ MarkInv /\ [Next]_vars => MarkInv'
  BY NextMark
<1> QED BY <1>1, <1>2, InitMark, TypeCorrect, PTL DEF Spec
=============================================================================
