----------------------- MODULE RatioFrameEditorProofs -----------------------
(* The lossless tools: who owns the temporary files, what the window shows *)
(* of them and what undo brings back.  Theorems for every set of photos,   *)
(* every length of the histories and of a session, tools that fail or not. *)
(* With them, the window implements the editor of UndoEditor: the          *)
(* refinement that RatioFrameEditor states, for every limit of the         *)
(* histories but zero.                                                     *)
EXTENDS RatioFrameEditor, RatioFrameFlagProofs

(* The photos are JPEG files that can be written, edited with the lossless *)
(* tools, saved in place, undone and loaded in every way; nothing edits    *)
(* inside a load, and the mode is never switched off (README, section 4).  *)
LosslessOnly ==
  /\ JpegFiles = UserFiles /\ ReadOnly = {}
  /\ ~AutoRot /\ ~AutoCrop /\ ~(AutoSave /\ AutoSaveElsewhere)
  /\ Commands \subseteq {"rotate", "flipH", "flipV", "crop", "select", "optimize", "progressive",
                         "undo", "redo", "open", "drop", "browse", "reload", "save", "close"}

-----------------------------------------------------------------------------
(* The calls that can be pending, and what is known between them.          *)

(* What the callers of ImageLoad still do: nothing, or tell whose photo is *)
(* edited (OnFileOpen; OnFileReload, for the photo that was).              *)
AfterLoad(t, name, original) ==
  IF original THEN t = <<>>
  ELSE t = <<Call("Adopt", name)>> \/ (name = doc.orig /\ t = <<Call("Adopt", None)>>)
LoadOf(t) ==
  /\ t # <<>>
  /\ \E name \in Present, original \in BOOLEAN :
       Head(t) = LoadCall(name, original) /\ AfterLoad(Tail(t), name, original)
ClosesBy(t) ==
  \/ t = <<CleanupFor("OnClose", None, FALSE)>> \/ t = <<Call("Destroy", None)>>
  \/ t = <<CleanupFor("nobody", None, FALSE), Call("Destroy", None)>>
Asking ==
  \E name \in Present : \/ todo = <<CleanupFor("OnFileOpen", name, FALSE)>>
                        \/ todo = <<CleanupFor("LoadFile", name, TRUE)>>
                        \/ todo = <<Call("OnDirCtrlChange", name)>>
Saving ==
  /\ doc.orig # None
  /\ todo # <<>> /\ Head(todo) = Call("OnFileSave", None)
  /\ Tail(todo) = <<>> \/ ClosesBy(Tail(todo)) \/ LoadOf(Tail(todo))
(* Outside of a load the document is on its photo or on a temporary file.  *)
Holding == todo = <<>> \/ Asking \/ ClosesBy(todo) \/ Saving \/ (LoadOf(todo) /\ ~doc.dirty)

BodyCall(name, original) == [CleanupFor("ImageLoad", name, original) EXCEPT !.op = "LoadBody"]
(* An undo point has been taken, and the document is about to be replaced. *)
Leaving ==
  /\ ~doc.dirty /\ todo # <<>>
  /\ Tail(todo) # <<>> /\ Head(Tail(todo)) = Call("LoadEnd", None)
  /\ \E name \in Present, original \in BOOLEAN :
       /\ \/ Head(todo) = CleanupFor("ImageLoad", name, original)
          \/ Head(todo) = BodyCall(name, original)
       /\ AfterLoad(Tail(Tail(todo)), name, original)

(* The photo is loaded: the file of the document is the photo.             *)
OnPhoto(name, original) == doc.file = name /\ (original => ~doc.temp /\ doc.orig = name)
Loaded ==
  /\ todo # <<>> /\ Head(todo) = Call("LoadEnd", None)
  /\ \E name \in Present, original \in BOOLEAN :
       AfterLoad(Tail(todo), name, original) /\ OnPhoto(name, original)
Adopting == \E name \in Present : AfterLoad(todo, name, FALSE) /\ OnPhoto(name, FALSE)

OnOwnFile(d) == IF d.temp THEN d.file \in Nat ELSE d.file = d.orig
LosslessDoc(d) == d.orig \in Present /\ d.lossless
Control ==
  /\ ~commented
  /\ doc = NoDocument \/ LosslessDoc(doc)
  /\ \/ ~loading /\ Holding /\ (doc # NoDocument => OnOwnFile(doc))
     \/ loading /\ Leaving /\ (doc # NoDocument => OnOwnFile(doc))
     \/ loading /\ Loaded /\ doc # NoDocument
     \/ ~loading /\ Adopting /\ doc # NoDocument

-----------------------------------------------------------------------------
(* The temporary files and what owns them.                                 *)
Temps(h) == Owned(Elements(h))
OwnedOnce(h) ==
  \A i, j \in 1 .. Len(h) : i # j /\ h[i].doc.temp /\ h[j].doc.temp => h[i].doc.file # h[j].doc.file
TempOf(d) == IF d.temp THEN {d.file} ELSE {}
(* From the undo point of a load on, the entry owns the file.              *)
Replacing == loading \/ Calling("Adopt")
Held == IF Replacing THEN {} ELSE TempOf(doc)
LosslessEntry(e) == e.kind = "image" /\ LosslessDoc(e.doc) /\ OnOwnFile(e.doc)
(* The entries of h and g and the document, with the files ts, share none. *)
Apart(h, g, ts) ==
  /\ Temps(h) \cap Temps(g) = {} /\ ts \cap Temps(h) = {} /\ ts \cap Temps(g) = {}
  /\ OwnedOnce(h) /\ OwnedOnce(g)
  /\ (\A e \in Elements(h) : LosslessEntry(e)) /\ (\A e \in Elements(g) : LosslessEntry(e))
Ownership ==
  /\ DOMAIN disk = Present \cup Temps(undo) \cup Temps(redo) \cup Held
  /\ Apart(undo, redo, Held)

(* What is shown is the file, but for a file that could not be read.       *)
Shows(d) == d.file \in DOMAIN disk /\ (Readable(disk[d.file]) => d.shown = disk[d.file])
ShowsFile == doc = NoDocument \/ (loading /\ ~Calling("LoadEnd")) \/ Shows(doc)
AllReadable == MaxUndo > 0 => \A p \in DOMAIN disk : Readable(disk[p])

Ended ==
  /\ todo = <<>> /\ undo = <<>> /\ redo = <<>> /\ DOMAIN disk = Present
  /\ doc # NoDocument => OnOwnFile(doc) /\ (doc.temp \/ Shows(doc))
LosslessInv ==
  /\ TempsNamed /\ AllReadable
  /\ running => Control /\ Ownership /\ ShowsFile
  /\ ~running => Ended

-----------------------------------------------------------------------------
(* Histories of images and their temporary files.                          *)
ImagesOnly(h) == \A i \in 1 .. Len(h) : h[i].kind = "image"

LEMMA TempsAt ==
  ASSUME NEW S, NEW h \in Seq(S), ImagesOnly(h), NEW f
  PROVE  f \in Temps(h) <=> \E i \in 1 .. Len(h) : h[i].doc.temp /\ h[i].doc.file = f
<1>1. DOMAIN h = 1 .. Len(h)
  OBVIOUS
<1>2. \A e : e \in Elements(h) <=> \E i \in 1 .. Len(h) : h[i] = e
  BY <1>1 DEF Elements
<1>3. f \in Temps(h) <=> \E e \in Elements(h) : e.kind = "image" /\ e.doc.temp /\ e.doc.file = f
  BY DEF Temps, Owned
<1> QED BY <1>2, <1>3 DEF ImagesOnly

LEMMA OwnedOne ==
  /\ \A e : e.kind = "image" => Owned({e}) = TempOf(e.doc)
  /\ \A es, fs : Owned(es \cup fs) = Owned(es) \cup Owned(fs)
  /\ \A es, f : f \in Owned(es) <=> \E e \in es : e.kind = "image" /\ e.doc.temp /\ e.doc.file = f
  /\ Owned({}) = {} /\ Temps(<<>>) = {}
<1>1. \A es, f : f \in Owned(es) <=> \E e \in es : e.kind = "image" /\ e.doc.temp /\ e.doc.file = f
  BY DEF Owned
<1>2. \A es, fs : Owned(es \cup fs) = Owned(es) \cup Owned(fs)
  BY <1>1
<1>3. \A e : e.kind = "image" => Owned({e}) = TempOf(e.doc)
  <2> SUFFICES ASSUME NEW e, e.kind = "image" PROVE Owned({e}) = TempOf(e.doc)
    OBVIOUS
  <2>1. \A f : f \in Owned({e}) <=> e.doc.temp /\ e.doc.file = f
    BY <1>1
  <2>2. \A f : f \in TempOf(e.doc) <=> e.doc.temp /\ e.doc.file = f
    BY DEF TempOf
  <2> QED BY <2>1, <2>2
<1>4. Owned({}) = {}
  BY <1>1
<1>5. Temps(<<>>) = {}
  BY <1>4 DEF Temps, Elements
<1> QED BY <1>1, <1>2, <1>3, <1>4, <1>5

LEMMA AppendTemps ==
  ASSUME NEW S, NEW h \in Seq(S), NEW e \in S, ImagesOnly(h), e.kind = "image"
  PROVE  /\ ImagesOnly(Append(h, e))
         /\ Elements(Append(h, e)) = Elements(h) \cup {e}
         /\ Temps(Append(h, e)) = Temps(h) \cup TempOf(e.doc)
         /\ OwnedOnce(h) /\ TempOf(e.doc) \cap Temps(h) = {} => OwnedOnce(Append(h, e))
<1> DEFINE g == Append(h, e)
<1>1. /\ g \in Seq(S) /\ Len(g) = Len(h) + 1 /\ Len(h) \in Nat /\ g[Len(h) + 1] = e
      /\ \A i \in 1 .. Len(h) : g[i] = h[i]
      /\ DOMAIN g = 1 .. Len(h) + 1 /\ DOMAIN h = 1 .. Len(h)
  OBVIOUS
<1> HIDE DEF g
<1>2. ImagesOnly(g)
  BY <1>1 DEF ImagesOnly
<1>3. Elements(g) = Elements(h) \cup {e}
  BY <1>1 DEF Elements
<1>4. Temps(g) = Temps(h) \cup TempOf(e.doc)
  <2>1. Owned(Elements(h) \cup {e}) = Owned(Elements(h)) \cup Owned({e}) /\ Owned({e}) = TempOf(e.doc)
    BY OwnedOne
  <2> QED BY <1>3, <2>1 DEF Temps
<1>5. ASSUME OwnedOnce(h), TempOf(e.doc) \cap Temps(h) = {} PROVE OwnedOnce(g)
  <2>1. SUFFICES ASSUME NEW i \in 1 .. Len(g), NEW j \in 1 .. Len(g), i < j,
                        g[i].doc.temp, g[j].doc.temp
                 PROVE  g[i].doc.file # g[j].doc.file
    BY <1>1 DEF OwnedOnce
  <2>2. i \in 1 .. Len(h) /\ g[i] = h[i]
    BY <1>1, <2>1
  <2>3. h[i].doc.file \in Temps(h)
    BY <2>1, <2>2, TempsAt
  <2>4. CASE j = Len(h) + 1
    BY <1>1, <1>5, <2>1, <2>2, <2>3, <2>4 DEF TempOf
  <2>5. CASE j # Len(h) + 1
    <3>1. j \in 1 .. Len(h) /\ g[j] = h[j]
      BY <1>1, <2>5
    <3> QED BY <1>5, <2>1, <2>2, <3>1 DEF OwnedOnce
  <2> QED BY <2>4, <2>5
<1> QED BY <1>2, <1>3, <1>4, <1>5 DEF g

LEMMA NewestTemps ==
  ASSUME NEW S, NEW h \in Seq(S), ImagesOnly(h), OwnedOnce(h), NEW n \in Nat
  PROVE  /\ ImagesOnly(Newest(h, n)) /\ OwnedOnce(Newest(h, n))
         /\ Temps(Newest(h, n)) \cup Owned(Oldest(h, n)) = Temps(h)
         /\ Temps(Newest(h, n)) \cap Owned(Oldest(h, n)) = {}
         /\ n > 0 /\ h # <<>> => TempOf(TopOf(h).doc) \subseteq Temps(Newest(h, n))
<1> DEFINE g == Newest(h, n)
           low == IF Len(h) > n THEN Len(h) - n ELSE 0
<1>0. Len(h) \in Nat /\ low \in Nat /\ low <= Len(h) /\ low = IF Len(h) > n THEN Len(h) - n ELSE 0
  OBVIOUS
<1>1. g \in Seq(S) /\ Len(g) = Len(h) - low /\ \A i \in 1 .. Len(g) : g[i] = h[low + i]
  <2>1. CASE Len(h) > n
    <3>1. g = SubSeq(h, Len(h) - n + 1, Len(h))
      BY <2>1 DEF Newest
    <3>2. SubSeq(h, Len(h) - n + 1, Len(h)) \in Seq(S)
      BY <2>1
    <3>3. Len(g) = n /\ \A i \in 1 .. n : g[i] = h[Len(h) - n + i]
      BY <2>1, <3>1
    <3> QED BY <2>1, <3>1, <3>2, <3>3
  <2> QED BY <2>1 DEF Newest
<1>2. \A e : e \in Oldest(h, n) <=> \E i \in 1 .. low : h[i] = e
  BY <1>0 DEF Oldest
<1> HIDE DEF g, low
<1>3. ImagesOnly(g)
  BY <1>0, <1>1 DEF ImagesOnly
<1>4. OwnedOnce(g)
  <2> SUFFICES ASSUME NEW i \in 1 .. Len(g), NEW j \in 1 .. Len(g), i # j,
                      g[i].doc.temp, g[j].doc.temp
               PROVE  g[i].doc.file # g[j].doc.file
    BY DEF OwnedOnce
  <2>1. low + i \in 1 .. Len(h) /\ low + j \in 1 .. Len(h) /\ low + i # low + j
    BY <1>0, <1>1
  <2> QED BY <1>1, <2>1 DEF OwnedOnce
<1>5. \A f : f \in Owned(Oldest(h, n)) <=> \E i \in 1 .. low : h[i].doc.temp /\ h[i].doc.file = f
  BY <1>0, <1>2, OwnedOne DEF ImagesOnly
<1>6. \A f : f \in Temps(g) <=> \E i \in low + 1 .. Len(h) : h[i].doc.temp /\ h[i].doc.file = f
  <2> TAKE f
  <2>1. f \in Temps(g) <=> \E i \in 1 .. Len(g) : g[i].doc.temp /\ g[i].doc.file = f
    BY <1>1, <1>3, TempsAt
  <2>2. ASSUME NEW i \in low + 1 .. Len(h) PROVE i - low \in 1 .. Len(g) /\ g[i - low] = h[i]
    <3>1. i - low \in 1 .. Len(g) /\ low + (i - low) = i
      BY <1>0, <1>1
    <3> QED BY <1>1, <3>1
  <2>3. ASSUME NEW i \in 1 .. Len(g) PROVE low + i \in low + 1 .. Len(h) /\ g[i] = h[low + i]
    BY <1>0, <1>1
  <2> QED BY <2>1, <2>2, <2>3, ZenonT(60)
<1>7. Temps(g) \cup Owned(Oldest(h, n)) = Temps(h)
  <2>1. \A i : i \in 1 .. Len(h) <=> i \in 1 .. low \/ i \in low + 1 .. Len(h)
    BY <1>0
  <2> QED BY <1>5, <1>6, <2>1, TempsAt
<1>8. Temps(g) \cap Owned(Oldest(h, n)) = {}
  <2>1. \A i \in 1 .. low, j \in low + 1 .. Len(h) : i \in 1 .. Len(h) /\ j \in 1 .. Len(h) /\ i # j
    BY <1>0
  <2> QED BY <1>5, <1>6, <2>1 DEF OwnedOnce
<1>9. ASSUME n > 0, h # <<>> PROVE TempOf(TopOf(h).doc) \subseteq Temps(g)
  <2>1. Len(h) \in low + 1 .. Len(h)
    BY <1>0, <1>9 DEF low
  <2> QED BY <1>6, <2>1 DEF TempOf, TopOf
<1> QED BY <1>3, <1>4, <1>7, <1>8, <1>9 DEF g

LEMMA BelowTemps ==
  ASSUME NEW S, NEW h \in Seq(S), h # <<>>, ImagesOnly(h), OwnedOnce(h)
  PROVE  /\ ImagesOnly(Below(h)) /\ OwnedOnce(Below(h)) /\ TopOf(h).kind = "image"
         /\ Temps(h) = Temps(Below(h)) \cup TempOf(TopOf(h).doc)
         /\ Temps(Below(h)) \cap TempOf(TopOf(h).doc) = {}
<1> DEFINE g == Below(h)
<1>1. /\ g \in Seq(S) /\ Len(g) = Len(h) - 1 /\ Len(h) \in Nat \ {0}
      /\ \A i \in 1 .. Len(h) - 1 : g[i] = h[i]
  BY TopType, SubSeqProperties, 1 \in Int, Len(h) - 1 \in Int DEF Below
<1> HIDE DEF g
<1>2. ImagesOnly(g) /\ OwnedOnce(g) /\ TopOf(h).kind = "image"
  BY <1>1 DEF ImagesOnly, OwnedOnce, TopOf
<1>3. \A f : f \in Temps(g) <=> \E i \in 1 .. Len(h) - 1 : h[i].doc.temp /\ h[i].doc.file = f
  BY <1>1, <1>2, TempsAt
<1>4. \A f : f \in Temps(h) <=> \E i \in 1 .. Len(h) : h[i].doc.temp /\ h[i].doc.file = f
  BY TempsAt
<1>5. \A i : i \in 1 .. Len(h) <=> i \in 1 .. Len(h) - 1 \/ i = Len(h)
  BY <1>1
<1>6. Temps(h) = Temps(g) \cup TempOf(TopOf(h).doc)
  BY <1>3, <1>4, <1>5 DEF TempOf, TopOf
<1>7. \A i \in 1 .. Len(h) - 1 : i \in 1 .. Len(h) /\ Len(h) \in 1 .. Len(h) /\ i # Len(h)
  BY <1>1
<1>8. Temps(g) \cap TempOf(TopOf(h).doc) = {}
  BY <1>3, <1>7 DEF TempOf, TopOf, OwnedOnce
<1> QED BY <1>2, <1>6, <1>8 DEF g

LEMMA LosslessHistories ==
  ASSUME TypeOK, Ownership
  PROVE  /\ undo \in Seq(Entry) /\ redo \in Seq(Entry)
         /\ ImagesOnly(undo) /\ ImagesOnly(redo)
         /\ \A h \in {undo, redo} : \A i \in 1 .. Len(h) : LosslessEntry(h[i])
         /\ Temps(undo) \subseteq Nat /\ Temps(redo) \subseteq Nat
<1>1. undo \in Seq(Entry) /\ redo \in Seq(Entry)
  BY DEF TypeOK
<1>2. \A h \in {undo, redo} : \A i \in 1 .. Len(h) : LosslessEntry(h[i])
  BY <1>1 DEF Ownership, Apart, Elements
<1>3. ImagesOnly(undo) /\ ImagesOnly(redo)
  BY <1>2 DEF ImagesOnly, LosslessEntry
<1>4. Temps(undo) \subseteq Nat /\ Temps(redo) \subseteq Nat
  BY <1>1, <1>2, <1>3, TempsAt DEF LosslessEntry, OnOwnFile
<1> QED BY <1>1, <1>2, <1>3, <1>4

LEMMA ImageOwns ==
  ASSUME NEW d \in Opened, LosslessDoc(d), OnOwnFile(d)
  PROVE  /\ Image(d) \in Entry /\ LosslessEntry(Image(d))
         /\ TempOf(Image(d).doc) = TempOf(d) /\ TempOf(d) \subseteq Nat
         /\ Image(d).doc = [d EXCEPT !.shown = Blank]
<1> DEFINE x == [d EXCEPT !.shown = Blank]
<1>1. Image(d) = [kind |-> "image", doc |-> x]
  BY DEF Image, LosslessDoc
<1>2. Image(d) \in Entry
  BY ImageType DEF Doc
<1>3. x.temp = d.temp /\ x.file = d.file /\ x.orig = d.orig /\ x.lossless = d.lossless
  BY DEF Opened
<1> HIDE DEF x
<1>4. /\ Image(d).kind = "image" /\ Image(d).doc = x
      /\ Image(d).doc.temp = d.temp /\ Image(d).doc.file = d.file
      /\ Image(d).doc.orig = d.orig /\ Image(d).doc.lossless = d.lossless
  BY <1>1, <1>3
<1>5. LosslessEntry(Image(d))
  BY <1>4 DEF LosslessEntry, LosslessDoc, OnOwnFile
<1>6. TempOf(Image(d).doc) = TempOf(d)
  BY <1>4 DEF TempOf
<1>7. TempOf(d) \subseteq Nat
  BY DEF TempOf, OnOwnFile
<1> QED BY <1>2, <1>4, <1>5, <1>6, <1>7 DEF x

(* An undo point hands the file of the document over to its entry, or      *)
(* removes it with the entries above the limit.                            *)
LEMMA UndoPointTemps ==
  ASSUME TypeOK, Ownership, ~Replacing, NEW d \in Opened, LosslessDoc(d), OnOwnFile(d),
         TempOf(d) = TempOf(doc), imageUndoPoint(d)
  PROVE  /\ redo' = <<>> /\ OwnedOnce(undo')
         /\ undo' \in Seq(Entry) /\ \A e \in Elements(undo') : LosslessEntry(e)
         /\ DOMAIN UndoPointDisk(d) = Present \cup Temps(undo')
         /\ DOMAIN UndoPointDisk(d) \subseteq DOMAIN disk
         /\ \A p \in DOMAIN UndoPointDisk(d) : UndoPointDisk(d)[p] = disk[p]
         /\ MaxUndo > 0 => /\ undo' # <<>> /\ TopOf(undo') = Image(d)
                           /\ TempOf(d) \subseteq Temps(undo')
<1> DEFINE h == Append(undo, Image(d))
           gone == Owned(Elements(redo) \cup Oldest(h, MaxUndo))
<1>1. undo \in Seq(Entry) /\ redo \in Seq(Entry) /\ ImagesOnly(undo) /\ Image(d) \in Entry
      /\ Image(d).kind = "image" /\ TempOf(Image(d).doc) = TempOf(d) /\ MaxUndo \in Nat
      /\ Temps(undo) \subseteq Nat /\ Temps(redo) \subseteq Nat /\ TempOf(d) \subseteq Nat
  BY LosslessHistories, ImageOwns, SettingsAssumption DEF LosslessEntry
<1>2. d.orig # None
  BY FilesAssumption DEF LosslessDoc
<1>3. undo' = Newest(h, MaxUndo) /\ redo' = <<>> /\ UndoPointDisk(d) = Without(disk, gone)
  BY <1>2 DEF imageUndoPoint, UndoPointDisk
<1>4. Held = TempOf(d)
  BY DEF Held
<1>5. ImagesOnly(h) /\ Temps(h) = Temps(undo) \cup TempOf(d) /\ OwnedOnce(h)
      /\ Elements(h) = Elements(undo) \cup {Image(d)}
  BY <1>1, <1>4, AppendTemps DEF Ownership, Apart
<1>6. h \in Seq(Entry) /\ h # <<>> /\ TopOf(h) = Image(d) /\ Len(h) \in Nat /\ Len(h) > 0
      /\ h[Len(h)] = Image(d)
  BY <1>1 DEF TopOf
<1> HIDE DEF h
<1>7. /\ OwnedOnce(undo') /\ undo' \in Seq(Entry)
      /\ Temps(undo') \cup Owned(Oldest(h, MaxUndo)) = Temps(h)
      /\ Temps(undo') \cap Owned(Oldest(h, MaxUndo)) = {}
      /\ MaxUndo > 0 => TempOf(TopOf(h).doc) \subseteq Temps(undo')
  BY <1>1, <1>3, <1>5, <1>6, NewestTemps, NewestType
<1>8. Elements(undo') \subseteq Elements(h)
  BY <1>1, <1>3, <1>6 DEF Elements, Newest
<1>9. \A e \in Elements(undo') : LosslessEntry(e)
  BY <1>5, <1>8, ImageOwns DEF Ownership, Apart
<1>10. gone = Temps(redo) \cup Owned(Oldest(h, MaxUndo))
  BY OwnedOne DEF Temps
<1> HIDE DEF gone
<1>11. DOMAIN disk = Present \cup Temps(undo) \cup Temps(redo) \cup TempOf(d)
       /\ Temps(undo) \cap Temps(redo) = {} /\ TempOf(d) \cap (Temps(undo) \cup Temps(redo)) = {}
       /\ Present \cap Nat = {}
  BY <1>4, FilesAssumption DEF Ownership, Apart
<1>12. DOMAIN disk \ gone = Present \cup Temps(undo')
  BY <1>1, <1>5, <1>7, <1>10, <1>11
<1>13. /\ DOMAIN UndoPointDisk(d) = Present \cup Temps(undo')
       /\ DOMAIN UndoPointDisk(d) \subseteq DOMAIN disk
       /\ \A p \in DOMAIN UndoPointDisk(d) : UndoPointDisk(d)[p] = disk[p]
  BY <1>3, <1>12 DEF Without
<1>14. MaxUndo > 0 => undo' # <<>> /\ TopOf(undo') = Image(d)
  <2> SUFFICES ASSUME MaxUndo > 0 PROVE undo' # <<>> /\ TopOf(undo') = Image(d)
    OBVIOUS
  <2>1. CASE ~(Len(h) > MaxUndo)
    BY <1>3, <1>6, <2>1 DEF Newest
  <2>2. CASE Len(h) > MaxUndo
    <3>1. undo' = SubSeq(h, Len(h) - MaxUndo + 1, Len(h))
      BY <1>3, <2>2 DEF Newest
    <3>2. Len(undo') = MaxUndo /\ undo'[MaxUndo] = h[Len(h) - MaxUndo + MaxUndo]
      BY <1>1, <1>6, <2>2, <3>1
    <3>3. Len(h) - MaxUndo + MaxUndo = Len(h)
      BY <1>1, <1>6
    <3>4. undo' # <<>>
      BY <3>2
    <3> QED BY <1>6, <3>2, <3>3, <3>4 DEF TopOf
  <2> QED BY <2>1, <2>2
<1> QED BY <1>1, <1>3, <1>6, <1>7, <1>9, <1>13, <1>14

-----------------------------------------------------------------------------
(* The steps of this world, and what each leaves true.                     *)
EditStep ==
  /\ todo = <<>> /\ todo' = <<>> /\ doc.orig # None /\ Budget
  /\ \E d \in {doc, Dirty(doc)} : CallTool(d, Retouched)
  /\ notEdited

(* What the tool leaves, in terms of the file it read, before.             *)
ToolLeaves(before, c) ==
  /\ disk' = Put(before, fresh + 1, c)
  /\ doc'.file = fresh + 1 /\ doc'.temp /\ doc'.orig = doc.orig /\ doc'.lossless
  /\ \/ doc.file \notin DOMAIN before /\ c = Blank
     \/ /\ doc.file \in DOMAIN before
        /\ \/ c = before[doc.file] /\ doc'.shown = doc.shown
           \/ c.version = fresh + 1 /\ doc'.shown = c
LEMMA ToolMakes ==
  ASSUME LosslessOnly, TypeOK, LosslessInv, running, EditStep
  PROVE  \E d \in {doc, Dirty(doc)} :
           /\ d \in Opened /\ LosslessDoc(d) /\ OnOwnFile(d) /\ TempOf(d) = TempOf(doc)
           /\ ~Replacing /\ imageUndoPoint(d) /\ Source(d) = doc.file
           /\ fresh' = fresh + 1 /\ \E c \in Content : ToolLeaves(UndoPointDisk(d), c)
<1>1. doc \in Opened /\ LosslessDoc(doc) /\ OnOwnFile(doc) /\ fresh \in Nat
  <2>1. doc # NoDocument /\ doc \in Opened
    BY OpenedDoc DEF EditStep, TypeOK
  <2>2. Holding /\ ~loading
    BY DEF EditStep, LosslessInv, Control, Leaving, Loaded, Adopting, AfterLoad
  <2> QED BY <2>1, <2>2 DEF LosslessInv, Control, TypeOK, EditStep, Adopting, AfterLoad
<1>2. ~Replacing
  BY DEF EditStep, LosslessInv, Control, Leaving, Loaded, Replacing, Calling, Adopting, AfterLoad
<1>3. PICK d \in {doc, Dirty(doc)} : CallTool(d, Retouched)
  BY DEF EditStep
<1>4. /\ d \in Opened /\ d.temp = doc.temp /\ d.file = doc.file /\ d.orig = doc.orig
      /\ d.lossless = doc.lossless /\ d.shown = doc.shown
  BY <1>1, FlagsType DEF Dirty, Opened
<1>5. LosslessDoc(d) /\ OnOwnFile(d) /\ TempOf(d) = TempOf(doc) /\ Source(d) = doc.file
  BY <1>1, <1>4 DEF LosslessDoc, OnOwnFile, TempOf, Source
<1>6. imageUndoPoint(d) /\ fresh' = fresh + 1
  BY <1>3 DEF CallTool
<1> DEFINE before == UndoPointDisk(d)
           w == Working(d)
<1>7. /\ w \in Opened /\ w.file = fresh + 1 /\ w.temp /\ w.orig = doc.orig /\ w.lossless
      /\ w.shown = doc.shown
  BY <1>1, <1>4, WorkingType, BlankType DEF Working, Opened, LosslessDoc
<1>8. DiskOK(before) /\ \A c \in Content : Retouched[c] \in Content /\ Retouched[c].version = fresh + 1
  <2>1. \A c \in Content : Retouched[c] \in Content
    BY ChangeType, <1>1
  <2>2. \A c \in Content : [c EXCEPT !.version = fresh + 1].version = fresh + 1
    BY DEF Content
  <2> QED BY <2>1, <2>2, UndoPointDiskType DEF Retouched
<1>9. \A c \in Content : LET x == [w EXCEPT !.shown = c, !.zone = FALSE, !.line = FALSE] IN
        x.file = fresh + 1 /\ x.temp /\ x.orig = doc.orig /\ x.lossless /\ x.shown = c
  BY <1>7 DEF Opened
<1>10. \E c \in Content : ToolLeaves(before, c)
  <2>1. CASE Source(d) \notin DOMAIN before /\ disk' = Put(before, fresh + 1, Blank) /\ doc' = w
    BY <1>5, <1>7, <2>1, BlankType DEF ToolLeaves
  <2>2. ASSUME Source(d) \in DOMAIN before, NEW done \in BOOLEAN,
               disk' = Put(before, fresh + 1,
                           IF done THEN Retouched[before[Source(d)]] ELSE before[Source(d)]),
               doc' = IF done THEN [w EXCEPT !.shown = Retouched[before[Source(d)]],
                                             !.zone = FALSE, !.line = FALSE]
                      ELSE w
        PROVE  \E c \in Content : ToolLeaves(before, c)
    <3>1. before[doc.file] \in Content
      BY <1>5, <1>8, <2>2, DiskDomain
    <3>2. CASE ~done
      BY <1>5, <1>7, <2>2, <3>1, <3>2 DEF ToolLeaves
    <3>3. CASE done
      <4>1. Retouched[before[doc.file]] \in Content
            /\ Retouched[before[doc.file]].version = fresh + 1
        BY <1>8, <3>1
      <4> DEFINE r == Retouched[before[doc.file]]
      <4>2. disk' = Put(before, fresh + 1, r)
            /\ doc' = [w EXCEPT !.shown = r, !.zone = FALSE, !.line = FALSE]
        BY <1>5, <2>2, <3>3
      <4> HIDE DEF r, w
      <4>3. doc'.file = fresh + 1 /\ doc'.temp /\ doc'.orig = doc.orig /\ doc'.lossless
            /\ doc'.shown = r
        BY <1>9, <4>1, <4>2 DEF r
      <4>4. r \in Content /\ r.version = fresh + 1
        BY <4>1 DEF r
      <4> QED BY <1>5, <2>2, <4>2, <4>3, <4>4 DEF ToolLeaves
    <3> QED BY <3>2, <3>3
  <2>3. \A c : Outcomes(c) \subseteq BOOLEAN
    BY DEF Outcomes
  <2> HIDE DEF before, w
  <2>4. \/ Source(d) \notin DOMAIN before /\ disk' = Put(before, fresh + 1, Blank) /\ doc' = w
        \/ /\ Source(d) \in DOMAIN before
           /\ \E done \in Outcomes(before[Source(d)]) :
                /\ disk' = Put(before, fresh + 1,
                               IF done THEN Retouched[before[Source(d)]] ELSE before[Source(d)])
                /\ doc' = IF done THEN [w EXCEPT !.shown = Retouched[before[Source(d)]],
                                                 !.zone = FALSE, !.line = FALSE]
                          ELSE w
    BY <1>3 DEF CallTool, before, w
  <2> QED BY <2>1, <2>2, <2>3, <2>4
<1> QED BY <1>2, <1>3, <1>4, <1>5, <1>6, <1>10

(* What is true after a step that leaves the window open.                  *)
World == Control /\ Ownership /\ ShowsFile /\ AllReadable

LEMMA EditKeepsWorld ==
  ASSUME LosslessOnly, TypeOK, LosslessInv, running, EditStep
  PROVE  World'
<1>1. PICK d \in {doc, Dirty(doc)} :
        /\ d \in Opened /\ LosslessDoc(d) /\ OnOwnFile(d) /\ TempOf(d) = TempOf(doc)
        /\ ~Replacing /\ imageUndoPoint(d) /\ Source(d) = doc.file
        /\ fresh' = fresh + 1 /\ \E c \in Content : ToolLeaves(UndoPointDisk(d), c)
  BY ToolMakes
<1> DEFINE before == UndoPointDisk(d)
<1>2. PICK c \in Content : ToolLeaves(before, c)
  BY <1>1
<1>3. /\ redo' = <<>> /\ OwnedOnce(undo')
      /\ undo' \in Seq(Entry) /\ \A e \in Elements(undo') : LosslessEntry(e)
      /\ DOMAIN before = Present \cup Temps(undo')
      /\ DOMAIN before \subseteq DOMAIN disk
      /\ \A p \in DOMAIN before : before[p] = disk[p]
      /\ MaxUndo > 0 => TempOf(d) \subseteq Temps(undo')
  BY <1>1, UndoPointTemps DEF LosslessInv
<1> HIDE DEF before
<1>4. World
  BY DEF World, LosslessInv
<1>5. /\ todo = <<>> /\ todo' = <<>> /\ fresh \in Nat /\ doc \in Opened /\ doc # NoDocument
      /\ doc.orig \in Present /\ Present \cap Nat = {} /\ Present \subseteq UserFiles
  <2>1. doc \in Opened /\ doc # NoDocument
    BY OpenedDoc DEF EditStep, TypeOK
  <2> QED BY <2>1, <1>4, FilesAssumption DEF EditStep, TypeOK, World, Control, LosslessDoc
<1>6. Readable(disk[doc.file]) => doc.shown = disk[doc.file]
  BY <1>1, <1>4, <1>5 DEF World, ShowsFile, Shows, Replacing
<1>7. fresh + 1 \notin DOMAIN before
  <2>1. \A t \in Nat \cap DOMAIN disk : t <= fresh
    BY DEF LosslessInv, TempsNamed
  <2> QED BY <1>3, <1>5, <2>1
<1>8. /\ DOMAIN disk' = DOMAIN before \cup {fresh + 1} /\ disk'[fresh + 1] = c
      /\ \A p \in DOMAIN before : disk'[p] = disk[p]
  BY <1>2, <1>3, <1>7 DEF ToolLeaves, Put
<1>9. /\ doc'.file = fresh + 1 /\ doc'.temp /\ doc'.orig = doc.orig /\ doc'.lossless
      /\ \/ doc.file \notin DOMAIN before /\ c = Blank
         \/ /\ doc.file \in DOMAIN before
            /\ \/ c = disk[doc.file] /\ doc'.shown = doc.shown
               \/ c.version = fresh + 1 /\ doc'.shown = c
  BY <1>2, <1>3 DEF ToolLeaves
<1>10. ~loading /\ loading' = FALSE /\ commented' = FALSE
  BY <1>1, <1>4 DEF Replacing, EditStep, notEdited, World, Control
<1>11. OnOwnFile(doc') /\ LosslessDoc(doc') /\ doc' # NoDocument /\ TempOf(doc') = {fresh + 1}
  BY <1>5, <1>9 DEF OnOwnFile, LosslessDoc, TempOf, NoDocument
<1>12. Control'
  BY <1>5, <1>10, <1>11 DEF Control, Holding
<1>13. (~Replacing)' /\ Held' = {fresh + 1}
  BY <1>5, <1>10, <1>11 DEF Replacing, Calling, Held
<1>14. Temps(redo') = {} /\ OwnedOnce(redo') /\ Elements(redo') = {}
  BY <1>3, OwnedOne DEF OwnedOnce, Elements
<1>15. Ownership'
  BY <1>3, <1>7, <1>8, <1>13, <1>14 DEF Ownership, Apart
<1>16. ShowsFile'
  BY <1>6, <1>8, <1>9 DEF ShowsFile, Shows, Readable, Blank
<1>17. AllReadable'
  <2> SUFFICES ASSUME MaxUndo > 0 PROVE \A p \in DOMAIN disk' : Readable(disk'[p])
    BY DEF AllReadable
  <2>1. \A p \in DOMAIN disk : Readable(disk[p])
    BY <1>4 DEF World, AllReadable
  <2>2. doc.file \in DOMAIN before
    BY <1>1, <1>3, <1>5 DEF OnOwnFile, LosslessDoc, TempOf, Source
  <2>3. Readable(c)
    BY <1>3, <1>5, <1>9, <2>1, <2>2, FilesAssumption DEF Readable
  <2> QED BY <1>3, <1>8, <2>1, <2>3
<1> QED BY <1>12, <1>15, <1>16, <1>17 DEF World

(* Undo and redo: one history takes the file of the document, the other    *)
(* gives one back.                                                         *)
LEMMA ExchangeTemps ==
  ASSUME NEW h \in Seq(Entry), NEW g \in Seq(Entry), h # <<>>,
         NEW d \in Opened, LosslessDoc(d), OnOwnFile(d), Apart(h, g, TempOf(d))
  PROVE  /\ Apart(Below(h), Append(g, Image(d)), TempOf(TopOf(h).doc))
         /\ LosslessEntry(TopOf(h)) /\ TopOf(h) \in Entry /\ TempOf(TopOf(h).doc) \subseteq Temps(h)
         /\ Temps(Below(h)) \cup Temps(Append(g, Image(d))) \cup TempOf(TopOf(h).doc)
              = Temps(h) \cup Temps(g) \cup TempOf(d)
<1> DEFINE a == Below(h)
           b == Append(g, Image(d))
           e == TopOf(h)
<1> USE DEF Apart
<1>1. ImagesOnly(h) /\ ImagesOnly(g)
  BY DEF ImagesOnly, LosslessEntry, Elements
<1>2. /\ Image(d) \in Entry /\ LosslessEntry(Image(d)) /\ Image(d).kind = "image"
      /\ TempOf(Image(d).doc) = TempOf(d)
  BY ImageOwns DEF LosslessEntry
<1>3. /\ Elements(b) = Elements(g) \cup {Image(d)} /\ Temps(b) = Temps(g) \cup TempOf(d)
      /\ OwnedOnce(b)
  BY <1>1, <1>2, AppendTemps
<1>4. /\ OwnedOnce(a) /\ Temps(h) = Temps(a) \cup TempOf(e.doc)
      /\ Temps(a) \cap TempOf(e.doc) = {}
  BY <1>1, BelowTemps
<1>5. e \in Elements(h) /\ e \in Entry
  <2>1. Len(h) \in 1 .. Len(h) /\ DOMAIN h = 1 .. Len(h)
    OBVIOUS
  <2> QED BY <2>1 DEF Elements, TopOf
<1>6. Elements(a) \subseteq Elements(h)
  <2>1. Len(h) \in Nat \ {0} /\ DOMAIN h = 1 .. Len(h)
    OBVIOUS
  <2>2. a \in Seq(Entry) /\ Len(a) = Len(h) - 1 /\ \A i \in 1 .. Len(h) - 1 : a[i] = h[i]
    BY <2>1, TopType, SubSeqProperties, 1 \in Int, Len(h) - 1 \in Int DEF Below
  <2>3. DOMAIN a = 1 .. Len(h) - 1
    BY <2>1, <2>2
  <2> QED BY <2>1, <2>2, <2>3 DEF Elements
<1>7. \A x \in Elements(a) \cup Elements(b) : LosslessEntry(x)
  BY <1>2, <1>3, <1>6
<1> HIDE DEF a, b, e
<1>8. /\ Temps(a) \cup Temps(b) \cup TempOf(e.doc) = Temps(h) \cup Temps(g) \cup TempOf(d)
      /\ Temps(a) \cap Temps(b) = {}
      /\ TempOf(e.doc) \cap Temps(a) = {} /\ TempOf(e.doc) \cap Temps(b) = {}
      /\ TempOf(e.doc) \subseteq Temps(h)
  BY <1>3, <1>4
<1>9. Apart(a, b, TempOf(e.doc))
  BY <1>3, <1>4, <1>7, <1>8
<1>10. LosslessEntry(e)
  BY <1>5
<1> QED BY <1>5, <1>8, <1>9, <1>10 DEF a, b, e

LEMMA ApartSwaps == ASSUME NEW h, NEW g, NEW ts, Apart(h, g, ts) PROVE Apart(g, h, ts)
  BY DEF Apart

LEMMA RestoredDoc ==
  ASSUME TypeOK, LosslessInv, running, NEW e \in Entry, LosslessEntry(e),
         Present \cup TempOf(e.doc) \subseteq DOMAIN disk, RestoreImage(e)
  PROVE  /\ disk' = disk /\ commented' = FALSE
         /\ doc'.orig = e.doc.orig /\ doc'.file = e.doc.file /\ doc'.temp = e.doc.temp
         /\ doc'.lossless = e.doc.lossless
         /\ e.doc.file \in DOMAIN disk
         /\ Readable(disk[e.doc.file]) => doc'.shown = disk[e.doc.file]
<1>1. e.kind = "image" /\ e.doc \in Opened
  <2>1. e.kind = "image" /\ e.doc \in Doc
    BY DEF LosslessEntry, Entry
  <2> QED BY <2>1, OpenedDoc, FilesAssumption DEF LosslessEntry, LosslessDoc
<1>2. Restorable(e) /\ e.doc.file \in DOMAIN disk
  BY DEF Restorable, LosslessEntry, LosslessDoc, OnOwnFile, TempOf
<1>3. doc' = Restored(e) /\ disk' = disk /\ commented' = FALSE
  BY <1>2 DEF RestoreImage
<1>4. e.doc.lossless
  BY DEF LosslessEntry, LosslessDoc
<1> DEFINE s == IF Readable(disk[e.doc.file]) THEN disk[e.doc.file] ELSE Blank
<1>5. doc' = [e.doc EXCEPT !.shown = s, !.dirty = @ \/ commented]
  BY <1>3, <1>4 DEF Restored
<1> HIDE DEF s
<1>6. /\ doc'.orig = e.doc.orig /\ doc'.file = e.doc.file /\ doc'.temp = e.doc.temp
      /\ doc'.lossless = e.doc.lossless /\ doc'.shown = s
  BY <1>1, <1>5 DEF Opened
<1> QED BY <1>2, <1>3, <1>6 DEF s

LEMMA RestoreKeepsWorld ==
  ASSUME LosslessOnly, TypeOK, LosslessInv, running, HistoryCommand
  PROVE  World'
<1>1. /\ undo \in Seq(Entry) /\ redo \in Seq(Entry) /\ World
      /\ todo = <<>> /\ todo' = <<>> /\ loading' = loading
      /\ undo # <<>> \/ redo # <<>>
  BY DEF TypeOK, LosslessInv, World, HistoryCommand, OnImageUndo, OnImageRedo, Idle
<1>2. doc # NoDocument /\ doc \in Opened
  BY <1>1, OpenedDoc DEF TypeOK
<1>3. ~loading /\ OnOwnFile(doc) /\ LosslessDoc(doc) /\ ~Replacing
  BY <1>1, <1>2 DEF World, Control, Leaving, Loaded, Adopting, AfterLoad, Replacing, Calling
<1>4. Held = TempOf(doc)
  BY <1>3 DEF Held
<1>5. /\ DOMAIN disk = Present \cup Temps(undo) \cup Temps(redo) \cup TempOf(doc)
      /\ Apart(undo, redo, TempOf(doc))
  BY <1>1, <1>4 DEF World, Ownership
<1>6. \E e \in Entry :
        /\ RestoreImage(e) /\ LosslessEntry(e)
        /\ Apart(undo', redo', TempOf(e.doc))
        /\ Temps(undo') \cup Temps(redo') \cup TempOf(e.doc)
             = Temps(undo) \cup Temps(redo) \cup TempOf(doc)
        /\ TempOf(e.doc) \subseteq DOMAIN disk
  <2>1. CASE OnImageUndo
    <3>1. undo # <<>> /\ undo' = Below(undo) /\ Apart(undo, redo, TempOf(doc))
      BY <1>5, <2>1 DEF OnImageUndo
    <3>2. /\ Apart(Below(undo), Append(redo, Image(doc)), TempOf(TopOf(undo).doc))
          /\ LosslessEntry(TopOf(undo)) /\ TopOf(undo) \in Entry
          /\ TempOf(TopOf(undo).doc) \subseteq Temps(undo)
          /\ Temps(Below(undo)) \cup Temps(Append(redo, Image(doc))) \cup TempOf(TopOf(undo).doc)
               = Temps(undo) \cup Temps(redo) \cup TempOf(doc)
      BY <1>1, <1>2, <1>3, <3>1, ExchangeTemps
    <3>3. RestoreImage(TopOf(undo)) /\ redo' = Append(redo, Image(doc))
      BY <2>1, <3>2 DEF OnImageUndo, LosslessEntry
    <3>4. Apart(undo', redo', TempOf(TopOf(undo).doc))
      BY <3>1, <3>2, <3>3
    <3> QED BY <1>5, <3>1, <3>2, <3>3, <3>4
  <2>2. CASE OnImageRedo
    <3>1. redo # <<>> /\ redo' = Below(redo) /\ Apart(redo, undo, TempOf(doc))
      BY <1>5, <2>2, ApartSwaps DEF OnImageRedo
    <3>2. /\ Apart(Below(redo), Append(undo, Image(doc)), TempOf(TopOf(redo).doc))
          /\ LosslessEntry(TopOf(redo)) /\ TopOf(redo) \in Entry
          /\ TempOf(TopOf(redo).doc) \subseteq Temps(redo)
          /\ Temps(Below(redo)) \cup Temps(Append(undo, Image(doc))) \cup TempOf(TopOf(redo).doc)
               = Temps(redo) \cup Temps(undo) \cup TempOf(doc)
      BY <1>1, <1>2, <1>3, <3>1, ExchangeTemps
    <3>3. RestoreImage(TopOf(redo)) /\ undo' = Append(undo, Image(doc))
      BY <2>2, <3>2 DEF OnImageRedo, LosslessEntry
    <3>4. Apart(undo', redo', TempOf(TopOf(redo).doc))
      BY <3>1, <3>2, <3>3, ApartSwaps
    <3> QED BY <1>5, <3>1, <3>2, <3>3, <3>4
  <2> QED BY <2>1, <2>2 DEF HistoryCommand
<1>7. PICK e \in Entry :
        /\ RestoreImage(e) /\ LosslessEntry(e)
        /\ Apart(undo', redo', TempOf(e.doc))
        /\ Temps(undo') \cup Temps(redo') \cup TempOf(e.doc)
             = Temps(undo) \cup Temps(redo) \cup TempOf(doc)
        /\ TempOf(e.doc) \subseteq DOMAIN disk
  BY <1>6
<1>8. /\ disk' = disk /\ commented' = FALSE
      /\ doc'.orig = e.doc.orig /\ doc'.file = e.doc.file /\ doc'.temp = e.doc.temp
      /\ doc'.lossless = e.doc.lossless
      /\ e.doc.file \in DOMAIN disk
      /\ Readable(disk[e.doc.file]) => doc'.shown = disk[e.doc.file]
  BY <1>5, <1>7, RestoredDoc
<1>9. OnOwnFile(doc') /\ LosslessDoc(doc') /\ TempOf(doc') = TempOf(e.doc) /\ doc' # NoDocument
  <2>1. OnOwnFile(doc') /\ LosslessDoc(doc') /\ TempOf(doc') = TempOf(e.doc)
    BY <1>7, <1>8 DEF LosslessEntry, OnOwnFile, LosslessDoc, TempOf
  <2> QED BY <2>1 DEF LosslessDoc, NoDocument
<1>10. Control'
  BY <1>1, <1>3, <1>8, <1>9 DEF Control, Holding
<1>11. Held' = TempOf(doc')
  BY <1>1, <1>3 DEF Held, Replacing, Calling
<1>12. Ownership'
  BY <1>5, <1>7, <1>8, <1>9, <1>11 DEF Ownership
<1>13. ShowsFile' /\ AllReadable'
  BY <1>1, <1>8 DEF World, ShowsFile, Shows, AllReadable
<1> QED BY <1>10, <1>12, <1>13 DEF World

-----------------------------------------------------------------------------
(* The calls between two commands.                                         *)
LEMMA CallParts ==
  /\ \A op, n : Call(op, n).op = op /\ Call(op, n).by = "nobody" /\ Call(op, n).name = n
  /\ \A n, o : /\ LoadCall(n, o).op = "ImageLoad" /\ LoadCall(n, o).name = n
               /\ LoadCall(n, o).original = o
  /\ \A by, n, o : /\ CleanupFor(by, n, o).op = "ImageCleanup" /\ CleanupFor(by, n, o).by = by
                   /\ CleanupFor(by, n, o).name = n
  /\ \A n, o : /\ BodyCall(n, o).op = "LoadBody" /\ BodyCall(n, o).name = n
               /\ BodyCall(n, o).original = o
  BY DEF Call, LoadCall, CleanupFor, BodyCall

LEMMA FewCalls ==
  /\ \A c : Head(<<c>>) = c /\ Tail(<<c>>) = <<>> /\ <<c>> # <<>>
  /\ \A c, b : Head(<<c, b>>) = c /\ Tail(<<c, b>>) = <<b>> /\ <<c, b>> # <<>>
<1>1. ASSUME NEW c PROVE Head(<<c>>) = c /\ Tail(<<c>>) = <<>> /\ <<c>> # <<>>
  OBVIOUS
<1>2. ASSUME NEW c, NEW b
      PROVE  Head(<<c, b>>) = c /\ Tail(<<c, b>>) = <<b>> /\ <<c, b>> # <<>>
  <2>1. <<b>> \in Seq({c, b})
    OBVIOUS
  <2>2. <<c, b>> = <<c>> \o <<b>>
    BY TwoCalls, c \in {c, b}, b \in {c, b}
  <2> QED BY <2>1, <2>2, PushCall
<1> QED BY <1>1, <1>2

(* What can be called, and from where.                                     *)
LEMMA Pending ==
  ASSUME Control, todo # <<>>
  PROVE  /\ Head(todo).op \in {"ImageCleanup", "OnDirCtrlChange", "OnFileSave", "ImageLoad",
                               "LoadBody", "LoadEnd", "Adopt", "Destroy"}
         /\ Head(todo).op = "OnFileSave" => ~loading /\ Saving
         /\ Head(todo).op = "Destroy" => ~loading /\ Tail(todo) = <<>>
         /\ Head(todo).op = "ImageLoad" => ~loading /\ LoadOf(todo) /\ ~doc.dirty
         /\ Head(todo).op = "LoadEnd" => loading /\ Loaded /\ doc # NoDocument
         /\ Head(todo).op = "Adopt" => ~loading /\ Adopting /\ doc # NoDocument
         /\ Head(todo).op = "LoadBody" => loading /\ Leaving
         /\ Head(todo).op = "OnDirCtrlChange" => ~loading /\ Asking
         /\ Head(todo).op = "ImageCleanup" /\ loading => Leaving
         /\ Head(todo).op = "ImageCleanup" /\ ~loading => Asking \/ ClosesBy(todo)
         /\ Head(todo).op \notin {"LoadEnd", "Adopt"} /\ doc # NoDocument => OnOwnFile(doc)
<1>1. ASSUME Asking PROVE Head(todo).op \in {"ImageCleanup", "OnDirCtrlChange"}
  <2>1. PICK name \in Present : \/ todo = <<CleanupFor("OnFileOpen", name, FALSE)>>
                                \/ todo = <<CleanupFor("LoadFile", name, TRUE)>>
                                \/ todo = <<Call("OnDirCtrlChange", name)>>
    BY <1>1 DEF Asking
  <2>2. \/ Head(todo) = CleanupFor("OnFileOpen", name, FALSE)
        \/ Head(todo) = CleanupFor("LoadFile", name, TRUE)
        \/ Head(todo) = Call("OnDirCtrlChange", name)
    BY <2>1, FewCalls
  <2>3. Head(todo) = Call("OnDirCtrlChange", name) => Head(todo).op = "OnDirCtrlChange"
    BY DEF Call
  <2>4. \/ Head(todo) = CleanupFor("OnFileOpen", name, FALSE)
        \/ Head(todo) = CleanupFor("LoadFile", name, TRUE)
        => Head(todo).op = "ImageCleanup"
    BY DEF CleanupFor, Call
  <2> QED BY <2>2, <2>3, <2>4
<1>2. ASSUME ClosesBy(todo)
      PROVE  /\ Head(todo).op \in {"ImageCleanup", "Destroy"}
             /\ Head(todo).op = "Destroy" => Tail(todo) = <<>>
  <2>1. \/ Head(todo) = CleanupFor("OnClose", None, FALSE)
        \/ Head(todo) = Call("Destroy", None) /\ Tail(todo) = <<>>
        \/ Head(todo) = CleanupFor("nobody", None, FALSE)
    BY <1>2, FewCalls DEF ClosesBy
  <2>2. Head(todo) = Call("Destroy", None) => Head(todo).op = "Destroy"
    BY DEF Call
  <2>3. \/ Head(todo) = CleanupFor("OnClose", None, FALSE)
        \/ Head(todo) = CleanupFor("nobody", None, FALSE)
        => Head(todo).op = "ImageCleanup"
    BY DEF CleanupFor, Call
  <2> QED BY <2>1, <2>2, <2>3
<1>3. Saving => Head(todo).op = "OnFileSave"
  BY CallParts DEF Saving
<1>4. LoadOf(todo) => Head(todo).op = "ImageLoad"
  BY CallParts DEF LoadOf
<1>5. Leaving => Head(todo).op \in {"ImageCleanup", "LoadBody"}
  <2> SUFFICES ASSUME Leaving PROVE Head(todo).op \in {"ImageCleanup", "LoadBody"}
    OBVIOUS
  <2>1. PICK name \in Present, original \in BOOLEAN :
          \/ Head(todo) = CleanupFor("ImageLoad", name, original)
          \/ Head(todo) = BodyCall(name, original)
    BY DEF Leaving
  <2>2. Head(todo) = CleanupFor("ImageLoad", name, original) => Head(todo).op = "ImageCleanup"
    BY DEF CleanupFor, Call
  <2>3. Head(todo) = BodyCall(name, original) => Head(todo).op = "LoadBody"
    BY DEF CleanupFor, BodyCall, Call
  <2> QED BY <2>1, <2>2, <2>3
<1>6. Loaded => Head(todo).op = "LoadEnd"
  BY CallParts DEF Loaded
<1>7. Adopting => Head(todo).op = "Adopt"
  BY CallParts, FewCalls DEF Adopting, AfterLoad
<1> QED BY <1>1, <1>2, <1>3, <1>4, <1>5, <1>6, <1>7 DEF Control, Holding

LEMMA LeaveKeepsWorld ==
  ASSUME LosslessOnly, TypeOK, LosslessInv, running, ImageLoad
  PROVE  World'
<1>1. /\ World /\ todo # <<>> /\ Head(todo).op = "ImageLoad" /\ doc \in Doc
      /\ commented' = commented /\ loading' = TRUE /\ doc' = doc
      /\ imageUndoPoint(doc) /\ disk' = UndoPointDisk(doc)
      /\ Tail(todo) \in Seq(CallSet)
  BY PendingType DEF ImageLoad, Calling, LosslessInv, World, TypeOK
<1>2. ~loading /\ ~doc.dirty /\ LoadOf(todo) /\ (doc # NoDocument => OnOwnFile(doc))
  BY <1>1, Pending DEF World
<1>3. PICK name \in Present, original \in BOOLEAN :
        Head(todo) = LoadCall(name, original) /\ AfterLoad(Tail(todo), name, original)
  BY <1>2 DEF LoadOf
<1>4. Leaving'
  <2>1. Head(todo).name = name /\ Head(todo).original = original
    BY <1>3 DEF LoadCall, Call
  <2> DEFINE c == CleanupFor("ImageLoad", name, original)
             e == Call("LoadEnd", None)
  <2>2. todo' = <<c, e>> \o Tail(todo)
    BY <2>1 DEF ImageLoad
  <2> HIDE DEF c, e
  <2>3. todo' = <<c>> \o (<<e>> \o Tail(todo)) /\ <<e>> \o Tail(todo) \in Seq(CallSet \cup {e})
    BY <1>1, <2>2, PushTwo
  <2>4. /\ todo' # <<>> /\ Head(todo') = c /\ Tail(todo') = <<e>> \o Tail(todo)
        /\ Tail(todo') # <<>> /\ Head(Tail(todo')) = e /\ Tail(Tail(todo')) = Tail(todo)
    BY <1>1, <2>3, PushCall
  <2>5. AfterLoad(Tail(Tail(todo)), name, original)'
    BY <1>1, <1>3, <2>4 DEF AfterLoad
  <2> QED BY <1>1, <1>2, <1>3, <2>4 DEF Leaving, AfterLoad, c, e
<1>5. ~Replacing /\ Replacing' /\ Held' = {} /\ ~(Calling("LoadEnd"))' /\ Held = TempOf(doc)
  <2>1. Head(todo') # Call("LoadEnd", None) \/ Head(todo').op = "LoadEnd"
    BY DEF Call
  <2>2. Head(todo').op \in {"ImageCleanup", "LoadBody"}
    <3>1. PICK n \in Present, o \in BOOLEAN :
            Head(todo') = CleanupFor("ImageLoad", n, o) \/ Head(todo') = BodyCall(n, o)
      BY <1>4 DEF Leaving
    <3>2. Head(todo') = CleanupFor("ImageLoad", n, o) => Head(todo').op = "ImageCleanup"
      BY DEF CleanupFor, Call
    <3>3. Head(todo') = BodyCall(n, o) => Head(todo').op = "LoadBody"
      BY DEF CleanupFor, BodyCall, Call
    <3> QED BY <3>1, <3>2, <3>3
  <2> QED BY <1>1, <1>2, <2>2 DEF Replacing, Held, Calling
<1>6. Control'
  BY <1>1, <1>2, <1>4 DEF World, Control
<1>7. CASE doc = NoDocument
  <2>1. undo' = undo /\ redo' = redo /\ disk' = disk /\ TempOf(doc) = {}
    BY <1>1, <1>7 DEF imageUndoPoint, UndoPointDisk, NoDocument, TempOf
  <2>2. Ownership'
    BY <1>1, <1>5, <2>1 DEF World, Ownership, Apart
  <2> QED BY <1>1, <1>6, <1>7, <2>1, <2>2 DEF World, ShowsFile, AllReadable
<1>8. CASE doc # NoDocument
  <2>1. doc \in Opened /\ LosslessDoc(doc) /\ OnOwnFile(doc)
    BY <1>1, <1>2, <1>8 DEF Doc, World, Control
  <2>2. /\ redo' = <<>> /\ OwnedOnce(undo')
        /\ undo' \in Seq(Entry) /\ \A e \in Elements(undo') : LosslessEntry(e)
        /\ DOMAIN disk' = Present \cup Temps(undo')
        /\ DOMAIN disk' \subseteq DOMAIN disk
        /\ \A p \in DOMAIN disk' : disk'[p] = disk[p]
    BY <1>1, <1>5, <2>1, UndoPointTemps DEF World
  <2>3. Temps(redo') = {} /\ OwnedOnce(redo') /\ Elements(redo') = {}
    BY <2>2, OwnedOne DEF OwnedOnce, Elements
  <2>4. Ownership'
    BY <1>5, <2>2, <2>3 DEF Ownership, Apart
  <2>5. AllReadable'
    BY <1>1, <2>2 DEF World, AllReadable
  <2>6. ShowsFile'
    BY <1>1, <1>5 DEF ShowsFile
  <2> QED BY <1>6, <2>4, <2>5, <2>6 DEF World
<1> QED BY <1>7, <1>8

LEMMA LoadBodyKeepsWorld ==
  ASSUME LosslessOnly, TypeOK, LosslessInv, running, LoadBody
  PROVE  World'
<1>1. /\ World /\ todo # <<>> /\ Head(todo).op = "LoadBody" /\ doc \in Doc
      /\ commented' = FALSE /\ todo' = Tail(todo)
      /\ UNCHANGED <<disk, undo, redo, loading>>
  BY DEF LoadBody, Calling, LosslessInv, World, TypeOK
<1>2. loading /\ Leaving /\ (doc # NoDocument => OnOwnFile(doc))
  BY <1>1, Pending DEF World
<1>3. PICK name \in Present, original \in BOOLEAN :
        /\ \/ Head(todo) = CleanupFor("ImageLoad", name, original)
           \/ Head(todo) = BodyCall(name, original)
        /\ AfterLoad(Tail(Tail(todo)), name, original)
  BY <1>2 DEF Leaving
<1>4. Head(todo).name = name /\ Head(todo).original = original
  <2>1. Head(todo) = BodyCall(name, original)
    <3>1. Head(todo) = CleanupFor("ImageLoad", name, original) => Head(todo).op = "ImageCleanup"
      BY DEF CleanupFor, Call
    <3> QED BY <1>1, <1>3, <3>1
  <2> QED BY <2>1 DEF BodyCall, CleanupFor, Call
<1>5. /\ todo' # <<>> /\ Head(todo') = Call("LoadEnd", None) /\ Head(todo').op = "LoadEnd"
      /\ Tail(todo') = Tail(Tail(todo))
  <2>1. todo' # <<>> /\ Head(todo') = Call("LoadEnd", None)
    BY <1>1, <1>2 DEF Leaving
  <2> QED BY <1>1, <2>1 DEF Call
<1> DEFINE adopts == ~doc.temp \/ original
           s == IF name \in DOMAIN disk /\ Readable(disk[name]) THEN disk[name] ELSE doc.shown
<1>6. doc' = [doc EXCEPT
                !.file = name, !.orig = IF adopts THEN name ELSE @,
                !.temp = IF adopts THEN FALSE ELSE @, !.shown = s, !.lossless = isJPEGFile(name),
                !.zone = AutoSelectMax /\ ~doc.inclin,
                !.line = doc.line /\ AutoSelectMax /\ ~doc.inclin]
  BY <1>4 DEF LoadBody, Adopts
<1>7. isJPEGFile(name)
  BY FilesAssumption DEF LosslessOnly, isJPEGFile
<1> HIDE DEF adopts, s
<1>9. /\ doc'.file = name /\ doc'.shown = s /\ doc'.lossless
      /\ doc'.orig = (IF adopts THEN name ELSE doc.orig)
      /\ doc'.temp = (IF adopts THEN FALSE ELSE doc.temp)
  <2>1. CASE doc \in Opened
    BY <1>6, <1>7, <2>1 DEF Opened
  <2>2. CASE doc = NoDocument
    BY <1>6, <1>7, <2>2 DEF NoDocument
  <2> QED BY <1>1, <2>1, <2>2 DEF Doc
<1>10. doc'.orig \in Present /\ doc' # NoDocument
  <2>1. ~adopts => doc # NoDocument
    BY DEF adopts, NoDocument
  <2>2. doc.orig \in Present \/ doc = NoDocument
    BY <1>1 DEF World, Control, LosslessDoc
  <2>3. doc'.orig \in Present
    BY <1>9, <2>1, <2>2
  <2> QED BY <2>3, FilesAssumption DEF NoDocument
<1>11. Loaded'
  <2>1. AfterLoad(Tail(todo), name, original)'
    <3>1. CASE original
      BY <1>3, <1>5, <3>1 DEF AfterLoad
    <3>2. CASE ~original /\ Tail(Tail(todo)) = <<Call("Adopt", name)>>
      BY <1>5, <3>2 DEF AfterLoad
    <3>3. CASE ~original /\ name = doc.orig /\ Tail(Tail(todo)) = <<Call("Adopt", None)>>
      <4>1. name = doc'.orig
        BY <1>9, <3>3
      <4> QED BY <1>5, <3>3, <4>1 DEF AfterLoad
    <3> QED BY <1>3, <3>1, <3>2, <3>3 DEF AfterLoad
  <2>2. OnPhoto(name, original)'
    BY <1>9 DEF OnPhoto, adopts
  <2> QED BY <1>5, <2>1, <2>2 DEF Loaded
<1>12. Control'
  BY <1>1, <1>2, <1>9, <1>10, <1>11 DEF Control, LosslessDoc
<1>13. Ownership'
  BY <1>1, <1>2 DEF World, Ownership, Held, Replacing
<1>14. name \in DOMAIN disk
  BY <1>1 DEF World, Ownership
<1>15. ShowsFile' /\ AllReadable'
  BY <1>1, <1>9, <1>14 DEF World, ShowsFile, Shows, AllReadable, s
<1> QED BY <1>12, <1>13, <1>15 DEF World

LEMMA LoadedKeepsWorld ==
  ASSUME LosslessOnly, TypeOK, LosslessInv, running, LoadEnd \/ Adopt
  PROVE  World'
<1>1. World /\ todo # <<>> /\ Tail(todo) \in Seq(CallSet) /\ todo' = Tail(todo)
      /\ UNCHANGED <<disk, undo, redo, commented>>
  BY PendingType DEF LoadEnd, Adopt, Calling, LosslessInv, World, notEdited, LosslessOnly
<1>2. CASE LoadEnd
  <2>1. loading /\ Loaded /\ doc # NoDocument /\ loading' = FALSE /\ doc' = doc
        /\ Head(todo).op = "LoadEnd"
    BY <1>1, <1>2, Pending DEF LoadEnd, Calling, World, LosslessOnly
  <2>2. PICK name \in Present, original \in BOOLEAN :
          AfterLoad(Tail(todo), name, original) /\ OnPhoto(name, original)
    BY <2>1 DEF Loaded
  <2>3. Shows(doc) /\ ShowsFile'
    BY <1>1, <1>2, <2>1 DEF World, ShowsFile, LoadEnd, Shows
  <2>4. CASE original
    <3>1. todo' = <<>> /\ ~doc.temp /\ doc.orig = name /\ doc.file = name
      BY <1>1, <2>2, <2>4 DEF AfterLoad, OnPhoto
    <3>2. Held' = {} /\ Held = {}
      BY <2>1, <3>1 DEF Held, Replacing, TempOf
    <3>3. Control'
      BY <1>1, <2>1, <3>1 DEF World, Control, Holding, OnOwnFile
    <3> QED BY <1>1, <2>3, <3>2, <3>3 DEF World, Ownership, AllReadable
  <2>5. CASE ~original
    <3>1. AfterLoad(todo', name, FALSE) /\ doc.file = name
      BY <1>1, <2>2, <2>5 DEF AfterLoad, OnPhoto
    <3>2. Adopting'
      BY <2>1, <3>1 DEF Adopting, AfterLoad, OnPhoto
    <3>3. \/ todo' = <<Call("Adopt", name)>> \/ todo' = <<Call("Adopt", None)>>
      BY <3>1 DEF AfterLoad
    <3>4. todo' # <<>> /\ Head(todo').op = "Adopt"
      BY <3>3, FewCalls DEF Call
    <3>5. Held' = {} /\ Held = {}
      BY <2>1, <3>4 DEF Held, Replacing, Calling
    <3>6. Control'
      BY <1>1, <2>1, <3>2 DEF World, Control
    <3> QED BY <1>1, <2>3, <3>5, <3>6 DEF World, Ownership, AllReadable
  <2> QED BY <2>4, <2>5
<1>3. CASE Adopt
  <2>1. ~loading /\ Adopting /\ doc # NoDocument /\ loading' = loading
    BY <1>1, <1>3, Pending DEF Adopt, Calling, World, notEdited
  <2>2. PICK name \in Present : AfterLoad(todo, name, FALSE) /\ OnPhoto(name, FALSE)
    BY <2>1 DEF Adopting
  <2>3. /\ todo' = <<>> /\ doc.file = name
        /\ (IF Head(todo).name = None THEN doc.orig ELSE Head(todo).name) = name
    <3>1. CASE todo = <<Call("Adopt", name)>>
      <4>1. Head(todo) = Call("Adopt", name) /\ Tail(todo) = <<>>
        BY <3>1, FewCalls
      <4>2. Head(todo).name = name /\ name # None
        BY <4>1, FilesAssumption DEF Call
      <4> QED BY <1>1, <2>2, <4>1, <4>2 DEF OnPhoto
    <3>2. CASE name = doc.orig /\ todo = <<Call("Adopt", None)>>
      <4>1. Head(todo) = Call("Adopt", None) /\ Tail(todo) = <<>>
        BY <3>2, FewCalls
      <4>2. Head(todo).name = None
        BY <4>1 DEF Call
      <4> QED BY <1>1, <2>2, <3>2, <4>1, <4>2 DEF OnPhoto
    <3> QED BY <2>2, <3>1, <3>2 DEF AfterLoad
  <2>4. doc' = [doc EXCEPT !.file = name, !.orig = name, !.temp = FALSE]
    BY <1>3, <2>3 DEF Adopt, Adopted
  <2>5. doc \in Doc
    BY DEF TypeOK
  <2>6. /\ doc'.file = name /\ doc'.orig = name /\ doc'.temp = FALSE /\ doc'.shown = doc.shown
        /\ doc'.lossless = doc.lossless
    BY <2>4, <2>5 DEF Doc, Opened, NoDocument
  <2>7. LosslessDoc(doc') /\ OnOwnFile(doc') /\ TempOf(doc') = {}
    BY <1>1, <2>1, <2>6 DEF World, Control, LosslessDoc, OnOwnFile, TempOf
  <2>8. Control'
    BY <1>1, <2>1, <2>3, <2>7 DEF World, Control, Holding
  <2>9. Held' = {} /\ Held = {}
    BY <1>3, <2>7 DEF Held, Replacing, Adopt
  <2>10. Shows(doc)
    BY <1>1, <2>1 DEF World, ShowsFile, Shows
  <2>11. ShowsFile'
    BY <1>1, <2>3, <2>6, <2>10 DEF ShowsFile, Shows
  <2> QED BY <1>1, <2>8, <2>9, <2>11 DEF World, Ownership, AllReadable
<1> QED BY <1>2, <1>3

LEMMA WritingSaves ==
  ASSUME Control, Writing
  PROVE  /\ Calling("OnFileSave") /\ Head(todo).op = "OnFileSave" /\ todo # <<>>
         /\ ~loading /\ Saving /\ doc # NoDocument /\ OnOwnFile(doc) /\ ~Replacing
<1>1. todo # <<>> /\ Head(todo).op = "OnFileSave"
  BY Pending DEF Writing, Calling
<1>2. ~loading /\ Saving
  BY <1>1, Pending
<1>3. doc # NoDocument
  BY <1>2 DEF Saving, NoDocument
<1> QED BY <1>1, <1>2, <1>3, Pending DEF Calling, Replacing

LEMMA WriteKeepsWorld ==
  ASSUME LosslessOnly, TypeOK, LosslessInv, running, WriteLossless
  PROVE  World'
<1>1. /\ World /\ ~commented /\ disk' = Written /\ doc' = [doc EXCEPT !.dirty = FALSE]
      /\ todo' = Tail(todo) /\ UNCHANGED <<undo, redo, loading, commented>>
      /\ Calling("OnFileSave") /\ Head(todo).op = "OnFileSave" /\ todo # <<>>
      /\ ~loading /\ Saving /\ doc # NoDocument /\ OnOwnFile(doc) /\ ~Replacing
  <2>1. World /\ ~commented /\ Writing /\ Control
    BY DEF WriteLossless, LosslessInv, World, Control
  <2>2. /\ disk' = Written /\ doc' = Clean(doc) /\ todo' = Tail(todo)
        /\ UNCHANGED <<undo, redo, loading, commented>>
    BY DEF WriteLossless, notEdited
  <2>3. Clean(doc) = [doc EXCEPT !.dirty = FALSE]
    BY <2>1, commented \in BOOLEAN DEF Clean, TypeOK
  <2> QED BY <2>1, <2>2, <2>3, WritingSaves
<1>2. doc \in Opened /\ LosslessDoc(doc)
  BY <1>1, OpenedDoc DEF TypeOK, World, Control, Doc
<1>3. /\ doc'.orig = doc.orig /\ doc'.file = doc.file /\ doc'.temp = doc.temp
      /\ doc'.lossless = doc.lossless /\ doc'.shown = doc.shown /\ doc'.dirty = FALSE
      /\ doc' # NoDocument
  <2>1. /\ doc'.orig = doc.orig /\ doc'.file = doc.file /\ doc'.temp = doc.temp
        /\ doc'.lossless = doc.lossless /\ doc'.shown = doc.shown /\ doc'.dirty = FALSE
    BY <1>1, <1>2 DEF Opened
  <2> QED BY <2>1, <1>2, FilesAssumption DEF LosslessDoc, NoDocument
<1>4. doc.file \in DOMAIN disk /\ Shows(doc)
  BY <1>1 DEF World, ShowsFile, Shows
<1>5. disk' = IF doc.file = doc.orig THEN disk ELSE Put(disk, doc.orig, disk[doc.file])
  BY <1>1, <1>4 DEF Written, CopyFile, Store, LosslessOnly
<1>6. doc.orig \in Present /\ Present \subseteq DOMAIN disk /\ Present \cap Nat = {}
  BY <1>1, <1>2, FilesAssumption DEF LosslessDoc, World, Ownership
<1>7. /\ DOMAIN disk' = DOMAIN disk
      /\ \A p \in DOMAIN disk : disk'[p] = IF p = doc.orig THEN disk[doc.file] ELSE disk[p]
  BY <1>5, <1>6 DEF Put
<1>8. disk'[doc.file] = disk[doc.file]
  BY <1>4, <1>7
<1>9. OnOwnFile(doc') /\ LosslessDoc(doc') /\ TempOf(doc') = TempOf(doc)
  BY <1>1, <1>2, <1>3 DEF OnOwnFile, LosslessDoc, TempOf
<1>10. Holding'
  <2>1. CASE Tail(todo) = <<>>
    BY <1>1, <2>1 DEF Holding
  <2>2. CASE ClosesBy(Tail(todo))
    BY <1>1, <2>2 DEF Holding, ClosesBy
  <2>3. CASE LoadOf(Tail(todo))
    BY <1>1, <1>3, <2>3 DEF Holding, LoadOf, AfterLoad
  <2> QED BY <1>1, <2>1, <2>2, <2>3 DEF Saving
<1>11. Control'
  BY <1>1, <1>9, <1>10 DEF Control
<1>12. ~Replacing' /\ Held = TempOf(doc) /\ Held' = TempOf(doc)
  <2>1. ~Calling("Adopt")'
    <3>1. CASE Tail(todo) = <<>>
      BY <1>1, <3>1 DEF Calling
    <3>2. CASE ClosesBy(Tail(todo))
      <4>1. \/ Head(Tail(todo)) = CleanupFor("OnClose", None, FALSE)
            \/ Head(Tail(todo)) = Call("Destroy", None)
            \/ Head(Tail(todo)) = CleanupFor("nobody", None, FALSE)
        BY <3>2, FewCalls, ZenonT(60) DEF ClosesBy
      <4>2. Call("Destroy", None).op = "Destroy"
        BY DEF Call
      <4>3. \/ Head(Tail(todo)) = CleanupFor("OnClose", None, FALSE)
            \/ Head(Tail(todo)) = CleanupFor("nobody", None, FALSE)
            => Head(Tail(todo)).op = "ImageCleanup"
        BY DEF CleanupFor, Call
      <4> QED BY <1>1, <4>1, <4>2, <4>3 DEF Calling
    <3>3. CASE LoadOf(Tail(todo))
      <4>1. Head(Tail(todo)).op = "ImageLoad"
        BY <3>3, CallParts DEF LoadOf
      <4> QED BY <1>1, <4>1 DEF Calling
    <3> QED BY <1>1, <3>1, <3>2, <3>3 DEF Saving
  <2> QED BY <1>1, <1>9, <2>1 DEF Replacing, Held
<1>13. Ownership'
  BY <1>1, <1>7, <1>12 DEF World, Ownership, Apart
<1>14. ShowsFile' /\ AllReadable'
  BY <1>1, <1>3, <1>4, <1>7, <1>8 DEF World, ShowsFile, Shows, AllReadable
<1> QED BY <1>11, <1>13, <1>14 DEF World

LEMMA DestroyEnds ==
  ASSUME LosslessOnly, TypeOK, LosslessInv, running, Destroy
  PROVE  Ended' /\ AllReadable' /\ ~running'
<1>1. World /\ todo # <<>> /\ Head(todo).op = "Destroy"
  BY DEF Destroy, Calling, LosslessInv, World
<1>2. ~loading /\ ~Replacing /\ (doc # NoDocument => OnOwnFile(doc))
  BY <1>1, Pending DEF World, Replacing, Calling
<1>3. /\ DOMAIN disk = Present \cup Temps(undo) \cup Temps(redo) \cup TempOf(doc)
      /\ Temps(undo) \subseteq Nat /\ Temps(redo) \subseteq Nat /\ Present \cap Nat = {}
  BY <1>1, <1>2, LosslessHistories, FilesAssumption DEF World, Ownership, Held
<1>4. TempOf(doc) \subseteq Nat
  BY <1>2 DEF TempOf, OnOwnFile, NoDocument
<1>5. Owned(Elements(undo) \cup Elements(redo)) = Temps(undo) \cup Temps(redo)
  BY OwnedOne DEF Temps
<1>6. disk' = Without(disk, TempOf(doc) \cup (Temps(undo) \cup Temps(redo)))
  BY <1>5 DEF Destroy, TempOf
<1>7. DOMAIN disk' = Present /\ \A p \in Present : disk'[p] = disk[p] /\ p \in DOMAIN disk
  BY <1>3, <1>4, <1>6 DEF Without
<1>8. todo' = <<>> /\ undo' = <<>> /\ redo' = <<>> /\ running' = FALSE /\ doc' = doc
  BY DEF Destroy
<1>9. doc # NoDocument => OnOwnFile(doc) /\ (doc.temp \/ Shows(doc)')
  <2> SUFFICES ASSUME doc # NoDocument, ~doc.temp PROVE Shows(doc)'
    BY <1>2
  <2>1. Shows(doc) /\ doc.file \in Present
    BY <1>1, <1>2 DEF World, Control, ShowsFile, LosslessDoc, OnOwnFile
  <2> QED BY <1>7, <1>8, <2>1 DEF Shows
<1>10. Ended'
  BY <1>7, <1>8, <1>9 DEF Ended, Shows
<1>11. AllReadable'
  BY <1>1, <1>7 DEF World, AllReadable
<1> QED BY <1>8, <1>10, <1>11

(* A step that only makes or answers calls, or marks the document.         *)
SameEdited ==
  /\ doc'.orig = doc.orig /\ doc'.file = doc.file /\ doc'.temp = doc.temp
  /\ doc'.lossless = doc.lossless /\ doc'.shown = doc.shown
  /\ doc' = NoDocument <=> doc = NoDocument
CallsStep ==
  /\ SameEdited /\ UNCHANGED <<disk, commented, undo, redo, loading, fresh, running>>
  /\ todo # <<>> => Head(todo).op \notin {"LoadEnd", "Adopt"}
  /\ todo' # <<>> => Head(todo').op \notin {"LoadEnd", "Adopt"}

LEMMA CallsKeepWorld == ASSUME World, CallsStep, Control' PROVE World'
<1>1. ~Calling("Adopt") /\ ~Calling("LoadEnd") /\ ~Calling("Adopt")' /\ ~Calling("LoadEnd")'
  BY DEF CallsStep, Calling
<1>2. Held' = Held
  BY <1>1 DEF CallsStep, SameEdited, Held, Replacing, TempOf
<1>3. Ownership'
  BY <1>2 DEF World, CallsStep, Ownership, Apart
<1>4. ShowsFile' /\ AllReadable'
  BY <1>1 DEF World, CallsStep, SameEdited, ShowsFile, Shows, AllReadable
<1> QED BY <1>3, <1>4 DEF World

(* The calls made while no photo is being replaced.                        *)
LoadsBy(t) ==
  \E name \in Present : \/ t = <<LoadCall(name, FALSE), Call("Adopt", name)>>
                        \/ t = <<LoadCall(name, TRUE)>>
Onward(t) == t = <<>> \/ ClosesBy(t) \/ LoadsBy(t)

LEMMA OnwardHolds ==
  ASSUME TypeOK, NEW t, Onward(t)
  PROVE  /\ t \in Seq(CallSet)
         /\ t # <<>> => Head(t).op \in {"ImageLoad", "ImageCleanup", "Destroy"}
         /\ LoadsBy(t) => LoadOf(t) /\ LoadOf(t)'
<1>1. /\ CleanupFor("OnClose", None, FALSE) \in CallSet /\ Call("Destroy", None) \in CallSet
      /\ CleanupFor("nobody", None, FALSE) \in CallSet
      /\ \A name \in Present : /\ LoadCall(name, FALSE) \in CallSet /\ LoadCall(name, TRUE) \in CallSet
                               /\ Call("Adopt", name) \in CallSet
  BY CallType, FilesAssumption DEF Ops
<1>2. /\ CleanupFor("OnClose", None, FALSE).op = "ImageCleanup"
      /\ CleanupFor("nobody", None, FALSE).op = "ImageCleanup"
      /\ \A name : LoadCall(name, FALSE).op = "ImageLoad" /\ LoadCall(name, TRUE).op = "ImageLoad"
  BY DEF CleanupFor, LoadCall, Call
<1>3. Call("Destroy", None).op = "Destroy"
  BY DEF Call
<1>4. CASE t = <<>>
  BY <1>4, CallSeqType, FewCalls DEF LoadsBy
<1>5. CASE ClosesBy(t)
  <2>1. t \in Seq(CallSet)
    BY <1>1, <1>5, CallSeqType DEF ClosesBy
  <2>2. Head(t).op \in {"ImageLoad", "ImageCleanup", "Destroy"} /\ Head(t).op # "ImageLoad"
    BY <1>2, <1>3, <1>5, FewCalls DEF ClosesBy
  <2>3. ~LoadsBy(t)
    <3>1. ASSUME NEW name, \/ t = <<LoadCall(name, FALSE), Call("Adopt", name)>>
                           \/ t = <<LoadCall(name, TRUE)>>
          PROVE  Head(t).op = "ImageLoad"
      <4>1. Head(t) = LoadCall(name, FALSE) \/ Head(t) = LoadCall(name, TRUE)
        BY <3>1, FewCalls
      <4> QED BY <1>2, <4>1
    <3> QED BY <2>2, <3>1 DEF LoadsBy
  <2> QED BY <2>1, <2>2, <2>3
<1>6. CASE LoadsBy(t)
  <2>1. PICK name \in Present : \/ t = <<LoadCall(name, FALSE), Call("Adopt", name)>>
                                \/ t = <<LoadCall(name, TRUE)>>
    BY <1>6 DEF LoadsBy
  <2>2. t \in Seq(CallSet) /\ Head(t).op = "ImageLoad"
    <3>1. Head(t) = LoadCall(name, FALSE) \/ Head(t) = LoadCall(name, TRUE)
      BY <2>1, FewCalls
    <3>2. t \in Seq(CallSet)
      BY <1>1, <2>1, CallSeqType
    <3> QED BY <1>2, <3>1, <3>2
  <2>3. LoadOf(t) /\ LoadOf(t)'
    <3>1. CASE t = <<LoadCall(name, FALSE), Call("Adopt", name)>>
      <4>1. t # <<>> /\ Head(t) = LoadCall(name, FALSE) /\ Tail(t) = <<Call("Adopt", name)>>
        BY <3>1, FewCalls
      <4>2. FALSE \in BOOLEAN /\ AfterLoad(Tail(t), name, FALSE) /\ AfterLoad(Tail(t), name, FALSE)'
        BY <4>1 DEF AfterLoad
      <4> QED BY <4>1, <4>2 DEF LoadOf
    <3>2. CASE t = <<LoadCall(name, TRUE)>>
      <4>1. t # <<>> /\ Head(t) = LoadCall(name, TRUE) /\ Tail(t) = <<>>
        BY <3>2, FewCalls
      <4>2. TRUE \in BOOLEAN /\ AfterLoad(Tail(t), name, TRUE) /\ AfterLoad(Tail(t), name, TRUE)'
        BY <4>1 DEF AfterLoad
      <4> QED BY <4>1, <4>2 DEF LoadOf
    <3> QED BY <2>1, <3>1, <3>2
  <2> QED BY <2>2, <2>3
<1> QED BY <1>4, <1>5, <1>6 DEF Onward

LEMMA QuietStep ==
  ASSUME World, ~loading, doc # NoDocument => OnOwnFile(doc), SameEdited,
         UNCHANGED <<disk, commented, undo, redo, loading, fresh, running>>,
         todo # <<>> => Head(todo).op \notin {"LoadEnd", "Adopt"},
         todo' # <<>> => Head(todo').op \notin {"LoadEnd", "Adopt"}, Holding'
  PROVE  CallsStep /\ World'
<1>1. CallsStep
  BY DEF CallsStep
<1>2. (doc = NoDocument \/ LosslessDoc(doc))' /\ (doc # NoDocument => OnOwnFile(doc))'
  BY DEF World, Control, SameEdited, LosslessDoc, OnOwnFile
<1>3. Control'
  BY <1>2 DEF World, Control
<1> QED BY <1>1, <1>3, CallsKeepWorld

LEMMA OnwardStep ==
  ASSUME TypeOK, World, ~loading, doc # NoDocument => OnOwnFile(doc), SameEdited,
         UNCHANGED <<disk, commented, undo, redo, loading, fresh, running>>,
         todo # <<>> => Head(todo).op \notin {"LoadEnd", "Adopt"},
         NEW t, Onward(t),
         \/ todo' = t /\ ~doc'.dirty
         \/ todo' = t /\ ~LoadsBy(t)
         \/ todo' = <<Call("OnFileSave", None)>> \o t /\ doc # NoDocument
  PROVE  CallsStep /\ World'
<1>1. /\ t \in Seq(CallSet) /\ (LoadsBy(t) => LoadOf(t)')
      /\ t # <<>> => Head(t).op \in {"ImageLoad", "ImageCleanup", "Destroy"}
  BY OnwardHolds
<1>2. CASE todo' = t /\ (~doc'.dirty \/ ~LoadsBy(t))
  <2>1. Holding'
    <3>1. CASE t = <<>>
      BY <1>2, <3>1 DEF Holding
    <3>2. CASE ClosesBy(t)
      BY <1>2, <3>2 DEF Holding, ClosesBy
    <3>3. CASE LoadsBy(t)
      <4>1. LoadOf(todo)' /\ ~doc'.dirty
        BY <1>1, <1>2, <3>3 DEF LoadOf
      <4> QED BY <4>1 DEF Holding
    <3> QED BY <3>1, <3>2, <3>3 DEF Onward
  <2> QED BY <1>1, <1>2, <2>1, QuietStep
<1>3. CASE todo' = <<Call("OnFileSave", None)>> \o t /\ doc # NoDocument
  <2>1. todo' # <<>> /\ Head(todo') = Call("OnFileSave", None) /\ Tail(todo') = t
    BY <1>1, <1>3, PushCall
  <2>2. Head(todo').op = "OnFileSave"
    BY <2>1 DEF Call
  <2>3. doc'.orig # None
    BY <1>3, OpenedDoc DEF SameEdited, TypeOK
  <2>4. Saving'
    <3>1. CASE t = <<>>
      BY <2>1, <2>3, <3>1 DEF Saving
    <3>2. CASE ClosesBy(t)
      BY <2>1, <2>3, <3>2 DEF Saving, ClosesBy
    <3>3. CASE LoadsBy(t)
      <4>1. LoadOf(Tail(todo))'
        BY <1>1, <2>1, <3>3 DEF LoadOf
      <4> QED BY <2>1, <2>3, <4>1 DEF Saving
    <3> QED BY <3>1, <3>2, <3>3 DEF Onward
  <2>5. Holding'
    BY <2>4 DEF Holding
  <2> QED BY <2>2, <2>5, QuietStep
<1> QED BY <1>2, <1>3

(* What follows a cleanup, when nothing is being loaded.                   *)
LEMMA Cleaned ==
  ASSUME TypeOK, Control, ~loading, Calling("ImageCleanup")
  PROVE  /\ Onward(IfClean(Head(todo)) \o Tail(todo))
         /\ Onward(Tail(todo)) /\ ~LoadsBy(Tail(todo))
         /\ IfClean(Head(todo)) \in Seq(CallSet) /\ Tail(todo) \in Seq(CallSet)
<1>1. /\ todo # <<>> /\ Head(todo).op = "ImageCleanup" /\ (Asking \/ ClosesBy(todo))
      /\ Head(todo) \in CallSet /\ Tail(todo) \in Seq(CallSet)
  BY Pending, PendingType DEF Calling
<1>2. IfClean(Head(todo)) \in Seq(CallSet)
  <2>1. Head(todo).op \in {"ImageCleanup", "CleanupSave"}
    BY <1>1
  <2> QED BY <1>1, <2>1, IfCleanType
<1>3. ~LoadsBy(<<>>)
  BY FewCalls DEF LoadsBy
<1>4. ASSUME NEW name \in Present,
             \/ todo = <<CleanupFor("OnFileOpen", name, FALSE)>>
             \/ todo = <<CleanupFor("LoadFile", name, TRUE)>>
             \/ todo = <<Call("OnDirCtrlChange", name)>>
      PROVE  /\ Onward(IfClean(Head(todo)) \o Tail(todo))
             /\ Onward(Tail(todo)) /\ ~LoadsBy(Tail(todo))
  <2>1. Tail(todo) = <<>>
    BY <1>4, FewCalls
  <2>2. IfClean(Head(todo)) \o Tail(todo) = IfClean(Head(todo))
    BY <1>2, <2>1, ConcatEmptySeq
  <2>3. Head(todo) # Call("OnDirCtrlChange", name)
    <3> SUFFICES ASSUME Head(todo) = Call("OnDirCtrlChange", name) PROVE FALSE
      OBVIOUS
    <3>1. Head(todo).op = "OnDirCtrlChange"
      BY DEF Call
    <3> QED BY <1>1, <3>1
  <2>4. CASE Head(todo) = CleanupFor("OnFileOpen", name, FALSE)
    <3>1. Head(todo).by = "OnFileOpen" /\ Head(todo).name = name
      BY <2>4 DEF CleanupFor, Call
    <3>2. IfClean(Head(todo)) = <<LoadCall(name, FALSE), Call("Adopt", name)>>
      BY <3>1 DEF IfClean
    <3> QED BY <1>3, <2>1, <2>2, <3>2 DEF Onward, LoadsBy
  <2>5. CASE Head(todo) = CleanupFor("LoadFile", name, TRUE)
    <3>1. Head(todo).by = "LoadFile" /\ Head(todo).name = name
      BY <2>5 DEF CleanupFor, Call
    <3>2. IfClean(Head(todo)) = <<LoadCall(name, TRUE)>>
      BY <3>1 DEF IfClean
    <3> QED BY <1>3, <2>1, <2>2, <3>2 DEF Onward, LoadsBy
  <2> QED BY <1>4, <2>3, <2>4, <2>5, FewCalls
<1>5. CASE ClosesBy(todo)
  <2>1. Head(todo) # Call("Destroy", None)
    <3> SUFFICES ASSUME Head(todo) = Call("Destroy", None) PROVE FALSE
      OBVIOUS
    <3>1. Head(todo).op = "Destroy"
      BY DEF Call
    <3> QED BY <1>1, <3>1
  <2>2. CASE todo = <<CleanupFor("OnClose", None, FALSE)>>
    <3>1. Head(todo) = CleanupFor("OnClose", None, FALSE) /\ Tail(todo) = <<>>
      BY <2>2, FewCalls
    <3>2. Head(todo).by = "OnClose"
      BY <3>1 DEF CleanupFor, Call
    <3>3. IfClean(Head(todo)) = <<CleanupFor("nobody", None, FALSE), Call("Destroy", None)>>
      BY <3>2 DEF IfClean
    <3>4. IfClean(Head(todo)) \o Tail(todo) = IfClean(Head(todo))
      BY <1>2, <3>1, ConcatEmptySeq
    <3>5. ClosesBy(IfClean(Head(todo)) \o Tail(todo))
      BY <3>3, <3>4 DEF ClosesBy
    <3> QED BY <1>1, <1>2, <1>3, <3>1, <3>5 DEF Onward
  <2>3. CASE todo = <<CleanupFor("nobody", None, FALSE), Call("Destroy", None)>>
    <3>1. Head(todo) = CleanupFor("nobody", None, FALSE) /\ Tail(todo) = <<Call("Destroy", None)>>
      BY <2>3, FewCalls
    <3>2. Head(todo).by = "nobody"
      BY <3>1 DEF CleanupFor, Call
    <3>3. IfClean(Head(todo)) = <<>>
      BY <3>2 DEF IfClean
    <3>4. IfClean(Head(todo)) \o Tail(todo) = Tail(todo)
      BY <1>1, <3>3, ConcatEmptySeq
    <3>5. ~LoadsBy(Tail(todo))
      <4>1. Call("Destroy", None).op = "Destroy" /\ \A name, o : LoadCall(name, o).op = "ImageLoad"
        BY DEF Call, LoadCall
      <4>2. SUFFICES ASSUME NEW name, \/ Tail(todo) = <<LoadCall(name, FALSE), Call("Adopt", name)>>
                                      \/ Tail(todo) = <<LoadCall(name, TRUE)>>
                     PROVE  FALSE
        BY DEF LoadsBy
      <4>3. Head(Tail(todo)) = LoadCall(name, FALSE) \/ Head(Tail(todo)) = LoadCall(name, TRUE)
        BY <4>2, FewCalls
      <4>4. Head(Tail(todo)) = Call("Destroy", None)
        BY <3>1, FewCalls
      <4>5. LoadCall(name, FALSE).op = "ImageLoad" /\ LoadCall(name, TRUE).op = "ImageLoad"
        BY DEF Call, LoadCall
      <4> QED BY <4>1, <4>3, <4>4, <4>5
    <3>6. ClosesBy(Tail(todo))
      BY <3>1 DEF ClosesBy
    <3> QED BY <1>1, <1>2, <3>4, <3>5, <3>6 DEF Onward
  <2> QED BY <1>5, <2>1, <2>2, <2>3, FewCalls DEF ClosesBy
<1> QED BY <1>1, <1>2, <1>4, <1>5 DEF Asking

-----------------------------------------------------------------------------
(* What each step of the window is in this world.                          *)
LEMMA LosslessEdits ==
  ASSUME LosslessOnly, TypeOK, LosslessInv, running, EditCommand, ~SelectZone
  PROVE  EditStep
<1>1. \A cmd : May(cmd) => todo = <<>> /\ doc.orig # None /\ doc.lossless /\ cmd \in Commands
  <2>1. doc.orig # None => doc.lossless
    BY DEF LosslessInv, Control, LosslessDoc, NoDocument
  <2> QED BY <2>1 DEF May, Idle
<1>2. Dirty(doc).lossless = doc.lossless
  BY DEF Dirty
<1>3. \A after : /\ Edit(doc, after) /\ doc.lossless => CallTool(doc, Retouched)
                 /\ Edit(Dirty(doc), after) /\ doc.lossless => CallTool(Dirty(doc), Retouched)
  <2>1. doc.lossless = TRUE \/ doc.lossless = FALSE
    BY DEF TypeOK, Doc, Opened, NoDocument
  <2> QED BY <1>2, <2>1 DEF Edit, CallJPEGTranTryPerfect
<1>4. CASE OnImageCrop
  BY <1>1, <1>3, <1>4 DEF OnImageCrop, MayEdit, Crop, EditStep, notEdited
<1>5. CASE OnImageRotate \/ OnImageFlipHorizontal \/ OnImageFlipVertical
  BY <1>1, <1>3, <1>5
     DEF OnImageRotate, OnImageFlipHorizontal, OnImageFlipVertical, MayEdit, EditStep, notEdited
<1>6. CASE OnImageJPEGOptimize \/ OnImageJPEGProgressive
  BY <1>1, <1>6
     DEF OnImageJPEGOptimize, OnImageJPEGProgressive, MayEdit, EditStep, notEdited, CallJPEGTranTryPerfect
<1>7. ~Resize /\ ~OnImageInclin /\ ~OnToggleJPEGLossless /\ ~OnModeInclin /\ ~OnModeCrop
      /\ ~TypeComment /\ ~OnImageWriteComment
  <2>1. ~May("resize") /\ ~May("inclin") /\ ~May("toggle") /\ ~May("comment")
    BY <1>1 DEF LosslessOnly
  <2>2. ~Resize /\ ~OnImageInclin
    BY <2>1 DEF Resize, OnImageInclin, MayEdit
  <2> QED BY <2>1, <2>2 DEF OnToggleJPEGLossless, OnModeInclin, OnModeCrop, TypeComment, OnImageWriteComment
<1> QED BY <1>4, <1>5, <1>6, <1>7 DEF EditCommand

LEMMA IdleContext ==
  ASSUME World, todo = <<>>
  PROVE  /\ ~loading /\ (doc # NoDocument => OnOwnFile(doc)) /\ ~Replacing /\ Held = TempOf(doc)
         /\ ShowsFile => doc = NoDocument \/ Shows(doc)
<1>1. ~loading /\ (doc # NoDocument => OnOwnFile(doc))
  BY DEF World, Control, Leaving, Loaded, Adopting, AfterLoad
<1> QED BY <1>1 DEF Held, Replacing, Calling, ShowsFile

LEMMA QuietCommands ==
  ASSUME LosslessOnly, TypeOK, LosslessInv, running, SelectZone \/ FileCommand
  PROVE  CallsStep /\ World'
<1>1. World /\ todo = <<>> /\ ~loading /\ (doc # NoDocument => OnOwnFile(doc))
  <2>1. World /\ todo = <<>>
    BY DEF LosslessInv, World, SelectZone, FileCommand, OnFileReload, FileSave, FileSaveAs, OnClose,
           OnFileOpen, LoadFile, SelectFile, OnFileMove, OnFileNameEndEdit, OnFileSavePath,
           OnFileMoveAndNext, OnFileSavePathAndNext, OnFileDelete, May, Idle
  <2> QED BY <2>1, IdleContext
<1>2. \A name \in UserFiles : name \in DOMAIN disk => name \in Present
  <2>1. Temps(undo) \subseteq Nat /\ Temps(redo) \subseteq Nat
    BY <1>1, LosslessHistories DEF World
  <2>2. Held \subseteq Nat
    BY <1>1 DEF Held, TempOf, OnOwnFile, NoDocument
  <2> QED BY <1>1, <2>1, <2>2, FilesAssumption DEF World, Ownership
<1>3. CASE SelectZone
  <2>1. doc \in Opened /\ doc # NoDocument
    BY <1>3, OpenedDoc DEF SelectZone, May, TypeOK
  <2>2. doc' = [doc EXCEPT !.line = ~@] \/ doc' = [doc EXCEPT !.zone = ~@]
    BY <1>3 DEF SelectZone
  <2>3. SameEdited
    <3>1. /\ doc'.orig = doc.orig /\ doc'.file = doc.file /\ doc'.temp = doc.temp
          /\ doc'.lossless = doc.lossless /\ doc'.shown = doc.shown
      BY <2>1, <2>2 DEF Opened
    <3>2. doc' # NoDocument
      BY <2>1, <3>1, OpenedDoc DEF NoDocument, TypeOK
    <3> QED BY <2>1, <3>1, <3>2 DEF SameEdited
  <2>4. todo' = <<>> /\ UNCHANGED <<disk, commented, undo, redo, loading, fresh, running>>
    BY <1>1, <1>3 DEF SelectZone, notEdited
  <2>5. Holding'
    BY <2>4 DEF Holding
  <2> QED BY <1>1, <2>3, <2>4, <2>5, QuietStep
<1>4. CASE FileSave
  <2>1. todo' = <<Call("OnFileSave", None)>> /\ doc.orig # None /\ onlyTodo
    BY <1>4 DEF FileSave, May
  <2>2. todo' # <<>> /\ Head(todo') = Call("OnFileSave", None) /\ Tail(todo') = <<>>
    BY <2>1, FewCalls
  <2>3. Head(todo').op = "OnFileSave"
    BY <2>2 DEF Call
  <2>4. Holding' /\ SameEdited
    BY <2>1, <2>2 DEF Holding, Saving, onlyTodo, SameEdited
  <2> QED BY <1>1, <2>1, <2>3, <2>4, QuietStep DEF onlyTodo
<1>5. CASE OnClose
  <2>1. todo' = <<CleanupFor("OnClose", None, FALSE)>> /\ onlyTodo
    BY <1>5 DEF OnClose
  <2>2. Head(todo') = CleanupFor("OnClose", None, FALSE)
    BY <2>1, FewCalls
  <2>3. Head(todo').op = "ImageCleanup"
    BY <2>2 DEF CleanupFor, Call
  <2>4. Holding' /\ SameEdited
    BY <2>1 DEF Holding, ClosesBy, onlyTodo, SameEdited
  <2> QED BY <1>1, <2>1, <2>3, <2>4, QuietStep DEF onlyTodo
<1>6. ASSUME NEW name \in UserFiles, OnFileOpen(name) \/ LoadFile(name) \/ SelectFile(name)
      PROVE  CallsStep /\ World'
  <2>1. /\ name \in Present /\ onlyTodo
        /\ \/ todo' = <<CleanupFor("OnFileOpen", name, FALSE)>>
           \/ todo' = <<CleanupFor("LoadFile", name, TRUE)>>
           \/ todo' = <<Call("OnDirCtrlChange", name)>>
    BY <1>2, <1>6 DEF OnFileOpen, LoadFile, SelectFile
  <2>2. \/ Head(todo') = CleanupFor("OnFileOpen", name, FALSE)
        \/ Head(todo') = CleanupFor("LoadFile", name, TRUE)
        \/ Head(todo') = Call("OnDirCtrlChange", name)
    BY <2>1, FewCalls
  <2>3. Call("OnDirCtrlChange", name).op = "OnDirCtrlChange"
    BY DEF Call
  <2>4. CleanupFor("OnFileOpen", name, FALSE).op = "ImageCleanup"
        /\ CleanupFor("LoadFile", name, TRUE).op = "ImageCleanup"
    BY DEF CleanupFor, Call
  <2>5. Head(todo').op \notin {"LoadEnd", "Adopt"}
    BY <2>2, <2>3, <2>4
  <2>6. Holding' /\ SameEdited
    BY <2>1 DEF Holding, Asking, onlyTodo, SameEdited
  <2> QED BY <1>1, <2>1, <2>5, <2>6, QuietStep DEF onlyTodo
<1>7. CASE OnFileReload
  <2>1. doc \in Opened /\ doc # NoDocument
    BY <1>7, OpenedDoc DEF OnFileReload, May, TypeOK
  <2>2. /\ doc' = [doc EXCEPT !.dirty = FALSE]
        /\ todo' = <<LoadCall(doc.orig, FALSE), Call("Adopt", None)>>
        /\ UNCHANGED <<disk, commented, undo, redo, loading, fresh, running>>
    BY <1>7 DEF OnFileReload, notEdited
  <2>3. /\ doc'.orig = doc.orig /\ doc'.file = doc.file /\ doc'.temp = doc.temp
        /\ doc'.lossless = doc.lossless /\ doc'.shown = doc.shown /\ ~doc'.dirty
    BY <2>1, <2>2 DEF Opened
  <2>4. SameEdited
    <3>1. doc' # NoDocument
      BY <2>1, <2>3, OpenedDoc DEF NoDocument, TypeOK
    <3> QED BY <2>1, <2>3, <3>1 DEF SameEdited
  <2>5. /\ todo' # <<>> /\ Head(todo') = LoadCall(doc.orig, FALSE)
        /\ Tail(todo') = <<Call("Adopt", None)>>
    BY <2>2, FewCalls
  <2>6. Head(todo').op = "ImageLoad"
    BY <2>5 DEF LoadCall, Call
  <2>7. LoadOf(todo)'
    <3>1. doc.orig \in Present /\ FALSE \in BOOLEAN
      BY <1>1, <2>1 DEF World, Control, LosslessDoc
    <3>2. AfterLoad(Tail(todo), doc.orig, FALSE)'
      BY <2>3, <2>5 DEF AfterLoad
    <3> QED BY <2>3, <2>5, <3>1, <3>2 DEF LoadOf, AfterLoad
  <2>8. Holding'
    BY <2>3, <2>7 DEF Holding
  <2> QED BY <1>1, <2>2, <2>4, <2>6, <2>8, QuietStep
<1>8. \A cmd : May(cmd) => cmd \in Commands
  BY DEF May
<1>9. ~FileSaveAs /\ \A name, next \in UserFiles : ~OnFileMove(name) /\ ~OnFileNameEndEdit(name)
        /\ ~OnFileSavePath(name) /\ ~OnFileMoveAndNext(name, next) /\ ~OnFileSavePathAndNext(name, next)
  BY <1>8 DEF LosslessOnly, FileSaveAs, OnFileMove, OnFileNameEndEdit, OnFileSavePath,
              OnFileMoveAndNext, OnFileSavePathAndNext
<1>10. \A next, prev : ~OnFileDelete(next, prev)
  BY <1>8 DEF LosslessOnly, OnFileDelete
<1> QED BY <1>3, <1>4, <1>5, <1>6, <1>7, <1>9, <1>10 DEF FileCommand

LEMMA CleanupLeaves ==
  ASSUME LosslessOnly, TypeOK, LosslessInv, running, CleanupDone, loading
  PROVE  CallsStep /\ World'
<1>1. /\ World /\ todo # <<>> /\ Head(todo).op = "ImageCleanup" /\ ~doc.dirty
      /\ todo' = IfClean(Head(todo)) \o Tail(todo) /\ onlyTodo /\ doc' = doc
      /\ Tail(todo) \in Seq(CallSet)
  <2>1. World /\ todo # <<>> /\ Head(todo).op \in {"ImageCleanup", "CleanupSave"}
    BY DEF CleanupDone, CleaningUp, Calling, LosslessInv, World
  <2>2. Head(todo).op = "ImageCleanup"
    BY <2>1, Pending DEF World
  <2> QED BY <2>1, <2>2, PendingType DEF CleanupDone, onlyTodo
<1>2. Leaving /\ (doc # NoDocument => OnOwnFile(doc))
  BY <1>1, Pending DEF World
<1>3. PICK name \in Present, original \in BOOLEAN :
        /\ \/ Head(todo) = CleanupFor("ImageLoad", name, original)
           \/ Head(todo) = BodyCall(name, original)
        /\ AfterLoad(Tail(Tail(todo)), name, original)
  BY <1>2 DEF Leaving
<1>4. Head(todo) = CleanupFor("ImageLoad", name, original)
  <2>1. BodyCall(name, original).op = "LoadBody"
    BY DEF BodyCall, CleanupFor, Call
  <2> QED BY <1>1, <1>3, <2>1
<1>5. IfClean(Head(todo)) = <<BodyCall(name, original)>>
  <2>1. Head(todo).by = "ImageLoad"
    BY <1>4 DEF CleanupFor, Call
  <2> QED BY <1>4, <2>1 DEF IfClean, BodyCall
<1>6. todo' # <<>> /\ Head(todo') = BodyCall(name, original) /\ Tail(todo') = Tail(todo)
  <2> DEFINE b == BodyCall(name, original)
  <2>1. todo' = <<b>> \o Tail(todo)
    BY <1>1, <1>5
  <2> HIDE DEF b
  <2>2. todo' # <<>> /\ Head(todo') = b /\ Tail(todo') = Tail(todo)
    BY <1>1, <2>1, PushCall
  <2> QED BY <2>2 DEF b
<1>7. Head(todo').op = "LoadBody"
  BY <1>6 DEF BodyCall, CleanupFor, Call
<1>8. Leaving'
  <2>1. AfterLoad(Tail(Tail(todo)), name, original)'
    BY <1>1, <1>3, <1>6 DEF AfterLoad
  <2> QED BY <1>1, <1>2, <1>6, <2>1 DEF Leaving
<1>9. Control'
  BY <1>1, <1>2, <1>8 DEF World, Control, onlyTodo
<1>10. CallsStep
  BY <1>1, <1>7 DEF CallsStep, SameEdited, onlyTodo
<1> QED BY <1>1, <1>9, <1>10, CallsKeepWorld

LEMMA CleanupAnswers ==
  ASSUME LosslessOnly, TypeOK, LosslessInv, running,
         CleanupDone \/ CleanupAutoSave \/ PromptYes \/ PromptNo \/ PromptCancel
  PROVE  CallsStep /\ World'
<1>1. World /\ Calling("ImageCleanup") /\ todo # <<>> /\ Head(todo).op = "ImageCleanup"
      /\ doc.dirty \in BOOLEAN
  <2>1. World /\ todo # <<>> /\ Head(todo).op \in {"ImageCleanup", "CleanupSave"}
    BY DEF CleanupDone, CleanupAutoSave, PromptYes, PromptNo, PromptCancel, CleaningUp, Calling,
           LosslessInv, World
  <2>3. doc.dirty \in BOOLEAN
    <3>1. doc \in Opened \/ doc = NoDocument
      BY DEF TypeOK, Doc
    <3>2. doc \in Opened => doc.dirty \in BOOLEAN
      BY DEF Opened
    <3>3. doc = NoDocument => doc.dirty \in BOOLEAN
      BY DEF NoDocument
    <3> QED BY <3>1, <3>2, <3>3
  <2>2. Head(todo).op = "ImageCleanup"
    BY <2>1, Pending DEF World
  <2> QED BY <2>1, <2>2, <2>3 DEF Calling
<1>2. CASE loading
  <2>1. ~doc.dirty
    BY <1>1, <1>2, Pending DEF World, Leaving
  <2>2. CleanupDone
    BY <2>1 DEF CleanupAutoSave, PromptYes, PromptNo, PromptCancel
  <2> QED BY <1>2, <2>2, CleanupLeaves
<1>3. CASE ~loading
  <2> DEFINE t == IfClean(Head(todo)) \o Tail(todo)
  <2>1. /\ Onward(t) /\ Onward(Tail(todo)) /\ ~LoadsBy(Tail(todo))
        /\ IfClean(Head(todo)) \in Seq(CallSet) /\ Tail(todo) \in Seq(CallSet)
    BY <1>1, <1>3, Cleaned DEF World
  <2>2. doc # NoDocument => OnOwnFile(doc)
    BY <1>1, Pending DEF World
  <2>3. doc.dirty => doc # NoDocument
    BY DEF NoDocument
  <2>4. <<Call("OnFileSave", None)>> \o IfClean(Head(todo)) \o Tail(todo)
          = <<Call("OnFileSave", None)>> \o t
    <3>1. Call("OnFileSave", None) \in CallSet
      BY CallType
    <3> QED BY <2>1, <3>1, ConcatAssociative, CallSeqType
  <2> HIDE DEF t
  <2>5. onlyTodo => SameEdited /\ UNCHANGED <<disk, commented, undo, redo, loading, fresh, running>>
    BY DEF onlyTodo, SameEdited
  <2>6. CASE CleanupDone
    <3>1. todo' = t /\ ~doc'.dirty /\ onlyTodo
      BY <2>6 DEF CleanupDone, onlyTodo, t
    <3> QED BY <1>1, <1>3, <2>1, <2>2, <2>5, <3>1, OnwardStep
  <2>7. CASE CleanupAutoSave \/ PromptYes
    <3>1. todo' = <<Call("OnFileSave", None)>> \o t /\ doc # NoDocument /\ onlyTodo
      BY <2>3, <2>4, <2>7 DEF CleanupAutoSave, PromptYes, LosslessOnly
    <3> QED BY <1>1, <1>3, <2>1, <2>2, <2>5, <3>1, OnwardStep
  <2>8. CASE PromptNo
    <3>1. /\ todo' = t /\ doc' = [doc EXCEPT !.dirty = FALSE] /\ doc.dirty
          /\ UNCHANGED <<disk, commented, undo, redo, loading, fresh, running>>
      BY <2>8 DEF PromptNo, notEdited, t
    <3>2. doc \in Opened /\ doc # NoDocument
      BY <2>3, <3>1 DEF TypeOK, Doc
    <3>3. /\ doc'.orig = doc.orig /\ doc'.file = doc.file /\ doc'.temp = doc.temp
          /\ doc'.lossless = doc.lossless /\ doc'.shown = doc.shown /\ ~doc'.dirty
      BY <3>1, <3>2 DEF Opened
    <3>4. doc' # NoDocument
      BY <3>2, <3>3, OpenedDoc DEF NoDocument, TypeOK
    <3>5. SameEdited
      BY <3>2, <3>3, <3>4 DEF SameEdited
    <3> QED BY <1>1, <1>3, <2>1, <2>2, <3>1, <3>3, <3>5, OnwardStep
  <2>9. CASE PromptCancel
    <3>1. todo' = Tail(todo) /\ onlyTodo
      BY <2>9 DEF PromptCancel
    <3> QED BY <1>1, <1>3, <2>1, <2>2, <2>5, <3>1, OnwardStep
  <2> QED BY <2>6, <2>7, <2>8, <2>9
<1> QED BY <1>2, <1>3

LEMMA SelectionAnswered ==
  ASSUME LosslessOnly, TypeOK, LosslessInv, running, OnDirCtrlChange
  PROVE  CallsStep /\ World'
<1>1. /\ World /\ todo # <<>> /\ Head(todo).op = "OnDirCtrlChange" /\ onlyTodo /\ doc' = doc
      /\ SameEdited
  BY DEF OnDirCtrlChange, Calling, LosslessInv, World, onlyTodo, SameEdited
<1>2. ~loading /\ Asking /\ (doc # NoDocument => OnOwnFile(doc))
  BY <1>1, Pending DEF World
<1>3. PICK name \in Present : \/ todo = <<CleanupFor("OnFileOpen", name, FALSE)>>
                              \/ todo = <<CleanupFor("LoadFile", name, TRUE)>>
                              \/ todo = <<Call("OnDirCtrlChange", name)>>
  BY <1>2 DEF Asking
<1>4. Head(todo) = Call("OnDirCtrlChange", name) /\ Tail(todo) = <<>>
  <2>1. CleanupFor("OnFileOpen", name, FALSE).op = "ImageCleanup"
        /\ CleanupFor("LoadFile", name, TRUE).op = "ImageCleanup"
    BY DEF CleanupFor, Call
  <2> QED BY <1>1, <1>3, <2>1, FewCalls
<1>5. Head(todo).name = name
  BY <1>4 DEF Call
<1> DEFINE c == CleanupFor("LoadFile", name, TRUE)
<1>6. todo' = <<>> \/ todo' = <<c>>
  <2>1. c \in CallSet
    BY CallType, FilesAssumption DEF Callers
  <2>2. <<c>> \o <<>> = <<c>>
    BY <2>1, CallSeqType, ConcatEmptySeq
  <2> QED BY <1>4, <1>5, <2>2 DEF OnDirCtrlChange
<1>7. Holding'
  BY <1>6 DEF Holding, Asking
<1>8. todo' # <<>> => Head(todo').op = "ImageCleanup"
  <2>1. c.op = "ImageCleanup"
    BY DEF CleanupFor, Call
  <2> QED BY <1>6, <2>1, FewCalls
<1> QED BY <1>1, <1>2, <1>7, <1>8, QuietStep DEF onlyTodo

LEMMA LosslessSteps ==
  ASSUME LosslessOnly, TypeOK, LosslessInv, running, Next
  PROVE  \/ EditStep \/ HistoryCommand \/ ImageLoad \/ LoadBody \/ LoadEnd \/ Adopt
         \/ WriteLossless \/ Destroy
         \/ CallsStep /\ World'
<1>1. World
  BY DEF LosslessInv, World
<1>2. CASE Command
  BY <1>2, LosslessEdits, QuietCommands DEF Command, EditCommand
<1>3. CASE Handler
  <2>1. todo # <<>> => /\ Head(todo).op \in {"ImageCleanup", "OnDirCtrlChange", "OnFileSave",
                                   "ImageLoad", "LoadBody", "LoadEnd", "Adopt", "Destroy"}
                       /\ Head(todo).op = "ImageLoad" => ~loading
    BY <1>1, Pending DEF World
  <2>2. ~ImageLoadRefused /\ ~CropCalled /\ ~ImageSaveAs /\ ~SaveAsEnd /\ ~DeleteTry /\ ~DeleteEnd
        /\ \A name : ~OnFileSaveAs(name)
    BY <2>1 DEF ImageLoadRefused, CropCalled, ImageSaveAs, SaveAsEnd, DeleteTry, DeleteEnd,
                OnFileSaveAs, Calling
  <2>3. ~AutoCropping /\ ~SaveComment /\ ~LeaveComment
    BY <1>1 DEF AutoCropping, SaveComment, LeaveComment, LosslessOnly, World, Control
  <2>4. Writing => Writable(doc.orig) /\ doc.lossless
    <3>1. Writing => LosslessDoc(doc)
      BY <1>1, WritingSaves DEF World, Control
    <3> QED BY <1>1, <3>1 DEF LosslessDoc, World, Ownership, Writable, LosslessOnly
  <2>5. ~WriteRefused /\ ~WriteImage
    BY <2>4 DEF WriteRefused, WriteImage
  <2> QED BY <1>3, <2>2, <2>3, <2>5, CleanupAnswers, SelectionAnswered DEF Handler
<1> QED BY <1>2, <1>3 DEF Next

-----------------------------------------------------------------------------
(* The invariant, and what it is for.                                      *)
LEMMA LosslessFirst == Init => LosslessInv
<1> SUFFICES ASSUME Init PROVE LosslessInv
  OBVIOUS
<1>1. DOMAIN disk = Present /\ \A p \in Present : disk[p].version = p
  BY DEF Init
<1>2. Temps(undo) = {} /\ Temps(redo) = {} /\ Held = {} /\ Elements(undo) = {} /\ Elements(redo) = {}
      /\ OwnedOnce(undo) /\ OwnedOnce(redo)
  BY OwnedOne DEF Init, Held, Replacing, Calling, TempOf, NoDocument, Elements, OwnedOnce
<1>3. Ownership
  BY <1>1, <1>2 DEF Ownership, Apart
<1>4. AllReadable
  BY <1>1, FilesAssumption DEF AllReadable, Readable
<1>5. Control /\ ShowsFile
  BY DEF Init, Control, Holding, ShowsFile
<1> QED BY <1>3, <1>4, <1>5, TempsNamedFirst DEF LosslessInv, Init

(* A command starts when nothing runs, a handler goes on with a call.      *)
LEMMA CommandsIdle == ASSUME Command PROVE Idle
<1>1. \A cmd : May(cmd) \/ MayEdit(cmd) => Idle
  BY DEF May, MayEdit
<1>2. EditCommand => Idle
  BY <1>1 DEF EditCommand, OnImageCrop, OnImageRotate, OnImageFlipHorizontal, OnImageFlipVertical,
     OnImageJPEGOptimize, OnImageJPEGProgressive, Resize, OnImageInclin, OnToggleJPEGLossless,
     OnModeInclin, OnModeCrop, SelectZone, TypeComment, OnImageWriteComment
<1>3. FileCommand => Idle
  BY <1>1 DEF FileCommand, OnFileReload, FileSave, FileSaveAs, OnClose, OnFileOpen, LoadFile,
     SelectFile, OnFileMove, OnFileNameEndEdit, OnFileSavePath, OnFileMoveAndNext,
     OnFileSavePathAndNext, OnFileDelete
<1> QED BY <1>2, <1>3 DEF Command, HistoryCommand, OnImageUndo, OnImageRedo

LEMMA HandlersPending == ASSUME Handler PROVE todo # <<>>
  BY DEF Handler, OnDirCtrlChange, ImageLoad, ImageLoadRefused, LoadBody, LoadEnd, Adopt,
     AutoCropping, CropCalled, CleanupDone, CleanupAutoSave, PromptYes, PromptNo, PromptCancel,
     CleaningUp, SaveComment, LeaveComment, WriteRefused, WriteLossless, WriteImage, Writing,
     OnFileSaveAs, ImageSaveAs, SaveAsEnd, DeleteTry, DeleteEnd, Destroy, Calling

(* Nothing runs once the window is closed.                                 *)
LEMMA ClosedForever == ASSUME LosslessInv, ~running PROVE ~Next
  BY CommandsIdle, HandlersPending DEF Next, LosslessInv, Ended, Idle

LEMMA LosslessNext ==
  ASSUME LosslessOnly, TypeOK, LosslessInv, [Next]_vars
  PROVE  LosslessInv'
<1>1. TempsNamed'
  BY TempsOfStep DEF LosslessInv
<1>2. CASE UNCHANGED vars
  BY <1>2 DEF vars, LosslessInv, TempsNamed, AllReadable, Readable, Control, Holding, Asking, Saving,
     LoadOf, AfterLoad, ClosesBy, Leaving, Loaded, Adopting, OnPhoto, OnOwnFile, LosslessDoc,
     Ownership, Apart, Held, Replacing, Calling, TempOf, ShowsFile, Shows, Ended
<1>3. CASE Next /\ running
  <2>1. CASE Destroy
    BY <1>1, <1>3, <2>1, DestroyEnds DEF LosslessInv
  <2>2. CASE ~Destroy
    <3>1. World'
      BY <1>3, <2>2, LosslessSteps, EditKeepsWorld, RestoreKeepsWorld, LeaveKeepsWorld,
         LoadBodyKeepsWorld, LoadedKeepsWorld, WriteKeepsWorld
    <3>2. running' = running
      BY <1>3, <2>2, LosslessSteps DEF EditStep, notEdited, HistoryCommand, OnImageUndo, OnImageRedo,
         ImageLoad, LoadBody, LoadEnd, Adopt, WriteLossless, CallsStep
    <3> QED BY <1>1, <1>3, <3>1, <3>2 DEF World, LosslessInv
  <2> QED BY <2>1, <2>2
<1>4. CASE Next /\ ~running
  BY <1>4, ClosedForever
<1> QED BY <1>2, <1>3, <1>4 DEF LosslessInv

LEMMA LosslessInvariant == ASSUME LosslessOnly PROVE Spec => [](TypeOK /\ LosslessInv)
<1>1. TypeOK /\ LosslessInv /\ [Next]_vars => LosslessInv'
  BY LosslessNext
<1> QED BY <1>1, LosslessFirst, TypeCorrect, PTL DEF Spec

LEMMA OwnedOnceHolds == ASSUME TypeOK, LosslessInv PROVE TempsOwnedOnce
<1> SUFFICES ASSUME todo = <<>>, running PROVE TempsOwnedOnce
  BY DEF TempsOwnedOnce
<1>1. World /\ Held = TempOf(doc)
  BY IdleContext DEF World, LosslessInv
<1>2. /\ undo \in Seq(Entry) /\ redo \in Seq(Entry) /\ ImagesOnly(undo) /\ ImagesOnly(redo)
      /\ Apart(undo, redo, TempOf(doc))
      /\ DOMAIN disk = Present \cup Temps(undo) \cup Temps(redo) \cup TempOf(doc)
  BY <1>1, LosslessHistories DEF World, Ownership
<1> DEFINE h == undo \o redo
           n == Len(undo)
           mine == {i \in DOMAIN h : h[i].kind = "image" /\ h[i].doc.temp}
<1>3. /\ DOMAIN h = 1 .. n + Len(redo) /\ n \in Nat /\ Len(redo) \in Nat
      /\ \A i \in 1 .. n : h[i] = undo[i]
      /\ \A i \in n + 1 .. n + Len(redo) : i - n \in 1 .. Len(redo) /\ h[i] = redo[i - n]
  BY <1>2, ConcatProperties
<1> HIDE DEF h, n
<1>4. ASSUME NEW i \in mine
      PROVE  \/ i \in 1 .. Len(undo) /\ h[i] = undo[i] /\ h[i].doc.file \in Temps(undo)
             \/ i - n \in 1 .. Len(redo) /\ h[i] = redo[i - n] /\ h[i].doc.file \in Temps(redo)
  <2>1. i \in 1 .. n \/ i \in n + 1 .. n + Len(redo)
    BY <1>3
  <2>2. CASE i \in 1 .. n
    BY <1>2, <1>3, <2>2, TempsAt DEF n
  <2>3. CASE i \in n + 1 .. n + Len(redo)
    BY <1>2, <1>3, <2>3, TempsAt
  <2> QED BY <2>1, <2>2, <2>3
<1>5. \A i \in mine : h[i].doc.file \in DOMAIN disk /\ h[i].doc.file \notin TempOf(doc)
  BY <1>2, <1>4 DEF Apart
<1>6. ASSUME NEW i \in mine, NEW j \in mine \ {i} PROVE h[i].doc.file # h[j].doc.file
  <2>1. i # j /\ i \in Int /\ j \in Int /\ h[i].doc.temp /\ h[j].doc.temp /\ n \in Nat
    BY <1>3
  <2>2. Temps(undo) \cap Temps(redo) = {} /\ OwnedOnce(undo) /\ OwnedOnce(redo)
    BY <1>2 DEF Apart
  <2>3. CASE i \in 1 .. Len(undo) /\ h[i] = undo[i] /\ j \in 1 .. Len(undo) /\ h[j] = undo[j]
    BY <2>1, <2>2, <2>3 DEF OwnedOnce
  <2>4. CASE i - n \in 1 .. Len(redo) /\ h[i] = redo[i - n] /\ j - n \in 1 .. Len(redo) /\ h[j] = redo[j - n]
    BY <2>1, <2>2, <2>4 DEF OwnedOnce
  <2> QED BY <1>4, <2>2, <2>3, <2>4
<1>7. doc.temp => doc.file \in TempOf(doc) /\ doc.file \in DOMAIN disk
  BY <1>2 DEF TempOf
<1> QED BY <1>5, <1>6, <1>7 DEF TempsOwnedOnce, h

LEMMA ReclaimedHolds == ASSUME TypeOK, LosslessInv PROVE TempsReclaimed
<1> SUFFICES ASSUME todo = <<>>, NEW t \in Nat \cap DOMAIN disk
             PROVE  running /\ \E d \in Documents : d.temp /\ d.file = t
  BY DEF TempsReclaimed
<1>1. t \notin Present
  BY FilesAssumption
<1>2. running
  BY <1>1 DEF LosslessInv, Ended
<1>3. World /\ Held = TempOf(doc)
  BY <1>2, IdleContext DEF World, LosslessInv
<1>4. t \in Temps(undo) \/ t \in Temps(redo) \/ t \in TempOf(doc)
  BY <1>1, <1>3 DEF World, Ownership
<1>5. ASSUME t \in Temps(undo) \/ t \in Temps(redo) PROVE \E d \in Documents : d.temp /\ d.file = t
  <2>1. PICK e \in Elements(undo) \cup Elements(redo) : e.kind = "image" /\ e.doc.temp /\ e.doc.file = t
    BY <1>5, OwnedOne DEF Temps
  <2> QED BY <2>1 DEF Documents, Images, Entries
<1>6. t \in TempOf(doc) => \E d \in Documents : d.temp /\ d.file = t
  BY DEF TempOf, Documents
<1> QED BY <1>2, <1>4, <1>5, <1>6

LEMMA WorkingFileShown == ASSUME TypeOK, LosslessInv PROVE LosslessShowsWorkingFile
<1> SUFFICES ASSUME todo = <<>>, doc.lossless, Source(doc) \in DOMAIN disk, Readable(disk[Source(doc)])
             PROVE  doc.shown = disk[Source(doc)]
  BY DEF LosslessShowsWorkingFile
<1>1. doc # NoDocument
  BY DEF NoDocument
<1>2. CASE running
  <2>1. OnOwnFile(doc) /\ Shows(doc)
    BY <1>1, <1>2, IdleContext DEF World, LosslessInv
  <2> QED BY <2>1 DEF OnOwnFile, Shows, Source
<1>3. CASE ~running
  <2>1. Ended
    BY <1>3 DEF LosslessInv
  <2>2. ~doc.temp
    BY <1>1, <2>1, FilesAssumption DEF Ended, OnOwnFile, Source
  <2> QED BY <1>1, <2>1, <2>2 DEF Ended, OnOwnFile, Shows, Source
<1> QED BY <1>2, <1>3

LEMMA EditRecorded ==
  ASSUME LosslessOnly, TypeOK, LosslessInv, Next, Idle, MaxUndo > 0, fresh' > fresh
  PROVE  LET e == TopOf(undo') IN
         /\ e.kind = "image"
         /\ {e.doc.orig, e.doc.file} \subseteq DOMAIN disk'
         /\ [e.doc EXCEPT !.shown = IF e.doc.lossless THEN disk'[e.doc.file] ELSE @,
                          !.dirty = doc.dirty] = doc
<1>1. EditStep /\ running /\ todo = <<>>
  <2>1. todo = <<>> /\ running /\ fresh \in Nat /\ ~(fresh > fresh)
    BY DEF Idle, TypeOK
  <2>2. \/ EditStep \/ HistoryCommand \/ ImageLoad \/ LoadBody \/ LoadEnd \/ Adopt
        \/ WriteLossless \/ Destroy \/ CallsStep
    BY <2>1, LosslessSteps
  <2> QED BY <2>1, <2>2 DEF HistoryCommand, OnImageUndo, OnImageRedo, ImageLoad, LoadBody, LoadEnd,
          Adopt, WriteLossless, Destroy, CallsStep, Calling
<1>2. PICK d \in {doc, Dirty(doc)} :
        /\ d \in Opened /\ LosslessDoc(d) /\ OnOwnFile(d) /\ TempOf(d) = TempOf(doc)
        /\ ~Replacing /\ imageUndoPoint(d) /\ Source(d) = doc.file
        /\ fresh' = fresh + 1 /\ \E c \in Content : ToolLeaves(UndoPointDisk(d), c)
  BY <1>1, ToolMakes
<1> DEFINE before == UndoPointDisk(d)
<1>3. PICK c \in Content : ToolLeaves(before, c)
  BY <1>2
<1>4. /\ TopOf(undo') = Image(d) /\ TempOf(d) \subseteq Temps(undo')
      /\ DOMAIN before = Present \cup Temps(undo') /\ DOMAIN before \subseteq DOMAIN disk
      /\ \A p \in DOMAIN before : before[p] = disk[p]
  BY <1>1, <1>2, UndoPointTemps DEF LosslessInv
<1> HIDE DEF before
<1>5. doc \in Opened /\ doc # NoDocument /\ LosslessDoc(doc) /\ OnOwnFile(doc) /\ fresh \in Nat
  <2>1. doc \in Opened /\ doc # NoDocument /\ fresh \in Nat
    BY <1>1, OpenedDoc DEF EditStep, TypeOK
  <2> QED BY <1>1, <2>1, IdleContext DEF World, LosslessInv, Control
<1>6. doc.shown = disk[doc.file] /\ doc.file \in DOMAIN disk
  BY <1>1, <1>5, IdleContext DEF World, LosslessInv, Shows, AllReadable
<1>7. d.file = doc.file /\ d.orig = doc.orig /\ d.temp = doc.temp
  BY <1>2, <1>5 DEF Dirty, Opened
<1>8. doc.file \in DOMAIN before /\ doc.orig \in DOMAIN before
  BY <1>4, <1>5, <1>7 DEF OnOwnFile, LosslessDoc, TempOf
<1>9. fresh + 1 \notin DOMAIN disk
  BY <1>5 DEF LosslessInv, TempsNamed
<1>10. /\ DOMAIN before \subseteq DOMAIN disk' /\ disk'[doc.file] = disk[doc.file]
  BY <1>3, <1>4, <1>6, <1>8, <1>9 DEF ToolLeaves, Put
<1> DEFINE e == TopOf(undo')
<1>11. e.kind = "image" /\ e.doc = [d EXCEPT !.shown = Blank]
  BY <1>2, <1>4, ImageOwns DEF LosslessEntry
<1> HIDE DEF e
<1>12. e.doc.orig = doc.orig /\ e.doc.file = doc.file /\ e.doc.lossless
  BY <1>2, <1>7, <1>11 DEF Opened, LosslessDoc
<1>13. [e.doc EXCEPT !.shown = disk'[e.doc.file], !.dirty = doc.dirty] = doc
  <2>1. disk'[e.doc.file] = doc.shown
    BY <1>6, <1>10, <1>12
  <2>2. [[d EXCEPT !.shown = Blank] EXCEPT !.shown = doc.shown, !.dirty = doc.dirty] = doc
    BY <1>2, <1>5 DEF Dirty, Opened
  <2> QED BY <1>11, <2>1, <2>2
<1> QED BY <1>8, <1>10, <1>11, <1>12, <1>13 DEF e

-----------------------------------------------------------------------------
(* The lossless tools leave one owner to every temporary file: what        *)
(* PushImageUndo, PopImageUndo, ImageLoad and CallJPEGTran copy, exchange  *)
(* and delete is never a file that another entry, or the document, needs.  *)
THEOREM LosslessTempsOwned == ASSUME LosslessOnly PROVE Spec => []TempsOwnedOnce
<1> QED BY LosslessInvariant, OwnedOnceHolds, PTL

(* No temporary file is left behind: every one that exists belongs to the  *)
(* document or to an entry (RemoveUndo, RemoveRedo, CallJPEGTran), and     *)
(* none exists after OnClose has destroyed the window.                     *)
THEOREM LosslessTempsReclaimed == ASSUME LosslessOnly PROVE Spec => []TempsReclaimed
<1> QED BY LosslessInvariant, ReclaimedHolds, PTL

(* What the window shows is the file that jpegtran will read and that Save *)
(* will copy, after every edit, undo, redo, load and save.                 *)
THEOREM LosslessShown == ASSUME LosslessOnly PROVE Spec => []LosslessShowsWorkingFile
<1> QED BY LosslessInvariant, WorkingFileShown, PTL

(* Whatever CallJPEGTran made, the entry ImageUndoPoint pushed before it   *)
(* leads back to the document as it was, and its files are on the disk.    *)
THEOREM LosslessEditsUndoable == ASSUME LosslessOnly PROVE Spec => EditsUndoable
<1> DEFINE Recorded ==
      Idle /\ MaxUndo > 0 /\ fresh' > fresh =>
        LET e == TopOf(undo') IN
        /\ e.kind = "image"
        /\ {e.doc.orig, e.doc.file} \subseteq DOMAIN disk'
        /\ [e.doc EXCEPT !.shown = IF e.doc.lossless THEN disk'[e.doc.file] ELSE @,
                         !.dirty = doc.dirty] = doc
<1>1. TypeOK /\ LosslessInv /\ [Next]_vars => [Recorded]_vars
  BY EditRecorded
<1> QED BY <1>1, LosslessInvariant, PTL DEF Spec, EditsUndoable

-----------------------------------------------------------------------------
(* The mark that there is something to save.  Undo, redo, the vertical     *)
(* flip and the progressive coding do not set it, and an answer can take   *)
(* it away before the window closes (README, section 4).                   *)
EditsMark ==
  /\ LosslessOnly /\ AutoSave /\ MaxUndo > 0
  /\ Commands \cap {"undo", "redo", "flipV", "progressive"} = {}
SavedInv ==
  /\ running /\ ~Replacing /\ ~Calling("ImageLoad") /\ doc.temp /\ ~doc.dirty
       => disk[doc.orig] = disk[doc.file]
  /\ ~running /\ doc # NoDocument /\ ~doc.dirty => doc.shown = disk[doc.orig]

LEMMA MarkedEdits ==
  ASSUME EditsMark, TypeOK, LosslessInv, running, EditStep, Next
  PROVE  doc'.dirty
<1>1. todo = <<>> /\ fresh' = fresh + 1 /\ fresh \in Nat
  BY DEF EditStep, CallTool, TypeOK
<1>2. ~Handler
  BY <1>1, HandlersPending
<1>3. ~FileCommand /\ ~SelectZone /\ ~HistoryCommand
  <2>1. fresh' # fresh
    BY <1>1
  <2>2. ~FileCommand /\ ~SelectZone
    BY <2>1, QuietCommands DEF EditsMark, CallsStep
  <2>3. ~HistoryCommand
    BY <2>1 DEF HistoryCommand, OnImageUndo, OnImageRedo
  <2> QED BY <2>2, <2>3
<1>4. EditCommand
  BY <1>2, <1>3 DEF Next, Command
<1>5. \A cmd : May(cmd) => doc.lossless /\ cmd \in Commands
  <2>1. doc.orig # None => doc.lossless
    BY DEF LosslessInv, Control, LosslessDoc, NoDocument
  <2> QED BY <2>1 DEF May, Idle
<1>6. ASSUME CallTool(Dirty(doc), Retouched) PROVE doc'.dirty
  <2>1. doc # NoDocument /\ doc \in Opened
    BY OpenedDoc DEF EditStep, TypeOK
  <2>2. /\ Dirty(doc) \in Opened /\ Dirty(doc).dirty
    BY <2>1, FlagsType DEF Dirty, Opened
  <2>3. Working(Dirty(doc)).dirty /\ Working(Dirty(doc)) \in Opened
    BY <1>1, <2>2, BlankType, WorkingType DEF Working, Opened
  <2> DEFINE w == Working(Dirty(doc))
  <2>4. \/ doc' = w
        \/ \E made : doc' = [w EXCEPT !.shown = made, !.zone = FALSE, !.line = FALSE]
    BY <1>6 DEF CallTool
  <2> HIDE DEF w
  <2>5. w.dirty /\ w \in Opened
    BY <2>3 DEF w
  <2>6. \A made : [w EXCEPT !.shown = made, !.zone = FALSE, !.line = FALSE].dirty
    BY <2>5 DEF Opened
  <2> QED BY <2>4, <2>5, <2>6
<1>7. \A after : Edit(Dirty(doc), after) /\ doc.lossless => CallTool(Dirty(doc), Retouched)
  <2>1. doc.lossless = TRUE \/ doc.lossless = FALSE
    BY DEF TypeOK, Doc, Opened, NoDocument
  <2>2. Dirty(doc).lossless = doc.lossless
    BY DEF Dirty
  <2> QED BY <2>1, <2>2 DEF Edit, CallJPEGTranTryPerfect
<1>8. CASE OnImageCrop \/ OnImageRotate \/ OnImageFlipHorizontal
  BY <1>5, <1>6, <1>7, <1>8
     DEF OnImageCrop, OnImageRotate, OnImageFlipHorizontal, MayEdit, Crop
<1>9. CASE OnImageJPEGOptimize
  BY <1>6, <1>9 DEF OnImageJPEGOptimize, CallJPEGTranTryPerfect
<1>10. ~OnImageFlipVertical /\ ~OnImageJPEGProgressive
  BY <1>5 DEF OnImageFlipVertical, OnImageJPEGProgressive, MayEdit, EditsMark
<1>11. ~Resize /\ ~OnImageInclin /\ ~OnToggleJPEGLossless /\ ~OnModeInclin /\ ~OnModeCrop
       /\ ~TypeComment /\ ~OnImageWriteComment
  <2>1. ~May("resize") /\ ~May("inclin") /\ ~May("toggle") /\ ~May("comment")
    BY <1>5 DEF EditsMark, LosslessOnly
  <2>2. ~Resize /\ ~OnImageInclin
    BY <2>1 DEF Resize, OnImageInclin, MayEdit
  <2> QED BY <2>1, <2>2 DEF OnToggleJPEGLossless, OnModeInclin, OnModeCrop, TypeComment, OnImageWriteComment
<1> QED BY <1>3, <1>4, <1>8, <1>9, <1>10, <1>11 DEF EditCommand

(* Between two edits the mark changes only when the photo is read again.   *)
LEMMA MarkSteps ==
  ASSUME EditsMark, TypeOK, LosslessInv, running, Next
  PROVE  \/ EditStep \/ ImageLoad \/ LoadBody \/ LoadEnd \/ Adopt \/ WriteLossless \/ Destroy
         \/ /\ CallsStep /\ ~Calling("ImageLoad")
            /\ doc'.dirty = doc.dirty \/ Calling("ImageLoad")'
<1>1. World
  BY DEF LosslessInv, World
<1>2. \/ EditStep \/ ImageLoad \/ LoadBody \/ LoadEnd \/ Adopt \/ WriteLossless \/ Destroy \/ CallsStep
  BY LosslessSteps DEF EditsMark, HistoryCommand, OnImageUndo, OnImageRedo
<1>3. ASSUME CallsStep PROVE doc'.dirty = doc.dirty \/ Calling("ImageLoad")' \/ EditStep \/ Handler
  <2>1. CASE EditCommand
    <3>1. SelectZone \/ EditStep
      BY <2>1, LosslessEdits DEF EditsMark
    <3>2. ASSUME SelectZone PROVE doc'.dirty = doc.dirty
      <4>1. doc \in Opened
        BY <3>2, OpenedDoc DEF SelectZone, May, TypeOK
      <4> QED BY <3>2, <4>1 DEF SelectZone, Opened
    <3> QED BY <3>1, <3>2
  <2>2. CASE HistoryCommand
    BY <2>2 DEF HistoryCommand, OnImageUndo, OnImageRedo, EditsMark
  <2>3. CASE FileCommand
    <3>1. CASE OnFileReload
      <4>1. todo' = <<LoadCall(doc.orig, FALSE), Call("Adopt", None)>>
        BY <3>1 DEF OnFileReload
      <4>2. todo' # <<>> /\ Head(todo') = LoadCall(doc.orig, FALSE)
        BY <4>1, FewCalls
      <4>3. LoadCall(doc.orig, FALSE).op = "ImageLoad"
        BY DEF LoadCall, Call
      <4> QED BY <4>2, <4>3 DEF Calling
    <3>2. ~OnFileReload => doc' = doc
      <4>1. ~May("move") /\ ~May("rename") /\ ~May("moveNext")
        BY DEF May, EditsMark, LosslessOnly
      <4> QED BY <2>3, <4>1 DEF FileCommand, FileSave, FileSaveAs, OnClose, OnFileOpen, LoadFile, SelectFile,
                 OnFileMove, OnFileNameEndEdit, OnFileSavePath, OnFileMoveAndNext, OnFileSavePathAndNext,
                 OnFileDelete, onlyTodo
    <3> QED BY <3>1, <3>2
  <2> QED BY <2>1, <2>2, <2>3 DEF Next, Command
<1>4. CASE Handler
  <2>1. todo # <<>> => /\ Head(todo).op \in {"ImageCleanup", "OnDirCtrlChange", "OnFileSave",
                                   "ImageLoad", "LoadBody", "LoadEnd", "Adopt", "Destroy"}
                       /\ Head(todo).op = "ImageLoad" => ~loading
    BY <1>1, Pending DEF World
  <2>2. ~ImageLoadRefused /\ ~CropCalled /\ ~ImageSaveAs /\ ~SaveAsEnd /\ ~DeleteTry /\ ~DeleteEnd
        /\ \A name : ~OnFileSaveAs(name)
    BY <2>1 DEF ImageLoadRefused, CropCalled, ImageSaveAs, SaveAsEnd, DeleteTry, DeleteEnd,
                OnFileSaveAs, Calling
  <2>3. ~AutoCropping /\ ~SaveComment /\ ~LeaveComment /\ ~PromptYes /\ ~PromptNo /\ ~PromptCancel
    BY <1>1 DEF AutoCropping, SaveComment, LeaveComment, LosslessOnly, World, Control,
                PromptYes, PromptNo, PromptCancel, EditsMark
  <2>4. Writing => Writable(doc.orig) /\ doc.lossless
    <3>1. Writing => LosslessDoc(doc)
      BY <1>1, WritingSaves DEF World, Control
    <3> QED BY <1>1, <3>1 DEF LosslessDoc, World, Ownership, Writable, LosslessOnly, EditsMark
  <2>5. ~WriteRefused /\ ~WriteImage
    BY <2>4 DEF WriteRefused, WriteImage
  <2>6. CASE OnDirCtrlChange \/ CleanupDone \/ CleanupAutoSave
    <3>1. doc' = doc
      BY <2>6 DEF OnDirCtrlChange, CleanupDone, CleanupAutoSave, onlyTodo
    <3>2. ~Calling("ImageLoad")
      BY <2>6 DEF OnDirCtrlChange, CleanupDone, CleanupAutoSave, CleaningUp, Calling
    <3> QED BY <1>2, <3>1, <3>2
  <2> QED BY <1>4, <2>2, <2>3, <2>5, <2>6 DEF Handler
<1>5. CASE Command
  <2>1. todo = <<>>
    BY <1>5, CommandsIdle DEF Idle
  <2> QED BY <1>2, <1>3, <2>1, HandlersPending DEF Calling
<1> QED BY <1>4, <1>5 DEF Next

LEMMA SavedNext ==
  ASSUME EditsMark, TypeOK, LosslessInv, SavedInv, [Next]_vars
  PROVE  SavedInv'
<1>1. CASE UNCHANGED vars
  BY <1>1 DEF vars, SavedInv, Replacing, Calling
<1>2. CASE Next /\ ~running
  BY <1>2, ClosedForever
<1>3. CASE Next /\ running
  <2>1. World /\ doc \in Doc
    BY <1>3 DEF LosslessInv, World, TypeOK
  <2>2. CASE EditStep
    <3>1. doc'.dirty /\ running'
      BY <1>3, <2>2, MarkedEdits DEF EditStep, notEdited
    <3> QED BY <3>1 DEF SavedInv
  <2>3. CASE ImageLoad \/ LoadBody
    <3>1. running' /\ loading'
      <4>1. LoadBody => loading
        BY <2>1, Pending DEF World, LoadBody, Calling
      <4>2. CASE ImageLoad
        BY <1>3, <4>2 DEF ImageLoad
      <4>3. CASE LoadBody
        BY <1>3, <4>1, <4>3 DEF LoadBody
      <4> QED BY <2>3, <4>2, <4>3
    <3> QED BY <3>1 DEF SavedInv, Replacing
  <2>4. CASE LoadEnd
    <3>1. /\ loading /\ Loaded /\ doc # NoDocument /\ doc' = doc /\ running' /\ todo' = Tail(todo)
      BY <1>3, <2>1, <2>4, Pending DEF LoadEnd, Calling, World, LosslessOnly, EditsMark
    <3>2. PICK name \in Present, original \in BOOLEAN :
            AfterLoad(Tail(todo), name, original) /\ OnPhoto(name, original)
      BY <3>1 DEF Loaded
    <3>3. CASE original
      BY <3>1, <3>2, <3>3 DEF OnPhoto, SavedInv
    <3>4. CASE ~original
      <4>1. \/ todo' = <<Call("Adopt", name)>> \/ todo' = <<Call("Adopt", None)>>
        BY <3>1, <3>2, <3>4 DEF AfterLoad
      <4>2. Calling("Adopt")'
        BY <4>1, FewCalls DEF Call, Calling
      <4> QED BY <3>1, <4>2 DEF SavedInv, Replacing
    <3> QED BY <3>3, <3>4
  <2>5. CASE Adopt
    <3>1. doc # NoDocument /\ running'
      BY <1>3, <2>1, <2>5, Pending DEF Adopt, Calling, World, notEdited
    <3>2. ~doc'.temp
      BY <2>1, <2>5, <3>1 DEF Adopt, Adopted, Doc, Opened
    <3> QED BY <3>1, <3>2 DEF SavedInv
  <2>6. CASE WriteLossless
    <3>1. /\ Writing /\ disk' = Written /\ doc' = Clean(doc) /\ running'
      BY <1>3, <2>6 DEF WriteLossless, notEdited
    <3>2. doc # NoDocument /\ OnOwnFile(doc) /\ ~Replacing
      BY <2>1, <3>1, WritingSaves DEF World
    <3>3. /\ doc \in Opened /\ LosslessDoc(doc) /\ Shows(doc)
      BY <2>1, <3>2, OpenedDoc DEF World, Control, ShowsFile, Replacing
    <3>4. /\ doc'.orig = doc.orig /\ doc'.file = doc.file /\ doc'.temp = doc.temp
      BY <3>1, <3>3 DEF Clean, Opened
    <3>5. doc.temp => disk' = Put(disk, doc.orig, disk[doc.file]) /\ doc.file # doc.orig
      <4>1. doc.orig \notin Nat
        BY <3>3, FilesAssumption DEF LosslessDoc
      <4> QED BY <3>1, <3>2, <3>3, <4>1
              DEF Written, CopyFile, Store, LosslessOnly, EditsMark, OnOwnFile, Shows
    <3>6. doc.temp => disk'[doc.orig] = disk'[doc.file]
      BY <3>3, <3>5 DEF Put, Shows
    <3> QED BY <3>1, <3>4, <3>6 DEF SavedInv
  <2>7. CASE Destroy
    <3>1. /\ Ended' /\ ~running' /\ doc' = doc
      BY <1>3, <2>7, DestroyEnds DEF Destroy, EditsMark
    <3>2. /\ Head(todo).op = "Destroy" /\ todo # <<>>
      BY <2>7 DEF Destroy, Calling
    <3>3. /\ ~loading /\ ~Replacing /\ ~Calling("ImageLoad") /\ ~Calling("LoadEnd")
      BY <2>1, <3>2, Pending DEF World, Replacing, Calling
    <3> SUFFICES ASSUME doc # NoDocument, ~doc.dirty PROVE doc.shown = disk'[doc.orig]
      BY <3>1 DEF SavedInv
    <3>4. /\ doc.orig \in Present /\ OnOwnFile(doc) /\ Shows(doc) /\ Readable(disk[doc.file])
          /\ Present \subseteq DOMAIN disk /\ Present \cap Nat = {}
      BY <2>1, <3>2, <3>3, Pending, FilesAssumption
         DEF World, Control, LosslessDoc, ShowsFile, Shows, AllReadable, EditsMark, Ownership
    <3>5. doc.shown = disk[doc.orig]
      <4>1. CASE doc.temp
        BY <1>3, <3>3, <3>4, <4>1 DEF SavedInv, Shows
      <4>2. CASE ~doc.temp
        BY <3>4, <4>2 DEF OnOwnFile, Shows
      <4> QED BY <4>1, <4>2
    <3>6. disk'[doc.orig] = disk[doc.orig]
      BY <2>7, <3>1, <3>4 DEF Destroy, Without, Ended
    <3> QED BY <3>5, <3>6
  <2>8. CASE CallsStep /\ ~Calling("ImageLoad") /\ (doc'.dirty = doc.dirty \/ Calling("ImageLoad")')
    <3>1. Replacing' = Replacing
      BY <2>8 DEF CallsStep, Replacing, Calling
    <3> QED BY <1>3, <2>8, <3>1 DEF CallsStep, SameEdited, SavedInv
  <2> QED BY <1>3, <2>2, <2>3, <2>4, <2>5, <2>6, <2>7, <2>8, MarkSteps
<1> QED BY <1>1, <1>2, <1>3

LEMMA CleanHolds == ASSUME EditsMark, TypeOK, LosslessInv, SavedInv PROVE CleanIsSaved
<1> SUFFICES ASSUME todo = <<>>, ~doc.dirty, doc.orig \in DOMAIN disk
             PROVE  doc.shown.version = disk[doc.orig].version
  BY DEF CleanIsSaved
<1>1. CASE running
  <2>1. World /\ ~Calling("ImageLoad")
    BY <1>1 DEF LosslessInv, World, Calling
  <2>2. doc # NoDocument
    <3>1. None \notin DOMAIN disk
      BY FilesAssumption DEF TypeOK, DiskOK, Path
    <3> QED BY <3>1 DEF NoDocument
  <2>3. OnOwnFile(doc) /\ ~Replacing /\ Shows(doc)
    BY <2>1, <2>2, IdleContext DEF World
  <2>4. doc.shown = disk[doc.file]
    BY <2>1, <2>3 DEF World, Shows, AllReadable, EditsMark
  <2> QED BY <1>1, <2>1, <2>3, <2>4 DEF SavedInv, OnOwnFile
<1>2. CASE ~running
  <2>1. None \notin DOMAIN disk
    BY FilesAssumption DEF TypeOK, DiskOK, Path
  <2> QED BY <1>2, <2>1 DEF SavedInv, NoDocument
<1> QED BY <1>1, <1>2

(* With the automatic save in place, a photo that is not marked is on disk *)
(* as it is seen: each edit of CallJPEGTran marks the document, and what   *)
(* clears the mark (Clean in OnFileSave, a load) leaves the two the same.  *)
THEOREM LosslessCleanSaved == ASSUME EditsMark PROVE Spec => []CleanIsSaved
<1>1. Init => SavedInv
  BY DEF Init, SavedInv, NoDocument
<1>2. TypeOK /\ LosslessInv /\ SavedInv /\ [Next]_vars => SavedInv'
  BY SavedNext
<1>3. TypeOK /\ LosslessInv /\ SavedInv => CleanIsSaved
  BY CleanHolds
<1>4. Spec => [](TypeOK /\ LosslessInv)
  BY LosslessInvariant DEF EditsMark
<1> QED BY <1>1, <1>2, <1>3, <1>4, PTL DEF Spec

-----------------------------------------------------------------------------
(* The pictures of a disk.                                                 *)
PictureIn(d, e) ==
  [photo |-> PhotoOf(e),
   look |-> CASE ~e.lossless /\ e.orig # None -> e.shown.version
              [] e.lossless /\ e.file \in Nat -> d[e.file].version
              [] OTHER -> AsSaved]
PicturesIn(d, h) == [i \in DOMAIN h |-> PictureIn(d, h[i].doc)]

LEMMA PicturesOfDisk ==
  /\ \A e : PictureOf(e) = PictureIn(disk, e)
  /\ PicturesOf(undo) = PicturesIn(disk, undo) /\ PicturesOf(redo) = PicturesIn(disk, redo)
<1>1. \A e : PictureOf(e) = PictureIn(disk, e)
  BY DEF PictureOf, PictureIn
<1> QED BY <1>1 DEF PicturesOf, PicturesIn

LEMMA NoPicture == ASSUME NEW d PROVE PictureIn(d, NoDocument) = [photo |-> None, look |-> AsSaved]
  BY FilesAssumption DEF PictureIn, PhotoOf, NoDocument

LEMMA LosslessPicture ==
  ASSUME NEW d, NEW e, LosslessDoc(e)
  PROVE  /\ PictureIn(d, e) = [photo |-> PhotoOf(e),
                               look |-> IF e.file \in Nat THEN d[e.file].version ELSE AsSaved]
         /\ OnOwnFile(e) => PhotoOf(e) = e.orig /\ (e.file \in Nat <=> e.temp)
         /\ OnOwnFile(e) => e.orig \in Present /\ e.orig # None
<1>1. PictureIn(d, e) = [photo |-> PhotoOf(e),
                         look |-> IF e.file \in Nat THEN d[e.file].version ELSE AsSaved]
  BY DEF PictureIn, LosslessDoc
<1> QED BY <1>1, FilesAssumption DEF PhotoOf, LosslessDoc, OnOwnFile

(* The pictures of a history.                                              *)
LEMMA PicturesType ==
  ASSUME NEW d, NEW S, NEW h \in Seq(S)
  PROVE  LET P == {PictureIn(d, e.doc) : e \in S} IN
         /\ PicturesIn(d, h) \in Seq(P) /\ Len(PicturesIn(d, h)) = Len(h)
         /\ \A i \in 1 .. Len(h) : PicturesIn(d, h)[i] = PictureIn(d, h[i].doc)
<1> DEFINE P == {PictureIn(d, e.doc) : e \in S}
           n == Len(h)
<1>1. n \in Nat /\ DOMAIN h = 1 .. n /\ \A i \in 1 .. n : h[i] \in S
  BY LenProperties
<1> HIDE DEF n
<1>2. PicturesIn(d, h) = [i \in 1 .. n |-> PictureIn(d, h[i].doc)]
  BY <1>1 DEF PicturesIn
<1>3. PicturesIn(d, h) \in [1 .. n -> P]
  BY <1>1, <1>2
<1>4. PicturesIn(d, h) \in Seq(P) /\ Len(PicturesIn(d, h)) = n
  <2>1. \A f \in [1 .. n -> P] : f \in Seq(P) /\ Len(f) = n
    BY <1>1
  <2> QED BY <1>3, <2>1
<1> QED BY <1>1, <1>2, <1>4 DEF n

LEMMA PicturesEmpty == ASSUME NEW d PROVE PicturesIn(d, <<>>) = <<>>
<1>1. Len(PicturesIn(d, <<>>)) = 0 /\ PicturesIn(d, <<>>) \in Seq({PictureIn(d, e.doc) : e \in Entry})
  BY PicturesType, EmptySeq
<1> QED BY <1>1, EmptySeq

LEMMA PicturesKept ==
  ASSUME NEW h \in Seq(Entry), \A e \in Elements(h) : LosslessEntry(e),
         NEW d, NEW c, \A t \in Temps(h) : c[t] = d[t]
  PROVE  PicturesIn(c, h) = PicturesIn(d, h)
<1>1. ASSUME NEW i \in DOMAIN h PROVE PictureIn(c, h[i].doc) = PictureIn(d, h[i].doc)
  <2>1. LosslessEntry(h[i]) /\ h[i] \in Elements(h)
    BY <1>1 DEF Elements
  <2>2. h[i].doc.temp => h[i].doc.file \in Temps(h)
    BY <2>1 DEF Temps, Owned, LosslessEntry
  <2>3. h[i].doc.file \in Nat => c[h[i].doc.file] = d[h[i].doc.file]
    BY <2>1, <2>2, LosslessPicture DEF LosslessEntry
  <2> QED BY <2>1, <2>3, LosslessPicture DEF LosslessEntry
<1> QED BY <1>1 DEF PicturesIn

LEMMA PicturesAppend ==
  ASSUME NEW d, NEW S, NEW h \in Seq(S), NEW e \in S
  PROVE  PicturesIn(d, Append(h, e)) = Append(PicturesIn(d, h), PictureIn(d, e.doc))
<1> DEFINE P == {PictureIn(d, x.doc) : x \in S}
           p == PictureIn(d, e.doc)
           g == PicturesIn(d, h)
           a == Append(h, e)
<1>1. /\ a \in Seq(S) /\ Len(a) = Len(h) + 1 /\ Len(h) \in Nat
      /\ \A i \in 1 .. Len(h) : a[i] = h[i]
      /\ a[Len(h) + 1] = e
  BY AppendProperties, LenProperties
<1>2. /\ g \in Seq(P) /\ Len(g) = Len(h) /\ p \in P
      /\ \A i \in 1 .. Len(h) : g[i] = PictureIn(d, h[i].doc)
  BY PicturesType
<1>3. /\ PicturesIn(d, a) \in Seq(P) /\ Len(PicturesIn(d, a)) = Len(h) + 1
      /\ \A i \in 1 .. Len(h) + 1 : PicturesIn(d, a)[i] = PictureIn(d, a[i].doc)
  <2> HIDE DEF a
  <2>1. /\ PicturesIn(d, a) \in Seq(P) /\ Len(PicturesIn(d, a)) = Len(a)
        /\ \A i \in 1 .. Len(a) : PicturesIn(d, a)[i] = PictureIn(d, a[i].doc)
    BY <1>1, PicturesType
  <2> QED BY <1>1, <2>1
<1> HIDE DEF P, p, g, a
<1>4. /\ Append(g, p) \in Seq(P) /\ Len(Append(g, p)) = Len(h) + 1
      /\ \A i \in 1 .. Len(h) : Append(g, p)[i] = g[i]
      /\ Append(g, p)[Len(h) + 1] = p
  BY <1>2, AppendProperties
<1>5. ASSUME NEW i \in 1 .. Len(h) + 1 PROVE PicturesIn(d, a)[i] = Append(g, p)[i]
  <2>1. CASE i \in 1 .. Len(h)
    BY <1>1, <1>2, <1>3, <1>4, <2>1
  <2>2. CASE i = Len(h) + 1
    BY <1>1, <1>3, <1>4, <2>2 DEF p
  <2>3. i \in 1 .. Len(h) \/ i = Len(h) + 1
    BY <1>1
  <2> QED BY <2>1, <2>2, <2>3
<1>6. PicturesIn(d, a) = Append(g, p)
  BY <1>3, <1>4, <1>5, SeqEqual
<1> QED BY <1>6 DEF g, p, a

LEMMA PicturesPart ==
  ASSUME NEW d, NEW S, NEW h \in Seq(S), NEW m \in Int, NEW n \in Int, m \in 1 .. Len(h) + 1, n <= Len(h)
  PROVE  PicturesIn(d, SubSeq(h, m, n)) = SubSeq(PicturesIn(d, h), m, n)
<1> DEFINE P == {PictureIn(d, x.doc) : x \in S}
           g == PicturesIn(d, h)
           s == SubSeq(h, m, n)
           k == IF m <= n THEN n - m + 1 ELSE 0
<1>1. /\ g \in Seq(P) /\ Len(g) = Len(h) /\ Len(h) \in Nat
      /\ \A i \in 1 .. Len(h) : g[i] = PictureIn(d, h[i].doc) /\ h[i] \in S /\ g[i] \in P
  BY PicturesType, LenProperties, ElementOfSeq
<1>2. /\ s \in Seq(S) /\ Len(s) = k /\ k \in Nat
      /\ \A i \in 1 .. k : s[i] = h[m + i - 1]
  <2>1. \A i \in m .. n : h[i] \in S
    BY <1>1
  <2> QED BY <2>1, SubSeqProperties
<1>3. /\ SubSeq(g, m, n) \in Seq(P) /\ Len(SubSeq(g, m, n)) = k
      /\ \A i \in 1 .. k : SubSeq(g, m, n)[i] = g[m + i - 1]
  <2> HIDE DEF P, g
  <2>1. \A i \in m .. n : g[i] \in P
    BY <1>1
  <2> QED BY <2>1, SubSeqProperties
<1>4. /\ PicturesIn(d, s) \in Seq(P) /\ Len(PicturesIn(d, s)) = k
      /\ \A i \in 1 .. k : PicturesIn(d, s)[i] = PictureIn(d, s[i].doc)
  <2> HIDE DEF k, s
  <2>1. s \in Seq(S) /\ Len(s) = k
    BY <1>2
  <2>2. /\ PicturesIn(d, s) \in Seq(P) /\ Len(PicturesIn(d, s)) = Len(s)
        /\ \A i \in 1 .. Len(s) : PicturesIn(d, s)[i] = PictureIn(d, s[i].doc)
    BY <2>1, PicturesType
  <2> QED BY <2>1, <2>2
<1>5. \A i \in 1 .. k : m + i - 1 \in 1 .. Len(h)
  BY <1>1
<1> HIDE DEF P, g, s, k
<1>6. \A i \in 1 .. k : PicturesIn(d, s)[i] = SubSeq(g, m, n)[i]
  BY <1>1, <1>2, <1>3, <1>4, <1>5
<1>7. PicturesIn(d, s) = SubSeq(g, m, n)
  BY <1>3, <1>4, <1>6, SeqEqual
<1> QED BY <1>7 DEF s, g

-----------------------------------------------------------------------------
(* The versions that exist are those of the photos and of the edits.       *)
Made ==
  /\ fresh <= MaxFresh
  /\ \A p \in DOMAIN disk : disk[p].version \in UserFiles \cup 0 .. MaxFresh
Now == PictureOf(IF running THEN doc ELSE NoDocument)
PhotosOn(d) == [f \in Present |-> d[f].version]

LEMMA Seen ==
  /\ running => Now = PictureIn(disk, doc)
  /\ running' => Now' = PictureIn(disk', doc')
  /\ ~running => Now = PictureIn(disk, NoDocument)
  /\ ~running' => Now' = PictureIn(disk', NoDocument)
  /\ PicturesOf(undo) = PicturesIn(disk, undo) /\ PicturesOf(redo) = PicturesIn(disk, redo)
  /\ PicturesOf(undo)' = PicturesIn(disk', undo') /\ PicturesOf(redo)' = PicturesIn(disk', redo')
<1>1. /\ running => Now = PictureIn(disk, doc)
      /\ ~running => Now = PictureIn(disk, NoDocument)
  BY PicturesOfDisk DEF Now
<1>2. /\ running' => Now' = PictureIn(disk', doc')
      /\ ~running' => Now' = PictureIn(disk', NoDocument)
  BY DEF Now, PictureOf, PictureIn
<1>3. PicturesOf(undo)' = PicturesIn(disk', undo') /\ PicturesOf(redo)' = PicturesIn(disk', redo')
  BY DEF PicturesOf, PicturesIn, PictureOf, PictureIn
<1> QED BY <1>1, <1>2, <1>3, PicturesOfDisk

(* An undo point adds the picture to the past, and forgets the future.     *)
LEMMA Remembered ==
  ASSUME TypeOK, Ownership, ~Replacing, LosslessDoc(doc),
         NEW d \in Opened, LosslessDoc(d), OnOwnFile(d), d.file = doc.file, d.orig = doc.orig,
         d.temp = doc.temp, imageUndoPoint(d),
         NEW c, \A p \in DOMAIN UndoPointDisk(d) : c[p] = disk[p]
  PROVE  /\ PicturesIn(c, undo') = Editor!Kept(Append(PicturesIn(disk, undo), PictureIn(disk, doc)))
         /\ PicturesIn(c, redo') = <<>>
<1> DEFINE h == Append(undo, Image(d))
<1>1. /\ redo' = <<>> /\ undo' \in Seq(Entry) /\ \A e \in Elements(undo') : LosslessEntry(e)
      /\ Temps(undo') \subseteq DOMAIN UndoPointDisk(d)
  <2>1. TempOf(d) = TempOf(doc)
    BY DEF TempOf
  <2> QED BY <2>1, UndoPointTemps
<1>2. PicturesIn(c, redo') = <<>>
  BY <1>1, PicturesEmpty
<1>3. PicturesIn(c, undo') = PicturesIn(disk, undo')
  BY <1>1, PicturesKept
<1>4. undo \in Seq(Entry) /\ Image(d) \in Entry /\ Image(d).doc = [d EXCEPT !.shown = Blank]
  BY ImageOwns DEF TypeOK
<1>5. PictureIn(disk, Image(d).doc) = PictureIn(disk, doc)
  <2>1. /\ Image(d).doc.file = doc.file /\ Image(d).doc.orig = doc.orig
        /\ LosslessDoc(Image(d).doc)
    BY <1>4, ImageOwns DEF Opened, LosslessEntry
  <2> QED BY <2>1, LosslessPicture DEF PhotoOf
<1>6. PicturesIn(disk, h) = Append(PicturesIn(disk, undo), PictureIn(disk, doc))
  BY <1>4, <1>5, PicturesAppend
<1>7. h \in Seq(Entry) /\ MaxUndo \in Nat /\ Len(h) \in Nat /\ Len(PicturesIn(disk, h)) = Len(h)
  <2>1. h \in Seq(Entry)
    BY <1>4
  <2> HIDE DEF h
  <2> QED BY <2>1, SettingsAssumption, PicturesType, LenProperties
<1>8. undo' = Newest(h, MaxUndo)
  <2>1. d.orig # None
    BY FilesAssumption DEF LosslessDoc
  <2> QED BY <2>1 DEF imageUndoPoint
<1> HIDE DEF h
<1>9. PicturesIn(disk, undo') = Editor!Kept(PicturesIn(disk, h))
  <2>1. CASE Len(h) > MaxUndo
    <3>1. /\ Len(h) - MaxUndo + 1 \in Int /\ Len(h) \in Int
          /\ Len(h) - MaxUndo + 1 \in 1 .. Len(h) + 1 /\ Len(h) <= Len(h)
      BY <1>7, <2>1
    <3>2. undo' = SubSeq(h, Len(h) - MaxUndo + 1, Len(h))
      BY <1>8, <2>1 DEF Newest
    <3>3. PicturesIn(disk, undo') = SubSeq(PicturesIn(disk, h), Len(h) - MaxUndo + 1, Len(h))
      BY <1>7, <3>1, <3>2, PicturesPart
    <3> QED BY <1>7, <2>1, <3>3 DEF Editor!Kept
  <2>2. CASE ~(Len(h) > MaxUndo)
    BY <1>7, <1>8, <2>2 DEF Newest, Editor!Kept
  <2> QED BY <2>1, <2>2
<1> QED BY <1>2, <1>3, <1>6, <1>9

-----------------------------------------------------------------------------
(* Each step of the window is a step of the editor, or none.               *)
Undoing == LosslessOnly /\ MaxUndo > 0

LEMMA EditorEdits ==
  ASSUME NEW v \in UserFiles \cup 0 .. MaxFresh, Now.photo # None,
         Now' = [Now EXCEPT !.look = v], doc'.shown.version = v,
         PicturesOf(undo)' = Editor!Kept(Append(PicturesOf(undo), Now)),
         PicturesOf(redo)' = <<>>, PhotosOn(disk)' = PhotosOn(disk)
  PROVE  Editor!Edit
<1>1. v \in UserFiles \cup 0 .. 2 * MaxFresh
  BY BoundsAssumption
<1> QED BY <1>1 DEF Editor!Edit, Editor!Remember, Now, PhotosOn

LEMMA EditMaps ==
  ASSUME Undoing, TypeOK, LosslessInv, Made, running, EditStep
  PROVE  Editor!Edit /\ Made'
<1>1. PICK d \in {doc, Dirty(doc)} :
        /\ d \in Opened /\ LosslessDoc(d) /\ OnOwnFile(d) /\ TempOf(d) = TempOf(doc)
        /\ ~Replacing /\ imageUndoPoint(d) /\ Source(d) = doc.file
        /\ fresh' = fresh + 1 /\ \E c \in Content : ToolLeaves(UndoPointDisk(d), c)
  BY ToolMakes DEF Undoing
<1> DEFINE before == UndoPointDisk(d)
<1>2. PICK c \in Content : ToolLeaves(before, c)
  BY <1>1
<1>3. World /\ running' = running
  BY DEF World, LosslessInv, EditStep, notEdited
<1>4. /\ doc \in Opened /\ LosslessDoc(doc) /\ OnOwnFile(doc) /\ fresh \in Nat
      /\ d.file = doc.file /\ d.orig = doc.orig /\ d.temp = doc.temp
  <2>1. doc # NoDocument /\ doc \in Opened /\ fresh \in Nat
    BY OpenedDoc DEF EditStep, TypeOK
  <2>2. OnOwnFile(doc) /\ LosslessDoc(doc)
    BY <1>3, <2>1, IdleContext DEF World, Control, EditStep
  <2> QED BY <1>1, <2>1, <2>2 DEF Dirty, Opened
<1>5. /\ DOMAIN before = Present \cup Temps(undo') /\ DOMAIN before \subseteq DOMAIN disk
      /\ \A p \in DOMAIN before : before[p] = disk[p]
      /\ TempOf(d) \subseteq Temps(undo')
  BY <1>1, <1>3, UndoPointTemps DEF World, Undoing
<1>6. fresh + 1 \notin DOMAIN before
  BY <1>4, <1>5 DEF LosslessInv, TempsNamed
<1> HIDE DEF before
<1>7. /\ DOMAIN disk' = DOMAIN before \cup {fresh + 1} /\ disk'[fresh + 1] = c
      /\ \A p \in DOMAIN before : disk'[p] = disk[p]
  BY <1>2, <1>5, <1>6 DEF ToolLeaves, Put
<1>8. doc.file \in DOMAIN before
  BY <1>1, <1>4, <1>5 DEF OnOwnFile, LosslessDoc, TempOf
<1>9. doc.shown = disk[doc.file]
  <2>1. Shows(doc) /\ Readable(disk[doc.file])
    BY <1>3, <1>4, <1>5, <1>8, FilesAssumption, IdleContext
       DEF World, Undoing, AllReadable, EditStep, LosslessDoc, NoDocument
  <2> QED BY <2>1 DEF Shows
<1>10. /\ c.version = disk[doc.file].version \/ c.version = fresh + 1
       /\ doc'.shown.version = c.version
       /\ doc'.file = fresh + 1 /\ doc'.orig = doc.orig /\ doc'.temp /\ doc'.lossless
  BY <1>2, <1>5, <1>8, <1>9 DEF ToolLeaves
<1>11. fresh + 1 \in 0 .. MaxFresh
  BY <1>4, BoundsAssumption DEF EditStep, Budget
<1>12. c.version \in UserFiles \cup 0 .. MaxFresh
  BY <1>5, <1>8, <1>10, <1>11 DEF Made
<1>13. Made'
  BY <1>1, <1>5, <1>7, <1>11, <1>12, BoundsAssumption DEF Made
<1>14. Now = PictureIn(disk, doc) /\ Now' = PictureIn(disk', doc')
  BY <1>3, Seen
<1>15. /\ Now.photo = doc.orig /\ doc.orig # None
       /\ Now' = [photo |-> doc.orig, look |-> c.version]
       /\ [Now EXCEPT !.look = c.version] = [photo |-> doc.orig, look |-> c.version]
  <2>1. LosslessDoc(doc') /\ OnOwnFile(doc') /\ doc'.file \in Nat
    BY <1>4, <1>10 DEF LosslessDoc, OnOwnFile
  <2>2. Now' = [photo |-> doc.orig, look |-> c.version]
    BY <1>7, <1>10, <1>14, <2>1, LosslessPicture
  <2>3. \E l : Now = [photo |-> doc.orig, look |-> l] /\ doc.orig # None
    BY <1>4, <1>14, LosslessPicture
  <2> QED BY <2>2, <2>3
<1>16. /\ PicturesOf(undo)' = Editor!Kept(Append(PicturesOf(undo), Now))
       /\ PicturesOf(redo)' = <<>>
  <2>1. \A p \in DOMAIN UndoPointDisk(d) : disk'[p] = disk[p]
    BY <1>7 DEF before
  <2> QED BY <1>1, <1>3, <1>4, <1>14, <2>1, Seen, Remembered DEF World
<1>17. PhotosOn(disk)' = PhotosOn(disk)
  BY <1>5, <1>7 DEF PhotosOn
<1> QED BY <1>10, <1>12, <1>13, <1>15, <1>16, <1>17, EditorEdits

LEMMA LeaveMaps ==
  ASSUME Undoing, TypeOK, LosslessInv, Made, running, ImageLoad
  PROVE  Editor!Leave /\ Made'
<1>1. /\ World /\ todo # <<>> /\ Head(todo).op = "ImageLoad" /\ doc' = doc /\ running'
      /\ imageUndoPoint(doc) /\ disk' = UndoPointDisk(doc) /\ fresh' = fresh
  BY DEF ImageLoad, Calling, LosslessInv, World
<1>2. ~loading /\ ~Replacing /\ (doc # NoDocument => OnOwnFile(doc))
  BY <1>1, Pending DEF World, Replacing, Calling
<1>3. Now = PictureIn(disk, doc) /\ Now' = PictureIn(disk', doc)
  BY <1>1, Seen
<1>4. CASE doc = NoDocument
  <2>1. undo' = undo /\ redo' = redo /\ disk' = disk
    BY <1>1, <1>4 DEF imageUndoPoint, UndoPointDisk, NoDocument
  <2>2. Now' = Now /\ Now.photo = None
    BY <1>3, <1>4, <2>1, NoPicture
  <2>3. PicturesOf(undo)' = PicturesOf(undo) /\ PicturesOf(redo)' = PicturesOf(redo)
    BY <2>1, Seen
  <2> QED BY <1>1, <2>1, <2>2, <2>3 DEF Editor!Leave, Editor!Remember, Made, Now
<1>5. CASE doc # NoDocument
  <2>1. doc \in Opened /\ LosslessDoc(doc) /\ OnOwnFile(doc)
    BY <1>1, <1>2, <1>5, OpenedDoc DEF World, Control, TypeOK
  <2>2. /\ DOMAIN disk' = Present \cup Temps(undo') /\ DOMAIN disk' \subseteq DOMAIN disk
        /\ \A p \in DOMAIN disk' : disk'[p] = disk[p]
        /\ TempOf(doc) \subseteq Temps(undo')
    BY <1>1, <1>2, <2>1, UndoPointTemps DEF World, Undoing
  <2>3. Made'
    BY <1>1, <2>2 DEF Made
  <2>4. /\ PicturesOf(undo)' = Editor!Kept(Append(PicturesOf(undo), Now))
        /\ PicturesOf(redo)' = <<>>
    BY <1>1, <1>2, <1>3, <2>1, <2>2, Seen, Remembered DEF World
  <2>5. Now' = Now /\ Now.photo # None
    <3>1. doc.file \in Nat => doc.file \in TempOf(doc)
      BY <2>1, LosslessPicture DEF TempOf
    <3>2. doc.file \in Nat => disk'[doc.file] = disk[doc.file]
      BY <2>2, <3>1
    <3> QED BY <1>3, <2>1, <3>2, LosslessPicture
  <2>6. PhotosOn(disk)' = PhotosOn(disk)
    BY <2>2 DEF PhotosOn
  <2> QED BY <1>1, <2>3, <2>4, <2>5, <2>6 DEF Editor!Leave, Editor!Remember, Now, PhotosOn
<1> QED BY <1>4, <1>5

LEMMA LoadMaps ==
  ASSUME Undoing, TypeOK, LosslessInv, Made, running, LoadBody
  PROVE  Editor!Load /\ Made'
<1>1. /\ World /\ todo # <<>> /\ Head(todo).op = "LoadBody" /\ doc \in Doc /\ running'
      /\ UNCHANGED <<disk, undo, redo, fresh>>
  BY DEF LoadBody, Calling, LosslessInv, World, TypeOK
<1>2. Leaving
  BY <1>1, Pending DEF World
<1>3. PICK name \in Present : Head(todo).name = name
  <2>1. PICK n \in Present, o \in BOOLEAN :
          Head(todo) = CleanupFor("ImageLoad", n, o) \/ Head(todo) = BodyCall(n, o)
    BY <1>2 DEF Leaving
  <2>2. Head(todo).name = n
    BY <2>1, CallParts
  <2> QED BY <2>2
<1>4. name \in DOMAIN disk /\ Readable(disk[name]) /\ isJPEGFile(name)
  BY <1>1, FilesAssumption DEF World, Ownership, AllReadable, Undoing, LosslessOnly, isJPEGFile
<1> DEFINE adopts == Adopts(Head(todo))
<1>5. doc' = [doc EXCEPT
                !.file = name, !.orig = IF adopts THEN name ELSE @,
                !.temp = IF adopts THEN FALSE ELSE @, !.shown = disk[name], !.lossless = isJPEGFile(name),
                !.zone = AutoSelectMax /\ ~doc.inclin,
                !.line = doc.line /\ AutoSelectMax /\ ~doc.inclin]
  BY <1>3, <1>4 DEF LoadBody
<1> HIDE DEF adopts
<1>6. /\ doc'.file = name /\ doc'.shown = disk[name] /\ doc'.lossless
  <2>1. CASE doc \in Opened
    BY <1>4, <1>5, <2>1 DEF Opened
  <2>2. CASE doc = NoDocument
    BY <1>4, <1>5, <2>2 DEF NoDocument
  <2> QED BY <1>1, <2>1, <2>2 DEF Doc
<1>7. Now' = [photo |-> name, look |-> AsSaved]
  <2>1. name \in UserFiles /\ name \notin Nat
    BY FilesAssumption
  <2> QED BY <1>1, <1>6, <2>1, Seen DEF PictureIn, PhotoOf
<1>8. doc'.shown.version = PhotosOn(disk)[name] /\ PhotosOn(disk)' = PhotosOn(disk)
  BY <1>1, <1>6 DEF PhotosOn
<1>9. PicturesOf(undo)' = PicturesOf(undo) /\ PicturesOf(redo)' = PicturesOf(redo)
  BY <1>1, Seen
<1>10. Made'
  BY <1>1 DEF Made
<1> QED BY <1>7, <1>8, <1>9, <1>10 DEF Editor!Load, PhotosOn, Now

(* The rest of a load changes what the document says of its file only.     *)
LEMMA LoadedMaps ==
  ASSUME Undoing, TypeOK, LosslessInv, Made, running, LoadEnd \/ Adopt
  PROVE  UNCHANGED Editor!vars /\ Made'
<1>1. /\ World /\ todo # <<>> /\ running' /\ UNCHANGED <<disk, undo, redo, fresh>>
  BY DEF LoadEnd, Adopt, Calling, LosslessInv, World, notEdited, LosslessOnly, Undoing
<1>2. PhotosOn(disk)' = PhotosOn(disk) /\ Made'
  BY <1>1 DEF PhotosOn, Made
<1>3. PicturesOf(undo)' = PicturesOf(undo) /\ PicturesOf(redo)' = PicturesOf(redo)
  BY <1>1, Seen
<1>4. doc'.shown = doc.shown /\ PictureIn(disk, doc') = PictureIn(disk, doc)
  <2>1. CASE LoadEnd
    BY <2>1 DEF LoadEnd, Undoing, LosslessOnly
  <2>2. CASE Adopt
    <3>1. Adopting /\ doc # NoDocument /\ LosslessDoc(doc)
      BY <1>1, <2>2, Pending DEF Adopt, Calling, World, Control
    <3>2. PICK name \in Present : AfterLoad(todo, name, FALSE) /\ OnPhoto(name, FALSE)
      BY <3>1 DEF Adopting
    <3>3. (IF Head(todo).name = None THEN doc.orig ELSE Head(todo).name) = name
      <4>1. CASE todo = <<Call("Adopt", name)>>
        <5>1. Head(todo) = Call("Adopt", name)
          BY <4>1, FewCalls
        <5>2. Head(todo).name = name /\ name # None
          BY <5>1, FilesAssumption DEF Call
        <5> QED BY <5>2
      <4>2. CASE name = doc.orig /\ todo = <<Call("Adopt", None)>>
        <5>1. Head(todo) = Call("Adopt", None)
          BY <4>2, FewCalls
        <5>2. Head(todo).name = None
          BY <5>1 DEF Call
        <5> QED BY <4>2, <5>2
      <4> QED BY <3>2, <4>1, <4>2 DEF AfterLoad
    <3>4. doc' = [doc EXCEPT !.file = name, !.orig = name, !.temp = FALSE] /\ doc.file = name
      BY <2>2, <3>2, <3>3 DEF Adopt, Adopted, OnPhoto
    <3>5. /\ doc'.file = name /\ doc'.orig = name /\ doc'.lossless /\ doc'.shown = doc.shown
          /\ LosslessDoc(doc')
      BY <3>1, <3>4, OpenedDoc DEF TypeOK, Opened, LosslessDoc
    <3> QED BY <3>1, <3>4, <3>5, FilesAssumption, LosslessPicture DEF PhotoOf
  <2> QED BY <2>1, <2>2
<1>5. Now' = Now /\ doc'.shown.version = doc.shown.version
  BY <1>1, <1>4, Seen
<1> QED BY <1>2, <1>3, <1>5 DEF Editor!vars, PhotosOn, Now

LEMMA SaveMaps ==
  ASSUME Undoing, TypeOK, LosslessInv, Made, running, WriteLossless
  PROVE  Editor!Save /\ Made'
<1>1. /\ World /\ ~commented /\ Writing /\ disk' = Written /\ doc' = Clean(doc)
      /\ UNCHANGED <<undo, redo, fresh, running>>
  BY DEF WriteLossless, notEdited, LosslessInv, World, Control
<1>2. ~loading /\ doc # NoDocument /\ OnOwnFile(doc) /\ ~Replacing
  BY <1>1, WritingSaves DEF World
<1>3. doc \in Opened /\ LosslessDoc(doc) /\ Shows(doc) /\ Readable(disk[doc.file])
  <2>1. doc \in Opened /\ LosslessDoc(doc) /\ Shows(doc)
    BY <1>1, <1>2, OpenedDoc DEF World, Control, ShowsFile, TypeOK
  <2> QED BY <1>1, <2>1 DEF World, AllReadable, Undoing, Shows
<1>4. /\ doc'.orig = doc.orig /\ doc'.file = doc.file /\ doc'.lossless = doc.lossless
      /\ doc'.shown = doc.shown
  BY <1>1, <1>3 DEF Clean, Opened
<1>5. /\ doc.orig \in Present /\ Present \subseteq DOMAIN disk /\ Present \cap Nat = {}
      /\ Temps(undo) \subseteq DOMAIN disk /\ Temps(redo) \subseteq DOMAIN disk
      /\ Temps(undo) \subseteq Nat /\ Temps(redo) \subseteq Nat
      /\ undo \in Seq(Entry) /\ redo \in Seq(Entry)
      /\ \A e \in Elements(undo) : LosslessEntry(e)
      /\ \A e \in Elements(redo) : LosslessEntry(e)
  BY <1>1, <1>3, FilesAssumption, LosslessHistories DEF LosslessDoc, World, Ownership, Apart
<1>6. /\ DOMAIN disk' = DOMAIN disk
      /\ \A p \in DOMAIN disk : disk'[p] = IF p = doc.orig THEN disk[doc.file] ELSE disk[p]
  <2>1. disk' = IF doc.file = doc.orig THEN disk ELSE Put(disk, doc.orig, disk[doc.file])
    BY <1>1, <1>3 DEF Written, CopyFile, Store, LosslessOnly, Undoing, Shows
  <2> QED BY <1>5, <2>1 DEF Put
<1>7. \A t \in Nat \cap DOMAIN disk : disk'[t] = disk[t]
  BY <1>5, <1>6
<1>8. PicturesOf(undo)' = PicturesOf(undo) /\ PicturesOf(redo)' = PicturesOf(redo)
  <2>1. PicturesIn(disk', undo) = PicturesIn(disk, undo) /\ PicturesIn(disk', redo) = PicturesIn(disk, redo)
    BY <1>5, <1>7, PicturesKept
  <2> QED BY <1>1, <2>1, Seen
<1>9. /\ Now = [photo |-> doc.orig, look |-> IF doc.file \in Nat THEN disk[doc.file].version ELSE AsSaved]
      /\ doc.orig # None /\ Now' = Now
  <2>1. PhotoOf(doc) = doc.orig /\ PhotoOf(doc') = doc.orig /\ LosslessDoc(doc') /\ doc.orig # None
    BY <1>2, <1>3, <1>4, LosslessPicture DEF PhotoOf, LosslessDoc
  <2>2. doc.file \in Nat => disk'[doc.file] = disk[doc.file]
    BY <1>3, <1>7 DEF Shows
  <2> QED BY <1>1, <1>3, <1>4, <2>1, <2>2, Seen, LosslessPicture
<1>10. Editor!Look(Now) = disk[doc.file].version
  <2>1. doc.file \in Nat => disk[doc.file].version # AsSaved
    <3>1. disk[doc.file].version \in UserFiles \cup Nat
      BY <1>3, BoundsAssumption DEF Made, Shows
    <3> QED BY <3>1, AsSavedAssumption
  <2>2. doc.file \notin Nat => doc.file = doc.orig
    BY <1>2 DEF OnOwnFile
  <2> QED BY <1>5, <1>9, <2>1, <2>2 DEF Editor!Look
<1>11. PhotosOn(disk)' = [PhotosOn(disk) EXCEPT ![Now.photo] = Editor!Look(Now)]
  <2>1. \A f \in Present : disk'[f].version = IF f = doc.orig THEN disk[doc.file].version ELSE disk[f].version
    BY <1>5, <1>6
  <2> QED BY <1>5, <1>9, <1>10, <2>1 DEF PhotosOn
<1>12. Made'
  BY <1>1, <1>3, <1>5, <1>6 DEF Made, Shows
<1>13. doc'.shown.version = doc.shown.version /\ Now.photo # None
  BY <1>4, <1>9
<1> QED BY <1>8, <1>9, <1>11, <1>12, <1>13 DEF Editor!Save, PhotosOn, Now

(* The picture undo or redo takes from one history goes to the other.      *)
LEMMA Exchanged ==
  ASSUME Undoing, TypeOK, LosslessInv, Made, running, todo = <<>>,
         NEW h \in {undo, redo}, NEW g \in {undo, redo}, h # <<>>, RestoreImage(TopOf(h)), running'
  PROVE  /\ disk' = disk /\ Now' = PicturesIn(disk, h)[Len(h)]
         /\ doc'.shown.version = Editor!Look(Now')
         /\ PicturesIn(disk, h) # <<>> /\ Len(PicturesIn(disk, h)) = Len(h)
         /\ PicturesIn(disk, Below(h)) = SubSeq(PicturesIn(disk, h), 1, Len(h) - 1)
         /\ PicturesIn(disk, Append(g, Image(doc))) = Append(PicturesIn(disk, g), Now)
<1> DEFINE e == TopOf(h)
<1>1. /\ World /\ h \in Seq(Entry) /\ g \in Seq(Entry) /\ Len(h) \in Nat \ {0}
      /\ e \in Entry /\ e = h[Len(h)] /\ e \in Elements(h)
  BY TopType, ElementsType, LenProperties DEF TypeOK, LosslessInv, World, TopOf, Elements
<1>2. LosslessEntry(e) /\ Present \cup TempOf(e.doc) \subseteq DOMAIN disk
  <2>1. LosslessEntry(e)
    BY <1>1 DEF World, Ownership, Apart
  <2>2. TempOf(e.doc) \subseteq Temps(h)
    BY <1>1, <2>1 DEF TempOf, Temps, Owned, LosslessEntry
  <2> QED BY <1>1, <2>1, <2>2 DEF World, Ownership
<1> HIDE DEF e
<1>3. /\ disk' = disk /\ e.doc.file \in DOMAIN disk
      /\ doc'.orig = e.doc.orig /\ doc'.file = e.doc.file /\ doc'.lossless = e.doc.lossless
      /\ doc'.shown = disk[e.doc.file]
  <2>1. RestoreImage(e)
    BY DEF e
  <2>2. /\ disk' = disk /\ e.doc.file \in DOMAIN disk
        /\ doc'.orig = e.doc.orig /\ doc'.file = e.doc.file /\ doc'.lossless = e.doc.lossless
        /\ Readable(disk[e.doc.file]) => doc'.shown = disk[e.doc.file]
    BY <1>1, <1>2, <2>1, RestoredDoc
  <2> QED BY <1>1, <2>2 DEF World, AllReadable, Undoing
<1>4. /\ Now' = PictureIn(disk, e.doc) /\ OnOwnFile(e.doc) /\ LosslessDoc(e.doc)
  <2>1. LosslessDoc(doc') /\ PhotoOf(doc') = PhotoOf(e.doc)
    BY <1>2, <1>3 DEF LosslessEntry, LosslessDoc, PhotoOf
  <2> QED BY <1>2, <1>3, <2>1, Seen, LosslessPicture DEF LosslessEntry
<1>5. PicturesIn(disk, h)[Len(h)] = PictureIn(disk, e.doc) /\ Len(PicturesIn(disk, h)) = Len(h)
      /\ PicturesIn(disk, h) # <<>>
  <2>1. Len(PicturesIn(disk, h)) = Len(h)
    BY <1>1, PicturesType
  <2>2. PicturesIn(disk, h)[Len(h)] = PictureIn(disk, h[Len(h)].doc)
    <3>1. \A i \in 1 .. Len(h) : PicturesIn(disk, h)[i] = PictureIn(disk, h[i].doc)
      BY <1>1, PicturesType
    <3>2. Len(h) \in 1 .. Len(h)
      BY <1>1
    <3> QED BY <3>1, <3>2
  <2> QED BY <1>1, <2>1, <2>2, EmptySeq
<1>6. doc'.shown.version = Editor!Look(Now')
  <2>1. e.doc.file \in Nat => disk[e.doc.file].version # AsSaved
    <3>1. disk[e.doc.file].version \in UserFiles \cup Nat
      BY <1>3, BoundsAssumption DEF Made
    <3> QED BY <3>1, AsSavedAssumption
  <2>2. /\ Now' = [photo |-> e.doc.orig,
                   look |-> IF e.doc.file \in Nat THEN disk[e.doc.file].version ELSE AsSaved]
        /\ e.doc.orig \in Present
    BY <1>4, LosslessPicture
  <2>3. e.doc.file \notin Nat => e.doc.file = e.doc.orig
    BY <1>4 DEF OnOwnFile
  <2> QED BY <1>3, <2>1, <2>2, <2>3 DEF Editor!Look
<1>7. PicturesIn(disk, Below(h)) = SubSeq(PicturesIn(disk, h), 1, Len(h) - 1)
  <2>1. 1 \in Int /\ Len(h) - 1 \in Int /\ 1 \in 1 .. Len(h) + 1 /\ Len(h) - 1 <= Len(h)
    BY <1>1
  <2>2. h \in Seq(Entry)
    BY <1>1
  <2>3. PicturesIn(disk, SubSeq(h, 1, Len(h) - 1)) = SubSeq(PicturesIn(disk, h), 1, Len(h) - 1)
    <3> DEFINE m == 1
               n == Len(h) - 1
    <3>1. m \in Int /\ n \in Int /\ m \in 1 .. Len(h) + 1 /\ n <= Len(h)
      BY <2>1
    <3> HIDE DEF m, n
    <3>2. PicturesIn(disk, SubSeq(h, m, n)) = SubSeq(PicturesIn(disk, h), m, n)
      BY <2>2, <3>1, PicturesPart
    <3> QED BY <3>2 DEF m, n
  <2> QED BY <2>3 DEF Below
<1>8. PicturesIn(disk, Append(g, Image(doc))) = Append(PicturesIn(disk, g), Now)
  <2>1. doc # NoDocument
    BY <1>1 DEF TypeOK
  <2>2. doc \in Opened /\ LosslessDoc(doc) /\ OnOwnFile(doc)
    BY <1>1, <2>1, OpenedDoc, IdleContext DEF TypeOK, World, Control
  <2>3. /\ Image(doc) \in Entry /\ Image(doc).doc.file = doc.file /\ Image(doc).doc.orig = doc.orig
        /\ LosslessDoc(Image(doc).doc)
    BY <2>2, ImageOwns DEF Opened, LosslessEntry
  <2>4. PictureIn(disk, Image(doc).doc) = PictureIn(disk, doc)
    BY <2>2, <2>3, LosslessPicture DEF PhotoOf
  <2>5. Now = PictureIn(disk, doc)
    BY Seen
  <2> QED BY <1>1, <2>3, <2>4, <2>5, PicturesAppend
<1> QED BY <1>3, <1>4, <1>5, <1>6, <1>7, <1>8

LEMMA RestoreMaps ==
  ASSUME Undoing, TypeOK, LosslessInv, Made, running, HistoryCommand
  PROVE  (Editor!Undo \/ Editor!Redo) /\ Made'
<1>1. /\ todo = <<>> /\ running' /\ fresh' = fresh /\ (undo # <<>> \/ redo # <<>>)
      /\ undo \in Seq(Entry) /\ redo \in Seq(Entry)
  BY DEF HistoryCommand, OnImageUndo, OnImageRedo, Idle, TypeOK
<1>2. \A h \in {undo, redo} : h # <<>> => TopOf(h).kind = "image"
  <2>1. \A h \in {undo, redo} : \A i \in 1 .. Len(h) : h[i].kind = "image"
    BY LosslessHistories DEF LosslessInv, ImagesOnly
  <2> QED BY <1>1, <2>1 DEF TopOf
<1>3. Now = PictureIn(disk, doc) /\ (disk' = disk => PhotosOn(disk)' = PhotosOn(disk) /\ Made')
  BY <1>1, Seen DEF PhotosOn, Made
<1>4. CASE OnImageUndo
  <2>1. /\ undo # <<>> /\ undo' = Below(undo) /\ redo' = Append(redo, Image(doc))
        /\ RestoreImage(TopOf(undo))
    BY <1>2, <1>4 DEF OnImageUndo
  <2>2. /\ disk' = disk /\ Now' = PicturesIn(disk, undo)[Len(undo)]
        /\ doc'.shown.version = Editor!Look(Now')
        /\ PicturesIn(disk, undo) # <<>> /\ Len(PicturesIn(disk, undo)) = Len(undo)
        /\ PicturesIn(disk, Below(undo)) = SubSeq(PicturesIn(disk, undo), 1, Len(undo) - 1)
        /\ PicturesIn(disk, Append(redo, Image(doc))) = Append(PicturesIn(disk, redo), Now)
    BY <1>1, <2>1, Exchanged
  <2>3. /\ PicturesOf(undo) # <<>> /\ Now' = Editor!Top(PicturesOf(undo))
        /\ PicturesOf(undo)' = Editor!Rest(PicturesOf(undo))
        /\ PicturesOf(redo)' = Append(PicturesOf(redo), Now)
    BY <2>1, <2>2, Seen DEF Editor!Top, Editor!Rest
  <2>4. Editor!Undo
    BY <1>3, <2>2, <2>3 DEF Editor!Undo, PhotosOn, Now
  <2> QED BY <1>3, <2>2, <2>4
<1>5. CASE OnImageRedo
  <2>1. /\ redo # <<>> /\ redo' = Below(redo) /\ undo' = Append(undo, Image(doc))
        /\ RestoreImage(TopOf(redo))
    BY <1>2, <1>5 DEF OnImageRedo
  <2>2. /\ disk' = disk /\ Now' = PicturesIn(disk, redo)[Len(redo)]
        /\ doc'.shown.version = Editor!Look(Now')
        /\ PicturesIn(disk, redo) # <<>> /\ Len(PicturesIn(disk, redo)) = Len(redo)
        /\ PicturesIn(disk, Below(redo)) = SubSeq(PicturesIn(disk, redo), 1, Len(redo) - 1)
        /\ PicturesIn(disk, Append(undo, Image(doc))) = Append(PicturesIn(disk, undo), Now)
    BY <1>1, <2>1, Exchanged
  <2>3. /\ PicturesOf(redo) # <<>> /\ Now' = Editor!Top(PicturesOf(redo))
        /\ PicturesOf(redo)' = Editor!Rest(PicturesOf(redo))
        /\ PicturesOf(undo)' = Append(PicturesOf(undo), Now)
    BY <2>1, <2>2, Seen DEF Editor!Top, Editor!Rest
  <2>4. Editor!Redo
    BY <1>3, <2>2, <2>3 DEF Editor!Redo, PhotosOn, Now
  <2> QED BY <1>3, <2>2, <2>4
<1> QED BY <1>4, <1>5 DEF HistoryCommand

LEMMA QuitMaps ==
  ASSUME Undoing, TypeOK, LosslessInv, Made, running, Destroy
  PROVE  Editor!Quit /\ Made'
<1>1. Ended' /\ ~running' /\ undo' = <<>> /\ redo' = <<>> /\ doc' = doc /\ fresh' = fresh
  BY DestroyEnds DEF Destroy, Undoing
<1>2. \A p \in DOMAIN disk' : p \in DOMAIN disk /\ disk'[p] = disk[p]
  BY DEF Destroy, Without
<1>3. PhotosOn(disk)' = PhotosOn(disk) /\ Made'
  BY <1>1, <1>2 DEF Ended, PhotosOn, Made
<1>4. /\ Now' = [photo |-> None, look |-> AsSaved]
      /\ PicturesOf(undo)' = <<>> /\ PicturesOf(redo)' = <<>>
  BY <1>1, Seen, NoPicture, PicturesEmpty
<1> QED BY <1>1, <1>3, <1>4 DEF Editor!Quit, Editor!Nothing, PhotosOn, Now

LEMMA CallsMap ==
  ASSUME CallsStep, Made, running PROVE UNCHANGED Editor!vars /\ Made'
<1>1. UNCHANGED <<disk, undo, redo, fresh, running>> /\ SameEdited
  BY DEF CallsStep
<1>2. PhotosOn(disk)' = PhotosOn(disk) /\ Made'
  BY <1>1 DEF PhotosOn, Made
<1>3. /\ PicturesOf(undo)' = PicturesOf(undo) /\ PicturesOf(redo)' = PicturesOf(redo)
      /\ Now' = Now
  BY <1>1, Seen DEF SameEdited, PictureIn, PhotoOf
<1>4. doc'.shown.version = doc.shown.version
  BY <1>1 DEF SameEdited
<1> QED BY <1>2, <1>3, <1>4 DEF Editor!vars, PhotosOn, Now

LEMMA EditorFirst == ASSUME Undoing PROVE Init => Editor!Init /\ Made
<1> SUFFICES ASSUME Init PROVE Editor!Init /\ Made
  OBVIOUS
<1>1. /\ DOMAIN disk = Present /\ \A f \in Present : disk[f].version = f
      /\ fresh = 0 /\ doc = NoDocument /\ undo = <<>> /\ redo = <<>> /\ running
  BY DEF Init
<1>2. Made
  BY <1>1, FilesAssumption, BoundsAssumption DEF Made
<1>3. PhotosOn(disk) \in [Present -> UserFiles \cup 0 .. 2 * MaxFresh]
  BY <1>1, FilesAssumption DEF PhotosOn
<1>4. /\ Now = [photo |-> None, look |-> AsSaved]
      /\ PicturesOf(undo) = <<>> /\ PicturesOf(redo) = <<>>
  BY <1>1, Seen, NoPicture, PicturesEmpty
<1> QED BY <1>2, <1>3, <1>4 DEF Editor!Init, Editor!Nothing, PhotosOn, Now

LEMMA EditorNext ==
  ASSUME Undoing, TypeOK, LosslessInv, Made, [Next]_vars
  PROVE  [Editor!Next]_(Editor!vars) /\ Made'
<1>1. CASE UNCHANGED vars
  <2>1. UNCHANGED <<disk, doc, undo, redo, fresh, running>>
    BY <1>1 DEF vars
  <2>2. PhotosOn(disk)' = PhotosOn(disk) /\ Made'
    BY <2>1 DEF PhotosOn, Made
  <2>3. /\ PicturesOf(undo)' = PicturesOf(undo) /\ PicturesOf(redo)' = PicturesOf(redo)
        /\ Now' = Now
    BY <2>1, Seen
  <2> QED BY <2>1, <2>2, <2>3 DEF Editor!vars, PhotosOn, Now
<1>2. CASE Next /\ running
  <2>1. \/ EditStep \/ HistoryCommand \/ ImageLoad \/ LoadBody \/ LoadEnd \/ Adopt
        \/ WriteLossless \/ Destroy \/ CallsStep
    BY <1>2, LosslessSteps DEF Undoing
  <2> QED BY <1>2, <2>1, EditMaps, RestoreMaps, LeaveMaps, LoadMaps, LoadedMaps, SaveMaps, QuitMaps,
             CallsMap DEF Editor!Next
<1>3. CASE Next /\ ~running
  BY <1>3, ClosedForever
<1> QED BY <1>1, <1>2, <1>3

(* The window implements the editor: whatever is shared in temporary files *)
(* and handed from the document to the histories and back by               *)
(* imageUndoPoint, rpImage::restore, ImageLoad, OnFileSave and the         *)
(* destructors, undo, redo and save do what they would do with copies of   *)
(* the pictures.                                                           *)
THEOREM WindowImplementsEditor ==
  ASSUME LosslessOnly, MaxUndo > 0 PROVE Spec => ImplementsEditor
<1>1. Undoing
  BY DEF Undoing
<1>2. Init => Editor!Init /\ Made
  BY <1>1, EditorFirst
<1>3. TypeOK /\ LosslessInv /\ Made /\ [Next]_vars => [Editor!Next]_(Editor!vars) /\ Made'
  BY <1>1, EditorNext
<1> QED BY <1>2, <1>3, LosslessInvariant, PTL DEF Spec, ImplementsEditor, Editor!Spec
=============================================================================
