-------------------------- MODULE RatioFrameEditor --------------------------
(***************************************************************************)
(* RatioFrame implements UndoEditor: the temporary files, the two modes    *)
(* and the handlers that call one another add up to an editor whose        *)
(* histories hold pictures.  A temporary file stands for the version       *)
(* written in it; a photo open in lossless mode and not edited stands for  *)
(* whatever its file shows.                                                *)
(***************************************************************************)
EXTENDS RatioFrame

CONSTANT AsSaved

ASSUME AsSavedAssumption == AsSaved \notin UserFiles \cup Nat

PhotoOf(d) == IF d.file \in UserFiles THEN d.file ELSE d.orig
PictureOf(d) ==
  [photo |-> PhotoOf(d),
   look |-> CASE ~d.lossless /\ d.orig # None -> d.shown.version
              [] d.lossless /\ d.file \in Nat -> disk[d.file].version
              [] OTHER -> AsSaved]
PicturesOf(h) == [i \in DOMAIN h |-> PictureOf(h[i].doc)]

(* Each edit makes a version, and the crop its handler calls another.      *)
Editor == INSTANCE UndoEditor WITH
  Photo <- Present, Version <- UserFiles \cup 0 .. 2 * MaxFresh, NoPhoto <- None,
  Limit <- MaxUndo,
  photos <- [f \in Present |-> disk[f].version],
  picture <- PictureOf(IF running THEN doc ELSE NoDocument),
  seen <- doc.shown.version,
  past <- PicturesOf(undo),
  future <- PicturesOf(redo)

(* The window is an editor of pictures: what undo and redo bring back, and *)
(* what a save writes, is what it would be if every history entry held a   *)
(* copy of its picture (imageUndoPoint, rpImage::restore, OnFileSave and   *)
(* ImageLoad of RatioFrame.cpp, with the temporary files they share).      *)
ImplementsEditor == Editor!Spec
=============================================================================
