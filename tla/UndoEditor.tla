----------------------------- MODULE UndoEditor -----------------------------
(***************************************************************************)
(* What the window promises of its edits, without the temporary files, the *)
(* modes and the dialogs behind them: a picture with a past and a future,  *)
(* both made of pictures, above the photos on disk.  RatioFrameEditor      *)
(* shows that RatioFrame implements it.                                    *)
(*                                                                         *)
(* A picture is the photo it belongs to and what it looks like: a version  *)
(* of its own, or AsSaved, whatever the photo on disk is.  What the past   *)
(* holds is a value and stays as it was recorded; only what is AsSaved     *)
(* follows the photo when that is saved again.                             *)
(***************************************************************************)
EXTENDS Naturals, Sequences

CONSTANTS
  Photo,     (* names of photos                    *)
  Version,   (* what a picture can look like       *)
  NoPhoto,   (* the photo of the empty window      *)
  AsSaved,   (* the look of an unedited photo      *)
  Limit      (* how many pictures the past holds   *)

VARIABLES
  photos,    (* the photos on disk, with the version each shows     *)
  picture,   (* the picture that is edited                          *)
  seen,      (* the version on the screen                           *)
  past,      (* the pictures undo goes back to, the last one first  *)
  future     (* the pictures redo goes back to, the last one first  *)

vars == <<photos, picture, seen, past, future>>

-----------------------------------------------------------------------------
Picture == [photo : Photo \cup {NoPhoto}, look : Version \cup {AsSaved}]
Nothing == [photo |-> NoPhoto, look |-> AsSaved]
Look(p) == IF p.look = AsSaved THEN photos[p.photo] ELSE p.look
Kept(h) == IF Len(h) > Limit THEN SubSeq(h, Len(h) - Limit + 1, Len(h)) ELSE h
Top(h) == h[Len(h)]
Rest(h) == SubSeq(h, 1, Len(h) - 1)

Remember ==
  /\ past' = IF picture.photo = NoPhoto THEN past ELSE Kept(Append(past, picture))
  /\ future' = IF picture.photo = NoPhoto THEN future ELSE <<>>

Init ==
  /\ photos \in [Photo -> Version]
  /\ picture = Nothing
  /\ past = <<>> /\ future = <<>>

(* The picture is changed, and the old one remembered. *)
Edit ==
  /\ picture.photo # NoPhoto
  /\ \E v \in Version : picture' = [picture EXCEPT !.look = v] /\ seen' = v
  /\ Remember
  /\ UNCHANGED photos

(* Before another photo is loaded the picture is remembered too. *)
Leave == Remember /\ UNCHANGED <<photos, picture, seen>>
(* A photo is held in memory, or stays the file it was read from. *)
Load ==
  /\ \E f \in Photo : \E look \in {photos[f], AsSaved} :
       picture' = [photo |-> f, look |-> look] /\ seen' = photos[f]
  /\ UNCHANGED <<photos, past, future>>

Save ==
  /\ picture.photo # NoPhoto
  /\ photos' = [photos EXCEPT ![picture.photo] = Look(picture)]
  /\ UNCHANGED <<picture, seen, past, future>>
(* A picture that has been saved may be taken for the photo itself. *)
Settle ==
  /\ picture.photo # NoPhoto
  /\ photos[picture.photo] = Look(picture)
  /\ picture' = [picture EXCEPT !.look = AsSaved]
  /\ UNCHANGED <<photos, seen, past, future>>

Undo ==
  /\ past # <<>>
  /\ picture' = Top(past) /\ seen' = Look(Top(past))
  /\ past' = Rest(past) /\ future' = Append(future, picture)
  /\ UNCHANGED photos
Redo ==
  /\ future # <<>>
  /\ picture' = Top(future) /\ seen' = Look(Top(future))
  /\ future' = Rest(future) /\ past' = Append(past, picture)
  /\ UNCHANGED photos

Quit == picture' = Nothing /\ past' = <<>> /\ future' = <<>> /\ UNCHANGED <<photos, seen>>

Next == Edit \/ Leave \/ Load \/ Save \/ Settle \/ Undo \/ Redo \/ Quit
Spec == Init /\ [][Next]_vars
=============================================================================
