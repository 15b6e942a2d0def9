----------------------------- MODULE MCJpegTran -----------------------------
(***************************************************************************)
(* An instance for TLC of the lossless commands alone: a photo of one      *)
(* component, in whole and in partial iMCUs.                               *)
(***************************************************************************)
EXTENDS JpegTran

MCFrames == {[width |-> w, height |-> 5, factors |-> << <<1, 1>> >>,
              markers |-> << [kind |-> "COM", size |-> <<>>] >>] : w \in {3, 4}}
MCCrops == {[width |-> 2, height |-> 2, x |-> 1, y |-> 1]}
=============================================================================
