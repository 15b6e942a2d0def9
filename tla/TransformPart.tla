--------------------------- MODULE TransformPart ----------------------------
(* The lossless commands as a part of what a photo goes through.          *)
CONSTANTS TranSize, Frames, Crops, MaxCommands
VARIABLES t_photo, t_file, t_command, t_attempt, t_commands

tranVars == <<t_photo, t_file, t_command, t_attempt, t_commands>>

Tran == INSTANCE JpegTran WITH
  DCTSIZE <- TranSize,
  photo <- t_photo, file <- t_file, command <- t_command, attempt <- t_attempt,
  commands <- t_commands

ASSUME FramesAssumption == Tran!FramesAssumption

(* Each sample is where the command puts it (do_rot_90, do_crop, ...).     *)
SamplesPlaced == Tran!SamplesPlaced
(* Two commands in a row do what one would do (transupp.c).                *)
TransformsCompose == Tran!TransformsCompose
(* The markers follow the picture and still tell its colours               *)
(* (jtransform_adjust_parameters, jcopy_markers_execute).                  *)
HeaderFollows == Tran!HeaderFollows
=============================================================================
