------------------------------ MODULE CoefPart ------------------------------
(* The coefficients between the input and the output of the decompressor,  *)
(* as a part of what a photo goes through.                                 *)
CONSTANTS SAVED_COEFS, Scanned
VARIABLES f_image, f_global_state, f_call, f_i, f_o, f_shown

coefsVars == <<f_image, f_global_state, f_call, f_i, f_o, f_shown>>

Coefs == INSTANCE CoefController WITH
  Images <- Scanned,
  image <- f_image, global_state <- f_global_state, call <- f_call, i <- f_i, o <- f_o,
  shown <- f_shown

ASSUME ScannedAssumption == Coefs!ImagesAssumption

(* A pass shows the scan asked for, complete (jdcoefct.c, jdinput.c).      *)
PassShowsScan == Coefs!PassShowsScan
=============================================================================
