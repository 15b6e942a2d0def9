---------------------------- MODULE MCRatioFrame ----------------------------
(* Values of the constants of RatioFrame a configuration cannot write.     *)
EXTENDS RatioFrameEditor

CONSTANT copy

SaveInPlace == [f \in UserFiles |-> f]
SaveToCopy == [f \in UserFiles |-> copy]
=============================================================================
