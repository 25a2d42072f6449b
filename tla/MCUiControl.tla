---------------------------- MODULE MCUiControl ----------------------------
(* TLC instances of UiControl: the values of the constants are in the cfg files. *)
EXTENDS UiControl
=============================================================================
