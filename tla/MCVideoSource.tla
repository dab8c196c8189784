--------------------------- MODULE MCVideoSource ---------------------------
(* A small instance of VideoSource for TLC.                                *)
EXTENDS VideoSource
CONSTANTS b1, b2, b3, b4, b5
=============================================================================
