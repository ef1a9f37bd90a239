--------------------------- MODULE MCStreamScanner ---------------------------
(* Instances of StreamScanner for TLC.                                     *)
EXTENDS StreamScanner
=============================================================================
