----------------------------------- MODULE MCLog -----------------------------------
(* Bounds for LogFile: three generations of two records each beside the log, and  *)
(* enough records to fill them all and to lose the oldest.                         *)
EXTENDS LogFile
=============================================================================
