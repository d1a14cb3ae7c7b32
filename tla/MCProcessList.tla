--------------------------- MODULE MCProcessList ---------------------------
(* ProcessList for TLC; the constants need nothing beyond the cfg.          *)
EXTENDS ProcessList
=============================================================================
