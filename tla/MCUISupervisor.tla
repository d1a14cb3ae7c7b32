--------------------------- MODULE MCUISupervisor ---------------------------
(* A small instance of UISupervisor for TLC: two places are enough for a    *)
(* move within the window.                                                  *)
EXTENDS UISupervisor, TLC
=============================================================================
