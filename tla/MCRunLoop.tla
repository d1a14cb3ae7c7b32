----------------------------- MODULE MCRunLoop -----------------------------
(* Small instances of RunLoop for TLC: two sleepers of the highest priority, *)
(* which both use the profiler, and below them two processes that compute in *)
(* a loop; LowOp is what the loops do.                                      *)
EXTENDS RunLoop, TLC

CONSTANTS low, mid, high, peer, LowOp

MCPriority == low :> 1 @@ mid :> 2 @@ high :> 3 @@ peer :> 3

MCCode ==
    low :> <<"plain", LowOp, "loop", "ret">>
 @@ mid :> <<LowOp, "loop", "ret">>
 @@ high :> <<"plain", "loop", "sleep", "stop", "sleep", "ret">>
 @@ peer :> <<"send", "start", "sleep", "start", "ret">>
=============================================================================
