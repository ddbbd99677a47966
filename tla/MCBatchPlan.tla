--------------------------- MODULE MCBatchPlan ---------------------------
(* Two classes on two targets, with different windows.                    *)
EXTENDS BatchPlan, TLC

MCCounts == ("oom" :> 1) @@ ("memory-leak" :> 2)
MCTargetOf == ("oom" :> "catalogue") @@ ("memory-leak" :> "shipping")
MCWindow == ("oom" :> 1) @@ ("memory-leak" :> 2)
=============================================================================
