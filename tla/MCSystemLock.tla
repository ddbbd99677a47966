---------------------------- MODULE MCSystemLock ----------------------------
(* SystemLock in units of 100 seconds, for TLC. *)
EXTENDS SystemLock

CONSTANTS live, batch, third

\* the live trigger's cpu-throttling, 900 seconds, beside batch runs of at
\* most oom's 500
ThrottlingCeilings ==
    [i \in Injectors |-> IF i = live THEN 9 ELSE 5]
=============================================================================
