------------------------- MODULE MCRuntimeOwnership -------------------------
(* Two runtimes, the second with a jitter of one, that compete for two groups. *)
EXTENDS RuntimeOwnership, TLC

CONSTANTS p, q, g, h

TwoGroups == p :> <<g, h>> @@ q :> <<g, h>>
SecondJitters == p :> 0 @@ q :> 1
=============================================================================
