------------------------- MODULE MCCallbackProcessor -------------------------
(* The sets of types the programs ask for; a model can leave EventHook out.*)
EXTENDS CallbackProcessor

SingleShotRequests == (SUBSET SingleShot) \ {{}}
AllRequests == (SUBSET Types) \ {{}}
=============================================================================
