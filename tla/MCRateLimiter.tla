--------------------------- MODULE MCRateLimiter ---------------------------
(***************************************************************************)
(* RateLimiter for TLC: limits small enough that a burst fills them.       *)
(***************************************************************************)
EXTENDS RateLimiter, TLC

CONSTANT searches

TwoLimits == (2 :> 1) @@ (3 :> 2)
LooserLimits == (4 :> 3)
TighterLimits == (4 :> 1)
ThreeLimits == {TwoLimits, LooserLimits, TighterLimits}
OneWorker == {searches}
=============================================================================
