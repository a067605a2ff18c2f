-------------------------- MODULE MCSessionMatch --------------------------
(* Model-checking instances of SessionMatch.  The scores are such that pairs of *)
(* them are equal, too close, ahead by a weak and by a strong margin, too low.  *)
EXTENDS SessionMatch, TLC

CONSTANTS s1, s2, s3

StagesOneTwoThree == <<1, 2, 3>>
Symmetric == Permutations({s1, s2})
=============================================================================
