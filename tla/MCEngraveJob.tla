---------------------------- MODULE MCEngraveJob ----------------------------
(* A plan of two strokes for EngraveJob: a stroke is a moving knot and the  *)
(* two zero-time knots that clamp its end (engrave.PlanEngraving).          *)
EXTENDS EngraveJob

MCT == <<1, 0, 0, 1, 0, 0>>
MCSafeKnots == {3, 6}
=============================================================================
