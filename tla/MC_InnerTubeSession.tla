------------------------- MODULE MC_InnerTubeSession -------------------------
(* Cookies and visitor data are model values; liveness rules out symmetry.  *)
EXTENDS InnerTubeSession
=============================================================================
