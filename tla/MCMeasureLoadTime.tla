-------------------------- MODULE MCMeasureLoadTime -------------------------
(* A clock that is set back while the program runs. *)
EXTENDS MeasureLoadTime

SetBack == {-1}
=============================================================================
