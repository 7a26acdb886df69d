--------------------------- MODULE MCMaliputQuery ---------------------------
(* Lanes with up to three speed limits for model checking the queries. *)
EXTENDS MaliputQuery

FewLimits == UNION {[1..n -> 1..3] : n \in 0..3}
=============================================================================
