--------------------------- MODULE NetworkRequest ---------------------------
(***************************************************************************)
(* What LoadRoadNetwork() promises, without a word about how it gets there *)
(* (abstract specification). A request says which paths may serve each of  *)
(* its keys. The answer is a road network made, in one step, from one such *)
(* path for every key, each of which was there at some time; or there is a *)
(* failure and no road network. A network that is there can be given back, *)
(* and the same request be made again.                                     *)
(***************************************************************************)
VARIABLES
  request,   \* the paths that may serve each key
  seen,      \* the paths that existed at some time
  outcome,   \* "none" while there is no answer, "loaded" or "failed"
  network    \* the path each key was served from, when it is loaded

vars == <<request, seen, outcome, network>>

Init == outcome = "none" /\ network = <<>>

Answer ==
  /\ outcome = "none" /\ outcome' = "loaded"
  /\ network' \in [DOMAIN request -> seen]
  /\ \A key \in DOMAIN request : network'[key] \in request[key]
  /\ UNCHANGED <<request, seen>>

Fail ==
  /\ outcome = "none" /\ outcome' = "failed"
  /\ UNCHANGED <<request, seen, network>>

Again ==
  /\ outcome = "loaded" /\ outcome' = "none" /\ network' = <<>>
  /\ UNCHANGED <<request, seen>>

Appear == seen \subseteq seen' /\ UNCHANGED <<request, outcome, network>>

Next == Answer \/ Fail \/ Again \/ Appear

Spec == Init /\ [][Next]_vars
=============================================================================
