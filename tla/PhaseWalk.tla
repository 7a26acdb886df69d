------------------------------ MODULE PhaseWalk ------------------------------
(***************************************************************************)
(* What a handler of a dynamic environment promises about the phases of a  *)
(* road network, with no clock and no loop: every ring walks along the     *)
(* successors its PhaseRing declares, and the rings that move do so in     *)
(* tandem.  A pass that is abandoned half way may leave some rings one     *)
(* move behind the others, for good.                                       *)
(***************************************************************************)
EXTENDS Naturals

CONSTANTS Rings, Successors(_, _)

VARIABLES
  phase,      \* the phase each ring is in
  moves,      \* how often each ring has moved
  moving,     \* the rings that move at all
  abandoned   \* passes that were abandoned half way

vars == <<phase, moves, moving, abandoned>>

Init ==
  /\ moves = [r \in Rings |-> 0]
  /\ moving \subseteq Rings
  /\ abandoned = 0

\* One ring moves on, unless it is ahead of a ring that still has to follow.
Move(r) ==
  /\ r \in moving
  /\ \A q \in moving : moves[r] <= moves[q] + abandoned
  /\ \E p \in Successors(r, phase[r]) : phase' = [phase EXCEPT ![r] = p]
  /\ moves' = [moves EXCEPT ![r] = @ + 1]
  /\ UNCHANGED <<moving, abandoned>>

Abandon ==
  /\ abandoned' = abandoned + 1
  /\ UNCHANGED <<phase, moves, moving>>

Next == Abandon \/ \E r \in Rings : Move(r)

Spec == Init /\ [][Next]_vars
=============================================================================
