------------------ MODULE FixedPhaseIterationHandlerProofs ------------------
(***************************************************************************)
(* Proofs about the handler, for every road network, phase duration and    *)
(* clock resolution.  The inductive invariant has three parts: the types   *)
(* and the paths of the rings (Typed), the passes each ring took part in   *)
(* (Tandem), and the time the handler has accounted for (SteadyTime).      *)
(***************************************************************************)
EXTENDS FixedPhaseIterationHandler, TLAPS

USE TimerAssumption, HandlerAssumption

-----------------------------------------------------------------------------
(* Arithmetic of the truncating division. *)

LEMMA DivBounds ==
  ASSUME NEW x \in Nat, NEW k \in Nat \ {0}
  PROVE  /\ x \div k \in Nat
         /\ (x \div k) * k <= x
         /\ x < (x \div k) * k + k
  BY SMT

LEMMA DivInt ==
  ASSUME NEW x \in Int, NEW k \in Nat \ {0}
  PROVE  x \div k \in Int
  BY SMT

LEMMA MulMonotone ==
  ASSUME NEW a \in Int, NEW b \in Int, NEW k \in Nat, a <= b
  PROVE  a * k <= b * k
  BY SMT

LEMMA MulCancels ==
  ASSUME NEW a \in Int, NEW b \in Int, NEW k \in Nat \ {0}, a * k < b * k
  PROVE  a < b
  BY SMT

LEMMA MulDistributes ==
  ASSUME NEW a \in Int, NEW b \in Int, NEW k \in Int
  PROVE  /\ a * k \in Int
         /\ (a + b) * k = a * k + b * k
  BY SMT

LEMMA DivMonotone ==
  ASSUME NEW x \in Nat, NEW y \in Nat, NEW k \in Nat \ {0}, x <= y
  PROVE  x \div k <= y \div k
<1> DEFINE a == x \div k
           b == y \div k
<1>1. a \in Nat /\ b \in Nat /\ a * k <= x /\ y < b * k + k
  BY DivBounds
<1>2. (b + 1) * k = b * k + k /\ a * k \in Int /\ b * k \in Int
  BY <1>1, SMT
<1> HIDE DEF a, b
<1>3. a * k < (b + 1) * k
  BY <1>1, <1>2
<1>4. a < b + 1
  BY <1>1, <1>3, MulCancels
<1>5. a <= b
  BY <1>1, <1>4
<1> QED
  BY <1>5 DEF a, b

\* Linear steps, with the products as single numbers.
LEMMA SpanAtLeast ==
  ASSUME NEW s0 \in Int, NEW s1 \in Int, NEW s2 \in Int, NEW p \in Int,
         NEW q \in Int, NEW e \in Int, NEW k \in Int,
         s1 - s0 < p + k, p + q + k <= e, e <= s2 - s0
  PROVE  s2 - s1 > q
  BY SMT

LEMMA SpanAtMost ==
  ASSUME NEW s0 \in Int, NEW s1 \in Int, NEW s2 \in Int, NEW p \in Int,
         NEW q \in Int, NEW e \in Int,
         p <= s1 - s0, s2 - s1 >= q, s2 - s0 < e
  PROVE  p + q < e
  BY SMT

\* Elapsed() is an integer whatever the clock did.
LEMMA ElapsedInt ==
  ASSUME now \in Int, start \in Int
  PROVE  Elapsed \in Int
  BY DivInt DEF Elapsed, DurationCast

\* Elapsed() loses less than a millisecond when the clock did not go back.
LEMMA ElapsedBounds ==
  ASSUME now \in Int, start \in Int, start <= now
  PROVE  /\ Elapsed \in Nat
         /\ Elapsed * TicksPerMs <= now - start
         /\ now - start < Elapsed * TicksPerMs + TicksPerMs
<1>1. Elapsed = (now - start) \div TicksPerMs
  BY DEF Elapsed, DurationCast
<1> QED
  BY <1>1, DivBounds
-----------------------------------------------------------------------------
(* Phase rings. *)

\* What follows a phase of a ring is a phase of the ring.
LEMMA SuccessorsArePhases ==
  ASSUME NEW r \in Rings, NEW p \in Phases(r)
  PROVE  /\ Successors(r, p) \subseteq Phases(r)
         /\ NoPhase \notin Successors(r, p)
         /\ Successors(r, p) # {} => NextPhases[r][p][1] \in Successors(r, p)
<1>1. NextPhases[r][p] \in Seq(Phases(r)) /\ NoPhase \notin Phases(r)
  OBVIOUS
<1>2. DOMAIN NextPhases[r][p] = 1..Len(NextPhases[r][p])
      /\ Len(NextPhases[r][p]) \in Nat
  BY <1>1
<1>3. \A i \in DOMAIN NextPhases[r][p] : NextPhases[r][p][i] \in Phases(r)
  BY <1>1, <1>2
<1>4. ASSUME Successors(r, p) # {} PROVE 1 \in DOMAIN NextPhases[r][p]
  BY <1>2, <1>4 DEF Successors
<1> QED
  BY <1>1, <1>3, <1>4 DEF Successors
-----------------------------------------------------------------------------
(* Types and the paths of the rings. *)

\* TypeOK is not inductive alone: that SetPhase() gets a phase of the ring
\* follows from RingsOnPath.
Typed == TypeOK /\ RingsOnPath

LEMMA TypedInit == Init => Typed
  BY DEF Init, TimerInit, Typed, TypeOK, RingsOnPath

\* The only step that changes phases takes its ring one phase along its path.
LEMMA MoveOnPath ==
  ASSUME Typed, NEW r \in Rings, RingMoves(r)
  PROVE  /\ next[r] \in Successors(r, phase[r])
         /\ next[r] \in Phases(r)
         /\ next[r] # NoPhase
         /\ NextPhases[r][next[r]][1] \in Successors(r, next[r])
         /\ NextPhases[r][next[r]][1] \in Phases(r)
         /\ NextPhases[r][next[r]][1] # NoPhase
<1>1. phase[r] \in Phases(r) /\ next[r] \in Successors(r, phase[r])
  BY DEF Typed, RingsOnPath, Loaded, RingMoves
<1>2. next[r] \in Phases(r) /\ next[r] # NoPhase
  BY <1>1, SuccessorsArePhases
<1> QED
  BY <1>1, <1>2, SuccessorsArePhases DEF RingMoves

LEMMA TypedStep == Typed /\ [Next]_vars => TypeOK'
<1> SUFFICES ASSUME Typed, [Next]_vars PROVE TypeOK'
  OBVIOUS
<1> USE DEF Typed, TypeOK
<1>1. CASE Construct
  BY <1>1 DEF Construct, UpsetUnless
<1>2. CASE UpdateReturns \/ UpdatePasses
  BY <1>2 DEF UpdateReturns, UpdatePasses, timerVars, handlerVars, vars
<1>3. CASE Record
  <2>1. Elapsed \in Int
    BY ElapsedInt
  <2> QED
    BY <1>3, <2>1 DEF Record, timerVars
<1>4. ASSUME NEW r \in Rings, UpdateRing(r) PROVE TypeOK'
  <2>1. CASE RingCrashes(r)
    BY <2>1 DEF RingCrashes, timerVars
  <2>2. CASE RingThrows(r)
    BY <2>2 DEF RingThrows, timerVars
  <2>3. CASE RingStays(r)
    BY <2>3 DEF RingStays, Visited, timerVars
  <2>4. CASE RingMoves(r)
    <3>1. /\ next[r] \in OptionalPhase
          /\ NextPhases[r][next[r]][1] \in OptionalPhase
      BY <2>4, MoveOnPath DEF OptionalPhase
    <3> QED
      BY <2>4, <3>1 DEF RingMoves, Visited, timerVars
  <2> QED
    BY <1>4, <2>1, <2>2, <2>3, <2>4 DEF UpdateRing
<1>5. CASE ResetTimer
  BY <1>5 DEF ResetTimer, Reset, UpsetUnless, handlerVars
<1>6. CASE ClockMoves
  BY <1>6 DEF ClockMoves, Advance, UpsetUnless, handlerVars
<1>7. CASE UNCHANGED vars
  BY <1>7 DEF vars, timerVars, handlerVars
<1> QED
  BY <1>1, <1>2, <1>3, <1>4, <1>5, <1>6, <1>7 DEF Next, UpdateStep

\* A step leaves the phases alone or moves one ring.
LEMMA PhasesChangeByMoves ==
  ASSUME [Next]_vars
  PROVE  \/ UNCHANGED <<phase, next, moves>>
         \/ \E r \in Rings : RingMoves(r)
  BY DEF Next, vars, handlerVars, timerVars, Construct, UpdateStep,
         UpdateReturns, UpdatePasses, Record, UpdateRing, RingCrashes,
         RingThrows, RingStays, ResetTimer, ClockMoves

LEMMA RingsOnPathStep == Typed /\ [Next]_vars => RingsOnPath'
<1> SUFFICES ASSUME Typed, [Next]_vars PROVE RingsOnPath'
  OBVIOUS
<1>1. CASE UNCHANGED <<phase, next, moves>>
  BY <1>1 DEF Typed, RingsOnPath, Loaded
<1>2. ASSUME NEW r \in Rings, RingMoves(r) PROVE RingsOnPath'
  <2>1. /\ phase' = [phase EXCEPT ![r] = next[r]]
        /\ next' = [next EXCEPT ![r] = NextPhases[r][next[r]][1]]
    BY <1>2 DEF RingMoves
  <2>2. phase \in [Rings -> OptionalPhase] /\ next \in [Rings -> OptionalPhase]
    BY DEF Typed, TypeOK
  <2>3. Loaded(r)'
    BY <1>2, <2>1, <2>2, MoveOnPath DEF Loaded
  <2>4. ASSUME NEW q \in Rings \ {r} PROVE Loaded(q)'
    <3>1. phase'[q] = phase[q] /\ next'[q] = next[q]
      BY <2>1, <2>2
    <3> QED
      BY <3>1 DEF Typed, RingsOnPath, Loaded
  <2> QED
    BY <2>3, <2>4 DEF RingsOnPath
<1> QED
  BY <1>1, <1>2, PhasesChangeByMoves

LEMMA TypesAndPaths == Spec => []Typed
<1>1. Typed /\ [Next]_vars => Typed'
  BY TypedStep, RingsOnPathStep DEF Typed
<1> QED
  BY <1>1, TypedInit, PTL DEF Spec

(***************************************************************************)
(* The variables keep their types in every behaviour of the handler.       *)
(***************************************************************************)
THEOREM TypeCorrect == Spec => []TypeOK
  BY TypesAndPaths, PTL DEF Typed

(***************************************************************************)
(* Every ring stays on the path its PhaseRing declares.                    *)
(***************************************************************************)
THEOREM RingsStayOnPath == Spec => []RingsOnPath
  BY TypesAndPaths, PTL DEF Typed
-----------------------------------------------------------------------------
(* What can go wrong. *)

LEMMA CrashStep ==
  Typed /\ CrashesOnlyInBadNetworks /\ [Next]_vars => CrashesOnlyInBadNetworks'
<1> SUFFICES ASSUME Typed, CrashesOnlyInBadNetworks, [Next]_vars, pc' = "crashed"
             PROVE  ~manual' \/ \E r \in Moving' : \E p \in Phases(r) : Successors(r, p) = {}
  BY DEF CrashesOnlyInBadNetworks
<1>1. CASE UNCHANGED vars
  BY <1>1 DEF vars, handlerVars, CrashesOnlyInBadNetworks, Moving
<1>2. CASE Construct \/ ResetTimer \/ ClockMoves
  BY <1>2 DEF Construct, ResetTimer, ClockMoves, handlerVars
<1>3. CASE UpdateStep
  <2>1. CASE UpdateReturns \/ UpdatePasses \/ Record
    BY <2>1 DEF UpdateReturns, UpdatePasses, Record, vars, handlerVars
  <2>2. ASSUME NEW r \in Rings, UpdateRing(r)
        PROVE  ~manual' \/ \E q \in Moving' : \E p \in Phases(q) : Successors(q, p) = {}
    <3>1. RingCrashes(r)
      BY <2>2 DEF UpdateRing, RingThrows, RingStays, RingMoves, Visited
    <3>2. manual' = manual /\ next' = next
      BY <3>1 DEF RingCrashes
    <3>3. CASE ~manual
      BY <3>2, <3>3
    <3>4. CASE next[r] # NoPhase /\ Successors(r, next[r]) = {}
      <4>1. phase[r] \in Phases(r) /\ next[r] \in Successors(r, phase[r])
        BY <3>4 DEF Typed, RingsOnPath, Loaded
      <4>2. next[r] \in Phases(r)
        BY <4>1, SuccessorsArePhases
      <4>3. r \in Moving'
        BY <3>2, <3>4 DEF Moving
      <4> QED
        BY <3>4, <4>2, <4>3
    <3> QED
      BY <3>1, <3>3, <3>4 DEF RingCrashes
  <2> QED
    BY <1>3, <2>1, <2>2 DEF UpdateStep
<1> QED
  BY <1>1, <1>2, <1>3 DEF Next

(***************************************************************************)
(* Only a foreign provider or a dead end of a ring that moves crashes      *)
(* Update().                                                               *)
(***************************************************************************)
THEOREM OnlyBadNetworksCrash == Spec => []CrashesOnlyInBadNetworks
<1>1. Init => CrashesOnlyInBadNetworks
  BY DEF Init, CrashesOnlyInBadNetworks
<1> QED
  BY <1>1, CrashStep, TypesAndPaths, PTL DEF Spec, Typed
-----------------------------------------------------------------------------
(* The rings change in tandem. *)

\* Between two calls, and when a pass is recorded, no ring is pending.
LEMMA TandemStep == Typed /\ Tandem /\ [Next]_vars => Tandem'
<1> SUFFICES ASSUME Typed, Tandem, [Next]_vars PROVE Tandem'
  OBVIOUS
<1> USE DEF Typed, TypeOK, Tandem, Moving, Pending
<1>1. CASE UNCHANGED <<todo, next, moves, passes, throws>>
  BY <1>1
<1>2. CASE Record
  <2>1. todo = {} /\ todo' = Rings /\ passes' = passes + 1
        /\ UNCHANGED <<next, moves, throws>>
    BY <1>2 DEF Record
  <2> QED
    BY <2>1
<1>3. ASSUME NEW r \in Rings, RingThrows(r) PROVE Tandem'
  <2>1. todo' = {} /\ throws' = throws + 1 /\ UNCHANGED <<next, moves, passes>>
    BY <1>3 DEF RingThrows
  <2> QED
    BY <2>1
<1>4. ASSUME NEW r \in Rings, RingStays(r) PROVE Tandem'
  <2>1. r \notin Moving /\ todo' = todo \ {r}
        /\ UNCHANGED <<next, moves, passes, throws>>
    BY <1>4 DEF RingStays, Visited
  <2> QED
    BY <2>1
<1>5. ASSUME NEW r \in Rings, RingMoves(r) PROVE Tandem'
  <2>1. r \in Moving /\ r \in todo /\ todo' = todo \ {r}
        /\ UNCHANGED <<passes, throws>>
        /\ next' = [next EXCEPT ![r] = NextPhases[r][next[r]][1]]
        /\ moves' = [moves EXCEPT ![r] = moves[r] + 1]
    BY <1>5 DEF RingMoves, Visited
  <2>2. next'[r] # NoPhase /\ moves'[r] = moves[r] + 1
    BY <1>5, <2>1, MoveOnPath
  <2>3. \A q \in Rings \ {r} : next'[q] = next[q] /\ moves'[q] = moves[q]
    BY <2>1
  <2> QED
    BY <2>1, <2>2, <2>3
<1> QED
  BY <1>1, <1>2, <1>3, <1>4, <1>5
     DEF Next, vars, handlerVars, Construct, UpdateStep, UpdateReturns,
         UpdatePasses, UpdateRing, RingCrashes, ResetTimer, ClockMoves

(***************************************************************************)
(* In every behaviour, on any clock, the rings that move do so in tandem,  *)
(* up to the passes that an exception cut short.                           *)
(***************************************************************************)
THEOREM RingsMoveInTandem == Spec => []Tandem
<1>1. Init => Tandem
  BY DEF Init, Tandem, Moving, Pending
<1>2. Typed /\ Tandem /\ [Next]_vars => (Typed /\ Tandem)'
  BY TypedStep, RingsOnPathStep, TandemStep DEF Typed
<1> QED
  BY <1>1, <1>2, TypedInit, PTL DEF Spec
-----------------------------------------------------------------------------
(* The handler implements the abstract walk. *)

LEMMA WalkInit == Init => Walk!Init
  BY DEF Init, Walk!Init, Moving

LEMMA WalkStep == Typed /\ Tandem /\ [Next]_vars => [Walk!Next]_(Walk!vars)
<1> SUFFICES ASSUME Typed, Tandem, [Next]_vars PROVE [Walk!Next]_(Walk!vars)
  OBVIOUS
<1> USE DEF Walk!Next, Walk!vars, Moving
<1>1. CASE UNCHANGED <<phase, next, moves, throws>>
  BY <1>1
<1>2. ASSUME NEW r \in Rings, RingThrows(r) PROVE Walk!Next
  BY <1>2 DEF RingThrows, Walk!Abandon
<1>3. ASSUME NEW r \in Rings, RingMoves(r) PROVE Walk!Next
  <2>1. r \in Moving /\ r \in todo /\ UNCHANGED throws
        /\ phase' = [phase EXCEPT ![r] = next[r]]
        /\ next' = [next EXCEPT ![r] = NextPhases[r][next[r]][1]]
        /\ moves' = [moves EXCEPT ![r] = moves[r] + 1]
    BY <1>3 DEF RingMoves
  <2>2. next[r] \in Successors(r, phase[r])
    BY <1>3, MoveOnPath
  <2>3. UNCHANGED Moving
    <3>1. next'[r] # NoPhase /\ next[r] # NoPhase
      BY <1>3, <2>1, MoveOnPath DEF Typed, TypeOK
    <3>2. \A q \in Rings \ {r} : next'[q] = next[q]
      BY <2>1 DEF Typed, TypeOK
    <3> QED
      BY <3>1, <3>2
  <2>4. \A q \in Moving : moves[r] <= moves[q] + throws
    BY <2>1 DEF Typed, TypeOK, Tandem, Pending
  <2> QED
    BY <2>1, <2>2, <2>3, <2>4 DEF Walk!Move
<1> QED
  BY <1>1, <1>2, <1>3
     DEF Next, vars, handlerVars, timerVars, Construct, UpdateStep,
         UpdateReturns, UpdatePasses, Record, UpdateRing, RingCrashes,
         RingStays, ResetTimer, ClockMoves

(***************************************************************************)
(* Every behaviour of the handler is one of PhaseWalk.                     *)
(***************************************************************************)
THEOREM HandlerImplementsWalk == Spec => ImplementsPhaseWalk
<1>1. Init => Tandem
  BY DEF Init, Tandem, Moving, Pending
<1>2. Typed /\ Tandem /\ [Next]_vars => (Typed /\ Tandem)'
  BY TypedStep, RingsOnPathStep, TandemStep DEF Typed
<1> QED
  BY <1>1, <1>2, TypedInit, WalkInit, WalkStep, PTL
     DEF Spec, ImplementsPhaseWalk, Walk!Spec
-----------------------------------------------------------------------------
(* What the abstract walk promises, in every implementation of it. *)

WalkTogether ==
  \A q, r \in Moving : moves[q] <= moves[r] + throws + 1

WalkTyped == throws \in Nat /\ moves \in [Rings -> Nat] /\ Moving \subseteq Rings

LEMMA WalkStaysTogether ==
  WalkTyped /\ WalkTogether /\ [Walk!Next]_(Walk!vars) => (WalkTyped /\ WalkTogether)'
<1> SUFFICES ASSUME WalkTyped, WalkTogether, [Walk!Next]_(Walk!vars)
             PROVE  (WalkTyped /\ WalkTogether)'
  OBVIOUS
<1> USE DEF WalkTyped, WalkTogether
<1>1. CASE UNCHANGED Walk!vars
  BY <1>1 DEF Walk!vars
<1>2. CASE Walk!Abandon
  BY <1>2 DEF Walk!Abandon
<1>3. ASSUME NEW r \in Rings, Walk!Move(r) PROVE (WalkTyped /\ WalkTogether)'
  <2>1. /\ moves' = [moves EXCEPT ![r] = moves[r] + 1] /\ r \in Moving
        /\ \A q \in Moving : moves[r] <= moves[q] + throws
        /\ Moving' = Moving /\ throws' = throws
    BY <1>3 DEF Walk!Move
  <2>2. WalkTyped'
    BY <2>1
  <2>3. ASSUME NEW p \in Moving, NEW q \in Moving
        PROVE  moves'[p] <= moves'[q] + throws + 1
    <3>1. moves[p] <= moves[q] + throws + 1 /\ moves[r] <= moves[q] + throws
      BY <2>1
    <3>2. moves'[p] = (IF p = r THEN moves[p] + 1 ELSE moves[p])
          /\ moves'[q] = (IF q = r THEN moves[q] + 1 ELSE moves[q])
      BY <2>1
    <3> QED
      BY <3>1, <3>2
  <2> QED
    BY <2>1, <2>2, <2>3
<1> QED
  BY <1>1, <1>2, <1>3 DEF Walk!Next

(***************************************************************************)
(* PhaseWalk keeps the rings together: whoever implements it, no ring that *)
(* moves is ever further ahead of another than one move and one for each   *)
(* pass that was abandoned.                                                *)
(***************************************************************************)
THEOREM WalkKeepsTogether == Walk!Spec => []WalkTogether
<1>1. Walk!Init => WalkTyped /\ WalkTogether
  BY DEF Walk!Init, WalkTyped, WalkTogether
<1> QED
  BY <1>1, WalkStaysTogether, PTL DEF Walk!Spec
-----------------------------------------------------------------------------
(* Time, on a steady timer. *)

\* last_elapsed_time_ is what the timer read when the current phases took
\* effect, and each pass so far accounts for a phase duration of it.
SteadyTime ==
  upsets = 0 =>
    /\ start <= now
    /\ last \in Nat
    /\ passes * PhaseDuration <= last
    /\ pc = "absent" => last = 0
    /\ pc # "absent" =>
         /\ start <= since /\ since <= now
         /\ last * TicksPerMs <= since - start
         /\ since - start < last * TicksPerMs + TicksPerMs
    /\ pc = "record" => Elapsed - last >= PhaseDuration

LEMMA SteadyTimeInit == Init => SteadyTime
  BY DEF Init, TimerInit, SteadyTime

LEMMA SteadyTimeStep == Typed /\ SteadyTime /\ [Next]_vars => SteadyTime'
<1> SUFFICES ASSUME Typed, SteadyTime, [Next]_vars, upsets' = 0
             PROVE  SteadyTime'
  BY DEF SteadyTime
<1>1. upsets = 0
  BY DEF Typed, TypeOK, Next, vars, timerVars, Construct, UpsetUnless,
         UpdateStep, UpdateReturns, UpdatePasses, Record, UpdateRing,
         RingCrashes, RingThrows, RingStays, RingMoves, ResetTimer, Reset,
         ClockMoves, Advance
<1>2. /\ now \in Nat /\ start \in Nat /\ since \in Nat /\ passes \in Nat
      /\ TicksPerMs \in Nat \ {0} /\ PhaseDuration \in Nat \ {0}
  BY DEF Typed, TypeOK
<1>3. start <= now
  BY <1>1 DEF SteadyTime
<1>4. /\ Elapsed \in Nat
      /\ Elapsed * TicksPerMs <= now - start
      /\ now - start < Elapsed * TicksPerMs + TicksPerMs
  BY <1>2, <1>3, ElapsedBounds
<1>5. CASE Construct
  <2>1. /\ pc' = "idle" /\ last' = 0 /\ since' = now
        /\ UNCHANGED <<now, start, passes>> /\ pc = "absent"
    BY <1>5 DEF Construct
  <2>2. Elapsed = 0
    BY <1>1, <1>5 DEF Construct, UpsetUnless
  <2>3. now - start < TicksPerMs
    BY <1>2, <1>4, <2>2
  <2>4. passes' * PhaseDuration <= last'
    BY <1>1, <2>1 DEF SteadyTime
  <2>5. last' * TicksPerMs = 0
    BY <1>2, <2>1
  <2> QED
    BY <1>2, <1>3, <2>1, <2>3, <2>4, <2>5 DEF SteadyTime
<1>6. CASE UpdateReturns \/ UNCHANGED vars
  BY <1>1, <1>6
     DEF SteadyTime, UpdateReturns, vars, timerVars, handlerVars, Elapsed
<1>7. CASE UpdatePasses
  <2>1. /\ pc = "idle" /\ pc' = "record" /\ Elapsed' = Elapsed
        /\ UNCHANGED <<now, start, last, passes, since>>
    BY <1>7 DEF UpdatePasses, timerVars, Elapsed
  <2>2. last \in Nat
    BY <1>1 DEF SteadyTime
  <2>3. Elapsed - last >= PhaseDuration
    BY <1>2, <1>4, <1>7, <2>2 DEF UpdatePasses, MayBeGreater
  <2> QED
    BY <1>1, <2>1, <2>2, <2>3 DEF SteadyTime
<1>8. CASE Record
  <2>1. /\ last' = Elapsed /\ since' = now /\ passes' = passes + 1
        /\ UNCHANGED <<now, start>> /\ pc = "record"
        /\ pc' \in {"idle", "loop"}
    BY <1>8 DEF Record, timerVars
  <2>2. /\ last \in Nat /\ passes * PhaseDuration <= last
        /\ Elapsed - last >= PhaseDuration
    BY <1>1, <2>1 DEF SteadyTime
  <2>3. /\ passes * PhaseDuration \in Int
        /\ passes' * PhaseDuration = passes * PhaseDuration + PhaseDuration
    BY <1>2, <2>1, MulDistributes
  <2>4. passes' * PhaseDuration <= last'
    BY <1>2, <1>4, <2>1, <2>2, <2>3
  <2> QED
    BY <1>2, <1>3, <1>4, <2>1, <2>4 DEF SteadyTime
<1>9. ASSUME NEW r \in Rings, UpdateRing(r) PROVE SteadyTime'
  <2>1. UNCHANGED <<now, start, last, passes, since>>
        /\ pc = "loop" /\ pc' \in {"idle", "loop", "crashed"}
    BY <1>9 DEF UpdateRing, RingCrashes, RingThrows, RingStays, RingMoves,
                Visited, timerVars
  <2> QED
    BY <1>1, <2>1 DEF SteadyTime
<1>10. CASE ResetTimer
  <2>1. pc = "absent" /\ start' = now
        /\ UNCHANGED <<now, pc, last, passes, since>>
    BY <1>1, <1>10 DEF ResetTimer, Reset, UpsetUnless, handlerVars
  <2> QED
    BY <1>1, <1>2, <2>1 DEF SteadyTime
<1>11. CASE ClockMoves
  <2>1. PICK d \in ClockSteps : Advance(d)
    BY <1>11 DEF ClockMoves
  <2>2. /\ d \in Int /\ d >= 0 /\ now' = now + d
        /\ UNCHANGED <<start, pc, last, passes, since>>
    BY <1>1, <1>2, <1>11, <2>1 DEF Advance, UpsetUnless, ClockMoves, handlerVars
  <2>3. Elapsed' \in Nat /\ Elapsed <= Elapsed'
    <3> DEFINE x == now - start
               y == (now + d) - start
    <3>1. x \in Nat /\ y \in Nat /\ x <= y
      BY <1>2, <1>3, <2>2
    <3>2. Elapsed = x \div TicksPerMs
      BY <3>1 DEF Elapsed, DurationCast
    <3>3. Elapsed' = y \div TicksPerMs
      <4>1. now' = now + d /\ start' = start
        BY <2>2
      <4>2. now' - start' = y
        BY <4>1, Zenon
      <4>3. Elapsed' = IF y >= 0 THEN y \div TicksPerMs
                       ELSE -((-y) \div TicksPerMs)
        BY <4>2 DEF Elapsed, DurationCast
      <4> QED
        BY <3>1, <4>3
    <3> HIDE DEF x, y
    <3> QED
      BY <1>2, <3>1, <3>2, <3>3, DivMonotone, DivBounds
  <2>4. pc' = "record" => Elapsed' - last' >= PhaseDuration
    <3>1. pc = "record" => last \in Nat /\ Elapsed - last >= PhaseDuration
      BY <1>1 DEF SteadyTime
    <3> QED
      BY <1>2, <1>4, <2>2, <2>3, <3>1
  <2>5. (since <= now => since <= now') /\ start <= now'
    BY <1>2, <1>3, <2>2
  <2> QED
    BY <1>1, <2>2, <2>4, <2>5 DEF SteadyTime
<1> QED
  BY <1>5, <1>6, <1>7, <1>8, <1>9, <1>10, <1>11 DEF Next, UpdateStep

LEMMA SteadyTimeHolds == Spec => [](Typed /\ SteadyTime)
<1>1. Typed /\ SteadyTime /\ [Next]_vars => (Typed /\ SteadyTime)'
  BY TypedStep, RingsOnPathStep, SteadyTimeStep DEF Typed
<1> QED
  BY <1>1, TypedInit, SteadyTimeInit, PTL DEF Spec

LEMMA SteadyPassRate == Typed /\ SteadyTime => PassRate
<1>1. ASSUME Typed, SteadyTime, upsets = 0
      PROVE  passes * PhaseDuration <= last /\ last <= Elapsed
  <2>1. /\ Elapsed \in Nat
        /\ now - start < Elapsed * TicksPerMs + TicksPerMs
    BY <1>1, ElapsedBounds DEF SteadyTime, Typed, TypeOK
  <2>2. last \in Nat /\ passes * PhaseDuration <= last
    BY <1>1 DEF SteadyTime
  <2>3. CASE pc = "absent"
    BY <1>1, <2>1, <2>2, <2>3 DEF SteadyTime
  <2>4. CASE pc # "absent"
    <3>1. last * TicksPerMs <= since - start /\ since <= now
      BY <1>1, <2>4 DEF SteadyTime
    <3>2. /\ last * TicksPerMs \in Int /\ Elapsed * TicksPerMs \in Int
          /\ (Elapsed + 1) * TicksPerMs = Elapsed * TicksPerMs + TicksPerMs
      BY <2>1, <2>2, MulDistributes
    <3>3. last * TicksPerMs < (Elapsed + 1) * TicksPerMs
      BY <1>1, <2>1, <3>1, <3>2 DEF Typed, TypeOK
    <3>4. last < Elapsed + 1
      BY <2>1, <2>2, <3>3, MulCancels
    <3> QED
      BY <2>1, <2>2, <3>4
  <2> QED
    BY <2>3, <2>4
<1> QED
  BY <1>1 DEF PassRate

(***************************************************************************)
(* On a steady timer the handler never outpaces the clock.                 *)
(***************************************************************************)
THEOREM NeverOutpacesClock == Spec => []PassRate
BY SteadyPassRate, SteadyTimeHolds, PTL

LEMMA SteadyPhasesLast == Typed /\ SteadyTime => PhasesLast
<1>1. ASSUME Typed, SteadyTime, upsets = 0, pc = "record"
      PROVE  now - since > (PhaseDuration - 1) * TicksPerMs
  <2>1. /\ Elapsed \in Nat /\ last \in Nat
        /\ Elapsed * TicksPerMs <= now - start
    BY <1>1, ElapsedBounds DEF SteadyTime, Typed, TypeOK
  <2>2. /\ since - start < last * TicksPerMs + TicksPerMs
        /\ Elapsed >= last + PhaseDuration
    BY <1>1, <2>1 DEF SteadyTime
  <2>3. (last + PhaseDuration) * TicksPerMs <= Elapsed * TicksPerMs
    BY <2>1, <2>2, MulMonotone
  <2>4. /\ last * TicksPerMs \in Int
        /\ (PhaseDuration - 1) * TicksPerMs \in Int
        /\ Elapsed * TicksPerMs \in Int
        /\ (last + PhaseDuration) * TicksPerMs
             = last * TicksPerMs + (PhaseDuration - 1) * TicksPerMs + TicksPerMs
    <3>1. (last + PhaseDuration) * TicksPerMs
            = last * TicksPerMs + PhaseDuration * TicksPerMs
      BY <2>1, MulDistributes
    <3>2. (PhaseDuration - 1 + 1) * TicksPerMs
            = (PhaseDuration - 1) * TicksPerMs + TicksPerMs
      BY MulDistributes
    <3>3. PhaseDuration - 1 + 1 = PhaseDuration
      OBVIOUS
    <3>4. /\ last * TicksPerMs \in Int /\ Elapsed * TicksPerMs \in Int
          /\ (PhaseDuration - 1) * TicksPerMs \in Int
      BY <2>1, MulDistributes
    <3> QED
      BY <3>1, <3>2, <3>3, <3>4
  <2>5. now \in Int /\ start \in Int /\ since \in Int
    BY <1>1 DEF Typed, TypeOK
  <2> DEFINE p == last * TicksPerMs
             q == (PhaseDuration - 1) * TicksPerMs
             e == Elapsed * TicksPerMs
  <2>6. since - start < p + TicksPerMs /\ e <= now - start
    BY <2>1, <2>2
  <2>7. p \in Int /\ q \in Int /\ e \in Int /\ p + q + TicksPerMs <= e
    BY <2>3, <2>4
  <2>8. TicksPerMs \in Int
    OBVIOUS
  <2> HIDE DEF p, q, e
  <2>9. now - since > q
    BY <2>5, <2>6, <2>7, <2>8, SpanAtLeast
  <2> QED
    BY <2>9 DEF q
<1> QED
  BY <1>1 DEF PhasesLast

(***************************************************************************)
(* On a steady timer a pass begins only on phases that have lasted.        *)
(***************************************************************************)
THEOREM PhasesLastLongEnough == Spec => []PhasesLast
BY SteadyPhasesLast, SteadyTimeHolds, PTL

LEMMA OverdueIsSeen ==
  ASSUME Typed, SteadyTime, upsets = 0, pc = "idle", Overdue
  PROVE  Elapsed - last > PhaseDuration
<1> DEFINE t == (last + (PhaseDuration + 1)) * TicksPerMs
<1>1. /\ Elapsed \in Nat /\ last \in Nat
      /\ now - start < Elapsed * TicksPerMs + TicksPerMs
      /\ last * TicksPerMs <= since - start
  BY ElapsedBounds DEF SteadyTime, Typed, TypeOK
<1>2. now - since >= (PhaseDuration + 1) * TicksPerMs
  BY DEF Overdue
<1>3. t = last * TicksPerMs + (PhaseDuration + 1) * TicksPerMs
  BY <1>1, MulDistributes
<1>4. /\ (Elapsed + 1) * TicksPerMs = Elapsed * TicksPerMs + TicksPerMs
      /\ Elapsed * TicksPerMs \in Int /\ last * TicksPerMs \in Int
      /\ (PhaseDuration + 1) * TicksPerMs \in Int
  BY <1>1, MulDistributes
<1>5. t < (Elapsed + 1) * TicksPerMs
  <2> DEFINE p == last * TicksPerMs
             q == (PhaseDuration + 1) * TicksPerMs
             e == (Elapsed + 1) * TicksPerMs
  <2>1. now \in Int /\ start \in Int /\ since \in Int
    BY DEF Typed, TypeOK
  <2>2. p \in Int /\ q \in Int /\ e \in Int
    BY <1>4
  <2>3. p <= since - start /\ now - since >= q /\ now - start < e /\ t = p + q
    BY <1>1, <1>2, <1>3, <1>4
  <2> HIDE DEF p, q, e, t
  <2>4. p + q < e
    BY <2>1, <2>2, <2>3, SpanAtMost
  <2> QED
    BY <2>3, <2>4 DEF e
<1>6. last + (PhaseDuration + 1) < Elapsed + 1
  BY <1>1, <1>5, MulCancels
<1> QED
  BY <1>1, <1>6

LEMMA OverdueIsNotLeft == Typed /\ SteadyTime => OverdueUpdatePasses
<1> SUFFICES ASSUME Typed, SteadyTime, upsets = 0, pc = "idle", Overdue
             PROVE  ~MayNotBeGreater
  BY DEF OverdueUpdatePasses
<1>1. Elapsed - last > PhaseDuration
  BY OverdueIsSeen
<1>2. Elapsed \in Int /\ last \in Int
  BY ElapsedInt DEF Typed, TypeOK
<1> QED
  BY <1>1, <1>2 DEF MayNotBeGreater

(***************************************************************************)
(* On a steady timer a call of Update() never overlooks overdue phases.    *)
(***************************************************************************)
THEOREM OverduePhasesPass == Spec => []OverdueUpdatePasses
BY OverdueIsNotLeft, SteadyTimeHolds, PTL
=============================================================================
