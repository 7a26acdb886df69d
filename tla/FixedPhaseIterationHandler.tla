--------------------- MODULE FixedPhaseIterationHandler ---------------------
(***************************************************************************)
(* FixedPhaseIterationHandler (src/integration/                            *)
(* fixed_phase_iteration_handler.{h,cc}): the handler of a dynamic         *)
(* environment that moves every phase ring of the road network to its next *)
(* phase whenever the timer says that the current phases lasted long       *)
(* enough.  It is polled: nothing happens until somebody calls Update().   *)
(*                                                                         *)
(* The phases live in the road network's ManualPhaseProvider, which only   *)
(* the handler writes.  Update() reads the clock twice and then visits the *)
(* rings one by one; the clock may move between any two of those steps.    *)
(***************************************************************************)
EXTENDS ChronoTimer, Sequences, FiniteSets

CONSTANTS
  Rings,           \* the ids PhaseRingBook::GetPhaseRings() returns
  NextPhases,      \* ring -> phase -> the sequence PhaseRing::GetNextPhases()
  PhaseDuration,   \* phase_duration_, in milliseconds
  NoPhase          \* std::nullopt, where a phase could be

Phases(r) == DOMAIN NextPhases[r]

Successors(r, p) ==
  {NextPhases[r][p][i] : i \in DOMAIN NextPhases[r][p]}

\* std::optional<Phase::Id>
OptionalPhase == UNION {Phases(r) : r \in Rings} \cup {NoPhase}

\* The constructor throws unless phase_duration is positive; PhaseRing checks
\* that what follows a phase is a phase of the ring.
ASSUME HandlerAssumption ==
  /\ PhaseDuration \in Nat \ {0}
  /\ \A r \in Rings :
       /\ NoPhase \notin Phases(r)
       /\ \A p \in Phases(r) : NextPhases[r][p] \in Seq(Phases(r))

\* GetPhaseRings() returns a vector.
ASSUME RingsAssumption == IsFiniteSet(Rings)

VARIABLES
  pc,       \* "absent" before construction; "idle", or where Update() is
  last,     \* last_elapsed_time_, in milliseconds
  manual,   \* is the road network's phase provider a ManualPhaseProvider?
  todo,     \* the rings the loop of Update() has not visited yet
  phase,    \* PhaseProvider::GetPhase(r)->state, NoPhase for std::nullopt
  next,     \* PhaseProvider::GetPhase(r)->next->state, NoPhase for nullopt
  moves,    \* history: how often each ring moved
  passes,   \* history: how often Update() went beyond its early return
  throws,   \* history: how many of those passes an exception cut short
  since     \* history: the tick when the current phases took effect

handlerVars == <<pc, last, manual, todo, phase, next, moves, passes, throws, since>>
vars == <<timerVars, handlerVars>>

\* A ring is loaded without a state, or in a phase of its own with one of the
\* phases that may follow it, if there is one, as its next.
Loaded(r) ==
  \/ phase[r] = NoPhase /\ next[r] = NoPhase
  \/ /\ phase[r] \in Phases(r)
     /\ next[r] \in IF Successors(r, phase[r]) = {}
                    THEN {NoPhase} ELSE Successors(r, phase[r])

Init ==
  /\ TimerInit
  /\ pc = "absent" /\ last = 0 /\ todo = {} /\ since = 0
  /\ manual \in BOOLEAN
  /\ phase \in [Rings -> OptionalPhase]
  /\ next \in [Rings -> OptionalPhase]
  /\ \A r \in Rings : Loaded(r)
  /\ moves = [r \in Rings |-> 0] /\ passes = 0 /\ throws = 0
-----------------------------------------------------------------------------
\* CreateDynamicEnvironmentHandler(): last_elapsed_time_ is 0 whatever the
\* timer reads; on a timer that runs already the two disagree, an upset.
Construct ==
  /\ pc = "absent"
  /\ pc' = "idle" /\ last' = 0 /\ since' = now
  /\ UpsetUnless(Elapsed = 0)
  /\ UNCHANGED <<now, start, manual, todo, phase, next, moves, passes, throws>>

\* Faulty variant: the time of the last pass is not subtracted.
NothingSubtracted == Elapsed > PhaseDuration

\* Elapsed() - last_elapsed_time_ > phase_duration_ on doubles: the rounding
\* of the subtraction decides when the two are equal, unless it subtracts 0.
MayBeGreater ==
  \/ Elapsed - last > PhaseDuration
  \/ Elapsed - last = PhaseDuration /\ last # 0

MayNotBeGreater == Elapsed - last <= PhaseDuration

\* Update(), the early return.
UpdateReturns ==
  /\ pc = "idle" /\ MayNotBeGreater
  /\ UNCHANGED vars

\* Update(), the condition holds.
UpdatePasses ==
  /\ pc = "idle" /\ MayBeGreater
  /\ pc' = "record"
  /\ UNCHANGED <<timerVars, last, manual, todo, phase, next, moves, passes, throws, since>>

\* Faulty variant: the time of the pass is not remembered.
RecordForgets ==
  /\ pc = "record"
  /\ since' = now /\ todo' = Rings
  /\ pc' = IF Rings = {} THEN "idle" ELSE "loop"
  /\ passes' = passes + 1
  /\ UNCHANGED <<timerVars, last, manual, phase, next, moves, throws>>

\* Faulty variant: the deadline is remembered, the comparison is not adapted.
RecordDeadline ==
  /\ pc = "record"
  /\ last' = Elapsed + PhaseDuration /\ since' = now
  /\ todo' = Rings
  /\ pc' = IF Rings = {} THEN "idle" ELSE "loop"
  /\ passes' = passes + 1
  /\ UNCHANGED <<timerVars, manual, phase, next, moves, throws>>

\* The second Elapsed() is the one that is remembered.
Record ==
  /\ pc = "record"
  /\ last' = Elapsed /\ since' = now
  /\ todo' = Rings
  /\ pc' = IF Rings = {} THEN "idle" ELSE "loop"
  /\ passes' = passes + 1
  /\ UNCHANGED <<timerVars, manual, phase, next, moves, throws>>

\* What is left of the loop once r has been visited.
Visited(r) ==
  /\ todo' = todo \ {r}
  /\ pc' = IF todo = {r} THEN "idle" ELSE "loop"

\* Faulty variant: next is dereferenced without has_value().
CrashWithoutNext(r) ==
  /\ pc = "loop" /\ r \in todo
  /\ next[r] = NoPhase
  /\ pc' = "crashed"
  /\ UNCHANGED <<timerVars, last, manual, todo, phase, next, moves, passes, throws, since>>

\* Something undefined happens: the dynamic_cast gave a null pointer, or the
\* new phase has no successors and next_phases.front() does not exist.
RingCrashes(r) ==
  /\ pc = "loop" /\ r \in todo
  /\ \/ ~manual
     \/ next[r] # NoPhase /\ Successors(r, next[r]) = {}
  /\ pc' = "crashed"
  /\ UNCHANGED <<timerVars, last, manual, todo, phase, next, moves, passes, throws, since>>

\* Faulty variant: the rings that were skipped stay pending.
ThrowKeepsTodo(r) ==
  /\ pc = "loop" /\ r \in todo /\ manual
  /\ phase[r] = NoPhase
  /\ pc' = "idle"
  /\ throws' = throws + 1
  /\ UNCHANGED <<timerVars, last, manual, todo, phase, next, moves, passes, since>>

\* MALIPUT_THROW_UNLESS(phase_provider_result != std::nullopt): the rest of
\* the rings is skipped, last_elapsed_time_ keeps its new value.
RingThrows(r) ==
  /\ pc = "loop" /\ r \in todo /\ manual
  /\ phase[r] = NoPhase
  /\ pc' = "idle" /\ todo' = {}
  /\ throws' = throws + 1
  /\ UNCHANGED <<timerVars, last, manual, phase, next, moves, passes, since>>

\* Faulty variant: return where the code says continue.
StayReturns(r) ==
  /\ pc = "loop" /\ r \in todo /\ manual
  /\ phase[r] # NoPhase /\ next[r] = NoPhase
  /\ pc' = "idle" /\ todo' = {}
  /\ UNCHANGED <<timerVars, last, manual, phase, next, moves, passes, throws, since>>

\* A ring whose state has no next stays as it is.
RingStays(r) ==
  /\ pc = "loop" /\ r \in todo /\ manual
  /\ phase[r] # NoPhase /\ next[r] = NoPhase
  /\ Visited(r)
  /\ UNCHANGED <<timerVars, last, manual, phase, next, moves, passes, throws, since>>

\* Faulty variant: the next phase is looked up with the phase that is left.
MoveKeepsNext(r) ==
  /\ pc = "loop" /\ r \in todo /\ manual
  /\ next[r] # NoPhase /\ Successors(r, next[r]) # {}
  /\ phase' = [phase EXCEPT ![r] = next[r]]
  /\ next' = [next EXCEPT ![r] = NextPhases[r][phase[r]][1]]
  /\ moves' = [moves EXCEPT ![r] = @ + 1]
  /\ Visited(r)
  /\ UNCHANGED <<timerVars, last, manual, passes, throws, since>>

\* Faulty variant: the successor of the next phase becomes the current one.
MoveSkips(r) ==
  /\ pc = "loop" /\ r \in todo /\ manual
  /\ next[r] # NoPhase /\ Successors(r, next[r]) # {}
  /\ phase' = [phase EXCEPT ![r] = NextPhases[r][next[r]][1]]
  /\ next' = [next EXCEPT ![r] = NextPhases[r][next[r]][1]]
  /\ moves' = [moves EXCEPT ![r] = @ + 1]
  /\ Visited(r)
  /\ UNCHANGED <<timerVars, last, manual, passes, throws, since>>

\* ManualPhaseProvider::SetPhase(): the next phase becomes the current one and
\* the first of its successors becomes the next.
RingMoves(r) ==
  /\ pc = "loop" /\ r \in todo /\ manual
  /\ next[r] # NoPhase /\ Successors(r, next[r]) # {}
  /\ phase' = [phase EXCEPT ![r] = next[r]]
  /\ next' = [next EXCEPT ![r] = NextPhases[r][next[r]][1]]
  /\ moves' = [moves EXCEPT ![r] = @ + 1]
  /\ Visited(r)
  /\ UNCHANGED <<timerVars, last, manual, passes, throws, since>>

UpdateRing(r) == RingCrashes(r) \/ RingThrows(r) \/ RingStays(r) \/ RingMoves(r)

\* One step of a call of Update().
UpdateStep ==
  \/ UpdateReturns
  \/ UpdatePasses
  \/ Record
  \/ \E r \in Rings : UpdateRing(r)

\* The owner of the timer resets it, between two calls of Update().
ResetTimer ==
  /\ pc \in {"absent", "idle"}
  /\ Reset(pc = "absent")
  /\ UNCHANGED handlerVars

ClockMoves == pc # "crashed" /\ UNCHANGED handlerVars /\ \E d \in ClockSteps : Advance(d)

Next == Construct \/ UpdateStep \/ ResetTimer \/ ClockMoves

Spec == Init /\ [][Next]_vars
-----------------------------------------------------------------------------
\* The rings that move: they have a state, and the state has a next.
Moving == {r \in Rings : next[r] # NoPhase}

Pending(r) == IF r \in todo THEN 1 ELSE 0

(***************************************************************************)
(* Types of the variables; rings are left to visit only inside the loop,   *)
(* or where it crashed.                                                    *)
(***************************************************************************)
TypeOK ==
  /\ now \in 0..MaxNow /\ start \in 0..MaxNow /\ upsets \in 0..MaxUpsets
  /\ pc \in {"absent", "idle", "record", "loop", "crashed"}
  /\ last \in Int /\ since \in 0..MaxNow
  /\ todo \subseteq Rings /\ (todo # {} => pc \in {"loop", "crashed"})
  /\ manual \in BOOLEAN
  /\ phase \in [Rings -> OptionalPhase] /\ next \in [Rings -> OptionalPhase]
  /\ moves \in [Rings -> Nat] /\ passes \in Nat /\ throws \in Nat

(***************************************************************************)
(* Whatever the clock does, whoever resets the timer, in whatever order    *)
(* the rings are visited and wherever a pass is cut short: a ring is in a  *)
(* phase of its own and its next is one that may follow (a pass that fails *)
(* never leaves a ring with the next of another phase).                    *)
(***************************************************************************)
RingsOnPath == \A r \in Rings : Loaded(r)

(***************************************************************************)
(* The rings change in tandem: a ring that moves has moved once in every   *)
(* pass, except those an exception cut short and the one under way if the  *)
(* loop has yet to reach it; a ring that does not move never did.          *)
(***************************************************************************)
Tandem ==
  \A r \in Rings :
    IF r \in Moving
      THEN moves[r] + Pending(r) \in (passes - throws)..passes
      ELSE moves[r] = 0

(***************************************************************************)
(* On a steady timer the handler never outpaces the clock: there are no    *)
(* more passes than whole phase durations in the elapsed time, counting    *)
(* the passes that failed, however late or often Update() is called.       *)
(***************************************************************************)
PassRate ==
  upsets = 0 => passes * PhaseDuration <= last /\ last <= Elapsed

(***************************************************************************)
(* On a steady timer a pass begins only when the current phases have been  *)
(* in effect for the phase duration, less the millisecond that truncation  *)
(* and the two readings of the clock may lose.                             *)
(***************************************************************************)
PhasesLast ==
  upsets = 0 /\ pc = "record" =>
    now - since > (PhaseDuration - 1) * TicksPerMs

\* The current phases have been in effect for more than the phase duration.
Overdue == now - since >= (PhaseDuration + 1) * TicksPerMs

(***************************************************************************)
(* On a steady timer no call of Update() returns early on phases that are  *)
(* overdue: a phase cannot get stuck while somebody keeps polling.         *)
(***************************************************************************)
OverdueUpdatePasses ==
  upsets = 0 /\ pc = "idle" /\ Overdue => ~MayNotBeGreater

(***************************************************************************)
(* The handler implements the abstract walk: each ring moves along the     *)
(* successors of its phases, in tandem with the others.                    *)
(***************************************************************************)
Walk == INSTANCE PhaseWalk WITH moving <- Moving, abandoned <- throws

ImplementsPhaseWalk == Walk!Spec

(***************************************************************************)
(* Update() runs into something undefined only if the provider is no       *)
(* ManualPhaseProvider or the transitions of a ring that moves lead to a   *)
(* dead end; a ring declared without transitions is harmless.              *)
(***************************************************************************)
CrashesOnlyInBadNetworks ==
  pc = "crashed" =>
    ~manual \/ \E r \in Moving : \E p \in Phases(r) : Successors(r, p) = {}

(***************************************************************************)
(* "Each rule state is expected to last a fixed amount of time", with no   *)
(* condition on how the timer is used.                                     *)
(***************************************************************************)
LastsFixedTime == pc = "idle" /\ Overdue => ~MayNotBeGreater
=============================================================================
