--------------------- MODULE DynamicEnvironmentAppProofs ---------------------
(***************************************************************************)
(* Proofs about the application.  Its behaviours are behaviours of the     *)
(* handler, so what is proved of the handler holds in it; what it adds is  *)
(* where Main() is while the handler is where it is (Control), and which   *)
(* rings are printed as they are (Shown).                                  *)
(***************************************************************************)
EXTENDS DynamicEnvironmentApp, FixedPhaseIterationHandlerProofs,
        FiniteSetTheorems

USE TimerAssumption, HandlerAssumption, AppAssumption

-----------------------------------------------------------------------------
(* Where Main() and the handler are. *)

MainTyped ==
  /\ app \in {"start", "static", "check", "sleep", "update", "print", "done",
             "terminated"}
  /\ rules \subseteq DOMAIN RuleStates /\ stateless \in Gaps
  /\ slept \in 0..SleepTicks /\ iters \in Nat
  /\ unprinted \subseteq Rings
  /\ DOMAIN shown = Rings
  /\ unprinted # {} => app \in {"print", "terminated"}

\* No exception left Update() in a program that still runs.
Control ==
  /\ MainTyped
  /\ (app = "start") <=> (pc = "absent")
  /\ app = "update" => pc \in {"idle", "record", "loop"}
  /\ app \in {"static", "check", "sleep", "print", "done"} => pc = "idle"
  /\ app = "terminated" => pc \in {"idle", "crashed"}
  /\ app # "terminated" => throws = 0

LEMMA MulNat ==
  ASSUME NEW a \in Nat, NEW b \in Nat
  PROVE  a * b \in Nat
  BY SMT

LEMMA SleepTicksNat == SleepTicks \in Nat
<1>1. SleepMs \in Nat /\ TicksPerMs \in Nat
  OBVIOUS
<1>2. SleepMs * TicksPerMs \in Nat
  BY <1>1, MulNat
<1> QED
  BY <1>2, Zenon DEF SleepTicks

LEMMA ControlInit == AppInit => Control
  BY SleepTicksNat DEF AppInit, Init, Control, MainTyped

\* Where a step of Update() goes.
LEMMA UpdateStepControl ==
  ASSUME UpdateStep, pc \in {"idle", "record", "loop"}
  PROVE  /\ pc' \in {"idle", "record", "loop", "crashed"}
         /\ throws' # throws => pc' = "idle"
  BY DEF UpdateStep, UpdateReturns, UpdatePasses, Record, UpdateRing,
         RingCrashes, RingThrows, RingStays, RingMoves, Visited, vars,
         handlerVars

LEMMA ControlStep == Control /\ [AppNext]_appVars => Control'
<1> SUFFICES ASSUME Control, [AppNext]_appVars PROVE Control'
  OBVIOUS
<1> USE DEF Control, MainTyped
<1>0. (SleepTicks \in Nat) /\ SleepTicks' = SleepTicks
  BY SleepTicksNat DEF SleepTicks
<1>1. CASE CreateHandler
  BY <1>0, <1>1 DEF CreateHandler, Construct, StaticRules
<1>2. CASE EnterLoop \/ LeaveLoop \/ WakeUp \/ PrintReturns
  BY <1>0, <1>2
     DEF EnterLoop, LeaveLoop, WakeUp, PrintReturns, vars, handlerVars, ruleVars
<1>7. CASE PrintRule \/ PrintRuleUndefined \/ StaticPrinted
  BY <1>0, <1>7
     DEF PrintRule, PrintRuleUndefined, StaticPrinted, vars, handlerVars, ruleVars
<1>3. CASE CallUpdate
  <2>1. app = "update" /\ UpdateStep
        /\ UNCHANGED <<slept, shown, iters, rules, stateless>>
    BY <1>3 DEF CallUpdate, ruleVars
  <2>2. /\ pc' \in {"idle", "record", "loop", "crashed"}
        /\ throws' # throws => pc' = "idle"
    BY <2>1, UpdateStepControl
  <2>3. CASE pc' = "crashed" \/ throws' # throws
    <3>1. app' = "terminated" /\ unprinted' = {}
      BY <1>3, <2>3 DEF CallUpdate
    <3> QED
      BY <1>0, <2>1, <2>2, <2>3, <3>1
  <2>4. CASE pc' = "idle" /\ throws' = throws
    <3>1. app' = "print" /\ unprinted' = Rings
      BY <1>3, <2>4 DEF CallUpdate
    <3> QED
      BY <1>0, <2>1, <2>4, <3>1
  <2>5. CASE pc' \in {"record", "loop"} /\ throws' = throws
    <3>1. app' = "update" /\ unprinted' = {}
      BY <1>3, <2>5 DEF CallUpdate
    <3> QED
      BY <1>0, <2>1, <2>5, <3>1
  <2> QED
    BY <2>2, <2>3, <2>4, <2>5
<1>4. ASSUME NEW r \in Rings, PrintRing(r) \/ PrintUndefined(r)
      PROVE  Control'
  BY <1>0, <1>4 DEF PrintRing, PrintUndefined, vars, handlerVars, ruleVars
<1>5. ASSUME NEW d \in ClockSteps, ClockMovesBy(d) PROVE Control'
  <2>1. slept' \in 0..SleepTicks
    <3> DEFINE n == SleepTicks
    <3>1. n \in Nat /\ slept \in 0..n /\ d \in Int
      BY <1>0, TimerAssumption
    <3>2. slept' = IF app # "sleep" \/ d < 0 THEN slept
                   ELSE IF slept + d > n THEN n ELSE slept + d
      BY <1>5 DEF ClockMovesBy
    <3> HIDE DEF n
    <3>3. slept' \in 0..n
      BY <3>1, <3>2
    <3> QED
      BY <3>3 DEF n
  <2> QED
    BY <1>0, <1>5, <2>1 DEF ClockMovesBy, handlerVars, ruleVars
<1>6. CASE UNCHANGED appVars
  BY <1>0, <1>6 DEF appVars, mainVars, vars, handlerVars, ruleVars
<1> QED
  BY <1>1, <1>2, <1>3, <1>4, <1>5, <1>6, <1>7 DEF AppNext, Main
-----------------------------------------------------------------------------
(* The application uses the handler as a handler may be used. *)

LEMMA AppStepIsHandlerStep == Control /\ [AppNext]_appVars => [Next]_vars
<1> SUFFICES ASSUME Control, [AppNext]_appVars PROVE [Next]_vars
  OBVIOUS
<1>1. CASE UNCHANGED vars
  BY <1>1
<1>2. CASE CreateHandler
  BY <1>2 DEF CreateHandler, Next
<1>3. CASE CallUpdate
  BY <1>3 DEF CallUpdate, Next
<1>4. ASSUME NEW d \in ClockSteps, ClockMovesBy(d) PROVE Next
  <2>1. pc # "crashed"
    BY <1>4 DEF ClockMovesBy, Stopped, Control, MainTyped
  <2> QED
    BY <1>4, <2>1 DEF ClockMovesBy, ClockMoves, Next
<1> QED
  BY <1>1, <1>2, <1>3, <1>4
     DEF AppNext, appVars, Main, PrintRule, PrintRuleUndefined, StaticPrinted, EnterLoop, LeaveLoop, WakeUp, PrintRing,
         PrintUndefined, PrintReturns

(***************************************************************************)
(* Every behaviour of the application is a behaviour of the handler, so    *)
(* everything proved of the handler holds in the application.              *)
(***************************************************************************)
THEOREM AppUsesHandler == AppSpec => Spec
<1>1. AppInit => Init
  BY DEF AppInit
<1> QED
  BY <1>1, ControlInit, ControlStep, AppStepIsHandlerStep, PTL DEF AppSpec, Spec

LEMMA AppInvariant == AppSpec => [](Control /\ Typed /\ Tandem /\ SteadyTime)
<1>1. Init => Tandem
  BY DEF Init, Tandem, Moving, Pending
<1>2. Typed /\ Tandem /\ SteadyTime /\ [Next]_vars
        => (Typed /\ Tandem /\ SteadyTime)'
  BY TypedStep, RingsOnPathStep, TandemStep, SteadyTimeStep DEF Typed
<1>3. AppInit => Init
  BY DEF AppInit
<1> QED
  BY <1>1, <1>2, <1>3, ControlInit, ControlStep, AppStepIsHandlerStep,
     TypedInit, SteadyTimeInit, PTL DEF AppSpec

(***************************************************************************)
(* The variables of the application and of the handler keep their types.   *)
(***************************************************************************)
THEOREM AppTypeCorrect == AppSpec => []AppTypeOK
<1>1. Control /\ Typed => AppTypeOK
  BY DEF Control, MainTyped, Typed, AppTypeOK
<1> QED
  BY <1>1, AppInvariant, PTL

(***************************************************************************)
(* The phases the application makes visible follow the abstract walk.      *)
(***************************************************************************)
THEOREM AppImplementsWalk == AppSpec => ImplementsPhaseWalk
BY AppUsesHandler, HandlerImplementsWalk, PTL

(***************************************************************************)
(* The application is an owner of the timer that reads it as the handler   *)
(* needs it: on a clock that is not set back its phases last, no poll of   *)
(* it overlooks overdue ones, and no passes outrun the clock.              *)
(***************************************************************************)
THEOREM AppKeepsTime == AppSpec => [](PassRate /\ PhasesLast /\ OverdueUpdatePasses)
BY AppInvariant, SteadyPassRate, SteadyPhasesLast, OverdueIsNotLeft, PTL

(***************************************************************************)
(* The application never prints a half finished pass.                      *)
(***************************************************************************)
THEOREM AppPrintsInTandem == AppSpec => []PrintsInTandem
<1>1. Control /\ Typed /\ Tandem => PrintsInTandem
  <2> SUFFICES ASSUME Control, Typed, Tandem, app = "print",
                      NEW q \in Moving, NEW r \in Moving
               PROVE  moves[q] = moves[r]
    BY DEF PrintsInTandem
  <2>1. todo = {} /\ throws = 0 /\ passes \in Nat
    BY DEF Control, Typed, TypeOK
  <2>2. \A p \in Moving : moves[p] + 0 \in (passes - 0)..passes /\ moves[p] \in Nat
    BY <2>1 DEF Tandem, Pending, Moving, Typed, TypeOK
  <2> QED
    BY <2>1, <2>2
<1> QED
  BY <1>1, AppInvariant, PTL
-----------------------------------------------------------------------------
(* What the program dies of. *)

\* Only static rules are looked up before the loop.
Death == DiesForAReason /\ rules \subseteq StaticRules

LEMMA DeathStep == Control /\ Typed /\ Death /\ [AppNext]_appVars => Death'
<1> SUFFICES ASSUME Control, Typed, Death, [AppNext]_appVars PROVE Death'
  OBVIOUS
<1> USE DEF Death
<1>0. StaticRules' = StaticRules
  BY DEF StaticRules
<1>1. CASE CreateHandler
  BY <1>0, <1>1 DEF CreateHandler, DiesForAReason
<1>2. CASE EnterLoop \/ LeaveLoop \/ WakeUp \/ PrintReturns
  BY <1>0, <1>2
     DEF EnterLoop, LeaveLoop, WakeUp, PrintReturns, ruleVars, DiesForAReason
<1>3. CASE PrintRule \/ StaticPrinted
  BY <1>0, <1>3 DEF PrintRule, StaticPrinted, ruleVars, DiesForAReason
<1>4. CASE PrintRuleUndefined
  <2>1. PICK rule \in rules \cap stateless : rules' = rules \ {rule}
    BY <1>4 DEF PrintRuleUndefined
  <2>2. rule \in stateless' /\ RuleStates[rule] = 1
    BY <1>4, <2>1 DEF PrintRuleUndefined, StaticRules
  <2> QED
    BY <1>0, <2>1, <2>2 DEF DiesForAReason
<1>5. CASE CallUpdate
  <2>1. UpdateStep /\ rules' = rules /\ stateless' = stateless
    BY <1>5 DEF CallUpdate, ruleVars
  <2>2. throws' # throws => throws' > 0
    BY <2>1 DEF UpdateStep, UpdateReturns, UpdatePasses, Record, UpdateRing, RingCrashes,
                RingThrows, RingStays, RingMoves, vars, handlerVars, Typed, TypeOK
  <2>3. app' = "terminated" => pc' = "crashed" \/ throws' # throws
    BY <1>5 DEF CallUpdate
  <2> QED
    BY <1>0, <2>1, <2>2, <2>3 DEF DiesForAReason
<1>6. ASSUME NEW r \in Rings, PrintRing(r) \/ PrintUndefined(r) PROVE Death'
  <2>1. rules' = rules /\ phase' = phase
    BY <1>6 DEF PrintRing, PrintUndefined, ruleVars, vars, handlerVars
  <2>2. app' = "terminated" => phase[r] = NoPhase \/ <<r, phase[r]>> \in Bulbless
    BY <1>6 DEF PrintRing, PrintUndefined
  <2> QED
    BY <1>0, <2>1, <2>2 DEF DiesForAReason
<1>7. ASSUME NEW d \in ClockSteps, ClockMovesBy(d) PROVE Death'
  BY <1>0, <1>7 DEF ClockMovesBy, Stopped, ruleVars, DiesForAReason
<1>8. CASE UNCHANGED appVars
  BY <1>0, <1>8 DEF appVars, mainVars, ruleVars, vars, handlerVars, DiesForAReason
<1> QED
  BY <1>1, <1>2, <1>3, <1>4, <1>5, <1>6, <1>7, <1>8 DEF AppNext, Main

(***************************************************************************)
(* The program dies only of a gap in what it was loaded with.              *)
(***************************************************************************)
THEOREM DeathsHaveReasons == AppSpec => []DiesForAReason
<1>1. AppInit => Death
  BY DEF AppInit, Death, DiesForAReason
<1>2. AppSpec => [](Control /\ Typed)
  BY AppInvariant, PTL
<1> QED
  BY <1>1, <1>2, DeathStep, PTL DEF AppSpec, Death
-----------------------------------------------------------------------------
(* The output misses no phase. *)

\* A ring that moved is printed as it is, but for the part of an iteration
\* between its move and its printing.
ShownAsItIs(r) ==
  \/ app \in {"start", "static", "check", "sleep"}
  \/ app = "print" /\ r \notin unprinted
  \/ app = "update" /\ (pc \in {"idle", "record"} \/ r \in todo)

Shown ==
  \A r \in Rings : moves[r] > 0 /\ ShownAsItIs(r) => shown[r] = phase[r]

\* A ring that moved has a state.
LEMMA MovedHasState ==
  ASSUME Typed, Tandem, NEW r \in Rings, moves[r] > 0
  PROVE  phase[r] # NoPhase
<1>1. next[r] # NoPhase
  BY DEF Typed, TypeOK, Tandem, Moving
<1> QED
  BY <1>1 DEF Typed, RingsOnPath, Loaded

LEMMA ShownStep ==
  Control /\ Typed /\ Tandem /\ Shown /\ [AppNext]_appVars => Shown'
<1> SUFFICES ASSUME Control, Typed, Tandem, Shown, [AppNext]_appVars,
                    NEW r \in Rings, moves'[r] > 0, ShownAsItIs(r)'
             PROVE  shown'[r] = phase'[r]
  BY DEF Shown
<1>1. CASE UNCHANGED appVars
  BY <1>1 DEF appVars, mainVars, vars, handlerVars, Shown, ShownAsItIs
<1>2. CASE CreateHandler
  BY <1>2 DEF CreateHandler, Construct, ShownAsItIs, Shown
<1>8. CASE PrintRule \/ PrintRuleUndefined \/ StaticPrinted
  BY <1>8 DEF PrintRule, PrintRuleUndefined, StaticPrinted, vars, handlerVars,
              Shown, ShownAsItIs
<1>3. CASE EnterLoop \/ LeaveLoop \/ WakeUp \/ PrintReturns
  BY <1>3 DEF EnterLoop, LeaveLoop, WakeUp, PrintReturns, vars, handlerVars,
              Shown, ShownAsItIs, Control
<1>4. CASE CallUpdate
  <2>1. app = "update" /\ app' = "update" /\ UpdateStep /\ shown' = shown
        /\ (pc' = "record" \/ r \in todo')
    <3>1. unprinted' = IF app' = "print" THEN Rings ELSE {}
      BY <1>4 DEF CallUpdate
    <3>2. app' \notin {"start", "static", "check", "sleep", "print"}
      BY <1>4, <3>1 DEF CallUpdate, ShownAsItIs
    <3>3. app' = "update" /\ (pc' \in {"idle", "record"} \/ r \in todo')
      BY <3>2 DEF ShownAsItIs
    <3>4. pc' # "idle"
      BY <1>4, <3>3 DEF CallUpdate
    <3> QED
      BY <1>4, <3>3, <3>4 DEF CallUpdate
  <2>2. pc' = "record" => UpdatePasses
    BY <2>1 DEF UpdateStep, UpdateReturns, Record, UpdateRing, RingCrashes,
                RingThrows, RingStays, RingMoves, Visited, vars, handlerVars
  <2>3. CASE UpdatePasses \/ UpdateReturns \/ Record
    BY <2>1, <2>3
       DEF UpdatePasses, UpdateReturns, Record, vars, handlerVars, Shown,
           ShownAsItIs
  <2>4. ASSUME NEW q \in Rings, UpdateRing(q) PROVE shown'[r] = phase'[r]
    <3>1. r \in todo' /\ pc = "loop"
      BY <2>1, <2>2, <2>4 DEF UpdatePasses, UpdateRing, RingCrashes,
                RingThrows, RingStays, RingMoves
    <3>2. r \in todo /\ phase'[r] = phase[r] /\ moves'[r] = moves[r]
      BY <2>4, <3>1
         DEF UpdateRing, RingCrashes, RingThrows, RingStays, RingMoves, Visited,
             Typed, TypeOK
    <3> QED
      BY <2>1, <3>2 DEF Shown, ShownAsItIs
  <2> QED
    BY <2>1, <2>3, <2>4 DEF UpdateStep
<1>5. ASSUME NEW q \in Rings, PrintRing(q) PROVE shown'[r] = phase'[r]
  BY <1>5 DEF PrintRing, vars, handlerVars, Shown, ShownAsItIs, Control, MainTyped
<1>6. ASSUME NEW q \in Rings, PrintUndefined(q) PROVE shown'[r] = phase'[r]
  <2>1. /\ UNCHANGED <<moves, phase, shown, pc, todo>>
        /\ app = "print" /\ app' \in {"print", "terminated"}
        /\ unprinted' = unprinted \ {q} /\ phase[q] = NoPhase
    BY <1>6 DEF PrintUndefined, vars, handlerVars
  <2>2. q # r
    BY <2>1, MovedHasState
  <2>3. r \notin unprinted
    BY <2>1, <2>2 DEF ShownAsItIs
  <2> QED
    BY <2>1, <2>3 DEF Shown, ShownAsItIs
<1>7. ASSUME NEW d \in ClockSteps, ClockMovesBy(d) PROVE shown'[r] = phase'[r]
  BY <1>7 DEF ClockMovesBy, handlerVars, Shown, ShownAsItIs
<1> QED
  BY <1>1, <1>2, <1>3, <1>4, <1>5, <1>6, <1>7, <1>8 DEF AppNext, Main

(***************************************************************************)
(* Every phase a ring moved to is printed before the ring leaves it.       *)
(***************************************************************************)
THEOREM NoPhaseIsMissed == AppSpec => EveryPhaseIsShown
<1>1. AppInit => Shown
  BY DEF AppInit, Init, Shown
<1>2. Shown /\ Control /\ Typed /\ [AppNext]_appVars =>
        [\A r \in Rings :
           moves'[r] # moves[r] /\ moves[r] > 0 => shown[r] = phase[r]]_appVars
  <2> SUFFICES ASSUME Shown, Control, Typed, [AppNext]_appVars,
                      NEW r \in Rings, moves'[r] # moves[r], moves[r] > 0
               PROVE  shown[r] = phase[r]
    OBVIOUS
  <2>1. [Next]_vars
    BY AppStepIsHandlerStep
  <2>2. PICK q \in Rings : RingMoves(q)
    BY <2>1, PhasesChangeByMoves
  <2>3. q = r
    BY <2>2 DEF RingMoves, Typed, TypeOK
  <2>4. pc = "loop" /\ r \in todo
    BY <2>2, <2>3 DEF RingMoves
  <2>5. app = "update"
    BY <2>4 DEF Control, MainTyped
  <2> QED
    BY <2>4, <2>5 DEF Shown, ShownAsItIs
<1>3. AppSpec => [](Control /\ Typed /\ Tandem)
  BY AppInvariant, PTL
<1> QED
  BY <1>1, <1>2, <1>3, ShownStep, PTL DEF AppSpec, EveryPhaseIsShown
-----------------------------------------------------------------------------
(* The timeout bounds the loop. *)

\* On a steady clock each iteration that is over took a whole sleep.
LoopTime ==
  upsets = 0 =>
    /\ (iters - 1) * SleepMs <= TimeoutMs
    /\ app \in {"start", "static"} => iters = 0
    /\ app = "sleep" => (iters - 1) * SleepTicks + slept <= now - start
    /\ app \in {"check", "update", "print"} => iters * SleepTicks <= now - start

LEMMA ShiftBound ==
  ASSUME NEW p \in Int, NEW s \in Int, NEW n \in Int, NEW d \in Int,
         NEW a \in Int, NEW b \in Int,
         p + s <= a - b, n <= s + d
  PROVE  p + n <= (a + d) - b
  BY SMT

LEMMA LoopTimeInit == AppInit => LoopTime
<1> SUFFICES ASSUME AppInit PROVE LoopTime
  OBVIOUS
<1>1. iters = 0 /\ app = "start"
  BY DEF AppInit
<1>2. (0 - 1) * SleepMs <= TimeoutMs
  BY SMT
<1> QED
  BY <1>1, <1>2 DEF LoopTime

LEMMA LoopTimeStep ==
  Control /\ Typed /\ SteadyTime /\ LoopTime /\ [AppNext]_appVars => LoopTime'
<1> SUFFICES ASSUME Control, Typed, SteadyTime, LoopTime, [AppNext]_appVars,
                    upsets' = 0
             PROVE  LoopTime'
  BY DEF LoopTime
<1>1. upsets = 0
  <2>1. [Next]_vars
    BY AppStepIsHandlerStep
  <2> QED
    BY <2>1
       DEF Typed, TypeOK, Next, vars, timerVars, Construct, UpsetUnless,
           UpdateStep, UpdateReturns, UpdatePasses, Record, UpdateRing,
           RingCrashes, RingThrows, RingStays, RingMoves, ResetTimer, Reset,
           ClockMoves, Advance
<1>2. /\ now \in Nat /\ start \in Nat /\ start <= now /\ iters \in Nat
      /\ slept \in Nat /\ SleepTicks \in Nat /\ SleepTicks' = SleepTicks
  BY <1>1, SleepTicksNat
     DEF Typed, TypeOK, SteadyTime, Control, MainTyped, SleepTicks
<1>3. /\ (iters - 1) * SleepMs \in Int /\ iters * SleepTicks \in Int
      /\ (iters - 1) * SleepTicks \in Int
  BY <1>2, MulDistributes
<1>4. CASE CreateHandler
  BY <1>1, <1>4 DEF CreateHandler, Construct, LoopTime
<1>11. CASE PrintRule \/ PrintRuleUndefined
  BY <1>1, <1>11 DEF PrintRule, PrintRuleUndefined, vars, timerVars, LoopTime
<1>12. CASE StaticPrinted
  <2>1. /\ app' = "check" /\ UNCHANGED <<iters, now, start>> /\ iters = 0
    BY <1>1, <1>12 DEF StaticPrinted, vars, timerVars, LoopTime
  <2>2. iters' * SleepTicks' = 0 /\ now' - start' >= 0
    BY <1>2, <2>1
  <2> QED
    BY <1>1, <1>2, <2>1, <2>2 DEF LoopTime
<1>5. CASE EnterLoop
  <2>1. /\ app = "check" /\ app' = "sleep" /\ slept' = 0 /\ iters' = iters + 1
        /\ UNCHANGED <<now, start>> /\ Elapsed <= TimeoutMs
    BY <1>5 DEF EnterLoop, vars, timerVars
  <2>2. iters * SleepTicks <= now - start
    BY <1>1, <2>1 DEF LoopTime
  <2>3. /\ Elapsed \in Nat
        /\ now - start < Elapsed * TicksPerMs + TicksPerMs
    BY <1>2, ElapsedBounds
  <2>4. /\ (Elapsed + 1) * TicksPerMs = Elapsed * TicksPerMs + TicksPerMs
        /\ (Elapsed + 1) * TicksPerMs \in Int
        /\ Elapsed * TicksPerMs \in Int
    BY <2>3, MulDistributes
  <2>5. iters * SleepTicks = (iters * SleepMs) * TicksPerMs
    BY <1>2, SMT DEF SleepTicks
  <2>6. iters * SleepMs \in Int
    BY <1>2, MulDistributes
  <2>7. (iters * SleepMs) * TicksPerMs < (Elapsed + 1) * TicksPerMs
    BY <1>2, <1>3, <2>2, <2>3, <2>4, <2>5
  <2>8. iters * SleepMs < Elapsed + 1
    BY <2>3, <2>6, <2>7, MulCancels
  <2>9. iters * SleepMs <= TimeoutMs
    BY <2>1, <2>3, <2>6, <2>8
  <2>10. iters' - 1 = iters
    BY <1>2, <2>1
  <2>11. (iters' - 1) * SleepMs <= TimeoutMs
    BY <2>9, <2>10, Zenon
  <2>12. (iters' - 1) * SleepTicks' + slept' <= now' - start'
    <3>1. (iters' - 1) * SleepTicks' = iters * SleepTicks
      BY <1>2, <2>10, Zenon
    <3> QED
      BY <1>2, <1>3, <2>1, <2>2, <3>1
  <2> QED
    BY <2>1, <2>11, <2>12 DEF LoopTime
<1>6. CASE LeaveLoop
  BY <1>1, <1>6 DEF LeaveLoop, LoopTime
<1>7. CASE WakeUp
  <2>1. /\ app = "sleep" /\ app' = "update" /\ slept = SleepTicks
        /\ UNCHANGED <<now, start, iters>>
    BY <1>7 DEF WakeUp, vars, timerVars
  <2>2. (iters - 1) * SleepTicks + slept <= now - start
    BY <1>1, <2>1 DEF LoopTime
  <2>3. iters * SleepTicks = (iters - 1) * SleepTicks + SleepTicks
    <3>1. iters = (iters - 1) + 1
      BY <1>2
    <3> QED
      BY <1>2, <3>1, MulDistributes
  <2>4. iters' * SleepTicks' <= now' - start'
    BY <1>2, <2>1, <2>2, <2>3
  <2> QED
    BY <1>1, <2>1, <2>4 DEF LoopTime
<1>8. CASE CallUpdate \/ PrintReturns
         \/ \E r \in Rings : PrintRing(r) \/ PrintUndefined(r)
  <2>1. /\ UNCHANGED <<now, start, iters>>
        /\ app \in {"update", "print"}
        /\ app' \in {"check", "update", "print", "terminated"}
    BY <1>8 DEF CallUpdate, UpdateStep, UpdateReturns, UpdatePasses, Record,
                UpdateRing, RingCrashes, RingThrows, RingStays, RingMoves,
                PrintReturns, PrintRing, PrintUndefined, vars, timerVars
  <2> QED
    BY <1>1, <1>2, <2>1 DEF LoopTime
<1>9. ASSUME NEW d \in ClockSteps, ClockMovesBy(d) PROVE LoopTime'
  <2>1. /\ d \in Int /\ d >= 0 /\ now' = now + d
        /\ UNCHANGED <<start, iters, app>>
        /\ app \notin {"start", "static"} \/ iters = 0
    BY <1>1, <1>9 DEF ClockMovesBy, Advance, UpsetUnless, LoopTime
  <2>2. slept' \in Int /\ slept' <= slept + d
    BY <1>2, <1>9, <2>1 DEF ClockMovesBy
  <2>3. CASE app = "sleep"
    <3>1. (iters - 1) * SleepTicks + slept <= now - start
      BY <1>1, <2>3 DEF LoopTime
    <3> DEFINE p == (iters - 1) * SleepTicks
    <3>2. p + slept' <= (now + d) - start
      <4> HIDE DEF p
      <4>1. p \in Int /\ p + slept <= now - start
        BY <1>3, <3>1 DEF p
      <4>2. PICK n \in Int : n = slept' /\ n <= slept + d
        BY <2>2
      <4>3. now \in Int /\ start \in Int /\ slept \in Int /\ d \in Int
        BY <1>2, <2>1
      <4>4. p + n <= (now + d) - start
        BY <4>1, <4>2, <4>3, ShiftBound
      <4> QED
        BY <4>2, <4>4
    <3> QED
      BY <1>1, <1>2, <2>1, <2>3, <3>2 DEF LoopTime
  <2>4. CASE app # "sleep"
    <3>1. app \in {"check", "update", "print"}
            => iters * SleepTicks <= (now + d) - start
      BY <1>1, <1>2, <1>3, <2>1 DEF LoopTime
    <3> QED
      BY <1>1, <1>2, <2>1, <2>4, <3>1 DEF LoopTime
  <2> QED
    BY <2>3, <2>4
<1>10. CASE UNCHANGED appVars
  BY <1>1, <1>2, <1>10 DEF appVars, mainVars, vars, timerVars, LoopTime
<1> QED
  BY <1>4, <1>5, <1>6, <1>7, <1>8, <1>9, <1>10, <1>11, <1>12 DEF AppNext, Main

(***************************************************************************)
(* On a steady clock the loop is entered no more often than whole sleeps   *)
(* fit into the timeout, and once more.                                    *)
(***************************************************************************)
THEOREM TimeoutBoundsLoop == AppSpec => []LoopBudget
<1>1. AppSpec => [](Control /\ Typed /\ SteadyTime)
  BY AppInvariant, PTL
<1>2. LoopTime => LoopBudget
  BY DEF LoopTime, LoopBudget
<1> QED
  BY <1>1, <1>2, LoopTimeInit, LoopTimeStep, PTL DEF AppSpec
-----------------------------------------------------------------------------
(* What the loop does about overdue phases. *)

LEMMA ProductOfNats ==
  (PhaseDuration + 1) * TicksPerMs \in Nat
<1>1. PhaseDuration + 1 \in Nat /\ TicksPerMs \in Nat
  OBVIOUS
<1> QED
  BY <1>1, MulNat

LEMMA OverdueStays ==
  ASSUME Typed, NEW d \in Nat, Overdue, now' = now + d, since' = since
  PROVE  Overdue'
<1> DEFINE n == (PhaseDuration + 1) * TicksPerMs
<1>1. n \in Nat
  BY ProductOfNats
<1>2. now \in Int /\ since \in Int
  BY DEF Typed, TypeOK
<1>3. now - since >= n
  BY DEF Overdue
<1> HIDE DEF n
<1>4. now' - since' >= n
  BY <1>1, <1>2, <1>3
<1> QED
  BY <1>4 DEF Overdue, n

LEMMA SteadyBefore ==
  ASSUME Control, Typed, [AppNext]_appVars, upsets' = 0
  PROVE  upsets = 0
<1>1. [Next]_vars
  BY AppStepIsHandlerStep
<1> QED
  BY <1>1
     DEF Typed, TypeOK, Next, vars, timerVars, Construct, UpsetUnless,
         UpdateStep, UpdateReturns, UpdatePasses, Record, UpdateRing,
         RingCrashes, RingThrows, RingStays, RingMoves, ResetTimer, Reset,
         ClockMoves, Advance

Waits == app \in {"sleep", "update"} /\ pc \in {"idle", "record"}

LEMMA OverdueLoopStep ==
  ASSUME Control, Typed, SteadyTime, [AppNext]_appVars, Waits, Overdue, upsets' = 0
  PROVE  (passes' = passes + 1 /\ since' = now) \/ (Overdue' /\ Waits')
<1>1. upsets = 0
  BY SteadyBefore
<1>2. now \in Nat /\ since \in Nat
  BY DEF Typed, TypeOK
<1>3. ASSUME UNCHANGED <<now, since>> PROVE Overdue'
  <2>1. now' = now + 0
    BY <1>2, <1>3
  <2> QED
    BY <1>3, <2>1, OverdueStays
<1>4. CASE WakeUp
  BY <1>3, <1>4 DEF WakeUp, Waits, vars, timerVars, handlerVars
<1>5. CASE CallUpdate
  <2>1. CASE UpdateReturns
    BY <1>1, <2>1, OverdueIsNotLeft DEF UpdateReturns, OverdueUpdatePasses
  <2>2. CASE UpdatePasses
    <3>1. pc' = "record" /\ UNCHANGED <<now, since, throws>>
      BY <2>2 DEF UpdatePasses, timerVars
    <3>2. app' = "update"
      BY <1>5, <3>1 DEF CallUpdate
    <3> QED
      BY <1>3, <3>1, <3>2 DEF Waits
  <2>3. CASE Record
    BY <2>3 DEF Record
  <2>4. ASSUME NEW r \in Rings, UpdateRing(r) PROVE FALSE
    BY <2>4 DEF UpdateRing, RingCrashes, RingThrows, RingStays, RingMoves, Waits
  <2> QED
    BY <1>5, <2>1, <2>2, <2>3, <2>4 DEF CallUpdate, UpdateStep
<1>6. ASSUME NEW d \in ClockSteps, ClockMovesBy(d) PROVE Overdue' /\ Waits'
  <2>1. d \in Nat /\ now' = now + d
    BY <1>1, <1>6 DEF ClockMovesBy, Advance, UpsetUnless
  <2>2. UNCHANGED <<since, app, pc>>
    BY <1>6 DEF ClockMovesBy, handlerVars
  <2> QED
    BY <2>1, <2>2, OverdueStays DEF Waits
<1>7. CASE UNCHANGED appVars
  BY <1>3, <1>7 DEF appVars, mainVars, vars, timerVars, handlerVars, Waits
<1>8. ~CreateHandler /\ ~PrintRule /\ ~PrintRuleUndefined /\ ~StaticPrinted
      /\ ~EnterLoop /\ ~LeaveLoop /\ ~PrintReturns
      /\ \A r \in Rings : ~PrintRing(r) /\ ~PrintUndefined(r)
  BY DEF Waits, CreateHandler, PrintRule, PrintRuleUndefined, StaticPrinted,
         EnterLoop, LeaveLoop, PrintReturns, PrintRing, PrintUndefined
<1> QED
  BY <1>4, <1>5, <1>6, <1>7, <1>8 DEF AppNext, Main

(***************************************************************************)
(* On a steady clock nothing comes between overdue phases and the pass     *)
(* that moves them on, once the loop sleeps.                               *)
(***************************************************************************)
THEOREM OverduePhasesComeFirst == AppSpec => OverdueLoopPasses
<1>1. Control /\ Typed /\ SteadyTime /\ [AppNext]_appVars =>
        [Overdue /\ app \in {"sleep", "update"} /\ pc \in {"idle", "record"} /\ upsets' = 0 =>
           \/ passes' = passes + 1 /\ since' = now
           \/ Overdue' /\ app' \in {"sleep", "update"} /\ pc' \in {"idle", "record"}]_appVars
  BY OverdueLoopStep DEF Waits
<1>2. AppSpec => [](Control /\ Typed /\ SteadyTime)
  BY AppInvariant, PTL
<1> QED
  BY <1>1, <1>2, PTL DEF AppSpec, OverdueLoopPasses
-----------------------------------------------------------------------------
(* An iteration of the loop comes to an end. *)

\* At most how many steps of the program are left of this iteration; in a
\* sleep and in a print, Update() and its printing.
Work ==
  CASE app = "sleep" -> 2 * Cardinality(Rings) + 6
    [] app = "update" /\ pc = "idle" -> 2 * Cardinality(Rings) + 5
    [] app = "update" /\ pc = "record" -> 2 * Cardinality(Rings) + 4
    [] app = "update" /\ pc = "loop" -> Cardinality(Rings) + 2 + Cardinality(todo)
    [] app = "print" -> Cardinality(unprinted) + 1
    [] OTHER -> 0

Iterating == app \in {"sleep", "update", "print"}

IterationAdvances ==
  [][Iterating =>
       \/ Work' < Work
       \/ Work' = Work /\ \E d \in ClockSteps : ClockMovesBy(d)]_appVars

LEMMA PartOfRings ==
  ASSUME NEW S \in SUBSET Rings
  PROVE  /\ IsFiniteSet(S) /\ Cardinality(S) \in Nat /\ Cardinality(Rings) \in Nat
         /\ Cardinality(S) <= Cardinality(Rings)
  BY RingsAssumption, FS_Subset, FS_CardinalityType

LEMMA OneRingLess ==
  ASSUME NEW S \in SUBSET Rings, NEW r \in S
  PROVE  Cardinality(S \ {r}) \in Nat /\ Cardinality(S \ {r}) < Cardinality(S)
<1>1. IsFiniteSet(S) /\ Cardinality(S) \in Nat
  BY PartOfRings
<1>2. Cardinality(S \ {r}) = Cardinality(S) - 1 /\ IsFiniteSet(S \ {r})
  BY <1>1, FS_RemoveElement
<1>3. Cardinality(S \ {r}) \in Nat
  BY <1>2, FS_CardinalityType
<1> QED
  BY <1>1, <1>2, <1>3

LEMMA WorkLeft ==
  ASSUME Control, Typed
  PROVE  /\ Work \in 0..2 * Cardinality(Rings) + 6 /\ Cardinality(Rings) \in Nat
         /\ app = "update" => Work >= Cardinality(Rings) + 2
<1> DEFINE n == Cardinality(Rings)
           t == Cardinality(todo)
           u == Cardinality(unprinted)
<1>1. n \in Nat /\ t \in 0..n /\ u \in 0..n
  BY PartOfRings DEF Control, MainTyped, Typed, TypeOK
<1>2. Work = IF app = "sleep" THEN 2 * n + 6
             ELSE IF app = "update" /\ pc = "idle" THEN 2 * n + 5
             ELSE IF app = "update" /\ pc = "record" THEN 2 * n + 4
             ELSE IF app = "update" /\ pc = "loop" THEN n + 2 + t
             ELSE IF app = "print" THEN u + 1 ELSE 0
  <2> HIDE DEF n, t, u
  <2>1. CASE app = "sleep" BY <2>1 DEF Work, n
  <2>2. CASE app = "update" /\ pc = "idle" BY <2>2 DEF Work, n
  <2>3. CASE app = "update" /\ pc = "record" BY <2>3 DEF Work, n
  <2>4. CASE app = "update" /\ pc = "loop" BY <2>4 DEF Work, n, t
  <2>5. CASE app = "print" BY <2>5 DEF Work, u
  <2>6. CASE app \notin {"sleep", "print"} /\ (app = "update" => pc \notin {"idle", "record", "loop"})
    BY <2>6 DEF Work
  <2> QED
    BY <2>1, <2>2, <2>3, <2>4, <2>5, <2>6
<1>3. app = "update" => pc \in {"idle", "record", "loop"}
  BY DEF Control
<1> HIDE DEF n, t, u
<1>4. Work \in 0..2 * n + 6 /\ (app = "update" => Work >= n + 2)
  BY <1>1, <1>2, <1>3
<1> QED
  BY <1>1, <1>4 DEF n

LEMMA IterationStep ==
  ASSUME Control, Typed, Control', Typed', AppNext, app \in {"sleep", "update", "print"}
  PROVE  \/ Work' < Work
         \/ Work' = Work /\ \E d \in ClockSteps : ClockMovesBy(d)
<1>1. /\ Work \in Nat /\ Cardinality(Rings) \in Nat
      /\ Cardinality(todo) \in Nat /\ Cardinality(unprinted) \in Nat
      /\ app = "update" => Work >= Cardinality(Rings) + 2
  BY WorkLeft, PartOfRings DEF Control, MainTyped, Typed, TypeOK
<1>2. app' = "terminated" \/ app' = "check" => Work' = 0
  BY DEF Work
<1>3. app' = "print" /\ unprinted' = Rings => Work' = Cardinality(Rings) + 1
  BY DEF Work
<1>4. CASE WakeUp
  <2>1. app = "sleep" /\ app' = "update" /\ pc' = pc /\ pc = "idle"
    BY <1>4 DEF WakeUp, vars, handlerVars, Control
  <2> QED
    BY <1>1, <2>1 DEF Work
<1>5. CASE CallUpdate
  <2>1. app = "update" /\ UpdateStep
    BY <1>5 DEF CallUpdate
  <2>2. CASE app' # "update"
    <3>1. app' = "terminated" \/ (app' = "print" /\ unprinted' = Rings)
      BY <1>5, <2>2 DEF CallUpdate
    <3> QED
      BY <1>1, <1>2, <1>3, <2>1, <3>1
  <2>3. CASE app' = "update"
    <3>1. pc' \in {"record", "loop"} /\ throws' = throws
      BY <1>5, <2>3, <2>1, UpdateStepControl DEF CallUpdate, Control
    <3>2. CASE UpdateReturns
      BY <3>1, <3>2 DEF UpdateReturns, vars, handlerVars
    <3>3. CASE UpdatePasses
      BY <1>1, <2>1, <2>3, <3>3 DEF UpdatePasses, Work
    <3>4. CASE Record
      <4>1. pc = "record" /\ todo' = Rings /\ pc' = "loop"
        BY <3>1, <3>4 DEF Record
      <4> QED
        BY <1>1, <2>1, <2>3, <4>1 DEF Work
    <3>5. ASSUME NEW r \in Rings, UpdateRing(r) PROVE Work' < Work
      <4>1. pc = "loop" /\ r \in todo
        BY <3>5 DEF UpdateRing, RingCrashes, RingThrows, RingStays, RingMoves
      <4>2. todo' = todo \ {r} /\ pc' = "loop"
        BY <3>1, <3>5
           DEF UpdateRing, RingCrashes, RingThrows, RingStays, RingMoves, Visited
      <4>3. Cardinality(todo') \in Nat /\ Cardinality(todo') < Cardinality(todo)
        BY <4>1, <4>2, OneRingLess DEF Typed, TypeOK
      <4> QED
        BY <1>1, <2>1, <2>3, <4>1, <4>2, <4>3 DEF Work
    <3> QED
      BY <2>1, <3>2, <3>3, <3>4, <3>5 DEF UpdateStep
  <2> QED
    BY <2>2, <2>3
<1>6. ASSUME NEW r \in Rings, PrintRing(r) \/ PrintUndefined(r) PROVE Work' < Work
  <2>1. /\ app = "print" /\ r \in unprinted /\ unprinted' = unprinted \ {r}
        /\ app' \in {"print", "terminated"}
    BY <1>6 DEF PrintRing, PrintUndefined
  <2>2. Cardinality(unprinted') \in Nat /\ Cardinality(unprinted') < Cardinality(unprinted)
    BY <2>1, OneRingLess DEF Control, MainTyped
  <2> QED
    BY <1>1, <1>2, <2>1, <2>2 DEF Work
<1>7. CASE PrintReturns
  <2>1. app = "print" /\ app' = "check"
    BY <1>7 DEF PrintReturns
  <2> QED
    BY <1>1, <1>2, <2>1 DEF Work
<1>8. ASSUME NEW d \in ClockSteps, ClockMovesBy(d) PROVE Work' = Work
  BY <1>8 DEF ClockMovesBy, handlerVars, Work
<1>9. ~CreateHandler /\ ~PrintRule /\ ~PrintRuleUndefined /\ ~StaticPrinted
      /\ ~EnterLoop /\ ~LeaveLoop
  BY DEF CreateHandler, PrintRule, PrintRuleUndefined, StaticPrinted,
         EnterLoop, LeaveLoop
<1> QED
  BY <1>4, <1>5, <1>6, <1>7, <1>8, <1>9 DEF AppNext, Main

(***************************************************************************)
(* The body of the loop cannot go on for ever: between two checks of the   *)
(* timeout the program makes at most two steps for each ring and six more, *)
(* and only the clock can make it wait.                                    *)
(***************************************************************************)
THEOREM IterationsEnd ==
  AppSpec => IterationAdvances /\ [](Work \in 0..2 * Cardinality(Rings) + 6)
<1>1. Control /\ Typed /\ (Control /\ Typed)' /\ [AppNext]_appVars =>
        [Iterating =>
           \/ Work' < Work
           \/ Work' = Work /\ \E d \in ClockSteps : ClockMovesBy(d)]_appVars
  BY IterationStep DEF Iterating
<1>2. Control /\ Typed => Work \in 0..2 * Cardinality(Rings) + 6
  BY WorkLeft
<1>3. AppSpec => [](Control /\ Typed)
  BY AppInvariant, PTL
<1> QED
  BY <1>1, <1>2, <1>3, PTL DEF AppSpec, IterationAdvances
=============================================================================
