------------------------ MODULE DynamicEnvironmentApp ------------------------
(***************************************************************************)
(* maliput_dynamic_environment (src/applications/                          *)
(* maliput_dynamic_environment.cc): creates a timer and a handler for the  *)
(* loaded road network, prints the state of every static rule and then,    *)
(* until the timeout, sleeps, calls Update() and prints the phase every    *)
(* ring is in.  Nothing catches an exception: one that leaves Update() or  *)
(* the printing ends the program.                                          *)
(*                                                                         *)
(* The program is one thread; between any two of its steps the clock may   *)
(* move by any amount, so it may be suspended anywhere for any time.       *)
(***************************************************************************)
EXTENDS FixedPhaseIterationHandler

CONSTANTS
  SleepMs,    \* what the loop sleeps, in milliseconds (250 in the code)
  TimeoutMs,  \* --timeout, in milliseconds
  Bulbless,   \* the <<ring, phase>> pairs without bulb states
  RuleStates, \* the number of states every rule of the rulebook can have
  Gaps        \* the sets of rules for which the state providers have no state

ASSUME AppAssumption ==
  /\ SleepMs \in Nat \ {0}
  /\ TimeoutMs \in Nat
  /\ Bulbless \subseteq Rings \X UNION {Phases(r) : r \in Rings}
  /\ \A gap \in Gaps : gap \subseteq DOMAIN RuleStates

VARIABLES
  app,        \* where Main() is
  slept,      \* ticks of the current sleep that are over, up to its length
  unprinted,  \* the rings PrintPhaseRingsCurrentStates() has yet to visit
  rules,      \* the static rules that are still to be printed
  stateless,  \* the rules without a state
  shown,      \* history: the phase last printed for a ring, or NoPhase
  iters       \* history: how often the loop body was entered

ruleVars == <<rules, stateless>>
mainVars == <<app, slept, unprinted, shown, iters, ruleVars>>
appVars == <<vars, mainVars>>

SleepTicks == SleepMs * TicksPerMs

Stopped == app \in {"done", "terminated"}

AppInit ==
  /\ Init
  /\ app = "start" /\ slept = 0 /\ unprinted = {} /\ iters = 0
  /\ shown = [r \in Rings |-> NoPhase]
  /\ rules = {} /\ stateless \in Gaps
-----------------------------------------------------------------------------
\* Faulty variant: the rules are not filtered.
EveryRule == DOMAIN RuleStates

\* GetStaticDiscreteRules(), GetStaticRangeRules(): the rules with one state.
StaticRules == {rule \in DOMAIN RuleStates : RuleStates[rule] = 1}

\* The handler, on a timer that was just created.
CreateHandler ==
  /\ app = "start" /\ Construct
  /\ app' = "static" /\ rules' = StaticRules
  /\ UNCHANGED <<slept, unprinted, shown, iters, stateless>>

PrintRule ==
  /\ app = "static"
  /\ \E rule \in rules \ stateless : rules' = rules \ {rule}
  /\ UNCHANGED <<vars, app, slept, unprinted, shown, iters, stateless>>

\* Dereferencing a nullopt: the program dies or goes on with garbage.
PrintRuleUndefined ==
  /\ app = "static"
  /\ \E rule \in rules \cap stateless : rules' = rules \ {rule}
  /\ app' \in {"static", "terminated"}
  /\ UNCHANGED <<vars, slept, unprinted, shown, iters, stateless>>

StaticPrinted ==
  /\ app = "static" /\ rules = {}
  /\ app' = "check"
  /\ UNCHANGED <<vars, slept, unprinted, shown, iters, ruleVars>>

\* Faulty variant: the timeout counts from the last pass.
EnterLoopSinceLast ==
  /\ app = "check" /\ Elapsed - last <= TimeoutMs
  /\ app' = "sleep" /\ slept' = 0 /\ iters' = iters + 1
  /\ UNCHANGED <<vars, unprinted, shown, ruleVars>>

\* while (timer->Elapsed() <= FLAGS_timeout)
EnterLoop ==
  /\ app = "check" /\ Elapsed <= TimeoutMs
  /\ app' = "sleep" /\ slept' = 0 /\ iters' = iters + 1
  /\ UNCHANGED <<vars, unprinted, shown, ruleVars>>

LeaveLoop ==
  /\ app = "check" /\ Elapsed > TimeoutMs
  /\ app' = "done"
  /\ UNCHANGED <<vars, slept, unprinted, shown, iters, ruleVars>>

\* Faulty variant: the loop does not wait for the sleep.
NoSleep ==
  /\ app = "sleep"
  /\ app' = "update"
  /\ UNCHANGED <<vars, slept, unprinted, shown, iters, ruleVars>>

\* sleep_for() returns no earlier than asked.
WakeUp ==
  /\ app = "sleep" /\ slept = SleepTicks
  /\ app' = "update"
  /\ UNCHANGED <<vars, slept, unprinted, shown, iters, ruleVars>>

\* Faulty variant: an exception is caught and the loop goes on to print.
UpdateCaught ==
  /\ app = "update" /\ UpdateStep
  /\ app' = CASE pc' = "crashed" -> "terminated"
              [] pc' = "idle" -> "print"
              [] OTHER -> "update"
  /\ unprinted' = IF app' = "print" THEN Rings ELSE {}
  /\ UNCHANGED <<slept, shown, iters, ruleVars>>

\* Faulty variant: Update() runs on while the rings are printed.
UpdateUnawaited ==
  /\ app = "update" /\ UpdateStep
  /\ app' = IF pc' = "crashed" \/ throws' # throws THEN "terminated" ELSE "print"
  /\ unprinted' = IF app' = "print" THEN Rings ELSE {}
  /\ UNCHANGED <<slept, shown, iters, ruleVars>>

\* deh->Update(), one step of it; what it throws ends the program.
CallUpdate ==
  /\ app = "update" /\ UpdateStep
  /\ app' = CASE pc' = "crashed" \/ throws' # throws -> "terminated"
              [] pc' = "idle" /\ throws' = throws -> "print"
              [] OTHER -> "update"
  /\ unprinted' = IF app' = "print" THEN Rings ELSE {}
  /\ UNCHANGED <<slept, shown, iters, ruleVars>>

\* A ring with a state is printed; bulb_states().value() throws without bulbs.
PrintRing(r) ==
  /\ app = "print" /\ r \in unprinted /\ phase[r] # NoPhase
  /\ shown' = [shown EXCEPT ![r] = phase[r]]
  /\ unprinted' = unprinted \ {r}
  /\ app' = IF <<r, phase[r]>> \in Bulbless THEN "terminated" ELSE "print"
  /\ UNCHANGED <<vars, slept, iters, ruleVars>>

\* Dereferencing a nullopt: the program dies or goes on with garbage.
PrintUndefined(r) ==
  /\ app = "print" /\ r \in unprinted /\ phase[r] = NoPhase
  /\ unprinted' = unprinted \ {r}
  /\ app' \in {"print", "terminated"}
  /\ UNCHANGED <<vars, slept, shown, iters, ruleVars>>

\* Faulty variant: not all the rings are printed.
PrintStopsEarly ==
  /\ app = "print"
  /\ app' = "check" /\ unprinted' = {}
  /\ UNCHANGED <<vars, slept, shown, iters, ruleVars>>

PrintReturns ==
  /\ app = "print" /\ unprinted = {}
  /\ app' = "check"
  /\ UNCHANGED <<vars, slept, unprinted, shown, iters, ruleVars>>

Main ==
  \/ CreateHandler \/ PrintRule \/ PrintRuleUndefined \/ StaticPrinted
  \/ EnterLoop \/ LeaveLoop \/ WakeUp \/ CallUpdate
  \/ \E r \in Rings : PrintRing(r) \/ PrintUndefined(r)
  \/ PrintReturns

\* The clock moves; a sleep is measured on a clock that cannot be set back.
\* The handler is created in the first millisecond of the timer.
ClockMovesBy(d) ==
  /\ ~Stopped /\ Advance(d)
  /\ app = "start" => DurationCast(now' - start) = 0
  /\ slept' = IF app # "sleep" \/ d < 0 THEN slept
              ELSE IF slept + d > SleepTicks THEN SleepTicks ELSE slept + d
  /\ UNCHANGED <<handlerVars, app, unprinted, shown, iters, ruleVars>>

AppNext == Main \/ \E d \in ClockSteps : ClockMovesBy(d)

AppSpec ==
  /\ AppInit /\ [][AppNext]_appVars
  /\ WF_appVars(Main)
  /\ WF_appVars(\E d \in ClockSteps : d > 0 /\ ClockMovesBy(d))
-----------------------------------------------------------------------------
(***************************************************************************)
(* Types of the variables; the handler is inside a call of Update() only   *)
(* while the program waits for it, and rings are left to print only while  *)
(* the program prints.                                                     *)
(***************************************************************************)
AppTypeOK ==
  /\ TypeOK
  /\ pc \in {"record", "loop"} => app = "update"
  /\ unprinted # {} => app \in {"print", "terminated"}
  /\ app \in {"start", "static", "check", "sleep", "update", "print", "done", "terminated"}
  /\ slept \in 0..SleepTicks /\ iters \in Nat
  /\ unprinted \subseteq Rings
  /\ DOMAIN shown = Rings
  /\ rules \subseteq DOMAIN RuleStates /\ stateless \in Gaps

(***************************************************************************)
(* "The Right-Of-Way Rules and the Traffic Lights' bulbs, change their     *)
(* state in tandem": whenever the application prints, all the rings that   *)
(* move have moved equally often; it never prints a half finished pass.    *)
(***************************************************************************)
PrintsInTandem ==
  app = "print" => \A q, r \in Moving : moves[q] = moves[r]

(***************************************************************************)
(* The output misses no phase: a ring leaves a phase it moved to only      *)
(* after that phase was printed.  (The phase a ring was loaded in may go   *)
(* unseen, when the first Update() already moves on.)                      *)
(***************************************************************************)
EveryPhaseIsShown ==
  [][\A r \in Rings :
       moves'[r] # moves[r] /\ moves[r] > 0 => shown[r] = phase[r]]_appVars

(***************************************************************************)
(* The program dies only of what it was loaded with: a static rule without *)
(* a state, a ring without a phase, a phase without bulbs, or a road       *)
(* network in which Update() throws or crashes. That a rule with several   *)
(* states has none yet does no harm.                                       *)
(***************************************************************************)
DiesForAReason ==
  app = "terminated" =>
    \/ \E rule \in stateless : RuleStates[rule] = 1
    \/ throws > 0 \/ pc = "crashed"
    \/ \E r \in Rings : phase[r] = NoPhase \/ <<r, phase[r]>> \in Bulbless

(***************************************************************************)
(* On a steady clock the timeout bounds the loop: it is entered no more    *)
(* often than whole sleeps fit into the timeout, and once more.            *)
(***************************************************************************)
LoopBudget == upsets = 0 => (iters - 1) * SleepMs <= TimeoutMs

(***************************************************************************)
(* The program ends, even when the clock is set back now and then.         *)
(***************************************************************************)
Ends == <>Stopped

(***************************************************************************)
(* On a steady clock a loop that finds the phases overdue does nothing     *)
(* before it has moved them on: each step, the sleep's included, leaves it *)
(* on its way into that call of Update() with the phases still overdue, or *)
(* is the pass itself. It neither times out nor prints in between.         *)
(***************************************************************************)
OverdueLoopPasses ==
  [][Overdue /\ app \in {"sleep", "update"} /\ pc \in {"idle", "record"} /\ upsets' = 0 =>
       \/ passes' = passes + 1 /\ since' = now
       \/ Overdue' /\ app' \in {"sleep", "update"} /\ pc' \in {"idle", "record"}]_appVars

(***************************************************************************)
(* Overdue phases do change: a loop that finds them overdue when it goes   *)
(* to sleep makes a pass before it can time out.                           *)
(***************************************************************************)
OverduePhasesChange ==
  (app = "sleep" /\ Overdue /\ upsets = 0)
    ~> (~Overdue \/ upsets > 0 \/ app = "terminated")
=============================================================================
