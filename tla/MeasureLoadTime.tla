--------------------------- MODULE MeasureLoadTime --------------------------
(***************************************************************************)
(* maliput_measure_load_time (src/applications): loads the same road       *)
(* network --iterations times, each time between two readings of the       *)
(* clock, and reports the mean. The loading is the one of                  *)
(* RoadNetworkLoading, step by step, with files that come and go and a     *)
(* clock that runs meanwhile. std::chrono::high_resolution_clock need not  *)
(* be steady: a step of it may go backwards.                               *)
(***************************************************************************)
EXTENDS RoadNetworkLoading, Integers

CONSTANTS
  Iterations,   \* the values of --iterations that are considered
  ClockSteps,   \* by how much the clock may move at once
  MaxMoves      \* bound: how often the clock moves

ASSUME MeasureAssumption ==
  Iterations \subseteq Int /\ ClockSteps \subseteq Int /\ MaxMoves \in Nat

VARIABLES
  iterations,   \* --iterations
  app,          \* where Main() is: "start", "loop", "timing", "holding" the
                \* network that was loaded, or at its end
  now,          \* what the clock shows
  start,        \* what it showed before the load
  times,        \* the durations measured so far
  mean,         \* the sum and the number of the times that were reported
  moves,        \* how often the clock moved
  during        \* history: what the clock moved during each load

appVars == <<iterations, app, now, start, times, mean, moves, during>>
measureVars == <<vars, appVars>>

MeasureInit ==
  /\ Init
  /\ iterations \in Iterations
  /\ app = "start" /\ now = 0 /\ start = 0 /\ times = <<>>
  /\ mean = <<0, 0>> /\ moves = 0 /\ during = <<>>
-----------------------------------------------------------------------------
\* The backend is looked up first, then the number is checked.
LooksUp == app = "start" /\ UnknownBackend /\ UNCHANGED appVars

ChecksIterations ==
  /\ app = "start" /\ outcome = "idle" /\ backend \in KnownBackends
  /\ app' = IF iterations < 1 THEN "refused" ELSE "loop"
  /\ UNCHANGED <<vars, iterations, now, start, times, mean, moves, during>>

\* The flags are passed by the caller, before MeasureLoadTime() starts.
PassesFlags ==
  /\ app = "loop" /\ Len(times) < iterations
  /\ OriginIsNoVector /\ UNCHANGED appVars

\* Faulty variant: the clock is read before the loop.
StartsOnce ==
  /\ app = "loop" /\ outcome = "idle" /\ Len(times) < iterations
  /\ app' = "timing" /\ start' = IF times = <<>> THEN now ELSE start
  /\ during' = Append(during, 0)
  /\ UNCHANGED <<vars, iterations, now, times, mean, moves>>

Starts ==
  /\ app = "loop" /\ outcome = "idle" /\ Len(times) < iterations
  /\ app' = "timing" /\ start' = now
  /\ during' = Append(during, 0)
  /\ UNCHANGED <<vars, iterations, now, times, mean, moves>>

Loads ==
  /\ app = "timing"
  /\ \/ Call \/ MainFileMissing \/ SkipBook \/ RefusesAbsolute \/ EmplaceFile
     \/ BackendOpens \/ BackendRefuses \/ BackendLoads
  /\ UNCHANGED appVars

\* The second reading; the network is still there.
Stops ==
  /\ app = "timing" /\ outcome = "loaded"
  /\ times' = Append(times, now - start)
  /\ app' = "holding"
  /\ UNCHANGED <<vars, iterations, now, start, mean, moves, during>>

\* MeasureLoadTime() returns, and its network is destroyed.
Discards ==
  /\ app = "holding" /\ Discard /\ app' = "loop"
  /\ UNCHANGED <<iterations, now, start, times, mean, moves, during>>

Sum(s) == FoldSeq(LAMBDA x, y : x + y, 0, s)

Reports ==
  /\ app = "loop" /\ outcome = "idle" /\ Len(times) >= iterations
  /\ mean' = <<Sum(times), Len(times)>>
  /\ app' = "reported"
  /\ UNCHANGED <<vars, iterations, now, start, times, moves, during>>

\* Time passes, in a load or between two.
ClockMoves ==
  /\ moves < MaxMoves /\ moves' = moves + 1
  /\ \E d \in ClockSteps :
       /\ now' = now + d
       /\ during' = IF app # "timing" THEN during
                    ELSE [during EXCEPT ![Len(during)] = @ + d]
  /\ UNCHANGED <<vars, iterations, app, start, times, mean>>

FilesChange == FileChanges /\ UNCHANGED appVars

Running == app \notin {"refused", "reported"} /\ outcome \notin {"threw", "aborted"}

MeasureNext ==
  \/ LooksUp \/ ChecksIterations \/ PassesFlags \/ Starts \/ Loads \/ Stops
  \/ Discards \/ Reports
  \/ Running /\ (ClockMoves \/ FilesChange)

MeasureSpec == MeasureInit /\ [][MeasureNext]_measureVars
-----------------------------------------------------------------------------
(***************************************************************************)
(* A mean is only reported for at least one load, all that were asked for  *)
(* have succeeded, and it is the mean of what the clock moved during the   *)
(* loads: nothing of what happens between two of them, such as getting rid *)
(* of a network, is counted.                                               *)
(***************************************************************************)
MeanOfWholeLoads ==
  app = "reported" =>
    mean = <<Sum(during), iterations>> /\ iterations >= 1 /\ Len(during) = iterations
=============================================================================
