------------------------ MODULE MeasureLoadTimeProofs -----------------------
(***************************************************************************)
(* Theorems about MeasureLoadTime, for any clock, any number of iterations *)
(* and all that RoadNetworkLoadingProofs has for the loads themselves.     *)
(***************************************************************************)
EXTENDS MeasureLoadTime, RoadNetworkLoadingProofs

LEMMA MeasureStepIsLoadingStep == [MeasureNext]_measureVars => [Next]_vars
<1> SUFFICES ASSUME MeasureNext PROVE [Next]_vars
  BY DEF measureVars
<1>1. CASE LooksUp \/ PassesFlags \/ Loads
  BY <1>1 DEF LooksUp, PassesFlags, Loads, Next, LoadRoadNetwork
<1>2. CASE ChecksIterations \/ Starts \/ Stops \/ Reports \/ ClockMoves
  BY <1>2 DEF ChecksIterations, Starts, Stops, Reports, ClockMoves
<1>3. CASE Discards BY <1>3 DEF Discards, Next
<1>4. CASE FilesChange BY <1>4 DEF FilesChange, Next
<1> QED BY <1>1, <1>2, <1>3, <1>4 DEF MeasureNext

(***************************************************************************)
(* The program (maliput_measure_load_time.cc) uses LoadRoadNetwork() as it *)
(* is specified: every theorem about RoadNetworkLoading holds inside it.   *)
(***************************************************************************)
THEOREM MeasureUsesLoading == MeasureSpec => Spec
BY MeasureStepIsLoadingStep, PTL DEF MeasureSpec, MeasureInit, Spec

(***************************************************************************)
(* Each of the networks the program gets, as often as it asks, is one the  *)
(* abstract request allows.                                                *)
(***************************************************************************)
THEOREM MeasureImplementsRequest == MeasureSpec => ImplementsRequest
BY MeasureUsesLoading, LoadingImplementsRequest, PTL

(***************************************************************************)
(* What LoadRoadNetwork() promises holds in the program, whatever the      *)
(* clock and the files do between and during the loads: in every one of    *)
(* them the backend is told what the flags say.                            *)
(***************************************************************************)
THEOREM EveryLoadIsRight ==
  MeasureSpec => [](ConfigIsRequest /\ ResourcesFirst /\ LoadsWhatIsThere /\ LoadedFiles)
BY MeasureUsesLoading, ConfigIsWhatWasRequested, ResourcesComeFirst, WhatIsThereIsLoaded,
   LoadedFromNamedFiles, PTL
-----------------------------------------------------------------------------
\* What was measured is what the clock moved, load by load.
Measured ==
  /\ iterations \in Int /\ now \in Int /\ start \in Int
  /\ times \in Seq(Int)
  /\ app \in {"start", "refused", "loop", "timing", "holding", "reported"}
  /\ app \in {"start", "refused"} => times = <<>> /\ during = <<>>
  /\ app \in {"loop", "holding", "reported"} =>
       during = times /\ iterations >= 1 /\ Len(times) <= iterations
  /\ app = "timing" => during = Append(times, now - start) /\ Len(times) < iterations
  /\ app = "reported" => mean = <<Sum(times), Len(times)>> /\ Len(times) >= iterations

LEMMA LastChanges ==
  ASSUME NEW s \in Seq(Int), NEW x \in Int, NEW d \in Int
  PROVE  [Append(s, x) EXCEPT ![Len(Append(s, x))] = @ + d] = Append(s, x + d)
<1> DEFINE t == Append(s, x)
           u == Append(s, x + d)
<1>1. /\ t \in Seq(Int) /\ Len(t) = Len(s) + 1 /\ t[Len(s) + 1] = x
      /\ \A i \in 1..Len(s) : t[i] = s[i]
  BY AppendProperties
<1>2. /\ u \in Seq(Int) /\ Len(u) = Len(s) + 1 /\ u[Len(s) + 1] = x + d
      /\ \A i \in 1..Len(s) : u[i] = s[i]
  BY AppendProperties
<1> DEFINE v == [t EXCEPT ![Len(t)] = @ + d]
<1> HIDE DEF t, u
<1>3. Len(s) \in Nat BY LenProperties
<1>4. DOMAIN t = 1..(Len(s) + 1) /\ \A i \in 1..(Len(s) + 1) : t[i] \in Int
  BY <1>1, <1>3
<1>5. v = [i \in 1..(Len(s) + 1) |-> IF i = Len(s) + 1 THEN t[i] + d ELSE t[i]]
  BY <1>1, <1>4
<1>6. \A i \in 1..(Len(s) + 1) : v[i] = u[i] /\ v[i] \in Int
  <2> SUFFICES ASSUME NEW i \in 1..(Len(s) + 1) PROVE v[i] = u[i] /\ v[i] \in Int
    OBVIOUS
  <2>1. v[i] = IF i = Len(s) + 1 THEN t[i] + d ELSE t[i] BY <1>5
  <2>2. CASE i = Len(s) + 1 BY <1>1, <1>2, <2>1, <2>2
  <2>3. CASE i # Len(s) + 1
    <3>1. i \in 1..Len(s) BY <1>3, <2>3
    <3> QED BY <1>1, <1>2, <1>4, <2>1, <2>3, <3>1
  <2> QED BY <2>2, <2>3
<1> HIDE DEF v
<1>7. v \in [1..(Len(s) + 1) -> Int]
  <2>1. v = [i \in 1..(Len(s) + 1) |-> v[i]] BY <1>5
  <2> QED BY <1>6, <2>1
<1>8. v \in Seq(Int) /\ Len(v) = Len(s) + 1
  BY <1>3, <1>7, LenProperties, SeqDef
<1>9. v = u BY <1>2, <1>6, <1>8, SeqEqual
<1> QED BY <1>9 DEF t, u, v

LEMMA MeasuredInit == MeasureInit => Measured
BY MeasureAssumption DEF MeasureInit, Measured

LEMMA MeasuredStep == Measured /\ [MeasureNext]_measureVars => Measured'
<1> SUFFICES ASSUME Measured, [MeasureNext]_measureVars PROVE Measured' OBVIOUS
<1>1. CASE UNCHANGED appVars BY <1>1 DEF appVars, Measured
<1>2. CASE ChecksIterations
  <2>1. iterations' = iterations /\ now' = now /\ start' = start /\ times' = times
        /\ during' = during /\ app = "start"
        /\ app' = IF iterations < 1 THEN "refused" ELSE "loop"
    BY <1>2 DEF ChecksIterations
  <2>2. Len(<<>>) = 0 OBVIOUS
  <2> QED BY <2>1, <2>2 DEF Measured
<1>3. CASE Starts
  <2>1. /\ app = "loop" /\ app' = "timing" /\ Len(times) < iterations
        /\ start' = now /\ during' = Append(during, 0)
        /\ iterations' = iterations /\ now' = now /\ times' = times
    BY <1>3 DEF Starts
  <2>2. now' - start' = 0 BY <2>1 DEF Measured
  <2> QED BY <2>1, <2>2 DEF Measured
<1>4. CASE Stops
  <2>1. /\ app = "timing" /\ app' = "holding" /\ times' = Append(times, now - start)
        /\ iterations' = iterations /\ now' = now /\ start' = start /\ during' = during
    BY <1>4 DEF Stops
  <2>2. /\ times' \in Seq(Int) /\ Len(times') = Len(times) + 1 /\ Len(times) \in Nat
    BY <2>1, AppendProperties, LenProperties DEF Measured
  <2> QED BY <2>1, <2>2 DEF Measured
<1>5. CASE Discards
  BY <1>5 DEF Discards, Measured
<1>6. CASE Reports
  BY <1>6 DEF Reports, Measured
<1>7. CASE ClockMoves
  <2>1. PICK d \in ClockSteps :
          /\ now' = now + d
          /\ during' = IF app # "timing" THEN during
                       ELSE [during EXCEPT ![Len(during)] = @ + d]
    BY <1>7 DEF ClockMoves
  <2>2. /\ iterations' = iterations /\ app' = app /\ start' = start /\ times' = times
        /\ mean' = mean
    BY <1>7 DEF ClockMoves
  <2>3. d \in Int BY MeasureAssumption
  <2>4. CASE app = "timing"
    <3>1. during = Append(times, now - start) /\ now - start \in Int /\ times \in Seq(Int)
      BY <2>4 DEF Measured
    <3>2. during' = Append(times, (now - start) + d)
      BY <2>1, <2>3, <2>4, <3>1, LastChanges
    <3>3. (now - start) + d = now' - start' BY <2>1, <2>2, <2>3 DEF Measured
    <3> QED BY <2>1, <2>2, <2>3, <2>4, <3>2, <3>3 DEF Measured
  <2>5. CASE app # "timing" BY <2>1, <2>2, <2>3, <2>5 DEF Measured
  <2> QED BY <2>4, <2>5
<1>8. LooksUp \/ PassesFlags \/ Loads \/ FilesChange \/ UNCHANGED measureVars => UNCHANGED appVars
  BY DEF LooksUp, PassesFlags, Loads, FilesChange, measureVars
<1> QED BY <1>1, <1>2, <1>3, <1>4, <1>5, <1>6, <1>7, <1>8 DEF MeasureNext

(***************************************************************************)
(* MeanOfWholeLoads for every instance: MeasureLoadTime() reads the clock  *)
(* on both sides of each load, so what it measures is what the clock moved *)
(* meanwhile, even if that is less than nothing                            *)
(* (maliput_measure_load_time.cc).                                         *)
(***************************************************************************)
THEOREM MeanIsOfWholeLoads == MeasureSpec => []MeanOfWholeLoads
<1>1. Measured => MeanOfWholeLoads
  <2> SUFFICES ASSUME Measured, app = "reported"
               PROVE  mean = <<Sum(during), iterations>> /\ iterations >= 1
                      /\ Len(during) = iterations
    BY DEF MeanOfWholeLoads
  <2>1. /\ during = times /\ iterations >= 1 /\ iterations \in Int
        /\ Len(times) <= iterations /\ Len(times) >= iterations
        /\ mean = <<Sum(times), Len(times)>> /\ Len(times) \in Nat
    BY LenProperties DEF Measured
  <2>2. Len(times) = iterations BY <2>1
  <2> QED BY <2>1, <2>2
<1> QED BY <1>1, MeasuredInit, MeasuredStep, PTL DEF MeasureSpec
=============================================================================
