----------------------- MODULE DeriveLaneSRoutesProofs ----------------------
(***************************************************************************)
(* Theorems about DeriveLaneSRoutes, for lanes of any length and any       *)
(* tolerance.                                                              *)
(***************************************************************************)
EXTENDS DeriveLaneSRoutes, TLAPS

Keys == <<"xodr_file", "max_length", "waypoints", "yaml_file">>

\* The keys of the map that were looked for are there, or may miss.
Found(k) == config[k] # "missing" \/ MayMiss(k)
Looked ==
  \/ todo = Keys
  \/ todo = Tail(Keys) /\ Found("xodr_file")
  \/ todo = Tail(Tail(Keys)) /\ Found("xodr_file") /\ Found("max_length")
  \/ /\ todo = Tail(Tail(Tail(Keys)))
     /\ Found("xodr_file") /\ Found("max_length") /\ Found("waypoints")
  \/ todo = <<>> /\ \A k \in Fields : Found(k)

Given ==
  /\ backend \in Backends
  /\ file \in {"unused", "unreadable", "no map", "map"}
  /\ config \in [Fields -> {"missing", "bad", "good", "no sequence", "not two"}]
  /\ \A k \in Fields : config[k] \in {"no sequence", "not two"} => k = "waypoints"
  /\ flags \in [Fields -> {"missing", "bad", "good"}]
  /\ \A k \in Fields : flags[k] = "bad" => k = "waypoints"

Resolving ==
  Given /\ Looked /\ RoutesTypeOK /\ OneSource /\ RefusedForAReason

LEMMA TailsOfKeys ==
  /\ Keys # <<>> /\ Head(Keys) = "xodr_file"
  /\ Tail(Keys) # <<>> /\ Head(Tail(Keys)) = "max_length"
  /\ Tail(Tail(Keys)) # <<>> /\ Head(Tail(Tail(Keys))) = "waypoints"
  /\ Tail(Tail(Tail(Keys))) # <<>> /\ Head(Tail(Tail(Tail(Keys)))) = "yaml_file"
  /\ Tail(Tail(Tail(Tail(Keys)))) = <<>>
BY DEF Keys

LEMMA NeededAre ==
  /\ Needed(backend) \subseteq Fields /\ "waypoints" \in Needed(backend)
  /\ Given => \A k \in Needed(backend) : ~MayMiss(k)
BY DEF Needed, Fields, MayMiss, Given, Backends

LEMMA ResolvingInit == Init => Resolving
<1> SUFFICES ASSUME Init PROVE Resolving OBVIOUS
<1>1. Given BY DEF Init, Given
<1>2. Looked BY DEF Init, Looked, Keys
<1>3. outcome = "resolving" /\ \A k \in Fields : resolved[k] = "none" BY DEF Init
<1> QED
  BY <1>1, <1>2, <1>3
  DEF Resolving, RoutesTypeOK, OneSource, RefusedForAReason, Resolved

LEMMA LookedStep == Looked /\ LooksForKey => Looked'
<1> SUFFICES ASSUME Looked, LooksForKey PROVE Looked' OBVIOUS
<1>1. UNCHANGED <<backend, config>> BY DEF LooksForKey, given
<1>2. \A k \in Fields : Found(k)' = Found(k) BY <1>1 DEF Found, MayMiss
<1>3. \/ todo' = todo
      \/ todo' = Tail(todo) /\ Found(Head(todo))
  BY DEF LooksForKey, Found
<1>4. {"xodr_file", "max_length", "waypoints", "yaml_file"} = Fields BY DEF Fields
<1>5. todo # <<>> BY DEF LooksForKey
<1> QED BY <1>2, <1>3, <1>4, <1>5, TailsOfKeys DEF Looked

\* The conversions fail if and only if a field the backend needs is not good:
\* only waypoints that are missing pass them, and those were looked for.
LEMMA ConversionsFail ==
  ASSUME Given, \A k \in Fields : Found(k)
  PROVE  /\ Conversions \in {"threw", "exit 1", "loading"}
         /\ Conversions = "loading" <=> \A k \in Needed(backend) : config[k] = "good"
<1>1. config["waypoints"] \in {"bad", "good", "no sequence", "not two"}
  BY DEF Given, Found, MayMiss, Fields
<1>2. \A k \in Needed(backend) \ {"waypoints"} : config[k] \in {"missing", "bad", "good"}
  BY NeededAre DEF Given
<1>3. CASE \E k \in Needed(backend) \ {"waypoints"} : config[k] \in {"bad", "missing"}
  BY <1>3, NeededAre DEF Conversions
<1>4. CASE ~\E k \in Needed(backend) \ {"waypoints"} : config[k] \in {"bad", "missing"}
  <2>1. \A k \in Needed(backend) \ {"waypoints"} : config[k] = "good" BY <1>2, <1>4
  <2>2. CASE config["waypoints"] \in {"no sequence", "not two"}
    BY <1>4, <2>2, NeededAre DEF Conversions
  <2>3. CASE config["waypoints"] = "bad" BY <1>4, <2>3, NeededAre DEF Conversions
  <2>4. CASE config["waypoints"] = "good" BY <1>4, <2>1, <2>4, NeededAre DEF Conversions
  <2> QED BY <1>1, <2>2, <2>3, <2>4
<1> QED BY <1>3, <1>4

LEMMA FlagsFail ==
  ASSUME Given, TakesFromFlags
  PROVE  /\ outcome' \in {"threw", "exit 1", "loading"}
         /\ outcome' = "loading" <=> \A k \in Needed(backend) : flags[k] = "good"
<1>1. outcome' = IF \E k \in Needed(backend) : flags[k] = "missing" THEN "exit 1"
                 ELSE IF flags["waypoints"] = "bad" THEN "threw" ELSE "loading"
  BY DEF TakesFromFlags
<1>2. CASE \E k \in Needed(backend) : flags[k] = "missing" BY <1>1, <1>2
<1>3. CASE ~\E k \in Needed(backend) : flags[k] = "missing"
  <2>1. \A k \in Needed(backend) : flags[k] # "missing" /\ k \in Fields BY <1>3, NeededAre
  <2>2. \A k \in Needed(backend) : flags[k] \in {"bad", "good"} BY <2>1 DEF Given
  <2>3. CASE flags["waypoints"] = "bad" BY <1>1, <1>3, <2>3, NeededAre
  <2>4. CASE flags["waypoints"] # "bad"
    <3>1. \A k \in Needed(backend) : flags[k] = "good" BY <2>1, <2>2, <2>4 DEF Given
    <3>2. outcome' = "loading" BY <1>1, <1>3, <2>4
    <3> QED BY <3>1, <3>2
  <2> QED BY <2>3, <2>4
<1> QED BY <1>2, <1>3

LEMMA ResolvingStep == Resolving /\ [Next]_vars => Resolving'
<1> SUFFICES ASSUME Resolving, [Next]_vars PROVE Resolving' OBVIOUS
<1> USE DEF Resolving
<1>1. UNCHANGED <<backend, file, config, flags>>
  BY DEF Next, ConfigIsNoMap, LooksForKey, TakesFromFile, TakesFromFlags, LoadsAndDerives,
         PrintsRange, Finishes, vars, given
<1>2. Given' BY <1>1 DEF Given
<1>3. Needed(backend)' = Needed(backend) BY <1>1
<1>4. ASSUME todo' = todo PROVE Looked'
  <2>1. \A k : Found(k)' = Found(k) BY <1>1 DEF Found, MayMiss
  <2> QED BY <1>4, <2>1 DEF Looked
<1>5. CASE ConfigIsNoMap
  BY <1>1, <1>2, <1>4, <1>5
  DEF ConfigIsNoMap, RoutesTypeOK, OneSource, RefusedForAReason, Resolved
<1>6. CASE LooksForKey
  <2>1. \/ outcome' = "resolving"
        \/ outcome' = "exit 1" /\ config[Head(todo)] = "missing" /\ ~MayMiss(Head(todo))
    BY <1>6 DEF LooksForKey
  <2>2. outcome = "resolving" /\ file = "map" /\ todo # <<>> /\ resolved' = resolved
    BY <1>6 DEF LooksForKey
  <2>3. Head(todo) \in Fields BY <2>2, TailsOfKeys DEF Looked, Fields
  <2>4. ~MayMiss(Head(todo)) => Head(todo) \in Needed(backend)
    BY <2>3 DEF MayMiss, Needed, Fields
  <2>5. RefusedForAReason' BY <1>1, <1>3, <2>1, <2>2, <2>4 DEF RefusedForAReason
  <2> QED
    BY <1>2, <1>6, <2>1, <2>2, <2>5, LookedStep DEF RoutesTypeOK, OneSource, Resolved
<1>7. CASE TakesFromFile
  <2>1. /\ outcome = "resolving" /\ file = "map" /\ todo = <<>> /\ todo' = todo
        /\ outcome' = Conversions
        /\ resolved' = [k \in Fields |->
             IF k \in Needed(backend) /\ outcome' = "loading" THEN "config" ELSE "none"]
    BY <1>7 DEF TakesFromFile
  <2>2. \A k \in Fields : Found(k) BY <2>1, TailsOfKeys DEF Looked
  <2>3. /\ outcome' \in {"threw", "exit 1", "loading"}
        /\ outcome' = "loading" <=> \A k \in Needed(backend) : config[k] = "good"
    BY <2>1, <2>2, ConversionsFail
  <2>4. RoutesTypeOK' BY <2>1, <2>3 DEF RoutesTypeOK
  <2>5. OneSource' BY <1>1, <1>3, <2>1, <2>3 DEF OneSource, Resolved
  <2>6. RefusedForAReason' BY <1>1, <1>3, <2>1, <2>3 DEF RefusedForAReason
  <2> QED BY <1>2, <1>4, <2>1, <2>4, <2>5, <2>6
<1>8. CASE TakesFromFlags
  <2>1. /\ outcome = "resolving" /\ file = "unused" /\ todo' = todo
        /\ resolved' = [k \in Fields |->
             IF k \in Needed(backend) /\ outcome' = "loading" THEN "flag" ELSE "none"]
    BY <1>8 DEF TakesFromFlags
  <2>2. /\ outcome' \in {"threw", "exit 1", "loading"}
        /\ outcome' = "loading" <=> \A k \in Needed(backend) : flags[k] = "good"
    BY <1>8, FlagsFail
  <2>3. RoutesTypeOK' BY <2>1, <2>2 DEF RoutesTypeOK
  <2>4. OneSource' BY <1>1, <1>3, <2>1, <2>2 DEF OneSource, Resolved
  <2>5. RefusedForAReason' BY <1>1, <1>3, <2>1, <2>2 DEF RefusedForAReason
  <2> QED BY <1>2, <1>4, <2>1, <2>3, <2>4, <2>5
<1>9. CASE LoadsAndDerives
  <2>1. /\ outcome = "loading" /\ outcome' \in {"not loaded", "exit 1", "printing"}
        /\ resolved' = resolved /\ todo' = todo
    BY <1>9 DEF LoadsAndDerives
  <2>2. resolved["waypoints"] \in {"flag", "config"} /\ "waypoints" \in Fields
    BY <2>1, NeededAre DEF OneSource, Resolved
  <2>3. RefusedForAReason' BY <2>1, <2>2 DEF RefusedForAReason
  <2>4. OneSource' BY <1>1, <1>3, <2>1 DEF OneSource, Resolved
  <2> QED BY <1>2, <1>4, <2>1, <2>3, <2>4 DEF RoutesTypeOK
<1>10. CASE PrintsRange \/ Finishes \/ UNCHANGED vars
  <2>1. /\ outcome' = outcome \/ (outcome = "printing" /\ outcome' = "exit 0")
        /\ resolved' = resolved /\ todo' = todo
    BY <1>10 DEF PrintsRange, Finishes, vars
  <2>2. RefusedForAReason' BY <1>1, <1>3, <2>1 DEF RefusedForAReason
  <2>3. OneSource' BY <1>1, <1>3, <2>1 DEF OneSource, Resolved
  <2> QED BY <1>2, <1>4, <2>1, <2>2, <2>3 DEF RoutesTypeOK
<1> QED BY <1>5, <1>6, <1>7, <1>8, <1>9, <1>10 DEF Next

LEMMA ResolvingHolds == Spec => []Resolving
BY ResolvingInit, ResolvingStep, PTL DEF Spec

(***************************************************************************)
(* RoutesTypeOK: nothing is taken before everything is there, and an       *)
(* exception of a conversion leaves nothing behind                         *)
(* (ResolveConfigFields() in maliput_derive_lane_s_routes.cc).             *)
(***************************************************************************)
THEOREM RoutesTypeCorrect == Spec => []RoutesTypeOK
BY ResolvingHolds, PTL DEF Resolving

(***************************************************************************)
(* OneSource. Looked strengthens it: waypoints that are missing pass the   *)
(* conversions, so that they are there is due to the loop over the keys.   *)
(***************************************************************************)
THEOREM SourceIsOne == Spec => []OneSource
BY ResolvingHolds, PTL DEF Resolving

(***************************************************************************)
(* RefusedForAReason: a key that may not miss is one the backend needs, and*)
(* the conversions look at no other.                                       *)
(***************************************************************************)
THEOREM RefusalsHaveReasons == Spec => []RefusedForAReason
BY ResolvingHolds, PTL DEF Resolving
-----------------------------------------------------------------------------
Printed == printed = <<>> \/ \E s0, s1 \in 0..Length : printed = <<s0, s1, Shown(s0, s1)>>

LEMMA WholeIfNotShown ==
  ASSUME NEW s0 \in 0..Length, NEW s1 \in 0..Length, ~Shown(s0, s1)
  PROVE  \/ s0 <= Tolerance /\ s1 >= Length - Tolerance
         \/ s1 <= Tolerance /\ s0 >= Length - Tolerance
BY RoutesAssumption DEF Shown, Abs

(***************************************************************************)
(* OmittedRangesAreWhole for lanes of any length and any tolerance:        *)
(* SerializeLaneSRoutes() compares lengths only, but a range as long as    *)
(* its lane, and inside it, has nowhere else to be.                        *)
(***************************************************************************)
THEOREM OmittedRangesWhole == Spec => []OmittedRangesAreWhole
<1>1. Init => Printed BY DEF Init, Printed
<1>2. Printed /\ [Next]_vars => Printed'
  <2> SUFFICES ASSUME Printed, [Next]_vars PROVE Printed' OBVIOUS
  <2>1. CASE PrintsRange BY <2>1 DEF PrintsRange, Printed
  <2>2. PrintsRange \/ printed' = printed
    BY DEF Next, ConfigIsNoMap, LooksForKey, TakesFromFile, TakesFromFlags, LoadsAndDerives,
           Finishes, vars
  <2> QED BY <2>1, <2>2 DEF Printed
<1>3. Printed => OmittedRangesAreWhole
  <2> SUFFICES ASSUME NEW s0 \in 0..Length, NEW s1 \in 0..Length,
                      printed = <<s0, s1, Shown(s0, s1)>>, ~printed[3]
               PROVE  \/ printed[1] <= Tolerance /\ printed[2] >= Length - Tolerance
                      \/ printed[2] <= Tolerance /\ printed[1] >= Length - Tolerance
    BY DEF OmittedRangesAreWhole, Printed
  <2>1. printed[1] = s0 /\ printed[2] = s1 OBVIOUS
  <2>2. ~Shown(s0, s1) OBVIOUS
  <2> QED BY <2>1, <2>2, WholeIfNotShown
<1> QED BY <1>1, <1>2, <1>3, PTL DEF Spec
=============================================================================
