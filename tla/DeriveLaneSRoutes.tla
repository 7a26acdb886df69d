-------------------------- MODULE DeriveLaneSRoutes --------------------------
(***************************************************************************)
(* maliput_derive_lane_s_routes (src/applications/                         *)
(* maliput_derive_lane_s_routes.cc): takes the file of the roads, two way- *)
(* points and a maximum length from a YAML file or, if there is none, from *)
(* the flags; loads the road network, derives the routes between the way-  *)
(* points and prints them, a part of a lane with its range.                *)
(***************************************************************************)
EXTENDS Integers, Sequences

CONSTANTS
  Length,      \* the length of the lanes, a small number of units
  Tolerance    \* kDistanceTolerance, in the same units

ASSUME RoutesAssumption == Length \in Nat \ {0} /\ Tolerance \in Nat

Backends == {"dragway", "multilane", "malidrive", "osm"}
Fields == {"xodr_file", "yaml_file", "max_length", "waypoints"}

VARIABLES
  backend,    \* --maliput_backend
  file,       \* what --config_file is: "unused", "unreadable", "no map", "map"
  config,     \* what each field of that map holds
  flags,      \* what the flags hold for each field
  resolved,   \* the source of each field that main() goes on with
  todo,       \* the keys of the map that are still to be looked for
  printed,    \* the range that was printed last: its ends, and if they are shown
  outcome     \* "resolving", "loading", "printing", or how the program ended

given == <<backend, file, config, flags>>
vars == <<given, resolved, todo, printed, outcome>>

\* The fields a backend cannot do without.
Needed(b) ==
  {"max_length", "waypoints"}
    \cup (IF b = "malidrive" THEN {"xodr_file"} ELSE {})
    \cup (IF b = "multilane" THEN {"yaml_file"} ELSE {})

\* A field is missing, of the wrong type, or usable; the waypoints of a file
\* may also be no sequence at all, or not two.  The two flags for waypoints
\* count as one field: the first that is not good decides.
Init ==
  /\ backend \in Backends
  /\ file \in {"unused", "unreadable", "no map", "map"}
  /\ config \in [Fields -> {"missing", "bad", "good", "no sequence", "not two"}]
  /\ \A k \in Fields : config[k] \in {"no sequence", "not two"} => k = "waypoints"
  /\ file # "map" => config = [k \in Fields |-> "missing"]
  /\ flags \in [Fields -> {"missing", "bad", "good"}]
  /\ \A k \in Fields : flags[k] = "bad" => k = "waypoints"
  /\ flags["max_length"] = "good"
  /\ resolved = [k \in Fields |-> "none"]
  /\ todo = <<"xodr_file", "max_length", "waypoints", "yaml_file">>
  /\ printed = <<>>
  /\ outcome = "resolving"
-----------------------------------------------------------------------------
\* YAML::LoadFile() throws; a root that is no map is refused.
ConfigIsNoMap ==
  /\ outcome = "resolving" /\ file \in {"unreadable", "no map"}
  /\ outcome' = IF file = "unreadable" THEN "threw" ELSE "exit 1"
  /\ UNCHANGED <<given, resolved, todo, printed>>

\* Faulty variant: the backends of the two files are mixed up.
OtherFileMayMiss(k) ==
  \/ k = "xodr_file" /\ backend # "multilane"
  \/ k = "yaml_file" /\ backend # "malidrive"

\* if (key == kXodrFileKey && maliput_implementation != kMalidrive), and so on
MayMiss(k) ==
  \/ k = "xodr_file" /\ backend # "malidrive"
  \/ k = "yaml_file" /\ backend # "multilane"

LooksForKey ==
  /\ outcome = "resolving" /\ file = "map" /\ todo # <<>>
  /\ IF config[Head(todo)] = "missing" /\ ~MayMiss(Head(todo))
       THEN outcome' = "exit 1" /\ UNCHANGED todo
       ELSE todo' = Tail(todo) /\ UNCHANGED outcome
  /\ UNCHANGED <<given, resolved, printed>>

\* Where the conversions of the file, in their order, first fail.
Conversions ==
  IF \E k \in Needed(backend) \ {"waypoints"} : config[k] \in {"bad", "missing"} THEN "threw"
  ELSE CASE config["waypoints"] \in {"no sequence", "not two"} -> "exit 1"
         [] config["waypoints"] = "bad" -> "threw"
         [] OTHER -> "loading"

\* Faulty variant: a flag replaces the field of the file.
FlagsWin ==
  /\ outcome = "resolving" /\ file = "map" /\ todo = <<>>
  /\ outcome' = Conversions
  /\ resolved' = [k \in Fields |->
       IF k \notin Needed(backend) \/ outcome' # "loading" THEN "none"
       ELSE IF k # "max_length" /\ flags[k] = "good" THEN "flag" ELSE "config"]
  /\ UNCHANGED <<given, todo, printed>>

\* The keys are there: the fields are taken from the file.
TakesFromFile ==
  /\ outcome = "resolving" /\ file = "map" /\ todo = <<>>
  /\ outcome' = Conversions
  /\ resolved' = [k \in Fields |->
       IF k \in Needed(backend) /\ outcome' = "loading" THEN "config" ELSE "none"]
  /\ UNCHANGED <<given, todo, printed>>

\* No file: the flags must hold everything; Vector3::FromStr() may throw.
TakesFromFlags ==
  /\ outcome = "resolving" /\ file = "unused"
  /\ outcome' = IF \E k \in Needed(backend) : flags[k] = "missing" THEN "exit 1"
                ELSE IF flags["waypoints"] = "bad" THEN "threw" ELSE "loading"
  /\ resolved' = [k \in Fields |->
       IF k \in Needed(backend) /\ outcome' = "loading" THEN "flag" ELSE "none"]
  /\ UNCHANGED <<given, todo, printed>>

\* Faulty variant: nobody asks whether there is a route.
TakesFirstRoute ==
  /\ outcome = "loading"
  /\ outcome' \in {"not loaded", "undefined", "printing"}
  /\ UNCHANGED <<given, resolved, todo, printed>>

\* LoadRoadNetwork() and DeriveLaneSRoutes(): there may be no route.
LoadsAndDerives ==
  /\ outcome = "loading"
  /\ outcome' \in {"not loaded", "exit 1", "printing"}
  /\ UNCHANGED <<given, resolved, todo, printed>>

Abs(n) == IF n < 0 THEN -n ELSE n

\* Faulty variant: the outer std::abs() is missing.
ShownIfLonger(s0, s1) == Abs(s1 - s0) - Length > Tolerance

\* A range is shown unless it is as long as its lane.
Shown(s0, s1) == Abs(Abs(s1 - s0) - Length) > Tolerance

\* SerializeLaneSRoutes(), one lane of a route.
PrintsRange ==
  /\ outcome = "printing"
  /\ \E s0, s1 \in 0..Length : printed' = <<s0, s1, Shown(s0, s1)>>
  /\ UNCHANGED <<given, resolved, todo, outcome>>

Finishes ==
  /\ outcome = "printing" /\ printed # <<>>
  /\ outcome' = "exit 0"
  /\ UNCHANGED <<given, resolved, todo, printed>>

Next ==
  \/ ConfigIsNoMap \/ LooksForKey \/ TakesFromFile \/ TakesFromFlags
  \/ LoadsAndDerives \/ PrintsRange \/ Finishes

Spec == Init /\ [][Next]_vars
-----------------------------------------------------------------------------
Resolved == outcome \in {"loading", "printing", "not loaded", "exit 0"}

(***************************************************************************)
(* Types of the variables; nothing is taken before everything is there.    *)
(***************************************************************************)
RoutesTypeOK ==
  /\ outcome \in {"resolving", "loading", "printing", "threw", "exit 1", "not loaded", "exit 0"}
  /\ \A k \in Fields : resolved[k] \in {"none", "config", "flag"}
  /\ outcome \in {"resolving", "threw"} => \A k \in Fields : resolved[k] = "none"

(***************************************************************************)
(* "The configuration file method will be prioritized when flags are mixed *)
(* up": the fields the backend needs all come from one source, the file if *)
(* there is one; in that source each of them is there and usable.          *)
(***************************************************************************)
OneSource ==
  LET source == IF file = "unused" THEN "flag" ELSE "config"
      held == IF file = "unused" THEN flags ELSE config
  IN  Resolved =>
        \A k \in Fields :
          IF k \in Needed(backend) THEN resolved[k] = source /\ held[k] = "good"
                                   ELSE resolved[k] = "none"

(***************************************************************************)
(* A configuration that is refused had something missing or unusable among *)
(* the fields the backend needs; it does not matter what is wrong with the *)
(* fields of other backends, nor, with a file, with the flags.             *)
(***************************************************************************)
RefusedForAReason ==
  LET held == IF file = "unused" THEN flags ELSE config
  IN  (outcome \in {"threw", "exit 1"} /\ \A k \in Fields : resolved[k] = "none") =>
        file \in {"unreadable", "no map"} \/ \E k \in Needed(backend) : held[k] # "good"

(***************************************************************************)
(* A lane that is printed without its range is driven from one end to the  *)
(* other, each to within the tolerance.                                    *)
(***************************************************************************)
OmittedRangesAreWhole ==
  printed # <<>> /\ ~printed[3] =>
    \/ printed[1] <= Tolerance /\ printed[2] >= Length - Tolerance
    \/ printed[2] <= Tolerance /\ printed[1] >= Length - Tolerance

(***************************************************************************)
(* "If a xodr_file_path(gflag) is provided then the xodr file path         *)
(* described in the config_file is discarded."                             *)
(***************************************************************************)
FlagDiscardsConfig ==
  Resolved /\ backend = "malidrive" /\ flags["xodr_file"] = "good" =>
    resolved["xodr_file"] = "flag"
=============================================================================
