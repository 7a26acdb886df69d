---------------------------- MODULE MaliputQuery ----------------------------
(***************************************************************************)
(* maliput_query (src/applications/maliput_query.cc): one question to one  *)
(* road network per run.  Three lists must agree on every command: its     *)
(* usage, which tells the user what to write; the number of arguments that *)
(* is checked; and the branch of Main() that reads them out of argv.       *)
(*                                                                         *)
(* An argument is not a string here.  All that matters of it is whether it *)
(* is odd: a negative number, or a word that names nothing (no lane, no    *)
(* end of a lane, ...).  Words that are no numbers are 0 to strtod().      *)
(***************************************************************************)
EXTENDS Naturals, Sequences, FiniteSets, SequencesExt

CONSTANTS
  MaxArgc,      \* bound: the longest command line
  MaxOdd,       \* bound: odd arguments in one command line
  SpeedLimits   \* the speed limits a lane may have, each a sequence by rule id

ASSUME QueryAssumption ==
  /\ MaxArgc \in Nat \ {0} /\ MaxOdd \in Nat
  /\ SpeedLimits \subseteq Seq(Nat)

\* Commands with the same arguments.
OnLanePosition == {"ToInertialPosition", "ToLanePosition", "ToSegmentPosition",
                   "GetOrientation"}
OnLaneEnd == {"GetConfluentBranches", "GetOngoingBranches"}
OnLaneRules == {"GetMaxSpeedLimit", "GetDirectionUsage"}
OnLaneRange == {"GetRightOfWay", "GetDiscreteValueRules", "GetRangeValueRules"}
OnBackends == {"GetMaliputBackendList", "GetMaliputBackendParameters"}

Commands ==
  OnBackends \cup OnLanePosition \cup OnLaneEnd \cup OnLaneRules \cup OnLaneRange
  \cup {"FindRoadPositions", "ToRoadPosition", "GetPhaseRightOfWay",
        "GetLaneBounds", "GetSegmentBounds", "GetLaneLength", "GetNumberOfLanes", "FindOverlappingLanesIn", "Route"}

\* What the parsers take from argv, word by word.
Position == <<"number", "number", "number">>
Range0 == <<"number", "number">>
Box == <<"size", "size", "size">> \o Position \o Position

\* Command::usage, what the user is told to write after the command.
Usage(c) ==
  CASE c \in {"GetMaliputBackendList", "GetNumberOfLanes"} -> <<>>
    [] c = "GetMaliputBackendParameters" -> <<"backend">>
    [] c = "FindRoadPositions" -> Position \o <<"size">>
    [] c = "ToRoadPosition" -> Position
    [] c \in OnLanePosition -> <<"lane">> \o Position
    [] c \in OnLaneEnd -> <<"lane", "end">>
    [] c \in OnLaneRules \cup {"GetLaneLength"} -> <<"lane">>
    [] c \in OnLaneRange -> <<"lane">> \o Range0
    [] c = "GetPhaseRightOfWay" -> <<"ring", "phase">>
    [] c = "GetLaneBounds" -> <<"lane", "size">>
    [] c = "GetSegmentBounds" -> <<"segment", "size">>
    [] c = "FindOverlappingLanesIn" -> <<"overlapping">> \o Box
    [] c = "Route" -> Box \o Box

\* Faulty variant: nobody counted the radius.
NumArgumentsShort(c) == IF c = "FindRoadPositions" THEN 4 ELSE Len(Usage(c)) + 1

\* Command::num_arguments, which counts the command itself.
NumArguments(c) ==
  CASE c \in {"GetMaliputBackendList", "GetNumberOfLanes"} -> 1
    [] c \in OnLaneRules \cup {"GetMaliputBackendParameters", "GetLaneLength"} -> 2
    [] c \in OnLaneEnd \cup {"GetPhaseRightOfWay", "GetLaneBounds", "GetSegmentBounds"} -> 3
    [] c \in OnLaneRange \cup {"ToRoadPosition"} -> 4
    [] c \in OnLanePosition \cup {"FindRoadPositions"} -> 5
    [] c = "FindOverlappingLanesIn" -> 11
    [] c = "Route" -> 19

\* Faulty variant: the radius is read where the position ends.
RadiusInPosition == << <<Position, 2>>, <<<<"size">>, 4>> >>

\* The branch of FindRoadPositions.
PositionAndRadius == << <<Position, 2>>, <<<<"size">>, 5>> >>

\* The branches of Main(): what each reads, from which index of argv on.
Branch(c) ==
  CASE c = "GetMaliputBackendList" -> <<>>
    [] c = "GetMaliputBackendParameters" -> << <<<<"backend">>, 2>> >>
    [] c = "FindRoadPositions" -> PositionAndRadius
    [] c = "ToRoadPosition" -> << <<Position, 2>> >>
    [] c \in OnLanePosition -> << <<<<"lane">>, 2>>, <<Position, 3>> >>
    [] c \in OnLaneEnd -> << <<<<"lane">>, 2>>, <<<<"end">>, 3>> >>
    [] c \in OnLaneRules \cup {"GetLaneLength"} -> << <<<<"lane">>, 2>> >>
    [] c \in OnLaneRange -> << <<<<"lane">> \o Range0, 2>> >>
    [] c = "GetPhaseRightOfWay" -> << <<<<"ring">>, 2>>, <<<<"phase">>, 3>> >>
    [] c = "GetLaneBounds" -> << <<<<"lane">>, 2>>, <<<<"size">>, 3>> >>
    [] c = "GetSegmentBounds" -> << <<<<"segment">>, 2>>, <<<<"size">>, 3>> >>
    [] c = "GetNumberOfLanes" -> <<>>
    [] c = "FindOverlappingLanesIn" -> << <<<<"overlapping">>, 2>>, <<Box, 3>> >>
    [] c = "Route" -> << <<Box, 3>>, <<Box, 3>> >>

VARIABLES
  command,   \* argv[1], or a word that is no command
  argc,
  odd,       \* the indices of argv that hold an odd argument
  limits,    \* the speed limits of the lane that is asked about
  flaw,      \* what is wrong with the road network, if anything
  parsers,   \* what the branch has yet to read
  taken,     \* history: what was read, each with its index in argv
  speed,     \* the speed limit that is reported, and its rule
  compared,  \* how many speed limits it was compared with
  outcome    \* "started", "loaded", or how the program ended

given == <<command, argc, odd, limits, flaw>>
search == <<speed, compared>>
vars == <<given, parsers, taken, search, outcome>>

Arguments == 2..(argc - 1)

\* What the usage calls the i-th word of argv.
UsedAs(i) == Usage(command)[i - 1]

Init ==
  /\ command \in Commands \cup {"gibberish"}
  /\ argc \in 1..MaxArgc
  /\ odd \in {some \in SUBSET Arguments : Cardinality(some) <= MaxOdd}
  /\ odd # {} => command \in Commands /\ argc = Len(Usage(command)) + 2
  /\ limits \in IF command = "GetMaxSpeedLimit" THEN SpeedLimits ELSE {<<>>}
  /\ flaw \in {"none", "dangling rule state", "unknown usage", "no branches"}
  /\ parsers = <<>> /\ taken = <<>> /\ speed = <<>> /\ compared = 0
  /\ outcome = "started"
-----------------------------------------------------------------------------
\* Faulty variant: only missing arguments are noticed.
NotTooFew ==
  /\ argc >= 2 /\ command \in Commands
  /\ argc >= NumArguments(command) + 1

\* A command of the table, with the right number of arguments.
Accepted ==
  /\ argc >= 2 /\ command \in Commands
  /\ argc = NumArguments(command) + 1

Refuses ==
  /\ outcome = "started" /\ ~Accepted
  /\ outcome' = "exit 1"
  /\ UNCHANGED <<given, parsers, taken, search>>

\* The commands on backends are answered without a road network; for the
\* others LoadRoadNetwork() comes first, and may fail.
Starts ==
  /\ outcome = "started" /\ Accepted
  /\ \/ outcome' = "reading" /\ parsers' = Branch(command)
     \/ command \notin OnBackends /\ outcome' = "not loaded" /\ parsers' = <<>>
  /\ UNCHANGED <<given, taken, search>>

\* The words a parser reads, each with its index in argv.
Words(words, at) == [j \in DOMAIN words |-> <<at + j - 1, words[j]>>]

\* How a parser ends: the end of a lane and the type of overlap are words of a
\* list; a negative size throws, or aborts where it is one of a box.
Parsed(words) ==
  LET OddAs(kind) == \E w \in ToSet(words) : w[1] \in odd /\ w[2] = kind
  IN  IF \E w \in ToSet(words) : w[1] >= argc THEN "undefined"
      ELSE IF OddAs("end") THEN "exit 1"
      ELSE IF OddAs("overlapping") THEN "aborted"
      ELSE IF OddAs("size") THEN IF Len(words) = Len(Box) THEN "aborted" ELSE "threw"
      ELSE "reading"

\* Faulty variant: a box is not asked whether its sizes are negative.
ReadsAnySize ==
  /\ outcome = "reading" /\ parsers # <<>>
  /\ LET words == Words(Head(parsers)[1], Head(parsers)[2])
     IN  /\ taken' = taken \o words
         /\ outcome' = IF Len(words) = Len(Box) THEN "reading" ELSE Parsed(words)
  /\ parsers' = Tail(parsers)
  /\ UNCHANGED <<given, search>>

\* One *FromCLI() call of the branch.
Reads ==
  /\ outcome = "reading" /\ parsers # <<>>
  /\ LET words == Words(Head(parsers)[1], Head(parsers)[2])
     IN  /\ taken' = taken \o words
         /\ outcome' = Parsed(words)
  /\ parsers' = Tail(parsers)
  /\ UNCHANGED <<given, search>>

\* Everything is read; the query is made.
Asks(commands) ==
  /\ outcome = "reading" /\ parsers = <<>> /\ command \in commands
  /\ UNCHANGED <<given, parsers, taken>>

\* An id that was read is not the id of anything.
NamesNothing ==
  \E j \in DOMAIN taken :
    taken[j][1] \in odd
    /\ taken[j][2] \in {"backend", "lane", "segment", "ring", "phase"}

\* The list of backends, and the parameters of one.
AsksForBackends ==
  /\ Asks(OnBackends)
  /\ outcome' = IF NamesNothing THEN "not found" ELSE "answered"
  /\ UNCHANGED search

\* Questions to the road geometry, which may throw for coordinates outside.
AsksForPosition ==
  /\ Asks({"FindRoadPositions", "ToRoadPosition"})
  /\ outcome' \in {"answered", "threw"}
  /\ UNCHANGED search

AsksForNumber ==
  /\ Asks({"GetNumberOfLanes"})
  /\ outcome' = "answered"
  /\ UNCHANGED search

\* Questions about boxes: one is compared with the lanes, or two are connected.
AsksAboutBoxes ==
  /\ Asks({"FindOverlappingLanesIn", "Route"})
  /\ outcome' \in {"answered", "threw"}
  /\ UNCHANGED search

\* Questions to a lane, which is looked up first.
AsksLane ==
  /\ Asks(OnLanePosition)
  /\ IF NamesNothing THEN outcome' = "not found" ELSE outcome' \in {"answered", "threw"}
  /\ UNCHANGED search

\* MALIPUT_THROW_UNLESS(lane_end_set != nullptr)
AsksLaneEnd ==
  /\ Asks(OnLaneEnd)
  /\ outcome' = IF NamesNothing THEN "not found"
                ELSE IF flaw = "no branches" THEN "threw" ELSE "answered"
  /\ UNCHANGED search

\* The bounds of a lane, or of a segment, at an s it may not have.
AsksForBounds ==
  /\ Asks({"GetLaneBounds", "GetSegmentBounds"})
  /\ IF NamesNothing THEN outcome' = "not found" ELSE outcome' \in {"answered", "threw"}
  /\ UNCHANGED search

\* GetLaneLength(): the length is read before the pointer is looked at.
AsksForLength ==
  /\ Asks({"GetLaneLength"})
  /\ outcome' = IF NamesNothing THEN "undefined" ELSE "answered"
  /\ UNCHANGED search

\* GetMaxSpeedLimit(); FindRulesFor() finds no rules for a lane it cannot find.
\* Where there are rules the search starts with the limit of the first.
AsksForSpeedLimit ==
  /\ Asks({"GetMaxSpeedLimit"})
  /\ outcome' = IF NamesNothing THEN "not found"
                ELSE IF limits = <<>> THEN "answered" ELSE "comparing"
  /\ speed' = IF outcome' = "comparing" THEN <<limits[1], 1>> ELSE speed
  /\ UNCHANGED compared

\* Faulty variant: the limit is not updated together with its rule.
KeepsFirstLimit(best, id) == IF limits[id] < best[1] THEN <<best[1], id>> ELSE best

\* The body of the loop over the rules: the lower limit of the two.
LowerLimit(best, id) == IF limits[id] < best[1] THEN <<limits[id], id>> ELSE best

\* The loop, which comes to all the rules, the first one included.
ComparesLimit ==
  /\ outcome = "comparing" /\ compared < Len(limits)
  /\ compared' = compared + 1
  /\ speed' = LowerLimit(speed, compared')
  /\ UNCHANGED <<given, parsers, taken, outcome>>

ReportsLimit ==
  /\ outcome = "comparing" /\ compared = Len(limits)
  /\ outcome' = "answered"
  /\ UNCHANGED <<given, parsers, taken, search>>

\* GetDirectionUsage() stops at a usage it has no name for.
AsksForDirection ==
  /\ Asks({"GetDirectionUsage"})
  /\ outcome' = IF NamesNothing THEN "not found"
                ELSE IF flaw = "unknown usage" THEN "invalid usage" ELSE "answered"
  /\ UNCHANGED search

\* The rules on a part of a lane: a lane that is not there has none.
AsksForRules ==
  /\ Asks(OnLaneRange)
  /\ \/ outcome' = "answered"
     \/ /\ command = "GetRightOfWay" /\ flaw = "dangling rule state" /\ ~NamesNothing
        /\ outcome' = "aborted"
  /\ UNCHANGED search

\* GetPhaseRightOfWay(): the ring, then its phase; a rule or a state that the
\* phase names and the rulebook does not have makes a lookup throw.
AsksForPhase ==
  /\ Asks({"GetPhaseRightOfWay"})
  /\ IF NamesNothing THEN outcome' = "not found"
     ELSE outcome' \in {"answered"} \cup IF flaw = "dangling rule state" THEN {"threw"} ELSE {}
  /\ UNCHANGED search

Next ==
  \/ Refuses \/ Starts \/ Reads
  \/ AsksForBackends \/ AsksForPosition \/ AsksForNumber \/ AsksAboutBoxes
  \/ AsksLane \/ AsksLaneEnd \/ AsksForBounds \/ AsksForLength
  \/ AsksForSpeedLimit \/ ComparesLimit \/ ReportsLimit
  \/ AsksForDirection \/ AsksForRules \/ AsksForPhase

Spec == Init /\ [][Next]_vars
-----------------------------------------------------------------------------
\* argv was read as the usage says: from left to right, each word once, each
\* for what the user was told to write there.
ReadAsUsage == taken = [j \in DOMAIN Usage(command) |-> <<j + 1, Usage(command)[j]>>]

\* The arguments that the usage does not allow.
Wrong == {i \in odd : UsedAs(i) # "number"}

(***************************************************************************)
(* Types of the variables; nothing is read out of a command line that is   *)
(* refused for its length.                                                 *)
(***************************************************************************)
QueryTypeOK ==
  /\ odd \subseteq Arguments
  /\ \A j \in DOMAIN taken : taken[j][1] \in Arguments \/ outcome = "undefined"
  /\ taken # <<>> => command \in Commands /\ argc = NumArguments(command) + 1
  /\ speed # <<>> => /\ command = "GetMaxSpeedLimit"
                     /\ outcome \in {"comparing", "answered"} /\ speed[2] \in DOMAIN limits
  /\ outcome \in {"started", "reading", "not loaded", "exit 1", "threw", "aborted",
                  "undefined", "invalid usage", "not found", "comparing", "answered"}

(***************************************************************************)
(* Usage, number of arguments and branch agree on every command but Route: *)
(* what is answered is the question that was written.                      *)
(***************************************************************************)
ArgvAsUsage == outcome = "answered" /\ command # "Route" => ReadAsUsage

(***************************************************************************)
(* A wrong argument is never answered as if it were right, and is no       *)
(* undefined behaviour either; except that a part of a lane that does not  *)
(* exist is one without rules, and Route and GetLaneLength, see below.     *)
(***************************************************************************)
WrongIsReported ==
  command \notin OnLaneRange \cup {"Route", "GetLaneLength"} /\ Wrong # {} =>
    outcome \notin {"answered", "undefined"}

(***************************************************************************)
(* No parser runs past argv and no query uses what it did not find, with   *)
(* one exception: GetLaneLength, when the lane it is asked for is wrong.   *)
(***************************************************************************)
UndefinedHasReason == outcome = "undefined" => command = "GetLaneLength" /\ Wrong # {}

(***************************************************************************)
(* Conversely a command line that follows the usage is never refused, and  *)
(* on a road network without flaws it ends in an answer, unless the        *)
(* network cannot be loaded or the backend throws.                         *)
(***************************************************************************)
RightIsAnswered ==
  /\ command \in Commands \ {"Route"} /\ argc = Len(Usage(command)) + 2
  /\ Wrong = {} /\ flaw = "none"
  => outcome \in {"started", "reading", "not loaded", "threw", "comparing", "answered"}

(***************************************************************************)
(* The speed limit that is reported is the one that binds: it is the limit *)
(* of the rule it is reported with, and no rule of the lane has a lower    *)
(* one.                                                                    *)
(***************************************************************************)
TightestLimit ==
  outcome = "answered" /\ limits # <<>> =>
    /\ speed[1] = limits[speed[2]]
    /\ \A id \in DOMAIN limits : speed[1] <= limits[id]

(***************************************************************************)
(* "Obtains the route from a bounding box of size [box_length_1, ...] to a *)
(* bounding box of size [box_length_2, ...]": Route reads the two boxes    *)
(* its usage asks for.                                                     *)
(***************************************************************************)
RouteAsUsage == outcome = "answered" /\ command = "Route" => ReadAsUsage

(***************************************************************************)
(* "Could not find lane.": the length of a lane that is not there is       *)
(* reported as that.                                                       *)
(***************************************************************************)
NoLaneNoLength == command = "GetLaneLength" => outcome # "undefined"
=============================================================================
