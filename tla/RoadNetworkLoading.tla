------------------------- MODULE RoadNetworkLoading -------------------------
(***************************************************************************)
(* LoadRoadNetwork() (src/integration/tools.{h,cc}) and the flags that all *)
(* applications pass to it (src/applications/maliput_gflags.h). The flags  *)
(* become positional members of one property struct per backend, the       *)
(* members become keys of the configuration of the selected backend, and   *)
(* for each file the file system is asked whether the backend's resource   *)
(* directory has it. Then the backend opens what it was told.              *)
(*                                                                         *)
(* The file system is shared with everybody else: files come and go        *)
(* between the question and the moment the backend opens the file. A path  *)
(* is a pair: the name as it was given, or below the resource directory of *)
(* the backend. The value of a flag is one the user gave or the default.   *)
(***************************************************************************)
EXTENDS Naturals, Sequences, SequencesExt

CONSTANTS
  Backends,        \* the values of --maliput_backend that are considered
  Names,           \* file names
  AbsoluteNames,   \* those that are absolute paths
  NoName,          \* the empty string
  FileFlags,       \* the file flags that may be given
  ValueFlags,      \* the number and policy flags that may be given
  MaxFileChanges   \* bound: how often a file appears or disappears

ASSUME LoadingAssumption ==
  /\ AbsoluteNames \subseteq Names /\ NoName \notin Names
  /\ MaxFileChanges \in Nat

VARIABLES
  backend,   \* --maliput_backend
  named,     \* the file each file flag of the backend names, or NoName
  set,       \* the number and policy flags of the backend that are given
  files,     \* the paths of the files that exist and can be read
  config,    \* the configuration: what each key got
  todo,      \* the keys of the files that are still to be looked at
  unopened,  \* the keys of the files the backend has not opened yet
  outcome,   \* of LoadRoadNetwork(): "idle" before the call, then "pending"
  changes,   \* history: how often a file appeared or disappeared
  always,    \* history: the paths that existed all the time
  ever       \* history: the paths that existed at some time

fileVars == <<files, changes, always, ever>>
flagVars == <<backend, named, set>>
loadVars == <<config, todo, unopened, outcome>>
vars == <<flagVars, loadVars, fileVars>>

KnownBackends == {"dragway", "multilane", "malidrive", "osm"}
Books == <<"rule_registry_file", "road_rule_book_file", "traffic_light_book_file",
           "phase_ring_book_file", "intersection_book_file">>

\* The flags that are there for each backend.
CommonFlags == {"linear_tolerance", "angular_tolerance"} \cup ToSet(Books)
Understood(b) ==
  CASE b = "dragway"   -> {"num_lanes", "length", "lane_width", "shoulder_width", "maximum_height"}
    [] b = "multilane" -> {"yaml_file"}
    [] b = "malidrive" -> CommonFlags \cup
         {"xodr_file_path", "max_linear_tolerance", "build_policy", "num_threads",
          "simplification_policy", "standard_strictness_policy", "omit_nondrivable_lanes"}
    [] b = "osm" -> CommonFlags \cup {"osm_file", "origin"}
    [] OTHER -> {}

\* The flags an application passes, in the order of its call.
FlagsPassed ==
  [dragway |-> <<"num_lanes", "length", "lane_width", "shoulder_width", "maximum_height">>,
   multilane |-> <<"yaml_file">>,
   malidrive |-> <<"xodr_file_path", "linear_tolerance", "max_linear_tolerance",
                   "build_policy", "num_threads", "simplification_policy",
                   "standard_strictness_policy", "omit_nondrivable_lanes">> \o Books,
   osm |-> <<"osm_file", "linear_tolerance", "angular_tolerance", "origin">> \o Books]

\* Faulty variant: two members of a struct change places, the calls do not.
MembersSwapped ==
  [FlagsPassed EXCEPT !.malidrive[2] = "max_linear_tolerance",
                      !.malidrive[3] = "linear_tolerance", !.malidrive[5] = "number_of_threads"]

\* The members of the property structs, in the order of their declaration.
Members ==
  [dragway |-> <<"num_lanes", "length", "lane_width", "shoulder_width", "maximum_height">>,
   multilane |-> <<"yaml_file">>,
   malidrive |-> <<"xodr_file_path", "linear_tolerance", "max_linear_tolerance",
                   "build_policy", "number_of_threads", "simplification_policy",
                   "standard_strictness_policy", "omit_nondrivable_lanes">> \o Books,
   osm |-> <<"osm_file", "linear_tolerance", "angular_tolerance", "origin">> \o Books]

\* The flag whose value a member has.
FlagOf(b, member) ==
  FlagsPassed[b][CHOOSE i \in DOMAIN Members[b] : Members[b][i] = member]

\* The members the values of the backends are taken from. What a backend gets
\* besides (identifier, scale length, translation, and the angular tolerance
\* of malidrive) is a constant of the code.
ValueKeys ==
  [dragway |-> [num_lanes |-> "num_lanes", length |-> "length", lane_width |-> "lane_width",
                shoulder_width |-> "shoulder_width", maximum_height |-> "maximum_height"],
   multilane |-> <<>>,
   malidrive |-> [linear_tolerance |-> "linear_tolerance",
                  max_linear_tolerance |-> "max_linear_tolerance",
                  build_policy |-> "build_policy", num_threads |-> "number_of_threads",
                  simplification_policy |-> "simplification_policy",
                  standard_strictness_policy |-> "standard_strictness_policy",
                  omit_nondrivable_lanes |-> "omit_nondrivable_lanes"],
   osm |-> [linear_tolerance |-> "linear_tolerance",
            angular_tolerance |-> "angular_tolerance", origin |-> "origin"]]

\* The keys that are there only if the flag is given: Get...ToleranceFlag()
\* ask gflags, and the number of threads only counts when it is not zero.
OptionalValues(b) ==
  IF b = "malidrive" THEN {"linear_tolerance", "max_linear_tolerance", "num_threads"} ELSE {}

\* The members that name files.
BookMember ==
  [rule_registry |-> "rule_registry_file", road_rule_book |-> "road_rule_book_file",
   traffic_light_book |-> "traffic_light_book_file",
   phase_ring_book |-> "phase_ring_book_file",
   intersection_book |-> "intersection_book_file"]
MainMember ==
  [opendrive_file |-> "xodr_file_path", osm_file |-> "osm_file", yaml_file |-> "yaml_file"]
MemberOf(key) == IF key \in DOMAIN MainMember THEN MainMember[key] ELSE BookMember[key]

\* The keys of the files, in the order in which the code emplaces them.
BookKeys == <<"rule_registry", "road_rule_book", "traffic_light_book",
              "phase_ring_book", "intersection_book">>
FileKeyTable ==
  [dragway |-> <<>>, multilane |-> <<"yaml_file">>,
   malidrive |-> <<"opendrive_file">> \o BookKeys, osm |-> <<"osm_file">> \o BookKeys]
FileKeys(b) == IF b \in KnownBackends THEN FileKeyTable[b] ELSE <<>>
AllFileKeys == DOMAIN MainMember \cup DOMAIN BookMember

\* The file flags are those whose members name files, and nothing else is.
ASSUME FlagAssumption ==
  LET memberFlags == {MemberOf(key) : key \in AllFileKeys}
  IN  FileFlags \subseteq memberFlags /\ ValueFlags \cap memberFlags = {}

AsGiven(n) == <<"given", n>>
InRoot(n) == <<"resource", n>>
Paths == {AsGiven(n) : n \in Names} \cup {InRoot(n) : n \in Names}
Value(flag) == IF flag \in set THEN <<"set", flag>> ELSE <<"default", flag>>
NameFor(key) ==
  LET flag == FlagOf(backend, MemberOf(key))
  IN  IF flag \in DOMAIN named THEN named[flag] ELSE NoName

Init ==
  /\ backend \in Backends
  /\ named \in [FileFlags \cap Understood(backend) -> Names \cup {NoName}]
  /\ set \in SUBSET (ValueFlags \cap (Understood(backend) \cup {"origin"}))
  /\ files \in SUBSET Paths
  /\ config = <<>> /\ todo = <<>> /\ unopened = {} /\ outcome = "idle"
  /\ changes = 0 /\ always = files /\ ever = files
-----------------------------------------------------------------------------
Ends(how) == outcome' = how /\ UNCHANGED <<flagVars, config, todo, unopened, fileVars>>

\* Faulty variant: an unknown backend yields a null pointer.
UnknownReturnsNull ==
  /\ outcome = "idle" /\ backend \notin KnownBackends
  /\ Ends("null")

\* StringToMaliputImplementation() aborts.
UnknownBackend ==
  /\ outcome = "idle" /\ backend \notin KnownBackends
  /\ Ends("aborted")

\* The properties of all backends are built whichever is selected, and
\* Vector2::FromStr() throws if --origin is no vector.
OriginIsNoVector ==
  /\ outcome = "idle" /\ backend \in KnownBackends /\ "origin" \in set
  /\ Ends("threw")

\* The backend is selected and its values are emplaced. They come before,
\* between and after the files, but nobody can see the order.
Call ==
  /\ outcome = "idle" /\ backend \in KnownBackends
  /\ LET flag(key) == FlagOf(backend, ValueKeys[backend][key])
         there == {key \in DOMAIN ValueKeys[backend] :
                     key \in OptionalValues(backend) => flag(key) \in set}
     IN  config' = [key \in there |-> Value(flag(key))]
  /\ todo' = FileKeys(backend)
  /\ outcome' = "pending"
  /\ UNCHANGED <<flagVars, unopened, fileVars>>

\* The file that describes the roads must be named: MALIPUT_ABORT_MESSAGE in
\* one backend, MALIPUT_VALIDATE in the others.
MainFileMissing ==
  /\ outcome = "pending" /\ todo # <<>>
  /\ Head(todo) \in DOMAIN MainMember /\ NameFor(Head(todo)) = NoName
  /\ Ends(IF backend = "multilane" THEN "aborted" ELSE "threw")

\* if (!build_properties.rule_registry_file.empty()), and so on
SkipBook ==
  /\ outcome = "pending" /\ todo # <<>>
  /\ Head(todo) \in DOMAIN BookMember /\ NameFor(Head(todo)) = NoName
  /\ todo' = Tail(todo)
  /\ UNCHANGED <<flagVars, config, unopened, outcome, fileVars>>

\* GetFilePathFromEnv() refuses absolute paths; the other backends prefix the
\* name with a relative directory before they call it.
RefusesAbsolute ==
  /\ outcome = "pending" /\ todo # <<>>
  /\ backend = "multilane" /\ NameFor(Head(todo)) \in AbsoluteNames
  /\ Ends("threw")

\* Faulty variants of GetResource(): the working directory is asked first;
\* nobody asks whether the file exists.
GivenFirst(n) == IF AsGiven(n) \in files THEN AsGiven(n) ELSE InRoot(n)
RootUnasked(n) == InRoot(n)

\* GetResource(): the resource directory is asked first.
GetResource(n) == IF InRoot(n) \in files THEN InRoot(n) ELSE AsGiven(n)

\* Faulty variant: the main file is passed under all the keys.
EmplaceMain ==
  /\ outcome = "pending" /\ todo # <<>>
  /\ NameFor(Head(todo)) # NoName
  /\ ~(backend = "multilane" /\ NameFor(Head(todo)) \in AbsoluteNames)
  /\ config' = [k \in DOMAIN config \cup {Head(todo)} |->
                  IF k # Head(todo) THEN config[k]
                  ELSE GetResource(NameFor(Head(FileKeys(backend))))]
  /\ unopened' = unopened \cup {Head(todo)}
  /\ todo' = Tail(todo)
  /\ UNCHANGED <<flagVars, outcome, fileVars>>

EmplaceFile ==
  /\ outcome = "pending" /\ todo # <<>>
  /\ NameFor(Head(todo)) # NoName
  /\ ~(backend = "multilane" /\ NameFor(Head(todo)) \in AbsoluteNames)
  /\ config' = [k \in DOMAIN config \cup {Head(todo)} |->
                  IF k = Head(todo) THEN GetResource(NameFor(k)) ELSE config[k]]
  /\ unopened' = unopened \cup {Head(todo)}
  /\ todo' = Tail(todo)
  /\ UNCHANGED <<flagVars, outcome, fileVars>>

\* The backend opens the files it was told, in an order of its own.
BackendOpens ==
  /\ outcome = "pending" /\ todo = <<>>
  /\ \E k \in unopened : config[k] \in files /\ unopened' = unopened \ {k}
  /\ UNCHANGED <<flagVars, config, todo, outcome, fileVars>>

\* It throws when one is not there, or does not like a value it was given.
BackendRefuses ==
  /\ outcome = "pending" /\ todo = <<>>
  /\ \/ \E k \in unopened : config[k] \notin files
     \/ set # {}
  /\ Ends("threw")

BackendLoads ==
  /\ outcome = "pending" /\ todo = <<>> /\ unopened = {}
  /\ Ends("loaded")

\* Whoever asked for the network lets it go, and may ask again.
Discard ==
  /\ outcome = "loaded" /\ outcome' = "idle" /\ config' = <<>>
  /\ UNCHANGED <<flagVars, todo, unopened, fileVars>>

\* Somebody else creates or deletes a file.
FileChanges ==
  /\ changes < MaxFileChanges
  /\ \E p \in Paths :
       files' = IF p \in files THEN files \ {p} ELSE files \cup {p}
  /\ changes' = changes + 1
  /\ always' = always \cap files' /\ ever' = ever \cup files'
  /\ UNCHANGED <<flagVars, loadVars>>

LoadRoadNetwork ==
  \/ UnknownBackend \/ OriginIsNoVector \/ Call \/ MainFileMissing \/ SkipBook
  \/ RefusesAbsolute \/ EmplaceFile \/ BackendOpens \/ BackendRefuses \/ BackendLoads

Next == LoadRoadNetwork \/ Discard \/ FileChanges

Spec == Init /\ [][Next]_vars
-----------------------------------------------------------------------------
(***************************************************************************)
(* Types of the variables; the program gets a road network, an exception   *)
(* or is aborted, and never anything else.                                 *)
(***************************************************************************)
LoadTypeOK ==
  /\ backend \in Backends
  /\ named \in [FileFlags \cap Understood(backend) -> Names \cup {NoName}]
  /\ set \subseteq ValueFlags
  /\ files \subseteq Paths /\ always \subseteq files /\ files \subseteq ever /\ ever \subseteq Paths
  /\ unopened \subseteq DOMAIN config \cap AllFileKeys
  /\ \A k \in DOMAIN config \cap AllFileKeys : config[k] \in Paths
  /\ outcome \in {"idle", "pending", "loaded", "threw", "aborted"}

\* The name under which a backend knows a flag, and what it may be told.
KeyOf(flag) ==
  IF \E k \in AllFileKeys : MemberOf(k) = flag
  THEN CHOOSE k \in AllFileKeys : MemberOf(k) = flag ELSE flag
Requested(flag) ==
  \/ flag \in set
  \/ flag \in DOMAIN named /\ named[flag] # NoName
Answers(flag) ==
  IF flag \in DOMAIN named THEN {AsGiven(named[flag]), InRoot(named[flag])}
  ELSE {<<"set", flag>>}

(***************************************************************************)
(* A road network that is loaded is the one that was asked for: whatever   *)
(* positions its flags took on the way, the backend was told every file    *)
(* and every value that was given for it under the key of that flag (but   *)
(* malidrive is never told the angular tolerance), and everything else it  *)
(* was told is a default.                                                  *)
(***************************************************************************)
ConfigIsRequest ==
  outcome = "loaded" =>
    /\ \A flag \in Understood(backend) :
         Requested(flag) /\ ~(backend = "malidrive" /\ flag = "angular_tolerance") =>
           /\ KeyOf(flag) \in DOMAIN config
           /\ config[KeyOf(flag)] \in Answers(flag)
    /\ \A k \in DOMAIN config : \E flag \in Understood(backend) :
         /\ KeyOf(flag) = k
         /\ config[k] = <<"default", flag>> \/ (Requested(flag) /\ config[k] \in Answers(flag))

(***************************************************************************)
(* Whoever touches the files meanwhile: a file that is in the resource     *)
(* directory all the time is the one that is used, and one that is never   *)
(* there never is.                                                         *)
(***************************************************************************)
ResourcesFirst ==
  \A k \in DOMAIN config \cap AllFileKeys :
    /\ InRoot(NameFor(k)) \in always => config[k] = InRoot(NameFor(k))
    /\ InRoot(NameFor(k)) \notin ever => config[k] = AsGiven(NameFor(k))

\* Each file named for the backend is there, as it was named or as a resource.
Available ==
  \A k \in ToSet(FileKeys(backend)) :
    IF NameFor(k) = NoName THEN k \notin DOMAIN MainMember
    ELSE {AsGiven(NameFor(k)), InRoot(NameFor(k))} \cap files # {}

(***************************************************************************)
(* If nobody touches the files, a request for a known backend whose files  *)
(* are there and whose values are the defaults does not fail; but the      *)
(* multilane backend refuses absolute paths.                               *)
(***************************************************************************)
LoadsWhatIsThere ==
  changes = 0 /\ set = {} /\ outcome \in {"threw", "aborted"} =>
    \/ backend \notin KnownBackends
    \/ backend = "multilane" /\ NameFor("yaml_file") \in AbsoluteNames
    \/ ~Available

Request ==
  [k \in {k \in ToSet(FileKeys(backend)) : NameFor(k) # NoName} |->
     {AsGiven(NameFor(k)), InRoot(NameFor(k))}]

Answered == INSTANCE NetworkRequest WITH
  request <- Request,
  seen <- ever,
  outcome <- CASE outcome = "loaded" -> "loaded"
               [] outcome \in {"threw", "aborted"} -> "failed"
               [] OTHER -> "none",
  network <- IF outcome = "loaded"
             THEN [k \in DOMAIN config \cap AllFileKeys |-> config[k]] ELSE <<>>

(***************************************************************************)
(* Seen from outside LoadRoadNetwork() answers a request in one step, as   *)
(* NetworkRequest has it: with a network made from one path for every file *)
(* that is named, each of which existed at some time, or not at all.       *)
(***************************************************************************)
ImplementsRequest == Answered!Spec

(***************************************************************************)
(* GetResource() returns "resource_name when resource_name is an absolute  *)
(* path", so one that is there can be loaded.                              *)
(***************************************************************************)
AbsolutePathsLoad ==
  changes = 0 /\ set = {} /\ outcome = "threw" =>
    \E flag \in DOMAIN named : named[flag] = NoName \/ named[flag] \notin AbsoluteNames
                                 \/ AsGiven(named[flag]) \notin files
=============================================================================
