--------------------------- MODULE MaliputToString ---------------------------
(***************************************************************************)
(* The programs that print a road network as a string: maliput_to_string,  *)
(* linked with the backends, maliput_to_string_with_plugin, which gets     *)
(* them from plugins, and its relative in Python (src/applications).       *)
(*                                                                         *)
(* A plugin is code that the plugin manager loads. The road network loader *)
(* and the road network are objects of that code, and the programs that    *)
(* make them also have to destroy them: in the reverse order of their      *)
(* construction when Main() returns, and perhaps not at all when an        *)
(* exception leaves it.                                                    *)
(***************************************************************************)
EXTENDS Naturals, Sequences, SequencesExt

CONSTANTS Parameters,  \* the flags that become parameters of the loader
          Given        \* the sets of them that are considered on a command line

\* Where a plugin that can be looked up may be wrong; or it is not there.
Plugins == {"none", "no_loader", "null_loader", "loader"}
ASSUME StringAssumption == \A set \in Given : set \subseteq Parameters

VARIABLES
  program,     \* "linked", "plugin" or "python"
  given,       \* the parameters that are given on the command line
  plugin,      \* what --plugin_name names
  checks,      \* --check_invariants, which only the linked program has
  pc,          \* where the program is
  parameters,  \* what the loader was told: a parameter, and who says so
  alive,       \* the objects that exist, in the order of their construction
  printed,     \* whether the string was printed
  status       \* how the program ended: exit status, "exception" or "undefined"

flags == <<program, given, plugin, checks>>
vars == <<flags, pc, parameters, alive, printed, status>>

Init ==
  /\ program \in {"linked", "plugin", "python"}
  /\ given \in Given
  /\ plugin \in IF program = "linked" THEN {"loader"} ELSE Plugins
  /\ checks \in IF program = "linked" THEN BOOLEAN ELSE {FALSE}
  /\ pc = "start" /\ parameters = <<>> /\ alive = <<>>
  /\ printed = FALSE /\ status = "running"
-----------------------------------------------------------------------------
Goes(from, to) == pc = from /\ pc' = to

Fails(from, how) ==
  /\ Goes(from, "unwinding") /\ status' = how
  /\ UNCHANGED <<flags, parameters, alive, printed>>

\* Faulty variant: only what is given is passed on.
PassesGiven ==
  /\ program = "plugin" /\ Goes("start", "look up")
  /\ parameters' = [p \in given |-> "user"]
  /\ alive' = <<"manager">>
  /\ UNCHANGED <<flags, printed, status>>

\* The C++ program gives the loader all the parameters, most of them with
\* the default of their flag; then the manager loads the plugins.
PassesAll ==
  /\ program = "plugin" /\ Goes("start", "look up")
  /\ parameters' = [p \in Parameters |-> IF p \in given THEN "user" ELSE "default"]
  /\ alive' = <<"manager">>
  /\ UNCHANGED <<flags, printed, status>>

\* parse_args() keeps those that are given.
PassesSome ==
  /\ program = "python" /\ Goes("start", "load")
  /\ parameters' = [p \in given |-> "user"]
  /\ UNCHANGED <<flags, alive, printed, status>>

\* GetPlugin() gives a null pointer.
PluginIsMissing == plugin = "none" /\ Fails("look up", "1")

\* The type of the plugin is only logged: ExecuteSymbol() throws when there
\* is no entry point of a road network loader.
NoEntryPoint == plugin = "no_loader" /\ Fails("look up", "exception")

TakesLoader ==
  /\ plugin \in {"null_loader", "loader"} /\ Goes("look up", "load")
  /\ alive' = IF plugin = "loader" THEN Append(alive, "loader") ELSE alive
  /\ UNCHANGED <<flags, parameters, printed, status>>

\* A null pointer is called.
CallsNull ==
  program = "plugin" /\ plugin = "null_loader" /\ Fails("load", "undefined")

\* create_road_network() does in C++ what the other program does, and throws.
PluginIsWrong == program = "python" /\ plugin # "loader" /\ Fails("load", "exception")

\* The loader, or create_road_network(), or LoadRoadNetwork() in the linked
\* program, which is a module of its own, gives a road network.
Loads ==
  /\ plugin = "loader"
  /\ IF program = "linked" THEN Goes("start", "check") ELSE Goes("load", "check")
  /\ alive' = Append(alive, "network")
  /\ UNCHANGED <<flags, parameters, printed, status>>

\* Or it does not: it throws, or the loader gives a null pointer, which the
\* program tests.
LoadsNothing ==
  /\ plugin = "loader"
  /\ \/ Fails(IF program = "linked" THEN "start" ELSE "load", "exception")
     \/ program = "plugin" /\ Fails("load", "1")

\* Faulty variant: violations of invariants are an error.
ViolationsFail ==
  /\ checks /\ Fails("check", "1")

\* CheckInvariants(): violations are warned of, no more.
ChecksInvariants ==
  /\ Goes("check", "print")
  /\ UNCHANGED <<flags, parameters, alive, printed, status>>

\* GenerateString() asks the road network for everything.
Prints ==
  /\ Goes("print", "unwinding") /\ printed' = TRUE /\ status' = "0"
  /\ UNCHANGED <<flags, parameters, alive>>

\* Faulty variant: the objects are destroyed in the order of their construction.
DestroysFirst ==
  /\ pc = "unwinding" /\ alive # <<>>
  /\ alive' = Tail(alive)
  /\ UNCHANGED <<flags, pc, parameters, printed, status>>

\* The end of Main() destroys its locals, the last first.
Destroys ==
  /\ pc = "unwinding" /\ alive # <<>>
  /\ alive' = Front(alive)
  /\ UNCHANGED <<flags, pc, parameters, printed, status>>

\* Nothing is left, or the program dies without looking back.
Exits ==
  /\ Goes("unwinding", "end")
  /\ alive = <<>> \/ status \in {"exception", "undefined"}
  /\ UNCHANGED <<flags, parameters, alive, printed, status>>

Next ==
  \/ PassesAll \/ PassesSome \/ PluginIsMissing \/ NoEntryPoint \/ TakesLoader
  \/ CallsNull \/ PluginIsWrong \/ Loads \/ LoadsNothing \/ ChecksInvariants \/ Prints
  \/ Destroys \/ Exits

Spec == Init /\ [][Next]_vars
-----------------------------------------------------------------------------
(***************************************************************************)
(* Types of the variables; the loader of a plugin has been told all that   *)
(* is given, and in C++ everything else as well.                           *)
(***************************************************************************)
StringTypeOK ==
  /\ pc \in {"start", "look up", "load", "check", "print", "unwinding", "end"}
  /\ alive \in Seq({"manager", "loader", "network"})
  /\ printed \in BOOLEAN
  /\ status \in {"running", "0", "1", "exception", "undefined"}
  /\ program = "plugin" /\ pc # "start" => DOMAIN parameters = Parameters
  /\ program = "python" /\ pc = "load" => DOMAIN parameters = given
  /\ \A p \in DOMAIN parameters : parameters[p] = "user" <=> p \in given

(***************************************************************************)
(* The code of a plugin stays as long as there is an object of it: however *)
(* the program gets to its end, no loader and no road network outlives the *)
(* plugin manager, and no road network the loader it comes from.           *)
(***************************************************************************)
PluginOutlivesItsObjects ==
  program = "plugin" =>
    IsPrefix(alive, <<"manager", "loader", "network">>)

(***************************************************************************)
(* The exit status tells what became of the string: it is 0 if and only if *)
(* the string was printed, and 1 only if the plugin is missing or made no  *)
(* road network. Violated invariants change nothing. Only a plugin whose   *)
(* entry point gives a null pointer has the program do something undefined.*)
(***************************************************************************)
StatusTellsOutput ==
  /\ status = "0" <=> printed
  /\ status = "1" => program = "plugin" /\ plugin \in {"none", "loader"}
  /\ status = "undefined" => program = "plugin" /\ plugin = "null_loader"
=============================================================================
