# A verification of maliput_integration

maliput_integration ties the maliput packages together: a library that loads road networks and
changes their phases over time (`src/src/integration`), and seven command line applications on top
of it (`src/src/applications`). These modules model that code in TLA+. TLC checks them on small
instances, and TLAPS proves the central results for every value of the constants.

## 1. The system

| Part | State it keeps | Operations | Talks to |
| --- | --- | --- | --- |
| `Timer`, `ChronoTimer`, `CreateTimer` | `start_`, a reading of the clock | `Reset()`, `Elapsed()` | the clock of the machine |
| `DynamicEnvironmentHandler`, `FixedPhaseIterationHandler` | `last_elapsed_time_`, `phase_duration_`; a pointer to the timer and one to the road network | `Update()`, polled | reads the timer twice per pass, reads the phase ring book, reads and writes the phase provider |
| `maliput_dynamic_environment` | the road network, the handler, the timer | one loop: sleep, `Update()`, print | owns both of the above |
| `LoadRoadNetwork`, `GetResource`, flags (`maliput_gflags.h`) | the values of the flags, a property struct per backend | choose a backend, look up its files, build its configuration | the file system, four backends, every application |
| `maliput_query` | the command line, an object book | 22 commands | `LoadRoadNetwork`, then one question to the network |
| `maliput_derive_lane_s_routes` | the resolved configuration | resolve, load, derive, print | a YAML file, the flags, `LoadRoadNetwork`, maliput's router |
| `maliput_measure_load_time` | the durations so far | load and time repeatedly, report the mean | `LoadRoadNetwork`, the clock |
| `maliput_to_string`, `maliput_to_string_with_plugin`, its relative in Python | the plugin manager, the loader, the network | load, check, print, destroy | `LoadRoadNetwork` or a plugin |
| `maliput_to_obj` | none of its own | load, make sure of a directory, write up to three files | `LoadRoadNetwork`, a directory it shares with others |

No part has threads of its own and there are no messages: all calls are synchronous. What makes the
behaviour hard is the world between two steps:

* **time.** The clock moves between any two instructions, between the two readings inside one
  `Update()` as well, and `high_resolution_clock` is the wall clock in the usual standard library, so
  it can be set back. A poll may come late by any amount.
* **shared timers.** The handler remembers a reading of a timer that its owner may reset.
* **failure half way.** `Update()` changes its own state first and the rings one after the other;
  an exception leaves the pass unfinished, for good. Nothing in the application catches it.
* **the file system.** Whether a file exists is asked long before the backend opens it; whether a
  directory exists is asked, it is created and asked for again, and then used, beside other processes.
* **tables that must agree.** Usage, number of arguments and argv indices of 22 commands are written
  down in three places. Flags become positional members of a struct, members become keys of a
  configuration. The fields of a configuration of routes come from two sources.
* **the order of destruction.** A road network of a plugin is an object of code that may be unloaded.

What makes the parts correct, and where the sections below take it up: rings stay on their declared
paths, change together, not too early and not never (handler); only complete passes are printed and
no phase goes by unseen, in a bounded loop that ends (application); the network that is loaded is
the one that was asked for, or none (loading); the mean is that of whole loads (measure); the question
that is answered is the one that was written (query); a configuration is taken from one source, whole
(routes); what is said to be exported is there, and belongs together (obj); the exit status tells
what became of the string, and nothing outlives its plugin (string).

## 2. The modules

| Module | Models | Checked by |
| --- | --- | --- |
| `ChronoTimer` | the timer and its clock | through the modules that extend it |
| `PhaseWalk` | abstract: what a handler promises, without clock or loop | `ImplementsPhaseWalk` |
| `FixedPhaseIterationHandler` | the handler, step by step | `handler.cfg`, `handler_reset.cfg` |
| `DynamicEnvironmentApp` | the application around the handler | `app.cfg` |
| `NetworkRequest` | abstract: how a request for a road network is answered | `ImplementsRequest` |
| `RoadNetworkLoading` | `tools.cc`, `tools.h`, the flags, and the file system | `loading_absolute.cfg`, and inside the next |
| `MeasureLoadTime` | `maliput_measure_load_time.cc` around the loading | `loading.cfg` |
| `MaliputQuery` | `maliput_query.cc` | `query.cfg`, `query_route.cfg`, `query_length.cfg` |
| `DeriveLaneSRoutes` | `maliput_derive_lane_s_routes.cc` | `routes.cfg`, `routes_flag.cfg` |
| `ObjExport` | `maliput_to_obj.cc`, several at work in one directory | `obj.cfg` |
| `MaliputToString` | the three programs that print a road network | `string.cfg` |
| `...Proofs` | the theorems about the module of that name, one for each but the abstract ones and the timer | TLAPS |
| `MC...` | values of the constants for TLC | |

The handler EXTENDS the timer, the application EXTENDS the handler: they share the clock and the
provider as the program does. `MeasureLoadTime` EXTENDS `RoadNetworkLoading` in the same way, and
takes each of its steps; this is why one run checks both. The other programs are separate, and load
once, before anything else happens: there loading is one step with its possible results.
Definitions headed "Faulty variant" are not part of any specification: each is a definition of the
model with a plausible bug, kept to make sure the properties notice it.

### Timer and handler

`now` is the clock in ticks, `start` is `start_`, and `Elapsed` truncates to milliseconds as
`duration_cast` does, towards zero. `Advance(d)` is the environment. `upsets` counts what makes a
timer an unsteady measure: the clock set back, a reset of a timer the handler has already read, a
handler built on a timer that is running. Timing properties hold for `upsets = 0`; the others do not
care.

`pc` says where `Update()` is. `UpdateReturns` and `UpdatePasses` are the two outcomes of the
comparison on line 38 of `fixed_phase_iteration_handler.cc`; `Record` is line 41, with the second
reading of the clock; the loop visits the rings of `todo` in any order (the order
of `GetPhaseRings()` is not specified), one by one. `RingMoves` is `SetPhase()`, `RingStays` the
`continue`, `RingThrows` the `MALIPUT_THROW_UNLESS`, and `RingCrashes` the two steps that are
undefined: the failed `dynamic_cast`, and `front()` of an empty vector. As the comparison is made on
doubles, either outcome is allowed when the two sides are equal and a subtraction came before.

The road network (`NextPhases`, `phase`, `next`, `manual`) is external; its shape is that of
maliput's `PhaseRing` and `ManualPhaseProvider` as `Update()` uses them. Two assumptions about it:
what follows a phase is a phase of the same ring, and only the handler writes the provider.
`phase_duration_` is taken in whole milliseconds. Phases count as in effect from `Record` on, a few
instructions before the provider is written.

### Application

`CreateHandler`, `EnterLoop`, `LeaveLoop`, `WakeUp`, `CallUpdate`, `PrintRing`, `PrintUndefined` and
`PrintReturns` follow `Main()` of `maliput_dynamic_environment.cc`, lines 141 to 205. `CallUpdate`
takes one step of the handler, so the clock moves inside `Update()` too. A sleep is over when
`slept` ticks have gone by on a clock that cannot be set back, as `sleep_for` promises. Printing goes
ring by ring; a ring without a state is dereferenced (`PrintUndefined`), a phase without bulbs throws.
The program creates its handler within the first millisecond of the timer.

Before the loop come the static rules (`app = "static"`): those with one state, one after the other.
`PrintRule` prints one that has its state in the provider; `PrintRuleUndefined` is the dereference of a
`nullopt`, after which the program is dead or goes on with garbage. Time passes there, too, and the
first phases may be overdue before the loop is entered. Discrete and range rules are one set, as
their two functions are alike.

### Loading

Three tables take a flag to the backend. `FlagsPassed` is the order in which the applications pass
flags, `Members` the order in which `tools.h` declares the members of the structs: a flag has the
member at its position (`FlagOf`). `ValueKeys` and `BookMember`/`MainMember` are the keys `tools.cc`
emplaces with the member it takes for each. `OptionalValues` are the keys that are there only when
the user gave the flag. A value is one the user gave (`set`) or the default; what the numbers are does
not matter, only whose they are.

A path is a name as given, or below the resource directory of a backend. `Call` selects the backend
and emplaces the values. Then `todo` holds the keys of the files in the order of the code, the main
file and all five books, and each is asked for (`GetResource`) in a step of its own. The backend opens
what it was told, one file after the other in any order (`BackendOpens`), or throws
(`BackendRefuses`) because one is not there or it does not like a value; it is external. Between any two
steps `FileChanges` creates or deletes a file. `files` are files that can be read and are well
formed. A file that is not named ends differently from backend to backend (`MainFileMissing`): an
exception in two of them, an abort in multilane, although `tools.h:114` announces an exception.
`OriginIsNoVector` is `Vector2::FromStr(FLAGS_origin)`, which every application calls for every
backend. `Discard` is the caller who lets its network go.

`NetworkRequest` is what all this amounts to for the caller: one request, and one answer, which is a
network made from one admissible path for each key, each of which existed at some time, or nothing.

### Measuring

`MeasureInit` is the start of `Main()`. `ChecksIterations` follows the lookup of the backend, as in the
code. `Starts` and `Stops` are the two readings of the clock, `Loads` is any step of `LoadRoadNetwork()`
in between, and `Discards` is the end of `MeasureLoadTime()`, when the network is destroyed outside the
measurement. `during` keeps what the clock moved in each load, by whoever moved it: `ClockMoves` may
go backwards, as `high_resolution_clock` need not be steady.

### Queries

`Usage`, `NumArguments` and `Branch` are the three tables: what the user is told, what is counted,
and which parser reads which index of argv. An argument is `odd` or not: a negative number, or a word
that names nothing. `Reads` is one `*FromCLI()` call, with the way it refuses; the `Asks...` actions
are the queries, with every way they can end. What the network answers, and how it is printed, is
left out; a backend may throw for coordinates it does not have. A road network always has its books,
so the two questions for a null book in `GetPhaseRightOfWay` are never answered with yes. The search of
`GetMaxSpeedLimit` for the lowest limit is one step per limit (`AsksForSpeedLimit` takes the first,
`ComparesLimit` each other one, `ReportsLimit` ends it); `compared` counts them.

### Routes

Every field of the configuration file and of the flags is missing, of the wrong type, or good;
waypoints can also be no sequence, or not two. `resolved` is the source `main()` takes a field from.
The routes come from maliput; `PrintsRange` keeps the decision which of their ranges are
shown, in whole units of length.

### Objects

Every exporter goes through `Loads`, `Asks`, `Creates`, `Confirms`, one `WritesFile` per file, and
`Finishes`; between any two steps of it others act, the directory is `Removed`, or the exporter is
`Killed`. The result of `create_directory_recursive()` is not looked at, and `exists()` is true of a
plain file as well, so `dir` has three values. A stream that could not be opened swallows what is
written to it, and "OBJ creation has finished." is logged all the same: `ExportIsThere` is about the
cases in which that is true, and its exceptions are the ones in which it is not. `disk` says who wrote each
file; what is in it comes from maliput. A file is written at once in the model: half a file is not
told apart from a whole one.

### Strings

`alive` holds the objects in the order of their construction, of which `Destroys` takes the last, as
the end of `Main()` does. After an exception that nobody catches it is up to the implementation whether
the stack is unwound; so `Exits` may come before the objects are gone. The plugin may be missing,
of another type, or give a null loader, and a loader may give a null network or throw. The C++
program passes all parameters to the loader, the Python one those that are given.

## 3. The runs

| Run | Question | Result | States |
| --- | --- | --- | --- |
| `handler` | Do the rings stay on their paths and move in tandem, whatever clock and timer do, and who crashes? On a steady timer, are passes neither too many, nor early, nor overlooked? | yes; only networks with dead ends or foreign providers crash; and the handler implements `PhaseWalk` | 1.1 million |
| `handler_reset` | "Each rule state is expected to last a fixed amount of time" | **violated**: `last_elapsed_time_` outlives a reset of the timer | |
| `app` | Is what is printed complete, and nothing missed? Is the loop bounded, do overdue phases change before anything else happens, does the program end, and of what does it die? | yes; it dies of gaps in what was loaded | 440,000 |
| `loading` | Does the backend get exactly what was asked for, while files come and go, and is the mean one of whole loads? | yes; and loading implements `NetworkRequest` | 1.1 million |
| `loading_absolute` | Can a file be given by its absolute path? | **violated** for multilane | |
| `query` | Do the three tables agree, are wrong arguments reported and right ones answered, is the limit the lowest, and what is undefined? | yes, for all commands but Route; a range of an unknown lane counts as one without rules; only `GetLaneLength` runs into something undefined, and only on a lane that does not exist | 20,200 |
| `query_route` | Does Route read its two boxes? | **violated**: it reads one box twice, from the wrong index | |
| `query_length` | Does `GetLaneLength` report an unknown lane? | **violated**: null pointer | |
| `routes` | Does the configuration come whole from one source, and are refusals justified? | yes | 51,700 |
| `routes_flag` | Does `--xodr_file_path` win over the file, as the header comment says? | **violated**: the file wins, as the tutorial says | |
| `obj` | Do exporters that share a directory get in each other's way? | not when they create it; their files get mixed only when they overlap | 380,000 |
| `string` | Does the exit status tell what was printed, and does the plugin stay long enough? | yes | 225 |

**Bounds, and why they are enough.**
*Handler and application*: three rings (a cycle, with a choice for the handler, a cycle of two, a ring
that ends, or one that has no transitions), so that a pass has a first, a middle and a last ring and
every loading state; a phase duration of 2 ms with 2 ticks in a millisecond, so that truncation
matters; clock steps that are no multiples of a millisecond, one of them backwards; `MaxNow` (17, 15)
long enough for several passes on a steady clock; one upset (`MaxUpsets`), since a second one starts
from a state that one can already reach, except for the clock. In the application a sleep is shorter
than a phase and the timeout longer than one, as with the defaults of the code; of two rules one is
static, and either only the other has no state, or both have none. `MaxNow` bounds the clock, `MaxUpsets` the upsets;
nothing else is bounded.
*Loading*: all four backends and an unknown one, two names, one of them absolute, all sets of existing
files, one file that appears or disappears anywhere in two loads (`MaxFileChanges`); a flag for each main file, one of the five
books (their blocks are alike, and their keys and members are all in the tables), and the values whose
members are easily swapped; `--iterations` below and above one; one step of the clock, backwards
(`MaxMoves`), which falls into a load, between two or outside.
*Queries*: all commands with every argc up to one more than any command accepts (`MaxArgc`), and two
odd arguments (`MaxOdd`); lanes with up to three speed limits of three values, which has every order of
a lower and a higher one.
*Routes*: complete but for the lane, 5 units long with a tolerance of 1.
*Objects*: three exporters, which are alike (symmetry), so that two can be half done while a third
finishes; one removal and one crash (`MaxRemovals`, `MaxKills`).
*Strings*: complete but for the parameters, of which three stand for all.
Most of these bounds are lifted by the theorems below. `CHECK_DEADLOCK FALSE` is set everywhere: the
bound of the clock stops the handler, and programs end.

**Fairness.** Only `AppSpec` states any. Weak fairness of `Main`: the program is a single thread
that an operating system goes on running. Weak fairness of the clock moving forwards: time passes. With
them `Ends` and `OverduePhasesChange` hold. There is none for the handler: nobody is bound to call
`Update()`, which is why its properties are about the calls that are made. The other programs may be
stopped anywhere, and everything that is said of them is safety.

## 4. What is proved

From the assumptions named in the modules only (positive durations, finitely many rings, transitions
inside a ring, names that differ from the placeholders, file flags that are those whose members name
files), for any set of rings, exporters, names or parameters and any bounds.

*Handler.* `TypeCorrect` and `RingsStayOnPath` from `Typed`, which is `TypeOK` and `RingsOnPath`: that a
ring gets one of its own phases follows from its being on its path. `OnlyBadNetworksCrash` is
inductive relative to it. `RingsMoveInTandem`: `Tandem` is inductive
relative to `Typed`, as it counts the ring the loop has yet to reach (`Pending`) and the passes that were
cut short (`throws`). `HandlerImplementsWalk`: every step of the handler is a step of `PhaseWalk` or
stutters; that a ring is never more than the abandoned passes ahead of another is `Tandem` for both
rings. The abstract specification has a promise of its own, `WalkKeepsTogether`, for whatever else may
implement it. `NeverOutpacesClock`, `PhasesLastLongEnough`, `OverduePhasesPass`: none of the three is
inductive. `SteadyTime` strengthens them: without upsets the timer started before `since`, `last` lies
between whole milliseconds of `since` and `Elapsed`, and what `UpdatePasses` tested still holds when
`Record` reads the clock again. The arithmetic of truncated division is in lemmas of constants
(`SpanAtLeast`, `SpanAtMost`), which the solver handles better than primed variables.

*Application.* `AppUsesHandler`: every behaviour of the application is one of the handler, with
`Control`, which says that `app` and `pc` agree; all the theorems above thus hold in the application,
where `AppImplementsWalk` and `AppKeepsTime` name those that count for its owner.
`AppTypeCorrect`. `AppPrintsInTandem`: an exception ends the program before it prints, so no pass is
cut short there. `NoPhaseIsMissed`: `Shown` says until when a phase that was moved to is known to be
printed, through printing, checking, sleeping and the part of the next pass that has yet to reach the
ring. `TimeoutBoundsLoop`: `LoopTime` counts the sleeps that are over against the elapsed time.
`DeathsHaveReasons`: only static rules are ever left to print (`Death`).
Two theorems are the safe side of what the run checks as liveness. `OverduePhasesComeFirst`: in a loop
that sleeps on overdue phases every step leads to the pass or leaves them overdue on the way to it, as
`Update()` does not return early (`OverdueIsNotLeft`) and a clock that is not set back makes nothing
less overdue. `IterationsEnd`: `Work` is a number of steps that each step of the program lowers and the
clock leaves alone, so that an iteration is over after two steps per ring and six more at most.

*Loading.* `World` says how the histories of the file system bound it, and `Progress` where the call is:
which keys were told (`Told`), which are left, and that each was told a path of its name that `ever`
existed once it was opened. Together they are inductive, whatever files do, and give `LoadTypeCorrect`,
`ResourcesComeFirst` and, with the refinement mapping, `LoadingImplementsRequest`: the only step that is
an `Answer` is `BackendLoads`, and it is one because nothing is left unopened. `WhatIsThereIsLoaded`
needs `Undisturbed` (without changes every told path is still what `GetResource` says) and `Blameless`.
`ConfigIsWhatWasRequested` rests on two groups of lemmas. Those about the tables say, backend by
backend, which flag a member has (`TablesOfFlags`) and which key a flag goes to (`KeyOfMember`,
`KeyOfValue`), so positions no longer occur; `ValuesPassed` says that the values were emplaced as the
tables have them and that no file overwrites one. With `Progress` for the files they give both
directions: what was requested is passed, and what was passed was requested or is a default.
`AnswersServeTheRequest` is what `NetworkRequest` promises by itself, and `LoadedFromNamedFiles` what
that says of the code. `LoadsComeToAnEnd`: twice the keys that are left and the files to open are a
number that each step of a load lowers and no change of a file raises.

*Measuring.* `MeasureUsesLoading` makes every theorem of loading one of the program;
`MeasureImplementsRequest` and `EveryLoadIsRight` follow. `MeanIsOfWholeLoads` is proved from `Measured`: between two
loads `times` equals `during`, and in a load `during` has what the clock shows beyond `start` in
addition.

*Query.* `AllTablesAgree` is a fact about constants: for each command but Route the parsers of its
branch cut the usage into its parts (`BranchFollowsUsage`), and the number of arguments is the length
of the usage and one. From it `Course` says that what was read so far is a prefix of the usage, and
`NamesAreWrong` that a word which names nothing is the same as an argument the usage does not allow. `Answering`
is inductive, and gives `QueryTypeCorrect`, `AnswersAsUsage`, `WrongReported` and `RightAnswered`. `LimitIsTightest` is
proved for any number of rules without induction over them: `Searching` says that `speed` is the lowest
of the first `compared` limits, a rule that has it included. `OnlyLengthIsUndefined` goes through all that
ends a command. `RouteAnswersAnotherQuestion` proves what the run `query_route` has one case of:
Route never reads what its usage says, and always reads one box twice (`RouteCourse`).

*Routes.* `Looked` says which keys were found when, `ConversionsFail` when the conversions do; they
give `RoutesTypeCorrect`, `SourceIsOne` and `RefusalsHaveReasons`. `OmittedRangesWhole` is arithmetic over
any length and tolerance (`Printed`).

*Objects.* `ObjTypeCorrect`; `Relied` (who is past creating has found the directory, or it cannot be
there) for `FailuresHaveReasons`; `Kept` (files that were written stay written, whoever writes over
them) for `ExportsAreThere`; `Together` (as long as nobody overlapped, whose the `.obj` is has the
other files it has written so far, and nobody else's `.obj` is there while it is half done) for
`FilesMatch`: for any number of exporters,
crashes and removals.

*Strings.* `Stacks` are the four stacks of objects the program with a plugin can have, `Control` what it
has got at each step. `PluginIsLast` and `StatusIsOutput` follow, for any set of parameters.

**Only model-checked:** liveness under fairness (`Ends`, `OverduePhasesChange`), which is out of reach
of the prover, whatever `IterationsEnd` and `OverduePhasesComeFirst` say of its steps. Every other
property of a passing run is a theorem.

## 5. What is not modelled

Build files, packaging and tutorials have no behaviour at run time. The backends, maliput's books,
geometry, router, plugin manager and utility library are other repositories: they appear as this code
uses them. Formatting and logging are left out, but for the decision which ranges are shown. The
values of numbers are left out where nothing depends on them; words are not told apart from numbers in
`maliput_query`, where `strtod()` reads a word as 0 (`maliput_query.cc:1018`): no document says what should
happen. For the same reason no property says that a misspelt lane must be reported by the commands on
ranges (`maliput_query.cc:616`).

Three places where comments and code differ are mentioned here without a run, as nothing of the
system's state depends on them: the header of `maliput_to_string_with_plugin.cc` speaks of
`-xodr_file_path` where the flag is `-opendrive_file`; `tools.h:114` announces an exception where
multilane aborts; "OBJ creation has finished." is logged when nothing may have been written.

## 6. The order of work, and what is left

The modules were written in the order of their importance: timer, handler, its abstract
specification, the application; loading; queries; routes; then measuring, objects and strings; the
abstract request; and the proofs about each, last those of the search for a speed limit and of the
tables of flags. What remains: half written files in `ObjExport`, if the utility library should come to
promise anything of them.
