---------------------- MODULE RoadNetworkLoadingProofs ----------------------
(***************************************************************************)
(* Theorems about RoadNetworkLoading, for any set of backends, names and   *)
(* flags and however often files come and go.                              *)
(***************************************************************************)
EXTENDS RoadNetworkLoading, SequenceTheorems, FiniteSetTheorems, TLAPS

(***************************************************************************)
(* The tables: the keys of a backend are keys of files, the multilane      *)
(* backend has but one, and no value is passed under the key of a file.    *)
(***************************************************************************)
LEMMA FileKeysAreKeys ==
  \A b : FileKeys(b) \in Seq(AllFileKeys) /\ ToSet(FileKeys(b)) \subseteq AllFileKeys
<1> SUFFICES ASSUME NEW b PROVE FileKeys(b) \in Seq(AllFileKeys)
  BY DEF ToSet
<1>1. \A k \in {"opendrive_file", "osm_file", "yaml_file", "rule_registry", "road_rule_book",
                "traffic_light_book", "phase_ring_book", "intersection_book"} : k \in AllFileKeys
  BY DEF AllFileKeys, MainMember, BookMember
<1>2. BookKeys \in Seq(AllFileKeys) BY <1>1 DEF BookKeys
<1>3. /\ <<"opendrive_file">> \in Seq(AllFileKeys) /\ <<"osm_file">> \in Seq(AllFileKeys)
      /\ <<"yaml_file">> \in Seq(AllFileKeys) /\ <<>> \in Seq(AllFileKeys)
  BY <1>1
<1>4. /\ <<"opendrive_file">> \o BookKeys \in Seq(AllFileKeys)
      /\ <<"osm_file">> \o BookKeys \in Seq(AllFileKeys)
  BY <1>2, <1>3, ConcatProperties
<1>5. /\ FileKeyTable["dragway"] = <<>> /\ FileKeyTable["multilane"] = <<"yaml_file">>
      /\ FileKeyTable["malidrive"] = <<"opendrive_file">> \o BookKeys
      /\ FileKeyTable["osm"] = <<"osm_file">> \o BookKeys
  BY DEF FileKeyTable
<1>6. CASE b \in KnownBackends
  <2>1. FileKeyTable[b] \in Seq(AllFileKeys) BY <1>3, <1>4, <1>5, <1>6 DEF KnownBackends
  <2> QED BY <1>6, <2>1 DEF FileKeys
<1> QED BY <1>3, <1>6 DEF FileKeys

LEMMA MultilaneKeys == ToSet(FileKeys("multilane")) = {"yaml_file"}
<1>1. FileKeys("multilane") = <<"yaml_file">> BY DEF FileKeys, FileKeyTable, KnownBackends
<1> QED BY <1>1 DEF ToSet

LEMMA ValuesAreNoFiles ==
  \A b \in KnownBackends : DOMAIN ValueKeys[b] \cap AllFileKeys = {}
<1> SUFFICES ASSUME NEW b \in KnownBackends PROVE DOMAIN ValueKeys[b] \cap AllFileKeys = {}
  OBVIOUS
<1>1. AllFileKeys = {"opendrive_file", "osm_file", "yaml_file", "rule_registry",
                     "road_rule_book", "traffic_light_book", "phase_ring_book",
                     "intersection_book"}
  BY DEF AllFileKeys, MainMember, BookMember
<1>2. CASE b = "dragway" BY <1>1, <1>2 DEF ValueKeys
<1>3. CASE b = "multilane" BY <1>1, <1>3 DEF ValueKeys
<1>4. CASE b = "malidrive" BY <1>1, <1>4 DEF ValueKeys
<1>5. CASE b = "osm" BY <1>1, <1>5 DEF ValueKeys
<1> QED BY <1>2, <1>3, <1>4, <1>5 DEF KnownBackends
-----------------------------------------------------------------------------
Told == DOMAIN config \cap AllFileKeys
Served(k) == {AsGiven(NameFor(k)), InRoot(NameFor(k))}

\* What the flags and the file system are, whatever the program does.
World ==
  /\ backend \in Backends
  /\ named \in [FileFlags \cap Understood(backend) -> Names \cup {NoName}]
  /\ set \subseteq ValueFlags
  /\ files \subseteq Paths /\ always \subseteq files /\ files \subseteq ever /\ ever \subseteq Paths
  /\ changes \in Nat

\* How far the configuration has got.
Progress ==
  /\ outcome \in {"idle", "pending", "loaded", "threw", "aborted"}
  /\ todo \in Seq(AllFileKeys) /\ ToSet(todo) \subseteq ToSet(FileKeys(backend))
  /\ outcome = "idle" => config = <<>>
  /\ outcome \in {"idle", "loaded"} => todo = <<>> /\ unopened = {}
  /\ unopened \subseteq Told
  /\ \A k \in Told :
       k \in ToSet(FileKeys(backend)) /\ NameFor(k) \in Names /\ config[k] \in Served(k)
  /\ \A k \in Told \ unopened : config[k] \in ever
  /\ outcome \in {"pending", "loaded"} =>
       \A k \in ToSet(FileKeys(backend)) : NameFor(k) # NoName => k \in ToSet(todo) \cup Told

\* Without changes the answer of GetResource() stays what it was.
Undisturbed == changes = 0 => \A k \in Told : config[k] = GetResource(NameFor(k))

Loading == World /\ Progress

LEMMA LoadingInit == Init => Loading
<1> SUFFICES ASSUME Init PROVE Loading OBVIOUS
<1>1. World BY DEF Init, World
<1>2. Told = {} BY DEF Init, Told
<1>3. ToSet(<<>>) = {} BY DEF ToSet
<1> QED BY <1>1, <1>2, <1>3 DEF Init, Loading, Progress

LEMMA WorldStep == World /\ [Next]_vars => World'
<1> SUFFICES ASSUME World, [Next]_vars PROVE World' OBVIOUS
<1>1. CASE FileChanges
  BY <1>1 DEF FileChanges, World, flagVars
<1>2. CASE UNCHANGED <<flagVars, fileVars>>
  BY <1>2 DEF World, flagVars, fileVars
<1>3. LoadRoadNetwork \/ Discard \/ UNCHANGED vars => UNCHANGED <<flagVars, fileVars>>
  BY DEF LoadRoadNetwork, UnknownBackend, OriginIsNoVector, Call, MainFileMissing, SkipBook,
         RefusesAbsolute, EmplaceFile, BackendOpens, BackendRefuses, BackendLoads, Ends, Discard,
         vars
<1> QED BY <1>1, <1>2, <1>3 DEF Next

\* The flags never change, and with them what each key is named.
LEMMA NamesStay ==
  [Next]_vars => backend' = backend /\ named' = named /\ \A k : NameFor(k)' = NameFor(k)
<1> SUFFICES ASSUME [Next]_vars
             PROVE  backend' = backend /\ named' = named /\ \A k : NameFor(k)' = NameFor(k)
  OBVIOUS
<1>1. backend' = backend /\ named' = named
  BY DEF Next, LoadRoadNetwork, UnknownBackend, OriginIsNoVector, Call, MainFileMissing,
         SkipBook, RefusesAbsolute, EmplaceFile, BackendOpens, BackendRefuses, BackendLoads, Ends,
         Discard, FileChanges, vars, flagVars
<1> QED BY <1>1 DEF NameFor

LEMMA NamesAreNames == World => \A k : NameFor(k) \in Names \cup {NoName}
BY DEF World, NameFor

LEMMA ToSetTail ==
  ASSUME NEW S, NEW s \in Seq(S), s # <<>>
  PROVE  /\ Head(s) \in S /\ Head(s) \in ToSet(s) /\ Tail(s) \in Seq(S)
         /\ ToSet(s) = {Head(s)} \cup ToSet(Tail(s))
<1>1. /\ Len(s) \in Nat /\ Len(s) # 0 /\ DOMAIN s = 1..Len(s)
      /\ Head(s) = s[1] /\ Head(s) \in S /\ Tail(s) \in Seq(S)
      /\ Len(Tail(s)) = Len(s) - 1
      /\ \A i \in 1..(Len(s) - 1) : Tail(s)[i] = s[i + 1]
  BY EmptySeq, HeadTailProperties
<1>2. DOMAIN Tail(s) = 1..(Len(s) - 1) BY <1>1
<1>3. ASSUME NEW i \in DOMAIN s PROVE s[i] \in {Head(s)} \cup ToSet(Tail(s))
  <2>1. CASE i = 1 BY <1>1, <2>1
  <2>2. CASE i # 1
    <3>1. i - 1 \in 1..(Len(s) - 1) /\ (i - 1) + 1 = i BY <1>1, <2>2
    <3>2. Tail(s)[i - 1] = s[i] BY <1>1, <3>1
    <3> QED BY <1>2, <3>1, <3>2 DEF ToSet
  <2> QED BY <2>1, <2>2
<1>4. ASSUME NEW i \in DOMAIN Tail(s) PROVE Tail(s)[i] \in ToSet(s)
  <2>1. i + 1 \in DOMAIN s /\ Tail(s)[i] = s[i + 1] BY <1>1, <1>2
  <2> QED BY <2>1 DEF ToSet
<1>5. Head(s) \in ToSet(s) BY <1>1 DEF ToSet
<1>6. ToSet(s) \subseteq {Head(s)} \cup ToSet(Tail(s)) BY <1>3 DEF ToSet
<1>7. ToSet(Tail(s)) \subseteq ToSet(s) BY <1>4 DEF ToSet
<1> QED BY <1>1, <1>5, <1>6, <1>7
-----------------------------------------------------------------------------
\* What the actions leave in todo, config and unopened, each on its own.
LEMMA CallProgress == Loading /\ Call => Progress'
<1> SUFFICES ASSUME Loading, Call PROVE Progress' OBVIOUS
<1>1. DOMAIN config' \subseteq DOMAIN ValueKeys[backend] BY DEF Call
<1>2. /\ backend \in KnownBackends /\ outcome = "idle" /\ outcome' = "pending"
      /\ todo' = FileKeys(backend) /\ unopened' = unopened
      /\ backend' = backend /\ named' = named
  BY DEF Call, flagVars
<1>3. Told' = {} BY <1>1, <1>2, ValuesAreNoFiles DEF Told
<1>4. unopened = {} BY <1>2 DEF Loading, Progress
<1>5. todo' \in Seq(AllFileKeys) /\ ToSet(todo') = ToSet(FileKeys(backend))
  BY <1>2, FileKeysAreKeys
<1> QED BY <1>2, <1>3, <1>4, <1>5 DEF Progress

LEMMA SkipProgress == Loading /\ SkipBook => Progress'
<1> SUFFICES ASSUME Loading, SkipBook PROVE Progress' OBVIOUS
<1>1. /\ outcome = "pending" /\ todo # <<>> /\ NameFor(Head(todo)) = NoName
      /\ todo' = Tail(todo) /\ config' = config /\ unopened' = unopened /\ outcome' = outcome
      /\ backend' = backend /\ named' = named /\ ever' = ever
  BY DEF SkipBook, flagVars, fileVars
<1>2. \A k : NameFor(k)' = NameFor(k) BY <1>1 DEF NameFor
<1>3. Told' = Told BY <1>1 DEF Told
<1>4. todo' \in Seq(AllFileKeys) /\ ToSet(todo) = {Head(todo)} \cup ToSet(todo')
  BY <1>1, ToSetTail DEF Loading, Progress
<1>5. \A k \in Told' : Served(k)' = Served(k) BY <1>2 DEF Served
<1> QED BY <1>1, <1>2, <1>3, <1>4, <1>5 DEF Loading, Progress

LEMMA EmplaceProgress == Loading /\ EmplaceFile => Progress'
<1> SUFFICES ASSUME Loading, EmplaceFile PROVE Progress' OBVIOUS
<1>1. /\ outcome = "pending" /\ todo # <<>> /\ NameFor(Head(todo)) # NoName
      /\ config' = [k \in DOMAIN config \cup {Head(todo)} |->
                      IF k = Head(todo) THEN GetResource(NameFor(k)) ELSE config[k]]
      /\ unopened' = unopened \cup {Head(todo)} /\ todo' = Tail(todo)
      /\ outcome' = outcome /\ backend' = backend /\ named' = named /\ ever' = ever
  BY DEF EmplaceFile, flagVars, fileVars
<1>2. \A k : NameFor(k)' = NameFor(k) BY <1>1 DEF NameFor
<1>3. /\ Head(todo) \in AllFileKeys /\ Head(todo) \in ToSet(FileKeys(backend))
      /\ todo' \in Seq(AllFileKeys) /\ ToSet(todo) = {Head(todo)} \cup ToSet(todo')
  BY <1>1, ToSetTail DEF Loading, Progress
<1>4. Told' = Told \cup {Head(todo)} BY <1>1, <1>3 DEF Told
<1>5. NameFor(Head(todo)) \in Names BY <1>1, NamesAreNames DEF Loading
<1>6. GetResource(NameFor(Head(todo))) \in Served(Head(todo)) BY DEF GetResource, Served
<1>7. \A k : Served(k)' = Served(k) BY <1>2 DEF Served
<1>8. ASSUME NEW k \in Told'
      PROVE  /\ k \in ToSet(FileKeys(backend)) /\ NameFor(k) \in Names
             /\ config'[k] \in Served(k)
             /\ k \notin unopened' => config'[k] \in ever
  <2>1. CASE k = Head(todo) BY <1>1, <1>3, <1>5, <1>6, <1>4, <2>1 DEF Told
  <2>2. CASE k # Head(todo)
    <3>1. k \in Told /\ config'[k] = config[k] BY <1>1, <1>4, <2>2 DEF Told
    <3> QED BY <1>1, <3>1 DEF Loading, Progress
  <2> QED BY <2>1, <2>2
<1>9. unopened' \subseteq Told' BY <1>1, <1>4 DEF Loading, Progress
<1>10. \A k \in ToSet(FileKeys(backend)) : NameFor(k) # NoName => k \in ToSet(todo') \cup Told'
  BY <1>1, <1>3, <1>4 DEF Loading, Progress
<1>11. todo' \in Seq(AllFileKeys) /\ ToSet(todo') \subseteq ToSet(FileKeys(backend))
  BY <1>3 DEF Loading, Progress
<1> QED BY <1>1, <1>2, <1>7, <1>8, <1>9, <1>10, <1>11 DEF Progress

LEMMA OpenProgress == Loading /\ BackendOpens => Progress'
<1> SUFFICES ASSUME Loading, BackendOpens PROVE Progress' OBVIOUS
<1>1. /\ outcome = "pending" /\ todo' = todo /\ config' = config /\ outcome' = outcome
      /\ backend' = backend /\ named' = named /\ ever' = ever
  BY DEF BackendOpens, flagVars, fileVars
<1>2. PICK k \in unopened : config[k] \in files /\ unopened' = unopened \ {k}
  BY DEF BackendOpens
<1>3. \A j : NameFor(j)' = NameFor(j) BY <1>1 DEF NameFor
<1>4. \A j : Served(j)' = Served(j) BY <1>3 DEF Served
<1>5. Told' = Told BY <1>1 DEF Told
<1>6. config[k] \in ever BY <1>2 DEF Loading, World
<1> QED BY <1>1, <1>2, <1>3, <1>4, <1>5, <1>6 DEF Loading, Progress

LEMMA DiscardProgress == Loading /\ Discard => Progress'
<1> SUFFICES ASSUME Loading, Discard PROVE Progress' OBVIOUS
<1>1. /\ outcome = "loaded" /\ outcome' = "idle" /\ config' = <<>> /\ backend' = backend
      /\ todo' = todo /\ unopened' = unopened
  BY DEF Discard, flagVars
<1>2. Told' = {} BY <1>1 DEF Told
<1> QED BY <1>1, <1>2 DEF Loading, Progress

LEMMA EndsProgress ==
  ASSUME NEW how, Loading, Ends(how),
         how \in {"threw", "aborted"} \/
           (how = "loaded" /\ outcome = "pending" /\ todo = <<>> /\ unopened = {})
  PROVE  Progress'
<1>1. /\ outcome' = how /\ todo' = todo /\ config' = config /\ unopened' = unopened
      /\ backend' = backend /\ named' = named /\ ever' = ever
  BY DEF Ends, flagVars, fileVars
<1>2. \A j : NameFor(j)' = NameFor(j) BY <1>1 DEF NameFor
<1>3. \A j : Served(j)' = Served(j) BY <1>2 DEF Served
<1>4. Told' = Told BY <1>1 DEF Told
<1> QED BY <1>1, <1>2, <1>3, <1>4 DEF Loading, Progress

LEMMA ProgressStep == Loading /\ [Next]_vars => Progress'
<1> SUFFICES ASSUME Loading, [Next]_vars PROVE Progress' OBVIOUS
<1>1. CASE UnknownBackend BY <1>1, EndsProgress DEF UnknownBackend
<1>2. CASE OriginIsNoVector BY <1>2, EndsProgress DEF OriginIsNoVector
<1>3. CASE Call BY <1>3, CallProgress
<1>4. CASE MainFileMissing
  <2>1. Ends("threw") \/ Ends("aborted") BY <1>4 DEF MainFileMissing
  <2> QED BY <2>1, EndsProgress
<1>5. CASE SkipBook BY <1>5, SkipProgress
<1>6. CASE RefusesAbsolute BY <1>6, EndsProgress DEF RefusesAbsolute
<1>7. CASE EmplaceFile BY <1>7, EmplaceProgress
<1>8. CASE BackendOpens BY <1>8, OpenProgress
<1>9. CASE BackendRefuses BY <1>9, EndsProgress DEF BackendRefuses
<1>10. CASE BackendLoads BY <1>10, EndsProgress DEF BackendLoads
<1>11. CASE Discard BY <1>11, DiscardProgress
<1>12. CASE FileChanges \/ UNCHANGED vars
  <2>1. /\ UNCHANGED <<flagVars, loadVars>>
        /\ ever \subseteq ever'
    BY <1>12 DEF FileChanges, vars, fileVars
  <2>2. /\ outcome' = outcome /\ todo' = todo /\ config' = config /\ unopened' = unopened
        /\ backend' = backend /\ named' = named
    BY <2>1 DEF flagVars, loadVars
  <2>3. \A j : NameFor(j)' = NameFor(j) BY <2>2 DEF NameFor
  <2>4. \A j : Served(j)' = Served(j) BY <2>3 DEF Served
  <2>5. Told' = Told BY <2>2 DEF Told
  <2> QED BY <2>1, <2>2, <2>3, <2>4, <2>5 DEF Loading, Progress
<1> QED
  BY <1>1, <1>2, <1>3, <1>4, <1>5, <1>6, <1>7, <1>8, <1>9, <1>10, <1>11, <1>12
  DEF Next, LoadRoadNetwork

LEMMA LoadingHolds == Spec => []Loading
<1>1. Loading /\ [Next]_vars => Loading' BY WorldStep, ProgressStep DEF Loading
<1> QED BY LoadingInit, <1>1, PTL DEF Spec

(***************************************************************************)
(* LoadTypeOK for every instance: the paths that backends are told are     *)
(* paths of names that were given, and LoadRoadNetwork() ends in one of    *)
(* the ways it can end (tools.cc).                                         *)
(***************************************************************************)
THEOREM LoadTypeCorrect == Spec => []LoadTypeOK
<1>1. Loading => LoadTypeOK
  <2> SUFFICES ASSUME Loading PROVE LoadTypeOK OBVIOUS
  <2>1. \A k \in Told : config[k] \in Paths
    BY DEF Loading, Progress, Served, Paths
  <2> QED BY <2>1 DEF Loading, World, Progress, LoadTypeOK, Told
<1> QED BY <1>1, LoadingHolds, PTL
-----------------------------------------------------------------------------
\* What a step does to the files the backend is told: it takes the answer for
\* one more, or forgets them all, or leaves them alone.
LEMMA ToldStep ==
  ASSUME Loading, [Next]_vars
  PROVE  /\ \A k \in Told' :
              \/ k \in Told /\ config'[k] = config[k]
              \/ config'[k] = GetResource(NameFor(k)) /\ UNCHANGED fileVars
         /\ Told' \subseteq AllFileKeys
<1>1. Told' \subseteq AllFileKeys BY DEF Told
<1> SUFFICES ASSUME NEW k \in Told'
             PROVE  \/ k \in Told /\ config'[k] = config[k]
                    \/ config'[k] = GetResource(NameFor(k)) /\ UNCHANGED fileVars
  BY <1>1
<1>2. CASE UNCHANGED config BY <1>2 DEF Told
<1>3. CASE EmplaceFile
  <2>1. /\ config' = [j \in DOMAIN config \cup {Head(todo)} |->
                        IF j = Head(todo) THEN GetResource(NameFor(j)) ELSE config[j]]
        /\ UNCHANGED fileVars
    BY <1>3 DEF EmplaceFile
  <2>2. k \in DOMAIN config \cup {Head(todo)} BY <2>1 DEF Told
  <2> QED BY <2>1, <2>2 DEF Told
<1>4. CASE Call
  <2>1. DOMAIN config' \subseteq DOMAIN ValueKeys[backend] /\ backend \in KnownBackends
    BY <1>4 DEF Call
  <2> QED BY <2>1, ValuesAreNoFiles DEF Told
<1>5. CASE Discard BY <1>5 DEF Discard, Told
<1>6. \/ Call \/ EmplaceFile \/ Discard \/ UNCHANGED config
  BY DEF Next, LoadRoadNetwork, UnknownBackend, OriginIsNoVector, MainFileMissing,
         SkipBook, RefusesAbsolute, BackendOpens, BackendRefuses, BackendLoads, Ends,
         FileChanges, vars, loadVars
<1> QED BY <1>2, <1>3, <1>4, <1>5, <1>6

\* History only grows, or shrinks, and is whole while nobody touches the files.
LEMMA HistoryStep ==
  ASSUME Loading, [Next]_vars
  PROVE  /\ always' \subseteq always /\ ever \subseteq ever'
         /\ changes' = 0 => changes = 0 /\ files' = files
<1>1. CASE UNCHANGED fileVars BY <1>1 DEF fileVars
<1>2. CASE FileChanges BY <1>2 DEF FileChanges, Loading, World
<1>3. FileChanges \/ UNCHANGED fileVars
  BY DEF Next, LoadRoadNetwork, UnknownBackend, OriginIsNoVector, Call, MainFileMissing,
         SkipBook, RefusesAbsolute, EmplaceFile, BackendOpens, BackendRefuses, BackendLoads, Ends,
         Discard, vars
<1> QED BY <1>1, <1>2, <1>3

LEMMA ResourcesFirstStep == Loading /\ ResourcesFirst /\ [Next]_vars => ResourcesFirst'
<1> SUFFICES ASSUME Loading, ResourcesFirst, [Next]_vars, NEW k \in Told'
             PROVE  /\ InRoot(NameFor(k)) \in always' => config'[k] = InRoot(NameFor(k))
                    /\ InRoot(NameFor(k)) \notin ever' => config'[k] = AsGiven(NameFor(k))
  BY NamesStay DEF ResourcesFirst, Told, InRoot, AsGiven
<1>1. CASE k \in Told /\ config'[k] = config[k]
  BY <1>1, HistoryStep DEF ResourcesFirst, Told
<1>2. CASE config'[k] = GetResource(NameFor(k)) /\ UNCHANGED fileVars
  BY <1>2 DEF GetResource, Loading, World, fileVars
<1> QED BY <1>1, <1>2, ToldStep

(***************************************************************************)
(* ResourcesFirst for every instance: GetResource() (tools.cc) asks the    *)
(* resource directory first, so nobody who creates or deletes other files  *)
(* meanwhile can make the backend use one from elsewhere.                  *)
(***************************************************************************)
THEOREM ResourcesComeFirst == Spec => []ResourcesFirst
<1>1. Init => ResourcesFirst BY DEF Init, ResourcesFirst
<1> QED BY <1>1, ResourcesFirstStep, LoadingHolds, PTL DEF Spec
-----------------------------------------------------------------------------
LEMMA UndisturbedStep == Loading /\ Undisturbed /\ [Next]_vars => Undisturbed'
<1> SUFFICES ASSUME Loading, Undisturbed, [Next]_vars, changes' = 0, NEW k \in Told'
             PROVE  config'[k] = GetResource(NameFor(k))'
  BY DEF Undisturbed
<1>1. changes = 0 /\ files' = files BY HistoryStep
<1>2. GetResource(NameFor(k))' = GetResource(NameFor(k))
  BY <1>1, NamesStay DEF GetResource
<1>3. CASE k \in Told /\ config'[k] = config[k] BY <1>1, <1>2, <1>3 DEF Undisturbed
<1>4. CASE config'[k] = GetResource(NameFor(k)) BY <1>2, <1>4
<1> QED BY <1>3, <1>4, ToldStep

\* A failure that nobody and no value is to blame for, at the step it happens.
Blameless ==
  ~(\/ backend \notin KnownBackends
    \/ backend = "multilane" /\ NameFor("yaml_file") \in AbsoluteNames
    \/ ~Available)

LEMMA BlamelessDoesNotFail ==
  ASSUME Loading, Undisturbed, changes = 0, set = {}, Blameless
  PROVE  /\ ~UnknownBackend /\ ~OriginIsNoVector /\ ~MainFileMissing
         /\ ~RefusesAbsolute /\ ~BackendRefuses
<1>1. ~UnknownBackend /\ ~OriginIsNoVector
  BY DEF UnknownBackend, OriginIsNoVector, Blameless
<1>2. \A k \in ToSet(FileKeys(backend)) :
        IF NameFor(k) = NoName THEN k \notin DOMAIN MainMember
        ELSE {AsGiven(NameFor(k)), InRoot(NameFor(k))} \cap files # {}
  BY DEF Blameless, Available
<1>3. todo # <<>> => Head(todo) \in ToSet(FileKeys(backend))
  BY ToSetTail DEF Loading, Progress
<1>4. ~MainFileMissing BY <1>2, <1>3 DEF MainFileMissing
<1>5. ~RefusesAbsolute BY <1>3, MultilaneKeys DEF RefusesAbsolute, Blameless
<1>6. ASSUME NEW k \in unopened PROVE config[k] \in files
  <2>1. /\ k \in ToSet(FileKeys(backend)) /\ NameFor(k) # NoName
        /\ config[k] = GetResource(NameFor(k))
    BY LoadingAssumption DEF Loading, Progress, Undisturbed
  <2>2. InRoot(NameFor(k)) \in files \/ AsGiven(NameFor(k)) \in files BY <1>2, <2>1
  <2> QED BY <2>1, <2>2 DEF GetResource
<1>7. ~BackendRefuses BY <1>6 DEF BackendRefuses
<1> QED BY <1>1, <1>4, <1>5, <1>7

LEMMA LoadsStep ==
  Loading /\ Undisturbed /\ LoadsWhatIsThere /\ [Next]_vars => LoadsWhatIsThere'
<1> SUFFICES ASSUME Loading, Undisturbed, LoadsWhatIsThere, [Next]_vars,
                    changes' = 0, set' = {}, outcome' \in {"threw", "aborted"}, Blameless'
             PROVE  FALSE
  BY DEF LoadsWhatIsThere, Blameless
<1>1. changes = 0 /\ files' = files BY HistoryStep
<1>2. set' = set
  BY DEF Next, LoadRoadNetwork, UnknownBackend, OriginIsNoVector, Call, MainFileMissing,
         SkipBook, RefusesAbsolute, EmplaceFile, BackendOpens, BackendRefuses, BackendLoads, Ends,
         Discard, FileChanges, vars, flagVars
<1>3. Blameless
  <2>1. Available' = Available BY <1>1, NamesStay DEF Available, AsGiven, InRoot
  <2> QED BY <2>1, NamesStay DEF Blameless
<1>4. outcome \notin {"threw", "aborted"} BY <1>1, <1>2, <1>3 DEF LoadsWhatIsThere, Blameless
<1>5. UnknownBackend \/ OriginIsNoVector \/ MainFileMissing \/ RefusesAbsolute \/ BackendRefuses
  BY <1>4 DEF Next, LoadRoadNetwork, Call, SkipBook, EmplaceFile, BackendOpens, BackendLoads,
              Ends, Discard, FileChanges, vars, loadVars
<1> QED BY <1>1, <1>2, <1>3, <1>5, BlamelessDoesNotFail

(***************************************************************************)
(* LoadsWhatIsThere for every instance. Undisturbed strengthens it: until  *)
(* somebody touches the files, what was asked about each of them is still  *)
(* true when the backend opens it (tools.cc).                              *)
(***************************************************************************)
THEOREM WhatIsThereIsLoaded == Spec => []LoadsWhatIsThere
<1>1. Init => Undisturbed BY DEF Init, Undisturbed, Told
<1>2. Init => LoadsWhatIsThere BY DEF Init, LoadsWhatIsThere
<1> QED BY <1>1, <1>2, LoadingHolds, UndisturbedStep, LoadsStep, PTL DEF Spec
-----------------------------------------------------------------------------
(***************************************************************************)
(* More about the tables: the way of each flag through the call and the    *)
(* struct ends at the member, and the key, of the same flag.               *)
(***************************************************************************)
FileMembers == {MemberOf(k) : k \in AllFileKeys}

LEMMA FlagAt ==
  ASSUME NEW b, NEW i \in DOMAIN Members[b],
         \A j \in DOMAIN Members[b] : Members[b][j] = Members[b][i] => j = i
  PROVE  FlagOf(b, Members[b][i]) = FlagsPassed[b][i]
BY DEF FlagOf

\* The flags and members of the backends, one after the other.
LEMMA MalidriveFlags ==
  LET m == Members["malidrive"]
      f == FlagsPassed["malidrive"]
  IN  /\ DOMAIN m = 1..13
      /\ m[1] = "xodr_file_path" /\ f[1] = "xodr_file_path"
      /\ m[2] = "linear_tolerance" /\ f[2] = "linear_tolerance"
      /\ m[3] = "max_linear_tolerance" /\ f[3] = "max_linear_tolerance"
      /\ m[4] = "build_policy" /\ f[4] = "build_policy"
      /\ m[5] = "number_of_threads" /\ f[5] = "num_threads"
      /\ m[6] = "simplification_policy" /\ f[6] = "simplification_policy"
      /\ m[7] = "standard_strictness_policy" /\ f[7] = "standard_strictness_policy"
      /\ m[8] = "omit_nondrivable_lanes" /\ f[8] = "omit_nondrivable_lanes"
      /\ m[9] = "rule_registry_file" /\ f[9] = "rule_registry_file"
      /\ m[10] = "road_rule_book_file" /\ f[10] = "road_rule_book_file"
      /\ m[11] = "traffic_light_book_file" /\ f[11] = "traffic_light_book_file"
      /\ m[12] = "phase_ring_book_file" /\ f[12] = "phase_ring_book_file"
      /\ m[13] = "intersection_book_file" /\ f[13] = "intersection_book_file"
BY DEF Members, FlagsPassed, Books

LEMMA OsmFlags ==
  LET m == Members["osm"]
  IN  /\ FlagsPassed["osm"] = m /\ DOMAIN m = 1..9
      /\ m[1] = "osm_file" /\ m[2] = "linear_tolerance" /\ m[3] = "angular_tolerance"
      /\ m[4] = "origin" /\ m[5] = "rule_registry_file" /\ m[6] = "road_rule_book_file"
      /\ m[7] = "traffic_light_book_file" /\ m[8] = "phase_ring_book_file"
      /\ m[9] = "intersection_book_file"
BY DEF Members, FlagsPassed, Books

LEMMA OtherFlags ==
  /\ Members["dragway"] = <<"num_lanes", "length", "lane_width", "shoulder_width", "maximum_height">>
  /\ FlagsPassed["dragway"] = Members["dragway"]
  /\ Members["multilane"] = <<"yaml_file">> /\ FlagsPassed["multilane"] = Members["multilane"]
BY DEF Members, FlagsPassed

\* The keys of files, and the members that name them.
LEMMA FileKeysMembers ==
  /\ AllFileKeys = {"opendrive_file", "osm_file", "yaml_file", "rule_registry",
                    "road_rule_book", "traffic_light_book", "phase_ring_book",
                    "intersection_book"}
  /\ MemberOf("opendrive_file") = "xodr_file_path" /\ MemberOf("osm_file") = "osm_file"
  /\ MemberOf("yaml_file") = "yaml_file" /\ MemberOf("rule_registry") = "rule_registry_file"
  /\ MemberOf("road_rule_book") = "road_rule_book_file"
  /\ MemberOf("traffic_light_book") = "traffic_light_book_file"
  /\ MemberOf("phase_ring_book") = "phase_ring_book_file"
  /\ MemberOf("intersection_book") = "intersection_book_file"
BY DEF AllFileKeys, MainMember, BookMember, MemberOf

LEMMA FileMembersAre ==
  FileMembers = {"xodr_file_path", "osm_file", "yaml_file", "rule_registry_file",
                 "road_rule_book_file", "traffic_light_book_file", "phase_ring_book_file",
                 "intersection_book_file"}
BY FileKeysMembers DEF FileMembers

LEMMA KeyOfMember == \A k \in AllFileKeys : KeyOf(MemberOf(k)) = k
<1> SUFFICES ASSUME NEW k \in AllFileKeys PROVE KeyOf(MemberOf(k)) = k OBVIOUS
<1>1. \A j \in AllFileKeys : MemberOf(j) = MemberOf(k) => j = k BY FileKeysMembers
<1> QED BY <1>1 DEF KeyOf

LEMMA KeyOfValue == \A flag : flag \notin FileMembers => KeyOf(flag) = flag
BY DEF KeyOf, FileMembers

\* The keys of the files of each backend.
LEMMA FileKeysAre ==
  LET books == {"rule_registry", "road_rule_book", "traffic_light_book", "phase_ring_book",
                "intersection_book"}
  IN  /\ ToSet(FileKeys("dragway")) = {} /\ ToSet(FileKeys("multilane")) = {"yaml_file"}
      /\ ToSet(FileKeys("malidrive")) = {"opendrive_file"} \cup books
      /\ ToSet(FileKeys("osm")) = {"osm_file"} \cup books
<1>1. FileKeys("dragway") = <<>> BY DEF FileKeys, FileKeyTable, KnownBackends
<1>2. ToSet(FileKeys("dragway")) = {} BY <1>1 DEF ToSet
<1>3. /\ FileKeys("malidrive") = <<"opendrive_file">> \o BookKeys
      /\ FileKeys("osm") = <<"osm_file">> \o BookKeys
  BY DEF FileKeys, FileKeyTable, KnownBackends
<1>4. ASSUME NEW main
      PROVE  LET s == <<main>> \o BookKeys
             IN  DOMAIN s = 1..6 /\ s[1] = main /\ s[2] = "rule_registry"
                 /\ s[3] = "road_rule_book" /\ s[4] = "traffic_light_book"
                 /\ s[5] = "phase_ring_book" /\ s[6] = "intersection_book"
  BY DEF BookKeys
<1>5. ASSUME NEW main
      PROVE  ToSet(<<main>> \o BookKeys) =
               {main, "rule_registry", "road_rule_book", "traffic_light_book",
                "phase_ring_book", "intersection_book"}
  <2> DEFINE s == <<main>> \o BookKeys
  <2>1. ToSet(s) = {s[i] : i \in 1..6} BY <1>4 DEF ToSet
  <2>2. 1..6 = {1, 2, 3, 4, 5, 6} OBVIOUS
  <2> QED BY <1>4, <2>1, <2>2
<1> QED BY <1>2, <1>3, <1>5, MultilaneKeys

\* What a backend understands are its values and its files; malidrive gets no
\* angular tolerance from the user.
LEMMA TablesOfFlags ==
  \A b \in KnownBackends :
    /\ \A k \in DOMAIN ValueKeys[b] :
         FlagOf(b, ValueKeys[b][k]) = k /\ k \in Understood(b) /\ k \notin FileMembers
    /\ \A k \in ToSet(FileKeys(b)) :
         FlagOf(b, MemberOf(k)) = MemberOf(k) /\ MemberOf(k) \in Understood(b)
    /\ \A flag \in Understood(b) :
         \/ flag \in DOMAIN ValueKeys[b]
         \/ \E k \in ToSet(FileKeys(b)) : flag = MemberOf(k)
         \/ b = "malidrive" /\ flag = "angular_tolerance"
<1> SUFFICES ASSUME NEW b \in KnownBackends
    PROVE
    /\ \A k \in DOMAIN ValueKeys[b] :
         FlagOf(b, ValueKeys[b][k]) = k /\ k \in Understood(b) /\ k \notin FileMembers
    /\ \A k \in ToSet(FileKeys(b)) :
         FlagOf(b, MemberOf(k)) = MemberOf(k) /\ MemberOf(k) \in Understood(b)
    /\ \A flag \in Understood(b) :
         \/ flag \in DOMAIN ValueKeys[b]
         \/ \E k \in ToSet(FileKeys(b)) : flag = MemberOf(k)
         \/ b = "malidrive" /\ flag = "angular_tolerance"
  OBVIOUS
<1>1. ToSet(Books) = {"rule_registry_file", "road_rule_book_file", "traffic_light_book_file",
                      "phase_ring_book_file", "intersection_book_file"}
  <2>1. DOMAIN Books = {1, 2, 3, 4, 5} BY DEF Books
  <2> QED BY <2>1 DEF Books, ToSet
<1>2. CASE b = "dragway"
  <2>1. Understood(b) = {"num_lanes", "length", "lane_width", "shoulder_width", "maximum_height"}
    BY <1>2 DEF Understood
  <2>2. DOMAIN ValueKeys[b] = Understood(b) /\ \A k \in DOMAIN ValueKeys[b] : ValueKeys[b][k] = k
    BY <1>2, <2>1 DEF ValueKeys
  <2>3. DOMAIN Members[b] = 1..5
        /\ \A i, j \in DOMAIN Members[b] : Members[b][j] = Members[b][i] => j = i
    BY <1>2, OtherFlags
  <2>4. \A i \in DOMAIN Members[b] : FlagOf(b, Members[b][i]) = Members[b][i]
    BY <1>2, <2>3, FlagAt, OtherFlags
  <2>5. \A k \in Understood(b) : \E i \in DOMAIN Members[b] : Members[b][i] = k
    BY <1>2, <2>1, <2>3, OtherFlags
  <2>6. \A k \in Understood(b) : FlagOf(b, k) = k BY <2>4, <2>5
  <2>7. \A k \in Understood(b) : k \notin FileMembers BY <2>1, FileMembersAre
  <2> QED BY <1>2, <2>2, <2>6, <2>7, FileKeysAre
<1>3. CASE b = "multilane"
  <2>1. Understood(b) = {"yaml_file"} BY <1>3 DEF Understood
  <2>2. DOMAIN ValueKeys[b] = {} BY <1>3 DEF ValueKeys
  <2>3. DOMAIN Members[b] = {1} /\ Members[b][1] = "yaml_file" BY <1>3, OtherFlags
  <2>4. FlagOf(b, "yaml_file") = "yaml_file" BY <1>3, <2>3, FlagAt, OtherFlags
  <2> QED BY <1>3, <2>1, <2>2, <2>4, FileKeysAre, FileKeysMembers
<1>4. CASE b = "malidrive"
  <2>1. Understood(b) =
          {"linear_tolerance", "angular_tolerance", "rule_registry_file", "road_rule_book_file",
           "traffic_light_book_file", "phase_ring_book_file", "intersection_book_file",
           "xodr_file_path", "max_linear_tolerance", "build_policy", "num_threads",
           "simplification_policy", "standard_strictness_policy", "omit_nondrivable_lanes"}
    BY <1>1, <1>4 DEF Understood, CommonFlags
  <2>2. DOMAIN ValueKeys[b] =
          {"linear_tolerance", "max_linear_tolerance", "build_policy", "num_threads",
           "simplification_policy", "standard_strictness_policy", "omit_nondrivable_lanes"}
        /\ \A k \in DOMAIN ValueKeys[b] :
             ValueKeys[b][k] = IF k = "num_threads" THEN "number_of_threads" ELSE k
    BY <1>4 DEF ValueKeys
  <2>3. \A i, j \in DOMAIN Members[b] : Members[b][j] = Members[b][i] => j = i
    BY <1>4, MalidriveFlags
  <2>4. \A i \in DOMAIN Members[b] :
          FlagOf(b, Members[b][i]) =
            IF Members[b][i] = "number_of_threads" THEN "num_threads" ELSE Members[b][i]
    <3>1. \A i \in DOMAIN Members[b] : FlagOf(b, Members[b][i]) = FlagsPassed[b][i]
      BY <2>3, FlagAt
    <3> QED BY <1>4, <3>1, MalidriveFlags
  <2>5. \A m \in (Understood(b) \ {"num_threads", "angular_tolerance"}) \cup {"number_of_threads"} :
          \E i \in DOMAIN Members[b] : Members[b][i] = m
    BY <1>4, <2>1, MalidriveFlags
  <2>6. /\ \A k \in Understood(b) \ {"num_threads", "angular_tolerance"} : FlagOf(b, k) = k
        /\ FlagOf(b, "number_of_threads") = "num_threads"
    BY <2>1, <2>4, <2>5
  <2>7. \A k \in DOMAIN ValueKeys[b] : k \notin FileMembers BY <2>2, FileMembersAre
  <2>8. \A k \in ToSet(FileKeys(b)) :
          MemberOf(k) \in Understood(b) \ {"num_threads", "angular_tolerance"}
    BY <1>4, <2>1, FileKeysAre, FileKeysMembers
  <2>9. \A flag \in Understood(b) : \/ flag \in DOMAIN ValueKeys[b]
                                    \/ \E k \in ToSet(FileKeys(b)) : flag = MemberOf(k)
                                    \/ flag = "angular_tolerance"
    BY <1>4, <2>1, <2>2, FileKeysAre, FileKeysMembers
  <2>10. \A k \in DOMAIN ValueKeys[b] : FlagOf(b, ValueKeys[b][k]) = k /\ k \in Understood(b)
    BY <2>1, <2>2, <2>6
  <2> QED BY <1>4, <2>6, <2>7, <2>8, <2>9, <2>10
<1>5. CASE b = "osm"
  <2>1. Understood(b) =
          {"linear_tolerance", "angular_tolerance", "rule_registry_file", "road_rule_book_file",
           "traffic_light_book_file", "phase_ring_book_file", "intersection_book_file",
           "osm_file", "origin"}
    BY <1>1, <1>5 DEF Understood, CommonFlags
  <2>2. DOMAIN ValueKeys[b] = {"linear_tolerance", "angular_tolerance", "origin"}
        /\ \A k \in DOMAIN ValueKeys[b] : ValueKeys[b][k] = k
    BY <1>5 DEF ValueKeys
  <2>3. \A i, j \in DOMAIN Members[b] : Members[b][j] = Members[b][i] => j = i
    BY <1>5, OsmFlags
  <2>4. \A i \in DOMAIN Members[b] : FlagOf(b, Members[b][i]) = Members[b][i]
    BY <1>5, <2>3, FlagAt, OsmFlags
  <2>5. \A k \in Understood(b) : \E i \in DOMAIN Members[b] : Members[b][i] = k
    BY <1>5, <2>1, OsmFlags
  <2>6. \A k \in Understood(b) : FlagOf(b, k) = k BY <2>4, <2>5
  <2>7. \A k \in DOMAIN ValueKeys[b] : k \notin FileMembers BY <2>2, FileMembersAre
  <2>8. \A k \in ToSet(FileKeys(b)) : MemberOf(k) \in Understood(b)
    BY <1>5, <2>1, FileKeysAre, FileKeysMembers
  <2>9. \A flag \in Understood(b) : \/ flag \in DOMAIN ValueKeys[b]
                                    \/ \E k \in ToSet(FileKeys(b)) : flag = MemberOf(k)
    BY <1>5, <2>1, <2>2, FileKeysAre, FileKeysMembers
  <2> QED BY <1>5, <2>1, <2>2, <2>6, <2>7, <2>8, <2>9
<1> QED BY <1>2, <1>3, <1>4, <1>5 DEF KnownBackends

\* The values that are passed, from the call on.
Passed == {k \in DOMAIN ValueKeys[backend] : k \in OptionalValues(backend) => k \in set}
ValuesPassed ==
  outcome \in {"pending", "loaded"} =>
    /\ backend \in KnownBackends
    /\ DOMAIN config \ AllFileKeys = Passed
    /\ \A k \in Passed : config[k] = Value(k)

LEMMA CallPassesValues == Call => ValuesPassed'
<1> SUFFICES ASSUME Call PROVE ValuesPassed' OBVIOUS
<1> DEFINE flag(key) == FlagOf(backend, ValueKeys[backend][key])
           there == {key \in DOMAIN ValueKeys[backend] :
                       key \in OptionalValues(backend) => flag(key) \in set}
<1>1. /\ backend \in KnownBackends /\ config' = [key \in there |-> Value(flag(key))]
      /\ backend' = backend /\ set' = set
  BY DEF Call, flagVars
<1>2. \A key \in DOMAIN ValueKeys[backend] : flag(key) = key BY <1>1, TablesOfFlags
<1>3. there = Passed BY <1>2 DEF Passed
<1>4. Passed \subseteq DOMAIN ValueKeys[backend] BY DEF Passed
<1> HIDE DEF flag, there
<1>5. DOMAIN config' = Passed /\ \A k \in Passed : config'[k] = Value(k)
  BY <1>1, <1>2, <1>3, <1>4
<1>6. Passed \cap AllFileKeys = {} BY <1>1, <1>4, ValuesAreNoFiles
<1>7. Passed' = Passed /\ \A k : Value(k)' = Value(k) BY <1>1 DEF Passed, Value
<1> QED BY <1>1, <1>5, <1>6, <1>7 DEF ValuesPassed

LEMMA ValuesPassedStep == Loading /\ ValuesPassed /\ [Next]_vars => ValuesPassed'
<1> SUFFICES ASSUME Loading, ValuesPassed, [Next]_vars, outcome' \in {"pending", "loaded"}
             PROVE  ValuesPassed'
  BY DEF ValuesPassed
<1>1. backend' = backend /\ set' = set
  BY DEF Next, LoadRoadNetwork, UnknownBackend, OriginIsNoVector, Call, MainFileMissing,
         SkipBook, RefusesAbsolute, EmplaceFile, BackendOpens, BackendRefuses, BackendLoads, Ends,
         Discard, FileChanges, vars, flagVars
<1>2. Passed' = Passed /\ \A k : Value(k)' = Value(k) BY <1>1 DEF Passed, Value
<1>3. CASE Call BY <1>3, CallPassesValues
<1>4. CASE EmplaceFile
  <2>1. /\ outcome = "pending" /\ todo # <<>>
        /\ config' = [k \in DOMAIN config \cup {Head(todo)} |->
                        IF k = Head(todo) THEN GetResource(NameFor(k)) ELSE config[k]]
    BY <1>4 DEF EmplaceFile
  <2>2. Head(todo) \in AllFileKeys BY <2>1, ToSetTail DEF Loading, Progress
  <2>3. DOMAIN config' \ AllFileKeys = DOMAIN config \ AllFileKeys BY <2>1, <2>2
  <2>4. \A k \in DOMAIN config \ AllFileKeys : config'[k] = config[k] BY <2>1, <2>2
  <2> QED BY <1>1, <1>2, <2>1, <2>3, <2>4 DEF ValuesPassed
<1>5. CASE config' = config /\ outcome \in {"pending", "loaded"}
  BY <1>1, <1>2, <1>5 DEF ValuesPassed
<1>6. Call \/ EmplaceFile \/ (config' = config /\ outcome \in {"pending", "loaded"})
  BY DEF Next, LoadRoadNetwork, UnknownBackend, OriginIsNoVector, MainFileMissing,
         SkipBook, RefusesAbsolute, BackendOpens, BackendRefuses, BackendLoads, Ends,
         Discard, FileChanges, vars, loadVars
<1> QED BY <1>3, <1>4, <1>5, <1>6

\* A flag that is given is a file flag or a value flag, and never both.
LEMMA GivenFlags ==
  ASSUME Loading, backend \in KnownBackends
  PROVE  /\ \A flag \in DOMAIN named : flag \in FileMembers
         /\ set \cap FileMembers = {}
         /\ \A k \in ToSet(FileKeys(backend)) :
              NameFor(k) = IF MemberOf(k) \in DOMAIN named THEN named[MemberOf(k)] ELSE NoName
<1>1. DOMAIN named \subseteq FileFlags /\ set \subseteq ValueFlags BY DEF Loading, World
<1>2. FileFlags \subseteq FileMembers /\ ValueFlags \cap FileMembers = {}
  BY FlagAssumption DEF FileMembers
<1>3. \A k \in ToSet(FileKeys(backend)) : FlagOf(backend, MemberOf(k)) = MemberOf(k)
  BY TablesOfFlags
<1> QED BY <1>1, <1>2, <1>3 DEF NameFor

\* What the user asked for is passed on...
LEMMA RequestedIsPassed ==
  ASSUME Loading, ValuesPassed, outcome = "loaded", NEW flag \in Understood(backend),
         Requested(flag), ~(backend = "malidrive" /\ flag = "angular_tolerance")
  PROVE  KeyOf(flag) \in DOMAIN config /\ config[KeyOf(flag)] \in Answers(flag)
<1>1. backend \in KnownBackends BY DEF ValuesPassed
<1>2. CASE flag \in DOMAIN ValueKeys[backend]
  <2>1. flag \notin FileMembers BY <1>1, <1>2, TablesOfFlags
  <2>2. flag \notin DOMAIN named /\ KeyOf(flag) = flag BY <1>1, <2>1, GivenFlags, KeyOfValue
  <2>3. flag \in set BY <2>2 DEF Requested
  <2>4. flag \in Passed BY <1>2, <2>3 DEF Passed
  <2>5. flag \in DOMAIN config /\ config[flag] = <<"set", flag>>
    BY <2>3, <2>4 DEF ValuesPassed, Value
  <2> QED BY <2>2, <2>5 DEF Answers
<1>3. ASSUME NEW k \in ToSet(FileKeys(backend)), flag = MemberOf(k)
      PROVE  KeyOf(flag) \in DOMAIN config /\ config[KeyOf(flag)] \in Answers(flag)
  <2>1. k \in AllFileKeys BY FileKeysAreKeys
  <2>2. flag \in FileMembers /\ KeyOf(flag) = k BY <1>3, <2>1, KeyOfMember DEF FileMembers
  <2>3. flag \in DOMAIN named /\ named[flag] # NoName
    BY <1>1, <2>2, GivenFlags DEF Requested
  <2>4. NameFor(k) = named[flag] BY <1>1, <1>3, <2>3, GivenFlags
  <2>5. k \in Told
    <3>1. ToSet(todo) = {} BY DEF Loading, Progress, ToSet
    <3> QED BY <2>3, <2>4, <3>1 DEF Loading, Progress
  <2>6. config[k] \in {AsGiven(named[flag]), InRoot(named[flag])}
    BY <2>4, <2>5 DEF Loading, Progress, Served
  <2> QED BY <2>2, <2>3, <2>5, <2>6 DEF Answers, Told
<1> QED BY <1>1, <1>2, <1>3, TablesOfFlags

\* ... and nothing else but defaults.
LEMMA PassedIsRequested ==
  ASSUME Loading, ValuesPassed, outcome = "loaded", NEW k \in DOMAIN config
  PROVE  \E flag \in Understood(backend) :
           /\ KeyOf(flag) = k
           /\ config[k] = <<"default", flag>> \/ (Requested(flag) /\ config[k] \in Answers(flag))
<1>1. backend \in KnownBackends BY DEF ValuesPassed
<1>2. CASE k \in AllFileKeys
  <2>1. k \in Told BY <1>2 DEF Told
  <2>2. k \in ToSet(FileKeys(backend)) /\ NameFor(k) \in Names /\ config[k] \in Served(k)
    BY <2>1 DEF Loading, Progress
  <2>3. MemberOf(k) \in Understood(backend) /\ KeyOf(MemberOf(k)) = k
    BY <1>1, <1>2, <2>2, TablesOfFlags, KeyOfMember
  <2>4. MemberOf(k) \in DOMAIN named /\ NameFor(k) = named[MemberOf(k)]
        /\ named[MemberOf(k)] # NoName
    BY <1>1, <2>2, GivenFlags, LoadingAssumption
  <2>5. Requested(MemberOf(k)) /\ config[k] \in Answers(MemberOf(k))
    BY <2>2, <2>4 DEF Requested, Answers, Served
  <2> QED BY <2>3, <2>5
<1>3. CASE k \notin AllFileKeys
  <2>1. k \in Passed /\ config[k] = Value(k) BY <1>3 DEF ValuesPassed
  <2>2. k \in Understood(backend) /\ k \notin FileMembers
    BY <1>1, <2>1, TablesOfFlags DEF Passed
  <2>3. KeyOf(k) = k /\ k \notin DOMAIN named BY <1>1, <2>2, KeyOfValue, GivenFlags
  <2>4. CASE k \in set BY <2>1, <2>2, <2>3, <2>4 DEF Value, Requested, Answers
  <2>5. CASE k \notin set BY <2>1, <2>2, <2>3, <2>5 DEF Value
  <2> QED BY <2>4, <2>5
<1> QED BY <1>2, <1>3

LEMMA AlwaysValuesPassed == Spec => []ValuesPassed
<1>1. Init => ValuesPassed BY DEF Init, ValuesPassed
<1> QED BY <1>1, LoadingHolds, ValuesPassedStep, PTL DEF Spec

(***************************************************************************)
(* ConfigIsRequest for every instance: whichever flags are given, the      *)
(* positions at which the applications pass them, the structs and the keys *)
(* of tools.cc bring each to where it belongs, and nothing is added but    *)
(* defaults.                                                               *)
(***************************************************************************)
THEOREM ConfigIsWhatWasRequested == Spec => []ConfigIsRequest
<1>1. Loading /\ ValuesPassed => ConfigIsRequest
  BY RequestedIsPassed, PassedIsRequested DEF ConfigIsRequest
<1> QED BY <1>1, LoadingHolds, AlwaysValuesPassed, PTL
-----------------------------------------------------------------------------
\* The state of the abstract specification.
Answer == CASE outcome = "loaded" -> "loaded"
            [] outcome \in {"threw", "aborted"} -> "failed"
            [] OTHER -> "none"
Network == IF outcome = "loaded" THEN [k \in Told |-> config[k]] ELSE <<>>

\* What is asked for, and when everything was looked up.
LEMMA RequestStays == [Next]_vars => Request' = Request
BY NamesStay DEF Request, AsGiven, InRoot

LEMMA RequestIsTold ==
  ASSUME Loading, outcome = "pending", todo = <<>>
  PROVE  DOMAIN Request = Told /\ \A k \in Told : Request[k] = Served(k)
<1>1. ToSet(todo) = {} BY DEF ToSet
<1>2. {k \in ToSet(FileKeys(backend)) : NameFor(k) # NoName} = Told
  BY <1>1, LoadingAssumption DEF Loading, Progress
<1> QED BY <1>2 DEF Request, Served

LEMMA AnswersStep ==
  ASSUME Loading, [Next]_vars
  PROVE  \/ /\ Answer = "none" /\ Answer' = "loaded"
            /\ Network' \in [DOMAIN Request -> ever]
            /\ \A k \in DOMAIN Request : Network'[k] \in Request[k]
            /\ ever' = ever
         \/ Answer = "none" /\ Answer' = "failed" /\ ever' = ever /\ Network' = Network
         \/ Answer = "loaded" /\ Answer' = "none" /\ Network' = <<>> /\ ever' = ever
         \/ ever \subseteq ever' /\ Answer' = Answer /\ Network' = Network
<1>1. CASE BackendLoads
  <2>1. /\ outcome = "pending" /\ outcome' = "loaded" /\ todo = <<>> /\ unopened = {}
        /\ config' = config /\ ever' = ever
    BY <1>1 DEF BackendLoads, Ends, fileVars
  <2>2. Answer = "none" /\ Answer' = "loaded" BY <2>1 DEF Answer
  <2>3. Network' = [k \in Told |-> config[k]] BY <2>1 DEF Network, Told
  <2>4. \A k \in Told : config[k] \in ever /\ config[k] \in Served(k)
    BY <2>1 DEF Loading, Progress
  <2> QED BY <2>1, <2>2, <2>3, <2>4, RequestIsTold
<1>2. CASE UnknownBackend \/ OriginIsNoVector \/ MainFileMissing \/ RefusesAbsolute \/ BackendRefuses
  <2>1. outcome \in {"idle", "pending"} /\ outcome' \in {"threw", "aborted"} /\ ever' = ever
    BY <1>2 DEF UnknownBackend, OriginIsNoVector, MainFileMissing, RefusesAbsolute,
                BackendRefuses, Ends, fileVars
  <2> QED BY <2>1 DEF Answer, Network
<1>3. CASE Discard
  BY <1>3 DEF Discard, Answer, Network, fileVars
<1>4. CASE Call \/ SkipBook \/ EmplaceFile \/ BackendOpens
  <2>1. outcome \in {"idle", "pending"} /\ outcome' \in {"idle", "pending"} /\ ever' = ever
    BY <1>4 DEF Call, SkipBook, EmplaceFile, BackendOpens, fileVars
  <2> QED BY <2>1 DEF Answer, Network
<1>5. CASE FileChanges \/ UNCHANGED vars
  <2>1. outcome' = outcome /\ config' = config
    BY <1>5 DEF FileChanges, vars, loadVars
  <2> QED BY <2>1, HistoryStep DEF Answer, Network, Told
<1> QED BY <1>1, <1>2, <1>3, <1>4, <1>5 DEF Next, LoadRoadNetwork

(***************************************************************************)
(* Every behaviour of LoadRoadNetwork() (tools.cc), with all that happens  *)
(* to the files meanwhile, is a behaviour of NetworkRequest: the backend   *)
(* loads in the step that answers, and Loading says that by then each file *)
(* that is named was looked up and opened.                                 *)
(***************************************************************************)
THEOREM LoadingImplementsRequest == Spec => ImplementsRequest
<1>1. Init => Answered!Init
  BY DEF Init, Answered!Init
<1>2. Loading /\ [Next]_vars => [Answered!Next]_(Answered!vars)
  <2> SUFFICES ASSUME Loading, [Next]_vars PROVE [Answered!Next]_(Answered!vars) OBVIOUS
  <2> QED
    BY AnswersStep, RequestStays
    DEF Answered!Next, Answered!vars, Answered!Answer, Answered!Fail, Answered!Again,
        Answered!Appear, Answer, Network, Told
<1> QED BY <1>1, <1>2, LoadingHolds, PTL DEF Spec, ImplementsRequest, Answered!Spec
-----------------------------------------------------------------------------
(* What NetworkRequest promises, in every implementation of it. *)

NetworkIsAnswer ==
  Answer = "loaded" =>
    /\ Network \in [DOMAIN Request -> ever]
    /\ \A k \in DOMAIN Request : Network[k] \in Request[k]

LEMMA AnswerStays ==
  NetworkIsAnswer /\ [Answered!Next]_(Answered!vars) => NetworkIsAnswer'
<1> SUFFICES ASSUME NetworkIsAnswer, [Answered!Next]_(Answered!vars) PROVE NetworkIsAnswer'
  OBVIOUS
<1>1. CASE Answered!Answer
  <2>1. /\ Network' \in [DOMAIN Request -> ever]
        /\ \A k \in DOMAIN Request : Network'[k] \in Request[k]
        /\ Request' = Request /\ ever' = ever
    BY <1>1 DEF Answered!Answer, Network, Told
  <2> QED BY <2>1 DEF NetworkIsAnswer
<1>2. CASE Answered!Fail \/ Answered!Again
  <2>1. Answer' # "loaded" BY <1>2 DEF Answered!Fail, Answered!Again, Answer
  <2> QED BY <2>1 DEF NetworkIsAnswer
<1>3. CASE Answered!Appear \/ UNCHANGED Answered!vars
  <2>1. ever \subseteq ever' /\ Request' = Request /\ Answer' = Answer /\ Network' = Network
    BY <1>3 DEF Answered!Appear, Answered!vars, Answer, Network, Told
  <2>2. CASE Answer = "loaded"
    <3>1. Network \in [DOMAIN Request -> ever'] BY <2>1, <2>2 DEF NetworkIsAnswer
    <3>2. \A k \in DOMAIN Request : Network[k] \in Request[k] BY <2>2 DEF NetworkIsAnswer
    <3> HIDE DEF NetworkIsAnswer
    <3>3. /\ Network' \in [DOMAIN Request' -> ever']
          /\ \A k \in DOMAIN Request' : Network'[k] \in Request'[k]
      BY <2>1, <3>1, <3>2, Zenon
    <3> QED BY <3>3 DEF NetworkIsAnswer
  <2>3. CASE Answer # "loaded" BY <2>1, <2>3 DEF NetworkIsAnswer
  <2> QED BY <2>2, <2>3
<1> QED BY <1>1, <1>2, <1>3 DEF Answered!Next

(***************************************************************************)
(* Whoever answers as NetworkRequest says hands out no road network that   *)
(* lacks a file of the request, has one that was not asked for, or was     *)
(* made from a path that never existed or may not serve its key; not after *)
(* any number of requests either.                                          *)
(***************************************************************************)
THEOREM AnswersServeTheRequest == Answered!Spec => []NetworkIsAnswer
<1>1. Answered!Init => NetworkIsAnswer BY DEF Answered!Init, Answer, NetworkIsAnswer
<1> QED BY <1>1, AnswerStays, PTL DEF Answered!Spec

\* The files a loaded network was made from.
LoadedFiles ==
  outcome = "loaded" =>
    /\ Told = {k \in ToSet(FileKeys(backend)) : NameFor(k) # NoName}
    /\ \A k \in Told : config[k] \in Served(k) \cap ever

(***************************************************************************)
(* So does LoadRoadNetwork() (tools.cc): the backend was told a path for   *)
(* each file that is named and for no other, the named one or the resource *)
(* of that name, and it existed at some time.                              *)
(***************************************************************************)
THEOREM LoadedFromNamedFiles == Spec => []LoadedFiles
<1>1. NetworkIsAnswer => LoadedFiles
  <2> SUFFICES ASSUME NetworkIsAnswer, outcome = "loaded"
               PROVE  /\ Told = {k \in ToSet(FileKeys(backend)) : NameFor(k) # NoName}
                      /\ \A k \in Told : config[k] \in Served(k) \cap ever
    BY DEF LoadedFiles
  <2>1. Network = [k \in Told |-> config[k]] BY DEF Network
  <2>2. /\ Network \in [DOMAIN Request -> ever]
        /\ \A k \in DOMAIN Request : Network[k] \in Request[k]
    BY DEF NetworkIsAnswer, Answer
  <2>3. DOMAIN Request = Told BY <2>1, <2>2
  <2> QED BY <2>1, <2>2, <2>3 DEF Request, Served
<1> QED BY <1>1, LoadingImplementsRequest, AnswersServeTheRequest, PTL DEF ImplementsRequest
-----------------------------------------------------------------------------
(* A load comes to an end. *)

\* At most how many steps of the backend's loader are left.
Work == Len(todo) + Len(todo) + Cardinality(unopened)

LEMMA KeysAreFinite == IsFiniteSet(AllFileKeys)
<1>1. \A S, x : IsFiniteSet(S) => IsFiniteSet(S \cup {x})
  BY FS_AddElement, Zenon
<1> DEFINE mains == (({} \cup {"opendrive_file"}) \cup {"osm_file"}) \cup {"yaml_file"}
           books == (((mains \cup {"rule_registry"}) \cup {"road_rule_book"})
                      \cup {"traffic_light_book"}) \cup {"phase_ring_book"}
<1>2. IsFiniteSet(mains)
  BY <1>1, FS_EmptySet, Zenon
<1>3. IsFiniteSet(books)
  <2> HIDE DEF mains
  <2> QED BY <1>1, <1>2, Zenon
<1>4. IsFiniteSet(books \cup {"intersection_book"})
  <2> HIDE DEF books
  <2> QED BY <1>1, <1>3, Zenon
<1>5. AllFileKeys = books \cup {"intersection_book"}
  BY DEF AllFileKeys, MainMember, BookMember
<1> QED BY <1>4, <1>5, Zenon

LoadAdvances ==
  [][outcome = "pending" =>
       \/ outcome' \in {"loaded", "threw", "aborted"}
       \/ Work' \in Nat /\ Work' < Work
       \/ FileChanges /\ Work' = Work]_vars

(***************************************************************************)
(* Each step of LoadRoadNetwork() leaves less to do or gives the answer,   *)
(* and nobody who creates or deletes files makes work: no load goes on for *)
(* ever (tools.cc).                                                        *)
(***************************************************************************)
THEOREM LoadsComeToAnEnd == Spec => LoadAdvances
<1>1. ASSUME Loading, outcome = "pending", Next
      PROVE  \/ outcome' \in {"loaded", "threw", "aborted"}
             \/ Work' \in Nat /\ Work' < Work
             \/ FileChanges /\ Work' = Work
  <2>1. unopened \subseteq AllFileKeys /\ todo \in Seq(AllFileKeys)
    BY <1>1 DEF Loading, Progress, Told
  <2>2. IsFiniteSet(unopened) /\ Cardinality(unopened) \in Nat /\ Len(todo) \in Nat
    BY <2>1, KeysAreFinite, FS_Subset, FS_CardinalityType, LenProperties
  <2>3. todo # <<>> => Len(Tail(todo)) = Len(todo) - 1 /\ Len(todo) > 0
    BY <2>1, HeadTailProperties, EmptySeq, LenProperties
  <2>4. CASE SkipBook
    <3>1. todo' = Tail(todo) /\ unopened' = unopened /\ todo # <<>> BY <2>4 DEF SkipBook
    <3> QED BY <2>2, <2>3, <3>1 DEF Work
  <2>5. CASE EmplaceFile
    <3>1. /\ todo' = Tail(todo) /\ unopened' = unopened \cup {Head(todo)} /\ todo # <<>>
      BY <2>5 DEF EmplaceFile
    <3>2. /\ Cardinality(unopened') \in Nat
          /\ Cardinality(unopened') <= Cardinality(unopened) + 1
      <4>1. Cardinality(unopened \cup {Head(todo)})
              = IF Head(todo) \in unopened THEN Cardinality(unopened)
                ELSE Cardinality(unopened) + 1
        BY <2>2, FS_AddElement, Zenon
      <4>2. Cardinality(unopened \cup {Head(todo)}) \in Nat
            /\ Cardinality(unopened \cup {Head(todo)}) <= Cardinality(unopened) + 1
        BY <2>2, <4>1
      <4> QED BY <3>1, <4>2, Zenon
    <3> QED BY <2>2, <2>3, <3>1, <3>2 DEF Work
  <2>6. CASE BackendOpens
    <3>1. todo' = todo /\ \E k \in unopened : unopened' = unopened \ {k}
      BY <2>6 DEF BackendOpens
    <3>2. /\ Cardinality(unopened') \in Nat
          /\ Cardinality(unopened') < Cardinality(unopened)
      BY <2>2, <3>1, FS_RemoveElement, FS_CardinalityType
    <3> QED BY <2>2, <3>1, <3>2 DEF Work
  <2>7. CASE FileChanges
    BY <2>7 DEF FileChanges, loadVars, Work
  <2>8. CASE MainFileMissing \/ RefusesAbsolute \/ BackendRefuses \/ BackendLoads
    BY <2>8 DEF MainFileMissing, RefusesAbsolute, BackendRefuses, BackendLoads, Ends
  <2>9. ~UnknownBackend /\ ~OriginIsNoVector /\ ~Call /\ ~Discard
    BY <1>1 DEF UnknownBackend, OriginIsNoVector, Call, Discard
  <2> QED BY <1>1, <2>4, <2>5, <2>6, <2>7, <2>8, <2>9 DEF Next, LoadRoadNetwork
<1>2. Loading /\ [Next]_vars =>
        [outcome = "pending" =>
           \/ outcome' \in {"loaded", "threw", "aborted"}
           \/ Work' \in Nat /\ Work' < Work
           \/ FileChanges /\ Work' = Work]_vars
  BY <1>1
<1> QED BY <1>2, LoadingHolds, PTL DEF Spec, LoadAdvances
=============================================================================
