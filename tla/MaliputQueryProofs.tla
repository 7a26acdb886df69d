------------------------- MODULE MaliputQueryProofs -------------------------
(***************************************************************************)
(* Theorems about MaliputQuery, for command lines of any length with any   *)
(* number of odd arguments.                                                *)
(***************************************************************************)
EXTENDS MaliputQuery, SequenceTheorems, TLAPS

Kinds == {"number", "size", "backend", "lane", "end", "ring", "phase", "segment",
          "overlapping"}

\* How the usage of a command is cut into what its parsers read.
InOnePart(c) == Branch(c) = << <<Usage(c), 2>> >>
InTwoParts(c, former, latter) ==
  /\ Usage(c) = former \o latter
  /\ Branch(c) = << <<former, 2>>, <<latter, 2 + Len(former)>> >>
BranchFollowsUsage(c) ==
  \/ Usage(c) = <<>> /\ Branch(c) = <<>>
  \/ InOnePart(c)
  \/ \E former, latter \in Seq(Kinds) : InTwoParts(c, former, latter)

\* The three tables agree.
TablesAgree(c) ==
  /\ Usage(c) \in Seq(Kinds)
  /\ NumArguments(c) = Len(Usage(c)) + 1
  /\ BranchFollowsUsage(c)

LEMMA Concatenation ==
  \A s, t \in Seq(Kinds) : s \o t \in Seq(Kinds) /\ Len(s \o t) = Len(s) + Len(t)
BY ConcatProperties

LEMMA Tuples ==
  ASSUME NEW S, NEW u \in S, NEW v \in S, NEW w \in S
  PROVE  /\ <<u>> \in Seq(S) /\ Len(<<u>>) = 1
         /\ <<u, v>> \in Seq(S) /\ Len(<<u, v>>) = 2
         /\ <<u, v, w>> \in Seq(S) /\ Len(<<u, v, w>>) = 3
<1>1. <<u>> \in Seq(S) /\ Len(<<u>>) = 1 OBVIOUS
<1>2. <<u, v>> \in Seq(S) /\ Len(<<u, v>>) = 2 OBVIOUS
<1>3. <<u, v, w>> \in Seq(S) /\ Len(<<u, v, w>>) = 3 OBVIOUS
<1> QED BY <1>1, <1>2, <1>3

LEMMA KindsAre ==
  /\ "number" \in Kinds /\ "size" \in Kinds /\ "backend" \in Kinds
  /\ "lane" \in Kinds /\ "end" \in Kinds /\ "ring" \in Kinds /\ "phase" \in Kinds
  /\ "segment" \in Kinds /\ "overlapping" \in Kinds
BY DEF Kinds

LEMMA Parts ==
  /\ \A w \in Kinds : <<w>> \in Seq(Kinds) /\ Len(<<w>>) = 1
  /\ Position \in Seq(Kinds) /\ Len(Position) = 3
  /\ Range0 \in Seq(Kinds) /\ Len(Range0) = 2
  /\ Box \in Seq(Kinds) /\ Len(Box) = 9
<1>1. "number" \in Kinds /\ "size" \in Kinds BY KindsAre
<1>2. ASSUME NEW w \in Kinds PROVE <<w>> \in Seq(Kinds) /\ Len(<<w>>) = 1
  BY Tuples
<1>3. Position \in Seq(Kinds) /\ Len(Position) = 3 BY <1>1, Tuples DEF Position
<1>4. Range0 \in Seq(Kinds) /\ Len(Range0) = 2 BY <1>1, Tuples DEF Range0
<1>5. <<"size", "size", "size">> \in Seq(Kinds) /\ Len(<<"size", "size", "size">>) = 3
  BY <1>1, Tuples
<1>6. DEFINE Sizes == <<"size", "size", "size">>
<1>7. Sizes \in Seq(Kinds) /\ Len(Sizes) = 3 BY <1>5
<1>8. Box = (Sizes \o Position) \o Position BY DEF Box
<1> HIDE DEF Sizes
<1>9. /\ Sizes \o Position \in Seq(Kinds)
      /\ Len(Sizes \o Position) = Len(Sizes) + Len(Position)
  BY <1>3, <1>7, Concatenation, Zenon
<1>10. /\ (Sizes \o Position) \o Position \in Seq(Kinds)
       /\ Len((Sizes \o Position) \o Position)
            = Len(Sizes \o Position) + Len(Position)
  BY <1>3, <1>9, Concatenation, Zenon
<1>11. Box \in Seq(Kinds) /\ Len(Box) = 9 BY <1>3, <1>7, <1>8, <1>9, <1>10
<1> QED BY <1>2, <1>3, <1>4, <1>11

\* What remains to be said of a command whose branch has two parsers.
LEMMA TwoPartsAgree ==
  ASSUME NEW c, NEW former \in Seq(Kinds), NEW latter \in Seq(Kinds),
         InTwoParts(c, former, latter),
         NumArguments(c) = Len(former) + Len(latter) + 1
  PROVE  TablesAgree(c)
BY Concatenation DEF TablesAgree, BranchFollowsUsage, InTwoParts

LEMMA NoArguments == \A c \in {"GetMaliputBackendList", "GetNumberOfLanes"} : TablesAgree(c)
<1> SUFFICES ASSUME NEW c \in {"GetMaliputBackendList", "GetNumberOfLanes"}
             PROVE  TablesAgree(c)
  OBVIOUS
<1> USE DEF OnLanePosition, OnLaneEnd, OnLaneRules, OnLaneRange
<1>1. Usage(c) = <<>> BY DEF Usage
<1>2. Branch(c) = <<>> BY DEF Branch
<1>3. NumArguments(c) = 1 BY DEF NumArguments
<1> QED BY <1>1, <1>2, <1>3 DEF TablesAgree, BranchFollowsUsage

LEMMA OneParser ==
  \A c \in OnLaneRules \cup OnLaneRange
           \cup {"GetMaliputBackendParameters", "GetLaneLength", "ToRoadPosition"} :
    TablesAgree(c)
<1> SUFFICES ASSUME NEW c \in OnLaneRules \cup OnLaneRange
                    \cup {"GetMaliputBackendParameters", "GetLaneLength", "ToRoadPosition"}
             PROVE  TablesAgree(c)
  OBVIOUS
<1> USE DEF OnLanePosition, OnLaneEnd, OnLaneRules, OnLaneRange
<1>1. Usage(c) \in Seq(Kinds) /\ NumArguments(c) = Len(Usage(c)) + 1
  <2>1. CASE c \in OnLaneRules \cup {"GetLaneLength"}
    <3>1. Usage(c) = <<"lane">> /\ NumArguments(c) = 2 BY <2>1 DEF Usage, NumArguments
    <3> QED BY <3>1, Parts, KindsAre
  <2>2. CASE c \in OnLaneRange
    <3>1. Usage(c) = <<"lane">> \o Range0 /\ NumArguments(c) = 4
      BY <2>2 DEF Usage, NumArguments
    <3>2. <<"lane">> \in Seq(Kinds) /\ Len(<<"lane">>) = 1 BY Parts, KindsAre
    <3>3. Usage(c) \in Seq(Kinds) /\ Len(Usage(c)) = Len(<<"lane">>) + Len(Range0)
      BY <3>1, <3>2, Parts, Concatenation, Zenon
    <3> QED BY <3>1, <3>2, <3>3, Parts
  <2>3. CASE c = "GetMaliputBackendParameters"
    <3>1. Usage(c) = <<"backend">> /\ NumArguments(c) = 2
      BY <2>3 DEF Usage, NumArguments
    <3> QED BY <3>1, Parts, KindsAre
  <2>4. CASE c = "ToRoadPosition"
    <3>1. Usage(c) = Position /\ NumArguments(c) = 4 BY <2>4 DEF Usage, NumArguments
    <3> QED BY <3>1, Parts
  <2> QED BY <2>1, <2>2, <2>3, <2>4
<1>2. InOnePart(c) BY DEF InOnePart, Branch, Usage
<1> QED BY <1>1, <1>2 DEF TablesAgree, BranchFollowsUsage

LEMMA TwoParsers ==
  \A c \in OnLanePosition \cup OnLaneEnd
           \cup {"FindRoadPositions", "GetPhaseRightOfWay", "GetLaneBounds",
                 "GetSegmentBounds", "FindOverlappingLanesIn"} :
    TablesAgree(c)
<1> SUFFICES ASSUME NEW c \in OnLanePosition \cup OnLaneEnd
                    \cup {"FindRoadPositions", "GetPhaseRightOfWay", "GetLaneBounds",
                          "GetSegmentBounds", "FindOverlappingLanesIn"}
             PROVE  TablesAgree(c)
  OBVIOUS
<1> USE DEF OnLanePosition, OnLaneEnd, OnLaneRules, OnLaneRange
<1>1. CASE c \in OnLanePosition
  <2>1. InTwoParts(c, <<"lane">>, Position) BY <1>1 DEF InTwoParts, Usage, Branch
  <2>2. NumArguments(c) = 5 BY <1>1 DEF NumArguments
  <2>3. /\ <<"lane">> \in Seq(Kinds) /\ Position \in Seq(Kinds)
       /\ NumArguments(c) = Len(<<"lane">>) + Len(Position) + 1
    BY <2>2, Parts, KindsAre
  <2> QED BY <2>1, <2>3, TwoPartsAgree, Zenon
<1>2. CASE c \in OnLaneEnd
  <2>1. InTwoParts(c, <<"lane">>, <<"end">>) BY <1>2 DEF InTwoParts, Usage, Branch
  <2>2. NumArguments(c) = 3 BY <1>2 DEF NumArguments
  <2>3. /\ <<"lane">> \in Seq(Kinds) /\ <<"end">> \in Seq(Kinds)
       /\ NumArguments(c) = Len(<<"lane">>) + Len(<<"end">>) + 1
    BY <2>2, Parts, KindsAre
  <2> QED BY <2>1, <2>3, TwoPartsAgree, Zenon
<1>3. CASE c = "FindRoadPositions"
  <2>1. Usage(c) = Position \o <<"size">> BY <1>3 DEF Usage
  <2>2. Branch(c) = PositionAndRadius BY <1>3 DEF Branch
  <2>3. InTwoParts(c, Position, <<"size">>)
    BY <2>1, <2>2, Parts DEF InTwoParts, PositionAndRadius
  <2>4. NumArguments(c) = 5 BY <1>3 DEF NumArguments
  <2>5. /\ Position \in Seq(Kinds) /\ <<"size">> \in Seq(Kinds)
       /\ NumArguments(c) = Len(Position) + Len(<<"size">>) + 1
    BY <2>4, Parts, KindsAre
  <2> QED BY <2>3, <2>5, TwoPartsAgree, Zenon
<1>4. CASE c = "GetPhaseRightOfWay"
  <2>1. InTwoParts(c, <<"ring">>, <<"phase">>) BY <1>4 DEF InTwoParts, Usage, Branch
  <2>2. NumArguments(c) = 3 BY <1>4 DEF NumArguments
  <2>3. /\ <<"ring">> \in Seq(Kinds) /\ <<"phase">> \in Seq(Kinds)
       /\ NumArguments(c) = Len(<<"ring">>) + Len(<<"phase">>) + 1
    BY <2>2, Parts, KindsAre
  <2> QED BY <2>1, <2>3, TwoPartsAgree, Zenon
<1>5. CASE c = "GetLaneBounds"
  <2>1. InTwoParts(c, <<"lane">>, <<"size">>) BY <1>5 DEF InTwoParts, Usage, Branch
  <2>2. NumArguments(c) = 3 BY <1>5 DEF NumArguments
  <2>3. /\ <<"lane">> \in Seq(Kinds) /\ <<"size">> \in Seq(Kinds)
       /\ NumArguments(c) = Len(<<"lane">>) + Len(<<"size">>) + 1
    BY <2>2, Parts, KindsAre
  <2> QED BY <2>1, <2>3, TwoPartsAgree, Zenon
<1>6. CASE c = "GetSegmentBounds"
  <2>1. InTwoParts(c, <<"segment">>, <<"size">>) BY <1>6 DEF InTwoParts, Usage, Branch
  <2>2. NumArguments(c) = 3 BY <1>6 DEF NumArguments
  <2>3. /\ <<"segment">> \in Seq(Kinds) /\ <<"size">> \in Seq(Kinds)
       /\ NumArguments(c) = Len(<<"segment">>) + Len(<<"size">>) + 1
    BY <2>2, Parts, KindsAre
  <2> QED BY <2>1, <2>3, TwoPartsAgree, Zenon
<1>7. CASE c = "FindOverlappingLanesIn"
  <2>1. InTwoParts(c, <<"overlapping">>, Box) BY <1>7 DEF InTwoParts, Usage, Branch
  <2>2. NumArguments(c) = 11 BY <1>7 DEF NumArguments
  <2>3. /\ <<"overlapping">> \in Seq(Kinds) /\ Box \in Seq(Kinds)
       /\ NumArguments(c) = Len(<<"overlapping">>) + Len(Box) + 1
    BY <2>2, Parts, KindsAre
  <2> QED BY <2>1, <2>3, TwoPartsAgree, Zenon
<1> QED BY <1>1, <1>2, <1>3, <1>4, <1>5, <1>6, <1>7

LEMMA AllTablesAgree == \A c \in Commands \ {"Route"} : TablesAgree(c)
BY NoArguments, OneParser, TwoParsers DEF Commands, OnBackends

\* Route alone reads from index 3 to index 11, twice.
LEMMA RouteReads ==
  /\ Box \in Seq(Kinds) /\ Len(Box) = 9
  /\ Usage("Route") \in Seq(Kinds) /\ Len(Usage("Route")) = 18
  /\ NumArguments("Route") = 19
  /\ Branch("Route") = << <<Box, 3>>, <<Box, 3>> >>
<1> USE DEF OnLanePosition, OnLaneEnd, OnLaneRules, OnLaneRange
<1>1. Usage("Route") = Box \o Box BY DEF Usage
<1>2. NumArguments("Route") = 19 BY DEF NumArguments
<1>3. Branch("Route") = << <<Box, 3>>, <<Box, 3>> >> BY DEF Branch
<1>4. Usage("Route") \in Seq(Kinds) /\ Len(Usage("Route")) = Len(Box) + Len(Box)
  BY <1>1, Parts, Concatenation, Zenon
<1> QED BY <1>2, <1>3, <1>4, Parts
-----------------------------------------------------------------------------
Given ==
  /\ command \in Commands \cup {"gibberish"}
  /\ argc \in Nat /\ odd \subseteq Arguments

Accepting == command \in Commands /\ argc = NumArguments(command) + 1

\* A parser reads words of argv only.
Within(parser) ==
  /\ parser \in Seq(Kinds) \X Nat
  /\ parser[2] >= 2 /\ parser[2] + Len(parser[1]) <= argc

\* How far the branch has come.
Course ==
  \/ parsers = Branch(command) /\ taken = <<>>
  \/ parsers = <<>> /\ ReadAsUsage
  \/ \E former, latter \in Seq(Kinds) :
       /\ InTwoParts(command, former, latter)
       /\ parsers = << <<latter, 2 + Len(former)>> >>
       /\ taken = Words(former, 2)

\* What the parsers themselves refuse was not among the words read so far.
Refused == {"end", "overlapping", "size"}
NoneRefused == \A j \in DOMAIN taken : taken[j][1] \in odd => taken[j][2] \notin Refused

Outcomes == {"started", "reading", "not loaded", "exit 1", "threw", "aborted",
             "undefined", "invalid usage", "not found", "comparing", "answered"}

Reading ==
  /\ Given
  /\ outcome \in Outcomes
  /\ outcome = "started" => taken = <<>>
  /\ outcome = "reading" => Accepting /\ NoneRefused
  /\ taken # <<>> => Accepting
  /\ taken \in Seq(Arguments \X Kinds)
  /\ parsers \in Seq(Seq(Kinds) \X Nat)
  /\ \A k \in DOMAIN parsers : Within(parsers[k])
  /\ outcome = "reading" /\ command # "Route" => Course
  /\ outcome = "comparing" => command = "GetMaxSpeedLimit" /\ ReadAsUsage /\ Wrong = {}

Answering == Reading /\ ArgvAsUsage /\ WrongIsReported /\ RightIsAnswered

\* How far the search for the lowest speed limit has come: it is the one of
\* a rule of the lane, and as low as all it was compared with.
Lowest ==
  /\ compared \in 0..Len(limits)
  /\ \E id \in DOMAIN limits :
       speed = <<limits[id], id>> /\ \A other \in 1..compared : limits[id] <= limits[other]

Searching ==
  /\ limits \in Seq(Nat)
  /\ command # "GetMaxSpeedLimit" => limits = <<>>
  /\ IF limits # <<>> /\ outcome \in {"comparing", "answered"}
     THEN Lowest /\ (outcome = "answered" => compared = Len(limits))
     ELSE speed = <<>> /\ compared = 0 /\ outcome # "comparing"

LEMMA TypesFollow == Reading /\ Searching => QueryTypeOK
<1> SUFFICES ASSUME Reading, Searching PROVE QueryTypeOK OBVIOUS
<1>1. ASSUME NEW j \in DOMAIN taken PROVE taken[j][1] \in Arguments
  <2>1. taken[j] \in Arguments \X Kinds BY ElementOfSeq DEF Reading
  <2> QED BY <2>1
<1>2. speed # <<>> => /\ command = "GetMaxSpeedLimit" /\ outcome \in {"comparing", "answered"}
                      /\ speed[2] \in DOMAIN limits
  BY DEF Searching, Lowest
<1> QED BY <1>1, <1>2 DEF Reading, Given, QueryTypeOK, Outcomes, Accepting

\* The words of a parser.
LEMMA WordsAre ==
  ASSUME NEW words \in Seq(Kinds), NEW at \in Nat
  PROVE  /\ Words(words, at) \in Seq(Nat \X Kinds)
         /\ Len(Words(words, at)) = Len(words)
         /\ DOMAIN Words(words, at) = 1..Len(words)
         /\ \A j \in 1..Len(words) : Words(words, at)[j] = <<at + j - 1, words[j]>>
<1>1. DOMAIN words = 1..Len(words) /\ Len(words) \in Nat OBVIOUS
<1>2. \A j \in 1..Len(words) : words[j] \in Kinds /\ at + j - 1 \in Nat OBVIOUS
<1>3. Words(words, at) \in [1..Len(words) -> Nat \X Kinds] BY <1>1, <1>2 DEF Words
<1>4. Words(words, at) \in Seq(Nat \X Kinds) BY <1>1, <1>3, IsASeq
<1>5. Len(Words(words, at)) = Len(words) BY <1>1, <1>3, <1>4, LenProperties
<1> QED BY <1>1, <1>3, <1>4, <1>5 DEF Words

\* Two parsers, one behind the other, read what one reads that starts at 2.
LEMMA WordsJoin ==
  ASSUME NEW former \in Seq(Kinds), NEW latter \in Seq(Kinds)
  PROVE  Words(former, 2) \o Words(latter, 2 + Len(former)) = Words(former \o latter, 2)
<1> DEFINE W == Words(former, 2)
           X == Words(latter, 2 + Len(former))
           Y == Words(former \o latter, 2)
<1>1. /\ former \o latter \in Seq(Kinds)
      /\ Len(former \o latter) = Len(former) + Len(latter)
  BY Concatenation
<1>2. /\ W \in Seq(Nat \X Kinds) /\ Len(W) = Len(former)
      /\ \A j \in 1..Len(former) : W[j] = <<2 + j - 1, former[j]>>
  BY WordsAre
<1>3. Len(former) \in Nat /\ Len(latter) \in Nat OBVIOUS
<1>4. /\ X \in Seq(Nat \X Kinds) /\ Len(X) = Len(latter)
      /\ \A j \in 1..Len(latter) : X[j] = <<2 + Len(former) + j - 1, latter[j]>>
  BY <1>3, WordsAre
<1>5. /\ Y \in Seq(Nat \X Kinds) /\ Len(Y) = Len(former) + Len(latter)
      /\ \A j \in 1..(Len(former) + Len(latter)) :
           Y[j] = <<2 + j - 1, (former \o latter)[j]>>
  BY <1>1, WordsAre
<1> HIDE DEF W, X, Y
<1> DEFINE S == Nat \X Kinds
<1>s. W \in Seq(S) /\ X \in Seq(S) BY <1>2, <1>4
<1> HIDE DEF S
<1>6. /\ W \o X \in Seq(S) /\ Len(W \o X) = Len(former) + Len(latter)
      /\ \A j \in 1..(Len(former) + Len(latter)) :
           (W \o X)[j] = IF j <= Len(former) THEN W[j] ELSE X[j - Len(former)]
  <2>1. /\ W \o X \in Seq(S) /\ Len(W \o X) = Len(W) + Len(X)
        /\ \A j \in 1..(Len(W) + Len(X)) :
             (W \o X)[j] = IF j <= Len(W) THEN W[j] ELSE X[j - Len(W)]
    BY <1>s, ConcatProperties
  <2> QED BY <2>1, <1>2, <1>4
<1>7. \A j \in 1..(Len(former) + Len(latter)) :
        (former \o latter)[j] = IF j <= Len(former) THEN former[j]
                                ELSE latter[j - Len(former)]
  BY ConcatProperties
<1>8. ASSUME NEW j \in 1..(Len(former) + Len(latter)) PROVE (W \o X)[j] = Y[j]
  <2>1. CASE j <= Len(former)
    <3>1. j \in 1..Len(former) BY <1>3, <2>1
    <3>2. (W \o X)[j] = <<2 + j - 1, former[j]>> BY <1>2, <1>6, <2>1, <3>1
    <3>3. Y[j] = <<2 + j - 1, former[j]>> BY <1>5, <1>7, <2>1
    <3> QED BY <3>2, <3>3
  <2>2. CASE ~(j <= Len(former))
    <3>1. j - Len(former) \in 1..Len(latter) BY <1>3, <2>2
    <3>2. X[j - Len(former)] = <<2 + j - 1, latter[j - Len(former)]>>
      BY <1>3, <1>4, <3>1
    <3>3. (W \o X)[j] = <<2 + j - 1, latter[j - Len(former)]>>
      BY <1>6, <2>2, <3>2
    <3>4. Y[j] = <<2 + j - 1, latter[j - Len(former)]>> BY <1>5, <1>7, <2>2
    <3> QED BY <3>3, <3>4
  <2> QED BY <2>1, <2>2
<1>9. W \o X = Y BY <1>5, <1>6, <1>8, SeqEqual DEF S
<1> QED BY <1>9 DEF W, X, Y

LEMMA ReadInOrder ==
  ASSUME Usage(command) \in Seq(Kinds)
  PROVE  ReadAsUsage <=> taken = Words(Usage(command), 2)
<1>1. DOMAIN Usage(command) = 1..Len(Usage(command)) /\ Len(Usage(command)) \in Nat
  OBVIOUS
<1>2. \A j \in DOMAIN Usage(command) : 2 + j - 1 = j + 1 BY <1>1
<1>3. Words(Usage(command), 2) = [j \in DOMAIN Usage(command) |-> <<j + 1, Usage(command)[j]>>]
  BY <1>2 DEF Words
<1> QED BY <1>3 DEF ReadAsUsage

\* When everything is read, what names nothing is what the usage does not allow.
LEMMA NamesAreWrong ==
  ASSUME Reading, outcome = "reading", parsers = <<>>, command # "Route"
  PROVE  ReadAsUsage /\ (NamesNothing <=> Wrong # {})
<1>1. command \in Commands \ {"Route"} /\ argc = NumArguments(command) + 1
  BY DEF Reading, Accepting
<1>2. TablesAgree(command) BY <1>1, AllTablesAgree
<1> DEFINE U == Usage(command)
<1>3. U \in Seq(Kinds) /\ Len(U) \in Nat /\ argc = Len(U) + 2
  BY <1>1, <1>2 DEF TablesAgree
<1>4. ReadAsUsage
  <2>1. CASE parsers = Branch(command) /\ taken = <<>>
    <3>1. U = <<>> BY <2>1, <1>2 DEF TablesAgree, BranchFollowsUsage, InOnePart, InTwoParts
    <3>2. Words(U, 2) = <<>> BY <3>1 DEF Words
    <3> QED BY <1>3, <2>1, <3>2, ReadInOrder
  <2>2. CASE ReadAsUsage BY <2>2
  <2>3. ASSUME NEW former \in Seq(Kinds), NEW latter \in Seq(Kinds),
               parsers = << <<latter, 2 + Len(former)>> >>
        PROVE  FALSE
    BY <2>3
  <2> QED BY <1>1, <2>1, <2>2, <2>3 DEF Reading, Course
<1>5. DOMAIN taken = 1..Len(U)
      /\ \A j \in 1..Len(U) : taken[j][1] = j + 1 /\ taken[j][2] = U[j]
  BY <1>3, <1>4 DEF ReadAsUsage
<1>6. \A j \in 1..Len(U) : U[j] \in Kinds BY <1>3
<1>7. NoneRefused BY DEF Reading
<1>8. ASSUME NEW j \in DOMAIN taken, taken[j][1] \in odd,
             taken[j][2] \in {"backend", "lane", "segment", "ring", "phase"}
      PROVE  Wrong # {}
  <2>1. j + 1 \in odd /\ UsedAs(j + 1) # "number" BY <1>3, <1>5, <1>8 DEF UsedAs
  <2> QED BY <2>1 DEF Wrong
<1>9. ASSUME NEW i \in Wrong PROVE NamesNothing
  <2>1. i \in odd /\ i \in 2..(argc - 1) /\ U[i - 1] # "number"
    BY DEF Wrong, UsedAs, Reading, Given, Arguments
  <2>2. i - 1 \in 1..Len(U) /\ taken[i - 1][1] = i /\ taken[i - 1][2] = U[i - 1]
    BY <1>3, <1>5, <2>1
  <2>3. U[i - 1] \in {"backend", "lane", "segment", "ring", "phase"}
    BY <1>5, <1>6, <1>7, <2>1, <2>2 DEF NoneRefused, Refused, Kinds
  <2> QED BY <1>5, <2>1, <2>2, <2>3 DEF NamesNothing
<1> QED BY <1>4, <1>8, <1>9 DEF NamesNothing

LEMMA NoParsers ==
  /\ <<>> \in Seq(Seq(Kinds) \X Nat)
  /\ \A k \in DOMAIN <<>> : FALSE
<1>1. <<>> \in Seq(Seq(Kinds) \X Nat) OBVIOUS
<1>2. DOMAIN <<>> = {} OBVIOUS
<1> QED BY <1>1, <1>2

LEMMA WithinIf ==
  ASSUME NEW words \in Seq(Kinds), NEW at \in Nat,
         at >= 2, at + Len(words) <= argc
  PROVE  Within(<<words, at>>)
BY DEF Within

LEMMA AnsweringInit == Init => Answering
<1> SUFFICES ASSUME Init PROVE Answering OBVIOUS
<1>1. Given
  <2>1. command \in Commands \cup {"gibberish"} BY DEF Init
  <2>2. argc \in 1..MaxArgc BY DEF Init
  <2>3. odd \subseteq Arguments BY DEF Init
  <2> QED BY <2>1, <2>2, <2>3, QueryAssumption DEF Given
<1>2. /\ parsers = <<>> /\ taken = <<>> /\ outcome = "started"
  BY DEF Init
<1>3. taken \in Seq(Arguments \X Kinds) /\ parsers \in Seq(Seq(Kinds) \X Nat)
  BY <1>2
<1>4. DOMAIN parsers = {} BY <1>2
<1> QED
  BY <1>1, <1>2, <1>3, <1>4
  DEF Answering, Reading, Outcomes, ArgvAsUsage, WrongIsReported, RightIsAnswered

LEMMA RefusesStep == Answering /\ Refuses => Answering'
<1> SUFFICES ASSUME Answering, Refuses PROVE Answering' OBVIOUS
<1>1. /\ UNCHANGED <<command, argc, odd, limits, flaw, parsers, taken>>
      /\ outcome = "started" /\ outcome' = "exit 1" /\ ~Accepted
  BY DEF Refuses, given
<1>2. Reading' BY <1>1
  DEF Answering, Reading, Given, Arguments, Accepting, Outcomes, Within
<1>3. ASSUME command \in Commands \ {"Route"}, argc = Len(Usage(command)) + 2
      PROVE  FALSE
  <2>1. TablesAgree(command) BY <1>3, AllTablesAgree
  <2>2. Len(Usage(command)) \in Nat BY <2>1 DEF TablesAgree
  <2>3. Accepted BY <1>3, <2>1, <2>2 DEF Accepted, TablesAgree
  <2> QED BY <1>1, <2>3
<1> QED
  BY <1>1, <1>2, <1>3
  DEF Answering, ArgvAsUsage, WrongIsReported, RightIsAnswered

LEMMA StartsStep == Answering /\ Starts => Answering'
<1> SUFFICES ASSUME Answering, Starts PROVE Answering' OBVIOUS
<1>1. /\ UNCHANGED <<command, argc, odd, limits, flaw, taken>>
      /\ outcome = "started" /\ taken = <<>> /\ Accepting
  BY DEF Starts, given, Answering, Reading, Accepted, Accepting
<1>2. CASE outcome' = "reading" /\ parsers' = Branch(command)
  <2>1. Branch(command) \in Seq(Seq(Kinds) \X Nat)
        /\ \A k \in DOMAIN Branch(command) : Within(Branch(command)[k])
    <3>1. CASE command = "Route"
      <4>1. /\ Branch(command) = << <<Box, 3>>, <<Box, 3>> >>
            /\ Box \in Seq(Kinds) /\ Len(Box) = 9 /\ argc = 20
        BY <1>1, <3>1, RouteReads DEF Accepting
      <4>2. Branch(command) \in Seq(Seq(Kinds) \X Nat) BY <4>1
      <4>3. \A k \in DOMAIN Branch(command) : Branch(command)[k] = <<Box, 3>> BY <4>1
      <4>4. Box \in Seq(Kinds) /\ Len(Box) = 9 /\ argc = 20 BY <4>1
      <4>5. 3 \in Nat /\ 3 >= 2 /\ 3 + Len(Box) <= argc BY <4>4
      <4>6. Within(<<Box, 3>>) BY <4>4, <4>5, WithinIf, Zenon
      <4> QED BY <4>2, <4>3, <4>6
    <3>2. CASE command # "Route"
      <4>1. TablesAgree(command) BY <1>1, <3>2, AllTablesAgree DEF Accepting
      <4>2. argc = Len(Usage(command)) + 2 /\ Usage(command) \in Seq(Kinds)
            /\ Len(Usage(command)) \in Nat
        BY <1>1, <4>1 DEF Accepting, TablesAgree
      <4>3. CASE Branch(command) = <<>> BY <4>3
      <4>4. CASE InOnePart(command)
        <5>1. Branch(command) = << <<Usage(command), 2>> >> BY <4>4 DEF InOnePart
        <5>2. Branch(command) \in Seq(Seq(Kinds) \X Nat) BY <4>2, <5>1
        <5>3. \A k \in DOMAIN Branch(command) : Branch(command)[k] = <<Usage(command), 2>>
          BY <5>1
        <5> QED BY <4>2, <5>2, <5>3 DEF Within
      <4>5. ASSUME NEW former \in Seq(Kinds), NEW latter \in Seq(Kinds),
                   InTwoParts(command, former, latter)
            PROVE  /\ Branch(command) \in Seq(Seq(Kinds) \X Nat)
                   /\ \A k \in DOMAIN Branch(command) : Within(Branch(command)[k])
        <5>1. Branch(command) = << <<former, 2>>, <<latter, 2 + Len(former)>> >>
              /\ Usage(command) = former \o latter
          BY <4>5 DEF InTwoParts
        <5>2. Len(Usage(command)) = Len(former) + Len(latter)
              /\ Len(former) \in Nat /\ Len(latter) \in Nat
          BY <5>1, Concatenation
        <5>3. Branch(command) \in Seq(Seq(Kinds) \X Nat) BY <5>1, <5>2
        <5>4. \A k \in DOMAIN Branch(command) :
                Branch(command)[k] \in {<<former, 2>>, <<latter, 2 + Len(former)>>}
          BY <5>1
        <5> QED BY <4>2, <5>1, <5>2, <5>3, <5>4 DEF Within
      <4> QED BY <4>1, <4>3, <4>4, <4>5 DEF TablesAgree, BranchFollowsUsage
    <3> QED BY <3>1, <3>2
  <2>2. NoneRefused' BY <1>1 DEF NoneRefused
  <2>3. Given' /\ Accepting' /\ (taken \in Seq(Arguments \X Kinds))'
    BY <1>1 DEF Answering, Reading, Given, Arguments, Accepting
  <2>4. (parsers \in Seq(Seq(Kinds) \X Nat))' /\ (\A k \in DOMAIN parsers : Within(parsers[k]))'
    BY <1>1, <1>2, <2>1 DEF Within
  <2>5. Course' BY <1>1, <1>2 DEF Course
  <2>6. Reading' BY <1>1, <1>2, <2>2, <2>3, <2>4, <2>5 DEF Reading, Outcomes
  <2> QED
    BY <1>1, <1>2, <2>6
    DEF Answering, ArgvAsUsage, WrongIsReported, RightIsAnswered
<1>3. CASE outcome' = "not loaded" /\ parsers' = <<>>
  <2>1. Given' /\ Accepting' /\ (taken \in Seq(Arguments \X Kinds))'
    BY <1>1 DEF Answering, Reading, Given, Arguments, Accepting
  <2>2. (parsers \in Seq(Seq(Kinds) \X Nat))' /\ (\A k \in DOMAIN parsers : Within(parsers[k]))'
    BY <1>3, NoParsers, Zenon
  <2>3. Reading' BY <1>1, <1>3, <2>1, <2>2 DEF Reading, Outcomes
  <2> QED
    BY <1>1, <1>3, <2>3
    DEF Answering, ArgvAsUsage, WrongIsReported, RightIsAnswered
<1> QED BY <1>2, <1>3 DEF Starts

\* A parser that stays within argv ends with "reading" if and only if it read
\* nothing odd that parsers refuse.
LEMMA ParsedHow ==
  ASSUME argc \in Nat, NEW words \in Seq(Arguments \X Kinds)
  PROVE  /\ Parsed(words) \in {"exit 1", "aborted", "threw", "reading"}
         /\ Parsed(words) = "reading" <=>
              \A j \in DOMAIN words : words[j][1] \in odd => words[j][2] \notin Refused
<1> DEFINE OddAs(kind) == \E w \in ToSet(words) : w[1] \in odd /\ w[2] = kind
<1>1. ToSet(words) = {words[j] : j \in DOMAIN words} BY DEF ToSet
<1>2. \A w \in ToSet(words) : ~(w[1] >= argc)
  <2>1. \A j \in DOMAIN words : words[j] \in Arguments \X Kinds BY ElementOfSeq
  <2> QED BY <1>1, <2>1 DEF Arguments
<1>3. Parsed(words) = IF \E w \in ToSet(words) : w[1] >= argc THEN "undefined"
                      ELSE IF OddAs("end") THEN "exit 1"
                      ELSE IF OddAs("overlapping") THEN "aborted"
                      ELSE IF OddAs("size")
                           THEN IF Len(words) = Len(Box) THEN "aborted" ELSE "threw"
                      ELSE "reading"
  BY DEF Parsed
<1>4. (\A j \in DOMAIN words : words[j][1] \in odd => words[j][2] \notin Refused)
      <=> ~OddAs("end") /\ ~OddAs("overlapping") /\ ~OddAs("size")
  BY <1>1 DEF Refused
<1> HIDE DEF OddAs
<1>5. /\ Parsed(words) \in {"exit 1", "aborted", "threw", "reading"}
      /\ Parsed(words) = "reading" <=>
           ~OddAs("end") /\ ~OddAs("overlapping") /\ ~OddAs("size")
  BY <1>2, <1>3
<1> QED BY <1>4, <1>5

\* The next parser, and the words it reads.
LEMMA NextParser ==
  ASSUME Reading, outcome = "reading", parsers # <<>>
  PROVE  /\ Head(parsers)[1] \in Seq(Kinds) /\ Head(parsers)[2] \in Nat
         /\ Words(Head(parsers)[1], Head(parsers)[2]) \in Seq(Arguments \X Kinds)
         /\ Tail(parsers) \in Seq(Seq(Kinds) \X Nat)
         /\ \A k \in DOMAIN Tail(parsers) : Within(Tail(parsers)[k])
<1> DEFINE words == Head(parsers)[1]
           at == Head(parsers)[2]
           S == Seq(Kinds) \X Nat
<1>1. parsers \in Seq(S) /\ \A k \in DOMAIN parsers : Within(parsers[k])
  BY DEF Reading
<1>2. argc \in Nat BY DEF Reading, Given
<1> HIDE DEF S
<1>3. Head(parsers) = parsers[1] /\ 1 \in DOMAIN parsers BY <1>1
<1>4. words \in Seq(Kinds) /\ at \in Nat /\ at >= 2 /\ at + Len(words) <= argc
  BY <1>1, <1>3 DEF Within
<1>5. /\ Tail(parsers) \in Seq(S)
      /\ \A k \in DOMAIN Tail(parsers) :
           k + 1 \in DOMAIN parsers /\ Tail(parsers)[k] = parsers[k + 1]
  BY <1>1
<1> HIDE DEF words, at
<1>6. Words(words, at) \in Seq(Arguments \X Kinds)
  <2>1. /\ DOMAIN Words(words, at) = 1..Len(words) /\ Len(words) \in Nat
        /\ \A j \in 1..Len(words) : Words(words, at)[j] = <<at + j - 1, words[j]>>
        /\ Words(words, at) \in Seq(Nat \X Kinds)
    BY <1>4, WordsAre
  <2>2. \A j \in 1..Len(words) : at + j - 1 \in Arguments /\ words[j] \in Kinds
    BY <1>2, <1>4 DEF Arguments
  <2>3. \A j \in 1..Len(words) : Words(words, at)[j] \in Arguments \X Kinds
    BY <2>1, <2>2
  <2>4. Words(words, at) = [j \in 1..Len(words) |-> Words(words, at)[j]]
    BY <2>1 DEF Words
  <2> HIDE DEF S
  <2> QED BY <2>1, <2>3, <2>4, IsASeq
<1> QED BY <1>1, <1>4, <1>5, <1>6 DEF words, at, S

\* Until it is finished, a branch reads each word for what the usage says.
LEMMA NextCourse ==
  ASSUME Reading, outcome = "reading", parsers # <<>>, command # "Route"
  PROVE  LET words == Head(parsers)[1]
             at == Head(parsers)[2]
         IN  /\ \A j \in 1..Len(words) : words[j] = UsedAs(at + j - 1)
             /\ \/ /\ Tail(parsers) = <<>>
                   /\ taken \o Words(words, at) = Words(Usage(command), 2)
                \/ \E former, latter \in Seq(Kinds) :
                     /\ InTwoParts(command, former, latter)
                     /\ Tail(parsers) = << <<latter, 2 + Len(former)>> >>
                     /\ taken \o Words(words, at) = Words(former, 2)
<1> DEFINE words == Head(parsers)[1]
           at == Head(parsers)[2]
           U == Usage(command)
<1>1. TablesAgree(command) BY AllTablesAgree DEF Reading, Accepting
<1>2. U \in Seq(Kinds) BY <1>1 DEF TablesAgree
<1>3. CASE parsers = Branch(command) /\ taken = <<>>
  <2>1. CASE InOnePart(command)
    <3>1. parsers = << <<U, 2>> >> BY <1>3, <2>1 DEF InOnePart
    <3>2. words = U /\ at = 2 /\ Tail(parsers) = <<>> BY <3>1
    <3>3. Words(U, 2) \in Seq(Nat \X Kinds) BY <1>2, WordsAre
    <3>4. taken \o Words(words, at) = Words(U, 2)
      BY <1>3, <3>2, <3>3, ConcatEmptySeq
    <3>5. \A j \in 1..Len(U) : U[j] = U[2 + j - 1 - 1] BY <1>2
    <3> QED BY <3>2, <3>4, <3>5 DEF UsedAs
  <2>2. ASSUME NEW former \in Seq(Kinds), NEW latter \in Seq(Kinds),
               InTwoParts(command, former, latter)
        PROVE  /\ \A j \in 1..Len(words) : words[j] = UsedAs(at + j - 1)
               /\ Tail(parsers) = << <<latter, 2 + Len(former)>> >>
               /\ taken \o Words(words, at) = Words(former, 2)
    <3>1. parsers = << <<former, 2>>, <<latter, 2 + Len(former)>> >>
      BY <1>3, <2>2 DEF InTwoParts
    <3>2. words = former /\ at = 2 /\ Tail(parsers) = << <<latter, 2 + Len(former)>> >>
      BY <3>1
    <3>3. Words(former, 2) \in Seq(Nat \X Kinds) BY WordsAre
    <3>4. taken \o Words(words, at) = Words(former, 2)
      BY <1>3, <3>2, <3>3, ConcatEmptySeq
    <3>5. U = former \o latter BY <2>2 DEF InTwoParts
    <3>6. \A j \in 1..Len(former) : (former \o latter)[j] = former[j]
      BY ConcatProperties
    <3>7. \A j \in 1..Len(former) : 2 + j - 1 - 1 = j OBVIOUS
    <3> QED BY <3>2, <3>4, <3>5, <3>6, <3>7 DEF UsedAs
  <2> QED BY <1>1, <1>3, <2>1, <2>2 DEF TablesAgree, BranchFollowsUsage
<1>4. ASSUME NEW former \in Seq(Kinds), NEW latter \in Seq(Kinds),
             InTwoParts(command, former, latter),
             parsers = << <<latter, 2 + Len(former)>> >>,
             taken = Words(former, 2)
      PROVE  /\ \A j \in 1..Len(words) : words[j] = UsedAs(at + j - 1)
             /\ Tail(parsers) = <<>>
             /\ taken \o Words(words, at) = Words(U, 2)
  <2>1. words = latter /\ at = 2 + Len(former) /\ Tail(parsers) = <<>> BY <1>4
  <2>2. U = former \o latter BY <1>4 DEF InTwoParts
  <2>3. taken \o Words(words, at) = Words(U, 2) BY <1>4, <2>1, <2>2, WordsJoin
  <2>4. \A j \in 1..Len(latter) : (former \o latter)[Len(former) + j] = latter[j]
    BY ConcatProperties
  <2>5. \A j \in 1..Len(latter) : 2 + Len(former) + j - 1 - 1 = Len(former) + j
    OBVIOUS
  <2>6. ASSUME NEW j \in 1..Len(latter)
        PROVE  latter[j] = UsedAs(2 + Len(former) + j - 1)
    BY <2>2, <2>4, <2>5 DEF UsedAs
  <2> HIDE DEF words, at, U
  <2> QED BY <2>1, <2>3, <2>6
<1> QED BY <1>3, <1>4 DEF Reading, Course

LEMMA ReadsStep == Answering /\ Reads => Answering'
<1> SUFFICES ASSUME Answering, Reads PROVE Answering' OBVIOUS
<1> DEFINE words == Head(parsers)[1]
           at == Head(parsers)[2]
           W == Words(words, at)
           U == Usage(command)
<1>1. /\ UNCHANGED <<command, argc, odd, limits, flaw>>
      /\ outcome = "reading" /\ parsers # <<>>
      /\ taken' = taken \o W /\ outcome' = Parsed(W) /\ parsers' = Tail(parsers)
  BY DEF Reads, given
<1>2. Reading /\ Given /\ Accepting /\ NoneRefused /\ argc \in Nat
  BY <1>1 DEF Answering, Reading, Given
<1>3. /\ words \in Seq(Kinds) /\ at \in Nat
      /\ W \in Seq(Arguments \X Kinds)
      /\ Tail(parsers) \in Seq(Seq(Kinds) \X Nat)
      /\ \A k \in DOMAIN Tail(parsers) : Within(Tail(parsers)[k])
  BY <1>1, <1>2, NextParser
<1>4. /\ DOMAIN W = 1..Len(words)
      /\ \A j \in 1..Len(words) : W[j] = <<at + j - 1, words[j]>>
  BY <1>3, WordsAre
<1>5. command # "Route" =>
        /\ \A j \in 1..Len(words) : words[j] = UsedAs(at + j - 1)
        /\ \/ Tail(parsers) = <<>> /\ taken \o W = Words(U, 2)
           \/ \E former, latter \in Seq(Kinds) :
                /\ InTwoParts(command, former, latter)
                /\ Tail(parsers) = << <<latter, 2 + Len(former)>> >>
                /\ taken \o W = Words(former, 2)
  BY <1>1, <1>2, NextCourse
<1> HIDE DEF words, at, W, U
<1>6. /\ outcome' \in {"exit 1", "aborted", "threw", "reading"}
      /\ outcome' = "reading" <=>
           \A j \in DOMAIN W : W[j][1] \in odd => W[j][2] \notin Refused
  BY <1>1, <1>2, <1>3, ParsedHow
<1>7. Given' /\ Accepting' BY <1>1, <1>2 DEF Given, Arguments, Accepting
<1>8. (taken \in Seq(Arguments \X Kinds))'
  <2> DEFINE S == Arguments \X Kinds
  <2>1. taken \in Seq(S) /\ W \in Seq(S) BY <1>2, <1>3 DEF Reading
  <2> HIDE DEF S
  <2>2. taken \o W \in Seq(S) BY <2>1, ConcatProperties
  <2>3. Arguments' = Arguments BY <1>1 DEF Arguments
  <2> QED BY <1>1, <2>2, <2>3 DEF S
<1>9. outcome' = "reading" => NoneRefused'
  <2> SUFFICES ASSUME outcome' = "reading", NEW j \in DOMAIN (taken \o W),
                      (taken \o W)[j][1] \in odd
               PROVE  (taken \o W)[j][2] \notin Refused
    BY <1>1 DEF NoneRefused
  <2> DEFINE S == Arguments \X Kinds
  <2>1. taken \in Seq(S) /\ W \in Seq(S) BY <1>2, <1>3 DEF Reading
  <2> HIDE DEF S
  <2>2. \/ j \in DOMAIN taken /\ (taken \o W)[j] = taken[j]
        \/ j - Len(taken) \in DOMAIN W /\ (taken \o W)[j] = W[j - Len(taken)]
    <3>1. /\ DOMAIN (taken \o W) = 1..(Len(taken) + Len(W))
          /\ DOMAIN taken = 1..Len(taken) /\ DOMAIN W = 1..Len(W)
          /\ Len(taken) \in Nat /\ Len(W) \in Nat
      BY <2>1, ConcatProperties
    <3>2. (taken \o W)[j] = IF j <= Len(taken) THEN taken[j] ELSE W[j - Len(taken)]
      BY <2>1, <3>1, ConcatProperties
    <3> QED BY <3>1, <3>2
  <2> QED BY <1>2, <1>6, <2>2 DEF NoneRefused
<1>10. (parsers \in Seq(Seq(Kinds) \X Nat))' /\ (\A k \in DOMAIN parsers : Within(parsers[k]))'
  BY <1>1, <1>3 DEF Within
<1>11. command # "Route" => Course'
  <2> SUFFICES ASSUME command # "Route" PROVE Course' OBVIOUS
  <2>1. CASE Tail(parsers) = <<>> /\ taken \o W = Words(U, 2)
    <3>1. U \in Seq(Kinds) BY <1>2, AllTablesAgree DEF Accepting, TablesAgree, U
    <3>2. U' = U BY <1>1 DEF U, Usage
    <3>3. DOMAIN U = 1..Len(U) /\ Len(U) \in Nat BY <3>1
    <3>4. \A j \in DOMAIN U : 2 + j - 1 = j + 1 BY <3>3
    <3>5. Words(U, 2) = [j \in DOMAIN U |-> <<j + 1, U[j]>>] BY <3>4 DEF Words
    <3>6. ReadAsUsage' BY <1>1, <2>1, <3>2, <3>5 DEF ReadAsUsage, U
    <3> QED BY <1>1, <2>1, <3>6 DEF Course
  <2>2. ASSUME NEW former \in Seq(Kinds), NEW latter \in Seq(Kinds),
               InTwoParts(command, former, latter),
               Tail(parsers) = << <<latter, 2 + Len(former)>> >>,
               taken \o W = Words(former, 2)
        PROVE  Course'
    <3>1. InTwoParts(command, former, latter)' BY <1>1, <2>2
    <3> QED BY <1>1, <2>2, <3>1 DEF Course
  <2> QED BY <1>5, <2>1, <2>2
<1>12. Reading'
  BY <1>1, <1>2, <1>6, <1>7, <1>8, <1>9, <1>10, <1>11 DEF Reading, Outcomes
<1>13. ASSUME command # "Route", outcome' # "reading" PROVE Wrong # {}
  <2>1. PICK j \in DOMAIN W : W[j][1] \in odd /\ W[j][2] \in Refused
    BY <1>6, <1>13
  <2>2. W[j][1] = at + j - 1 /\ W[j][2] = UsedAs(at + j - 1) BY <1>4, <1>5, <1>13
  <2>3. at + j - 1 \in Wrong BY <2>1, <2>2 DEF Wrong, Refused
  <2> QED BY <2>3
<1>14. UNCHANGED <<Wrong, Usage(command)>> BY <1>1 DEF Wrong, UsedAs
<1>15. RightIsAnswered' BY <1>1, <1>6, <1>13, <1>14 DEF RightIsAnswered
<1> QED
  BY <1>6, <1>12, <1>15 DEF Answering, ArgvAsUsage, WrongIsReported

\* A query that is made leaves everything that was read.
LEMMA AskStep ==
  ASSUME Answering, outcome = "reading", parsers = <<>>,
         UNCHANGED <<given, parsers, taken>>,
         outcome' \in {"answered", "threw", "aborted", "undefined", "invalid usage",
                       "not found", "comparing"},
         outcome' = "comparing" => command = "GetMaxSpeedLimit" /\ ~NamesNothing,
         outcome' \in {"answered", "undefined"} /\ NamesNothing =>
           command \in OnLaneRange \cup {"Route", "GetLaneLength"},
         outcome' = "undefined" => NamesNothing,
         outcome' \in {"aborted", "invalid usage", "not found"} =>
           NamesNothing \/ flaw # "none"
  PROVE  Answering'
<1>1. Reading /\ Accepting /\ Given BY DEF Answering, Reading
<1>2. command # "Route" => ReadAsUsage /\ (NamesNothing <=> Wrong # {})
  BY <1>1, NamesAreWrong
<1>3. UNCHANGED <<command, argc, odd, limits, flaw, parsers, taken>> BY DEF given
<1>4. Given' /\ Accepting' /\ (taken \in Seq(Arguments \X Kinds))'
  BY <1>1, <1>3 DEF Reading, Given, Arguments, Accepting
<1>5. (parsers \in Seq(Seq(Kinds) \X Nat))' /\ (\A k \in DOMAIN parsers : Within(parsers[k]))'
  BY <1>1, <1>3 DEF Reading, Within
<1>6. UNCHANGED <<Wrong, Usage(command)>> /\ (ReadAsUsage' <=> ReadAsUsage)
  BY <1>3 DEF Wrong, UsedAs, ReadAsUsage
<1>7. outcome' = "comparing" =>
        (command = "GetMaxSpeedLimit")' /\ ReadAsUsage' /\ (Wrong = {})'
  BY <1>2, <1>3, <1>6
<1>8. Reading' BY <1>1, <1>3, <1>4, <1>5, <1>7 DEF Reading, Outcomes
<1> QED
  BY <1>2, <1>3, <1>6, <1>8
  DEF Answering, ArgvAsUsage, WrongIsReported, RightIsAnswered

\* Commands whose arguments name nothing that is looked up by its id.
Nameless == {"FindRoadPositions", "ToRoadPosition", "GetNumberOfLanes",
             "FindOverlappingLanesIn"}
LEMMA NothingToName ==
  \A c \in Nameless : Usage(c) \in Seq({"number", "size", "overlapping"})
<1> DEFINE S == {"number", "size", "overlapping"}
           Sizes == <<"size", "size", "size">>
<1> SUFFICES ASSUME NEW c \in Nameless PROVE Usage(c) \in Seq(S) OBVIOUS
<1> USE DEF OnLanePosition, OnLaneEnd, OnLaneRules, OnLaneRange
<1>1. "number" \in S /\ "size" \in S /\ "overlapping" \in S OBVIOUS
<1> HIDE DEF S
<1>2. Position \in Seq(S) /\ Sizes \in Seq(S)
      /\ <<"size">> \in Seq(S) /\ <<"overlapping">> \in Seq(S)
  BY <1>1, Tuples DEF Position
<1>3. Box = (Sizes \o Position) \o Position BY DEF Box
<1> HIDE DEF Sizes
<1>4. Sizes \o Position \in Seq(S) BY <1>2, ConcatProperties, Zenon
<1>5. Box \in Seq(S) BY <1>2, <1>3, <1>4, ConcatProperties, Zenon
<1>6. CASE c = "FindRoadPositions"
  <2>1. Usage(c) = Position \o <<"size">> BY <1>6 DEF Usage
  <2> QED BY <1>2, <2>1, ConcatProperties, Zenon
<1>7. CASE c = "ToRoadPosition"
  <2>1. Usage(c) = Position BY <1>7 DEF Usage
  <2> QED BY <1>2, <2>1
<1>8. CASE c = "GetNumberOfLanes"
  <2>1. Usage(c) = <<>> BY <1>8 DEF Usage
  <2> QED BY <2>1
<1>9. CASE c = "FindOverlappingLanesIn"
  <2>1. Usage(c) = <<"overlapping">> \o Box BY <1>9 DEF Usage
  <2> QED BY <1>2, <1>5, <2>1, ConcatProperties, Zenon
<1> QED BY <1>6, <1>7, <1>8, <1>9 DEF Nameless

LEMMA NamelessNameNothing ==
  ASSUME Reading, outcome = "reading", parsers = <<>>, command \in Nameless
  PROVE  ~NamesNothing
<1>1. ReadAsUsage BY NamesAreWrong DEF Nameless
<1>2. Usage(command) \in Seq({"number", "size", "overlapping"}) BY NothingToName
<1>3. \A j \in DOMAIN Usage(command) : Usage(command)[j] \in {"number", "size", "overlapping"}
  BY <1>2, ElementOfSeq
<1>4. \A j \in DOMAIN taken : taken[j][2] \in {"number", "size", "overlapping"}
  BY <1>1, <1>3 DEF ReadAsUsage
<1> QED BY <1>4 DEF NamesNothing

LEMMA AsksStep ==
  ASSUME Answering,
         \/ AsksForBackends \/ AsksForPosition \/ AsksForNumber \/ AsksAboutBoxes
         \/ AsksLane \/ AsksLaneEnd \/ AsksForBounds \/ AsksForLength
         \/ AsksForSpeedLimit \/ AsksForDirection \/ AsksForRules \/ AsksForPhase
  PROVE  Answering'
<1>1. Reading BY DEF Answering
<1>2. \A commands : Asks(commands) =>
        /\ outcome = "reading" /\ parsers = <<>> /\ command \in commands
        /\ UNCHANGED <<given, parsers, taken>>
  BY DEF Asks
<1>3. outcome = "reading" /\ parsers = <<>> /\ command \in Nameless => ~NamesNothing
  BY <1>1, NamelessNameNothing
<1>4. CASE AsksForBackends BY <1>2, <1>4, AskStep DEF AsksForBackends
<1>5. CASE AsksForPosition
  BY <1>2, <1>3, <1>5, AskStep DEF AsksForPosition, Nameless
<1>6. CASE AsksForNumber BY <1>2, <1>3, <1>6, AskStep DEF AsksForNumber, Nameless
<1>7. CASE AsksAboutBoxes
  BY <1>2, <1>3, <1>7, AskStep DEF AsksAboutBoxes, Nameless
<1>8. CASE AsksLane BY <1>2, <1>8, AskStep DEF AsksLane
<1>9. CASE AsksLaneEnd BY <1>2, <1>9, AskStep DEF AsksLaneEnd
<1>10. CASE AsksForBounds BY <1>2, <1>10, AskStep DEF AsksForBounds
<1>11. CASE AsksForLength BY <1>2, <1>11, AskStep DEF AsksForLength
<1>12. CASE AsksForSpeedLimit
  <2>1. /\ outcome = "reading" /\ parsers = <<>> /\ command = "GetMaxSpeedLimit"
        /\ UNCHANGED <<given, parsers, taken>>
    <3>1. Asks({"GetMaxSpeedLimit"}) BY <1>12 DEF AsksForSpeedLimit
    <3> QED BY <1>2, <3>1
  <2>2. IF NamesNothing THEN outcome' = "not found" ELSE outcome' \in {"answered", "comparing"}
    BY <1>12 DEF AsksForSpeedLimit
  <2> QED BY <2>1, <2>2, AskStep
<1>13. CASE AsksForDirection BY <1>2, <1>13, AskStep DEF AsksForDirection
<1>14. CASE AsksForRules BY <1>2, <1>14, AskStep DEF AsksForRules
<1>15. CASE AsksForPhase BY <1>2, <1>15, AskStep DEF AsksForPhase
<1> QED
  BY <1>4, <1>5, <1>6, <1>7, <1>8, <1>9, <1>10, <1>11, <1>12, <1>13, <1>14, <1>15

\* The search reads nothing any more.
LEMMA SearchStep == Answering /\ (ComparesLimit \/ ReportsLimit) => Answering'
<1> SUFFICES ASSUME Answering, ComparesLimit \/ ReportsLimit PROVE Answering' OBVIOUS
<1>1. /\ UNCHANGED <<command, argc, odd, limits, flaw, parsers, taken>>
      /\ outcome = "comparing" /\ outcome' \in {"comparing", "answered"}
  BY DEF ComparesLimit, ReportsLimit, given
<1>2. Given' /\ (taken \in Seq(Arguments \X Kinds))' /\ (taken # <<>> => Accepting)'
  BY <1>1 DEF Answering, Reading, Given, Arguments, Accepting
<1>3. (\A k \in DOMAIN parsers : Within(parsers[k]))' /\ (parsers \in Seq(Seq(Kinds) \X Nat))'
  BY <1>1 DEF Answering, Reading, Within
<1>4. UNCHANGED <<Wrong, Usage(command), ReadAsUsage>> BY <1>1 DEF Wrong, UsedAs, ReadAsUsage
<1>5. command = "GetMaxSpeedLimit" /\ ReadAsUsage /\ Wrong = {}
  BY <1>1 DEF Answering, Reading
<1>6. Reading' BY <1>1, <1>2, <1>3, <1>4, <1>5 DEF Reading, Outcomes
<1> QED
  BY <1>1, <1>4, <1>5, <1>6
  DEF Answering, ArgvAsUsage, WrongIsReported, RightIsAnswered

LEMMA AnsweringStutters == Answering /\ UNCHANGED vars => Answering'
<1> SUFFICES ASSUME Answering, UNCHANGED vars PROVE Answering' OBVIOUS
<1>1. UNCHANGED <<command, argc, odd, limits, flaw, parsers, taken, outcome>>
  BY DEF vars, given
<1>2. Given' /\ Accepting' = Accepting /\ NoneRefused' = NoneRefused
      /\ (taken \in Seq(Arguments \X Kinds))'
  BY <1>1 DEF Answering, Reading, Given, Arguments, Accepting, NoneRefused
<1>3. (\A k \in DOMAIN parsers : Within(parsers[k]))' /\ Course' = Course
  BY <1>1
  DEF Answering, Reading, Within, Course, InTwoParts, ReadAsUsage, Words
<1>4. UNCHANGED <<Wrong, Usage(command), ReadAsUsage>> BY <1>1 DEF Wrong, UsedAs, ReadAsUsage
<1>5. Reading' BY <1>1, <1>2, <1>3, <1>4 DEF Answering, Reading
<1> QED
  BY <1>1, <1>4, <1>5
  DEF Answering, ArgvAsUsage, WrongIsReported, RightIsAnswered

LEMMA AlwaysAnswering == Spec => []Answering
<1>1. Answering /\ [Next]_vars => Answering'
  BY RefusesStep, StartsStep, ReadsStep, AsksStep, SearchStep, AnsweringStutters DEF Next
<1> QED BY <1>1, AnsweringInit, PTL DEF Spec

LEMMA SearchingInit == Init => Searching
<1> SUFFICES ASSUME Init PROVE Searching OBVIOUS
<1>1. limits \in IF command = "GetMaxSpeedLimit" THEN SpeedLimits ELSE {<<>>} BY DEF Init
<1>2. CASE command = "GetMaxSpeedLimit"
  <2>1. limits \in Seq(Nat) BY <1>1, <1>2, QueryAssumption
  <2> QED BY <1>2, <2>1 DEF Init, Searching
<1>3. CASE command # "GetMaxSpeedLimit"
  <2>1. limits = <<>> /\ limits \in Seq(Nat) BY <1>1, <1>3
  <2> QED BY <1>3, <2>1 DEF Init, Searching
<1> QED BY <1>2, <1>3

\* The search itself, one rule at a time.
LEMMA ComparesLower == Searching /\ ComparesLimit => Lowest'
<1> SUFFICES ASSUME Searching, ComparesLimit PROVE Lowest' OBVIOUS
<1>1. /\ compared < Len(limits) /\ compared' = compared + 1 /\ limits' = limits
      /\ speed' = LowerLimit(speed, compared') /\ outcome = "comparing"
  BY DEF ComparesLimit, given
<1>2. limits \in Seq(Nat) /\ Lowest BY <1>1 DEF Searching
<1>3. DOMAIN limits = 1..Len(limits) /\ Len(limits) \in Nat BY <1>2
<1>4. compared \in Nat /\ compared' \in DOMAIN limits BY <1>1, <1>2, <1>3 DEF Lowest
<1>5. PICK id \in DOMAIN limits :
        speed = <<limits[id], id>> /\ \A other \in 1..compared : limits[id] <= limits[other]
  BY <1>2 DEF Lowest
<1>6. \A other \in DOMAIN limits : limits[other] \in Nat BY <1>2, <1>3
<1>7. \A other \in 1..compared' : other \in 1..compared \/ other = compared'
  BY <1>1, <1>4
<1>8. 1..compared \subseteq DOMAIN limits BY <1>1, <1>3, <1>4
<1>9. speed[1] = limits[id] BY <1>5
<1>10. CASE limits[compared'] < limits[id]
  <2>1. speed' = <<limits[compared'], compared'>> BY <1>1, <1>9, <1>10 DEF LowerLimit
  <2>2. \A other \in 1..compared' : limits[compared'] <= limits[other]
    BY <1>4, <1>5, <1>6, <1>7, <1>8, <1>10
  <2> QED BY <1>1, <1>3, <1>4, <2>1, <2>2 DEF Lowest
<1>11. CASE ~(limits[compared'] < limits[id])
  <2>1. speed' = <<limits[id], id>> BY <1>1, <1>5, <1>9, <1>11 DEF LowerLimit
  <2>2. \A other \in 1..compared' : limits[id] <= limits[other]
    BY <1>4, <1>5, <1>6, <1>7, <1>11
  <2> QED BY <1>1, <1>3, <1>4, <2>1, <2>2 DEF Lowest
<1> QED BY <1>10, <1>11

LEMMA SearchingStep == Searching /\ [Next]_vars => Searching'
<1> SUFFICES ASSUME Searching, [Next]_vars PROVE Searching' OBVIOUS
<1>1. CASE ComparesLimit
  <2>1. /\ UNCHANGED <<command, limits, outcome>> /\ outcome = "comparing"
    BY <1>1 DEF ComparesLimit, given
  <2> QED BY <1>1, <2>1, ComparesLower DEF Searching
<1>2. CASE ReportsLimit
  <2>1. /\ UNCHANGED <<command, limits, speed, compared>> /\ outcome = "comparing"
        /\ outcome' = "answered" /\ compared = Len(limits)
    BY <1>2 DEF ReportsLimit, given, search
  <2>2. Lowest' <=> Lowest BY <2>1 DEF Lowest
  <2> QED BY <2>1, <2>2 DEF Searching
<1>3. CASE AsksForSpeedLimit
  <2>1. /\ UNCHANGED <<command, limits, compared>> /\ outcome = "reading"
        /\ speed' = IF outcome' = "comparing" THEN <<limits[1], 1>> ELSE speed
    BY <1>3 DEF AsksForSpeedLimit, Asks, given
  <2>2. /\ outcome' \in {"not found", "answered", "comparing"}
        /\ outcome' = "comparing" => limits # <<>>
        /\ outcome' = "answered" => limits = <<>>
    BY <1>3 DEF AsksForSpeedLimit
  <2>3. limits \in Seq(Nat) /\ speed = <<>> /\ compared = 0 BY <2>1 DEF Searching
  <2>4. outcome' = "comparing" => 1 \in DOMAIN limits BY <2>2, <2>3
  <2>5. outcome' = "comparing" => Lowest'
    BY <2>1, <2>3, <2>4 DEF Lowest
  <2> QED BY <2>1, <2>2, <2>3, <2>5 DEF Searching
<1>4. CASE Refuses \/ Starts \/ Reads
  <2>1. UNCHANGED <<command, limits, speed, compared>> /\ outcome \in {"started", "reading"}
    BY <1>4 DEF Refuses, Starts, Reads, given, search
  <2>2. outcome' \notin {"comparing", "answered"}
    BY <1>4 DEF Refuses, Starts, Reads, Parsed
  <2> QED BY <2>1, <2>2 DEF Searching
<1>5. CASE \/ AsksForBackends \/ AsksForPosition \/ AsksForNumber \/ AsksAboutBoxes
           \/ AsksLane \/ AsksLaneEnd \/ AsksForBounds \/ AsksForLength
           \/ AsksForDirection \/ AsksForRules \/ AsksForPhase
  <2>1. /\ UNCHANGED <<command, limits, speed, compared>> /\ outcome = "reading"
        /\ outcome' # "comparing"
    BY <1>5 DEF Asks, AsksForBackends, AsksForPosition, AsksForNumber, AsksAboutBoxes, AsksLane,
                AsksLaneEnd, AsksForBounds, AsksForLength, AsksForDirection, AsksForRules,
                AsksForPhase, given, search
  <2>2. command # "GetMaxSpeedLimit"
    BY <1>5 DEF Asks, AsksForBackends, AsksForPosition, AsksForNumber, AsksAboutBoxes, AsksLane,
                AsksLaneEnd, AsksForBounds, AsksForLength, AsksForDirection, AsksForRules,
                AsksForPhase, OnBackends, OnLanePosition, OnLaneEnd, OnLaneRange
  <2> QED BY <2>1, <2>2 DEF Searching
<1>6. CASE UNCHANGED vars
  <2>1. UNCHANGED <<command, limits, speed, compared, outcome>>
    BY <1>6 DEF vars, given, search
  <2> QED BY <2>1 DEF Searching, Lowest
<1> QED BY <1>1, <1>2, <1>3, <1>4, <1>5, <1>6 DEF Next

LEMMA AlwaysSearching == Spec => []Searching
BY SearchingInit, SearchingStep, PTL DEF Spec

(***************************************************************************)
(* Types, for command lines of any length: no parser of maliput_query      *)
(* reads past the end of argv.                                             *)
(***************************************************************************)
THEOREM QueryTypeCorrect == Spec => []QueryTypeOK
<1>1. Answering /\ Searching => QueryTypeOK BY TypesFollow DEF Answering
<1> QED BY <1>1, AlwaysAnswering, AlwaysSearching, PTL

(***************************************************************************)
(* GetMaxSpeedLimit() reports a rule with its own limit, and no rule of    *)
(* the lane has a lower one: for lanes with any number of rules.           *)
(***************************************************************************)
THEOREM LimitIsTightest == Spec => []TightestLimit
<1>1. Searching => TightestLimit
  <2> SUFFICES ASSUME Searching, outcome = "answered", limits # <<>>
               PROVE  /\ speed[1] = limits[speed[2]]
                      /\ \A id \in DOMAIN limits : speed[1] <= limits[id]
    BY DEF TightestLimit
  <2>1. limits \in Seq(Nat) /\ Lowest /\ compared = Len(limits) BY DEF Searching
  <2>2. DOMAIN limits = 1..compared BY <2>1
  <2>3. PICK id \in DOMAIN limits :
          speed = <<limits[id], id>> /\ \A other \in 1..compared : limits[id] <= limits[other]
    BY <2>1 DEF Lowest
  <2>4. speed[1] = limits[id] /\ speed[2] = id BY <2>3
  <2> QED BY <2>2, <2>3, <2>4
<1> QED BY <1>1, AlwaysSearching, PTL

(***************************************************************************)
(* What is answered is what the usage asked for, whatever the command but  *)
(* Route.                                                                  *)
(***************************************************************************)
THEOREM AnswersAsUsage == Spec => []ArgvAsUsage
<1>1. Answering => ArgvAsUsage BY DEF Answering
<1> QED BY <1>1, AlwaysAnswering, PTL

(***************************************************************************)
(* However many arguments are wrong, one is reported.                      *)
(***************************************************************************)
THEOREM WrongReported == Spec => []WrongIsReported
<1>1. Answering => WrongIsReported BY DEF Answering
<1> QED BY <1>1, AlwaysAnswering, PTL

(***************************************************************************)
(* A command line that follows the usage is never refused.                 *)
(***************************************************************************)
THEOREM RightAnswered == Spec => []RightIsAnswered
<1>1. Answering => RightIsAnswered BY DEF Answering
<1> QED BY <1>1, AlwaysAnswering, PTL
-----------------------------------------------------------------------------
\* What Route does instead of what its usage says: the words from index 3 to
\* index 11 are read for the first box, and again for the second.
RouteBox == <<Box, 3>>
ReadTwice == taken = Words(Box, 3) \o Words(Box, 3)
RouteCourse ==
  command = "Route" /\ outcome \in {"reading", "answered"} =>
    \/ outcome = "reading" /\ parsers = <<RouteBox, RouteBox>> /\ taken = <<>>
    \/ outcome = "reading" /\ parsers = <<RouteBox>> /\ taken = Words(Box, 3)
    \/ parsers = <<>> /\ ReadTwice

LEMMA RouteReadsNext ==
  ASSUME RouteCourse, command = "Route", Reads
  PROVE  \/ parsers' = <<RouteBox>> /\ taken' = Words(Box, 3)
         \/ parsers' = <<>> /\ ReadTwice'
<1>1. outcome = "reading" /\ parsers # <<>> /\ parsers' = Tail(parsers)
      /\ taken' = taken \o Words(Head(parsers)[1], Head(parsers)[2])
  BY DEF Reads
<1>2. Words(Box, 3) \in Seq(Nat \X Kinds) BY RouteReads, WordsAre
<1>3. CASE parsers = <<RouteBox, RouteBox>> /\ taken = <<>>
  <2>1. Head(parsers) = RouteBox /\ Tail(parsers) = <<RouteBox>> BY <1>3
  <2>2. Head(parsers)[1] = Box /\ Head(parsers)[2] = 3 BY <2>1 DEF RouteBox
  <2>3. <<>> \o Words(Box, 3) = Words(Box, 3) BY <1>2, ConcatEmptySeq
  <2> QED BY <1>1, <1>3, <2>1, <2>2, <2>3
<1>4. CASE parsers = <<RouteBox>> /\ taken = Words(Box, 3)
  <2>1. Head(parsers) = RouteBox /\ Tail(parsers) = <<>> BY <1>4
  <2>2. Head(parsers)[1] = Box /\ Head(parsers)[2] = 3 BY <2>1 DEF RouteBox
  <2> QED BY <1>1, <1>4, <2>1, <2>2 DEF ReadTwice
<1> QED BY <1>1, <1>3, <1>4 DEF RouteCourse

LEMMA RouteCourseStep == Answering /\ RouteCourse /\ [Next]_vars => RouteCourse'
<1> SUFFICES ASSUME Answering, RouteCourse, [Next]_vars, command' = "Route",
                    outcome' \in {"reading", "answered"}
             PROVE  RouteCourse'
  BY DEF RouteCourse
<1>1. CASE Starts
  <2>1. /\ command = "Route" /\ parsers' = Branch(command) /\ outcome' = "reading"
        /\ taken' = taken /\ taken = <<>>
    BY <1>1 DEF Starts, given, Answering, Reading
  <2> QED BY <2>1, RouteReads DEF RouteCourse, RouteBox
<1>2. CASE Reads
  <2>1. command = "Route" /\ outcome = "reading" BY <1>2 DEF Reads, given
  <2>2. outcome' = "reading"
    <3>1. outcome' = Parsed(Words(Head(parsers)[1], Head(parsers)[2])) BY <1>2 DEF Reads
    <3> QED BY <3>1 DEF Parsed
  <2> QED BY <1>2, <2>1, <2>2, RouteReadsNext DEF RouteCourse
<1>3. CASE AsksAboutBoxes
  <2>1. UNCHANGED <<command, parsers, taken>> /\ outcome = "reading" /\ parsers = <<>>
        /\ outcome' # "reading"
    BY <1>3 DEF AsksAboutBoxes, Asks, given
  <2> QED BY <2>1 DEF RouteCourse, ReadTwice
<1>4. CASE UNCHANGED vars
  BY <1>4 DEF vars, given, RouteCourse, ReadTwice
<1>5. CASE ComparesLimit \/ ReportsLimit
  <2>1. command' = "GetMaxSpeedLimit"
    BY <1>5 DEF ComparesLimit, ReportsLimit, given, Answering, Reading
  <2> QED BY <2>1
<1>6. CASE \/ AsksForBackends \/ AsksForPosition \/ AsksForNumber \/ AsksLane \/ AsksLaneEnd
           \/ AsksForBounds \/ AsksForLength \/ AsksForSpeedLimit \/ AsksForDirection
           \/ AsksForRules \/ AsksForPhase
  <2>1. command' # "Route"
    BY <1>6 DEF Asks, AsksForBackends, AsksForPosition, AsksForNumber, AsksLane, AsksLaneEnd,
                AsksForBounds, AsksForLength, AsksForSpeedLimit, AsksForDirection, AsksForRules,
                AsksForPhase, OnBackends, OnLanePosition, OnLaneEnd, OnLaneRange, given
  <2> QED BY <2>1
<1>7. CASE Refuses BY <1>7 DEF Refuses
<1> QED BY <1>1, <1>2, <1>3, <1>4, <1>5, <1>6, <1>7 DEF Next

LEMMA UndefinedStep == Answering /\ UndefinedHasReason /\ [Next]_vars => UndefinedHasReason'
<1> SUFFICES ASSUME Answering, UndefinedHasReason, [Next]_vars, outcome' = "undefined"
             PROVE  (command = "GetLaneLength" /\ Wrong # {})'
  BY DEF UndefinedHasReason
<1>1. CASE AsksForLength
  <2>1. /\ command = "GetLaneLength" /\ outcome = "reading" /\ parsers = <<>>
        /\ NamesNothing /\ UNCHANGED <<command, argc, odd>>
    BY <1>1 DEF AsksForLength, Asks, given
  <2>2. Wrong # {} BY <2>1, NamesAreWrong DEF Answering
  <2>3. Wrong' = Wrong BY <2>1 DEF Wrong, UsedAs
  <2> QED BY <2>1, <2>2, <2>3
<1>2. CASE Reads
  <2>1. outcome' = Parsed(Words(Head(parsers)[1], Head(parsers)[2]))
        /\ outcome = "reading" /\ parsers # <<>>
    BY <1>2 DEF Reads
  <2>2. Words(Head(parsers)[1], Head(parsers)[2]) \in Seq(Arguments \X Kinds)
    BY <2>1, NextParser DEF Answering
  <2>3. argc \in Nat BY DEF Answering, Reading, Given
  <2>4. outcome' \in {"exit 1", "aborted", "threw", "reading"}
    BY <2>1, <2>2, <2>3, ParsedHow
  <2> QED BY <2>4
<1>3. CASE UNCHANGED vars
  <2>1. UNCHANGED <<command, odd, outcome>> BY <1>3 DEF vars, given
  <2>2. Wrong' = Wrong BY <2>1 DEF Wrong, UsedAs
  <2> QED BY <2>1, <2>2 DEF UndefinedHasReason
<1>4. CASE \/ Refuses \/ Starts \/ ComparesLimit \/ ReportsLimit
           \/ AsksForBackends \/ AsksForPosition \/ AsksForNumber \/ AsksAboutBoxes
           \/ AsksLane \/ AsksLaneEnd \/ AsksForBounds \/ AsksForSpeedLimit
           \/ AsksForDirection \/ AsksForRules \/ AsksForPhase
  BY <1>4 DEF Refuses, Starts, ComparesLimit, ReportsLimit, AsksForBackends, AsksForPosition,
              AsksForNumber, AsksAboutBoxes, AsksLane, AsksLaneEnd, AsksForBounds,
              AsksForSpeedLimit, AsksForDirection, AsksForRules, AsksForPhase
<1> QED BY <1>1, <1>2, <1>3, <1>4 DEF Next

(***************************************************************************)
(* Route never reads what its usage asks for: whatever the two boxes are,  *)
(* the route it answers with is one from the words at argv[3] to argv[11]  *)
(* to the same words (maliput_query.cc:1207).                              *)
(***************************************************************************)
THEOREM RouteAnswersAnotherQuestion ==
  Spec => [](outcome = "answered" /\ command = "Route" => ReadTwice /\ ~ReadAsUsage)
<1>1. Init => RouteCourse BY DEF Init, RouteCourse
<1>2. RouteCourse =>
        (outcome = "answered" /\ command = "Route" => ReadTwice /\ ~ReadAsUsage)
  <2> SUFFICES ASSUME RouteCourse, outcome = "answered", command = "Route"
               PROVE  ReadTwice /\ ~ReadAsUsage
    OBVIOUS
  <2>1. ReadTwice BY DEF RouteCourse
  <2> DEFINE W == Words(Box, 3)
             S == Nat \X Kinds
  <2>2. W \in Seq(S) /\ Len(W) = 9 /\ W[1] = <<3, Box[1]>>
    BY RouteReads, WordsAre
  <2> HIDE DEF W, S
  <2>3. (W \o W)[1] = W[1] BY <2>2, ConcatProperties
  <2>4. taken[1][1] = 3 BY <2>1, <2>2, <2>3 DEF ReadTwice, W
  <2>5. ReadAsUsage => taken[1][1] = 2
    <3>1. 1 \in DOMAIN Usage(command) BY RouteReads
    <3> QED BY <3>1 DEF ReadAsUsage
  <2> QED BY <2>1, <2>4, <2>5
<1> QED BY <1>1, <1>2, RouteCourseStep, AlwaysAnswering, PTL DEF Spec

(***************************************************************************)
(* Whatever the command line, nothing is undefined but the length of a     *)
(* lane that is not there: no parser runs past argv, and no other query    *)
(* uses what it did not find.                                              *)
(***************************************************************************)
THEOREM OnlyLengthIsUndefined == Spec => []UndefinedHasReason
<1>1. Init => UndefinedHasReason BY DEF Init, UndefinedHasReason
<1> QED BY <1>1, UndefinedStep, AlwaysAnswering, PTL DEF Spec
=============================================================================
