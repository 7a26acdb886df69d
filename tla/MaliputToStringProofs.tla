------------------------ MODULE MaliputToStringProofs -----------------------
(***************************************************************************)
(* Theorems about MaliputToString, for any set of parameters and whichever *)
(* of them are given.                                                      *)
(***************************************************************************)
EXTENDS MaliputToString, SequenceTheorems, TLAPS

Objects == {"manager", "loader", "network"}

\* The objects there may be while the plugin application is loading.
Stacks == {<<>>, <<"manager">>, <<"manager", "loader">>, <<"manager", "loader", "network">>}

\* Where the program is, and what it has got by then.
Control ==
  /\ program \in {"linked", "plugin", "python"}
  /\ given \in Given /\ given \subseteq Parameters
  /\ printed \in BOOLEAN
  /\ pc \in {"start", "look up", "load", "check", "print"} => status = "running" /\ ~printed
  /\ pc \in {"unwinding", "end"} => status # "running"
  /\ pc = "start" => alive = <<>> /\ parameters = <<>>
  /\ pc = "look up" => program = "plugin" /\ alive = <<"manager">>
  /\ pc = "load" => program \in {"plugin", "python"}
  /\ program = "python" /\ pc = "load" => DOMAIN parameters = given
  /\ program = "plugin" =>
       /\ alive \in Stacks
       /\ pc = "load" /\ plugin = "loader" => alive = <<"manager", "loader">>
       /\ pc # "start" => DOMAIN parameters = Parameters
  /\ program # "plugin" => alive \in {<<>>, <<"network">>}
  /\ program # "plugin" /\ pc = "load" => alive = <<>>
  /\ \A p \in DOMAIN parameters : parameters[p] = "user" <=> p \in given

StringInvariant ==
  /\ Control /\ StatusTellsOutput
  /\ pc \in {"start", "look up", "load", "check", "print", "unwinding", "end"}
  /\ status \in {"running", "0", "1", "exception", "undefined"}

LEMMA BeginningOf ==
  ASSUME NEW s \in Seq(Objects), NEW t \in Seq(Objects),
         Len(s) <= Len(t), \A i \in 1..Len(s) : s[i] = t[i]
  PROVE  SubSeq(t, 1, Len(s)) = s
<1>1. Len(s) \in Nat /\ Len(t) \in Nat /\ \A i \in 1..Len(s) : t[i] \in Objects
  BY LenProperties
<1>2. /\ SubSeq(t, 1, Len(s)) \in Seq(Objects)
      /\ Len(SubSeq(t, 1, Len(s))) = Len(s)
      /\ \A i \in 1..Len(s) : SubSeq(t, 1, Len(s))[i] = t[i]
  BY <1>1, SubSeqProperties
<1> QED BY <1>2, SeqEqual

LEMMA StacksShrink ==
  /\ \A s \in Stacks : s # <<>> => Front(s) \in Stacks
  /\ Front(<<"network">>) = <<>>
<1> DEFINE m == <<"manager">>
           l == <<"manager", "loader">>
           n == <<"manager", "loader", "network">>
<1>1. Front(<<"network">>) = <<>> /\ Front(m) = <<>>
  BY SubSeqEmpty DEF Front
<1>2. Front(l) = m
  <2>1. l \in Seq(Objects) /\ m \in Seq(Objects) /\ Len(l) - 1 = Len(m) /\ Len(m) <= Len(l)
        /\ \A i \in 1..Len(m) : m[i] = l[i]
    BY DEF Objects
  <2>2. SubSeq(l, 1, Len(m)) = m BY ONLY <2>1, BeginningOf
  <2> QED BY <2>1, <2>2 DEF Front
<1>3. Front(n) = l
  <2>1. n \in Seq(Objects) /\ l \in Seq(Objects) /\ Len(n) - 1 = Len(l) /\ Len(l) <= Len(n)
        /\ \A i \in 1..Len(l) : l[i] = n[i]
    BY DEF Objects
  <2>2. SubSeq(n, 1, Len(l)) = l BY ONLY <2>1, BeginningOf
  <2> QED BY <2>1, <2>2 DEF Front
<1> QED BY <1>1, <1>2, <1>3 DEF Stacks

LEMMA StacksArePrefixes == \A s \in Stacks : IsPrefix(s, <<"manager", "loader", "network">>)
<1> DEFINE n == <<"manager", "loader", "network">>
<1> SUFFICES ASSUME NEW s \in Stacks PROVE IsPrefix(s, n) OBVIOUS
<1>1. /\ s \in Seq(Objects) /\ n \in Seq(Objects) /\ Len(s) <= Len(n)
      /\ \A i \in 1..Len(s) : s[i] = n[i]
  <2>1. n \in Seq(Objects) BY DEF Objects
  <2>2. CASE s = <<>> BY <2>1, <2>2
  <2>3. CASE s = <<"manager">> BY <2>1, <2>3 DEF Objects
  <2>4. CASE s = <<"manager", "loader">> BY <2>1, <2>4 DEF Objects
  <2>5. CASE s = n BY <2>1, <2>5
  <2> QED BY <2>2, <2>3, <2>4, <2>5 DEF Stacks
<1> HIDE DEF n
<1>2. SubSeq(n, 1, Len(s)) = s BY <1>1, BeginningOf
<1>3. SubSeq(s, 1, Len(s)) = s BY <1>1, SubSeqFull
<1> QED BY <1>1, <1>2, <1>3 DEF IsPrefix

LEMMA GrowsTo ==
  ASSUME NEW s \in Seq(Objects), NEW x \in Objects, NEW t \in Seq(Objects),
         Len(t) = Len(s) + 1, t[Len(t)] = x, \A i \in 1..Len(s) : t[i] = s[i]
  PROVE  Append(s, x) = t
<1>1. Len(s) \in Nat BY LenProperties
<1>2. /\ Append(s, x) \in Seq(Objects) /\ Len(Append(s, x)) = Len(s) + 1
      /\ Append(s, x)[Len(s) + 1] = x /\ \A i \in 1..Len(s) : Append(s, x)[i] = s[i]
  BY AppendProperties
<1>3. \A i \in 1..Len(t) : Append(s, x)[i] = t[i] BY <1>1, <1>2
<1> QED BY <1>2, <1>3, SeqEqual

LEMMA StacksGrow ==
  /\ Append(<<>>, "network") = <<"network">>
  /\ Append(<<"manager">>, "loader") = <<"manager", "loader">>
  /\ Append(<<"manager", "loader">>, "network") = <<"manager", "loader", "network">>
<1> DEFINE m == <<"manager">>
           l == <<"manager", "loader">>
           n == <<"manager", "loader", "network">>
<1>1. /\ m \in Seq(Objects) /\ l \in Seq(Objects) /\ n \in Seq(Objects)
      /\ "loader" \in Objects /\ "network" \in Objects
      /\ Len(l) = Len(m) + 1 /\ l[Len(l)] = "loader" /\ \A i \in 1..Len(m) : l[i] = m[i]
      /\ Len(n) = Len(l) + 1 /\ n[Len(n)] = "network" /\ \A i \in 1..Len(l) : n[i] = l[i]
  BY DEF Objects
<1>2. Append(m, "loader") = l BY ONLY <1>1, GrowsTo
<1>3. Append(l, "network") = n BY ONLY <1>1, GrowsTo
<1> QED BY <1>2, <1>3

-----------------------------------------------------------------------------
LEMMA StringInit == Init => StringInvariant
<1> SUFFICES ASSUME Init PROVE StringInvariant OBVIOUS
<1>1. given \in Given /\ given \subseteq Parameters BY StringAssumption DEF Init
<1>2. /\ program \in {"linked", "plugin", "python"}
      /\ pc = "start" /\ parameters = <<>> /\ alive = <<>> /\ status = "running"
      /\ printed = FALSE
  BY DEF Init
<1>3. alive \in Stacks /\ ~printed /\ printed \in BOOLEAN BY <1>2 DEF Stacks
<1>4. \A p \in DOMAIN parameters : parameters[p] = "user" <=> p \in given BY <1>2
<1>5. Control BY <1>1, <1>2, <1>3, <1>4 DEF Control
<1> QED BY <1>2, <1>3, <1>5 DEF StringInvariant, StatusTellsOutput

LEMMA StringStep == StringInvariant /\ [Next]_vars => StringInvariant'
<1> SUFFICES ASSUME StringInvariant, [Next]_vars PROVE StringInvariant' OBVIOUS
<1> USE DEF StringInvariant, Control, StatusTellsOutput, flags
<1>1. CASE PassesAll BY <1>1 DEF PassesAll, Goes, Stacks
<1>2. CASE PassesSome BY <1>2 DEF PassesSome, Goes
<1>3. CASE PluginIsMissing BY <1>3 DEF PluginIsMissing, Fails, Goes
<1>4. CASE NoEntryPoint BY <1>4 DEF NoEntryPoint, Fails, Goes
<1>5. CASE TakesLoader
  <2>1. alive' \in {<<"manager">>, <<"manager", "loader">>}
        /\ (plugin = "loader" => alive' = <<"manager", "loader">>)
    BY <1>5, StacksGrow DEF TakesLoader, Goes
  <2> QED BY <1>5, <2>1 DEF TakesLoader, Goes, Stacks
<1>6. CASE CallsNull BY <1>6 DEF CallsNull, Fails, Goes
<1>7. CASE PluginIsWrong BY <1>7 DEF PluginIsWrong, Fails, Goes
<1>8. CASE Loads
  <2>1. /\ plugin = "loader" /\ pc' = "check" /\ alive' = Append(alive, "network")
        /\ pc = IF program = "linked" THEN "start" ELSE "load"
        /\ UNCHANGED <<flags, parameters, printed, status>>
    BY <1>8 DEF Loads, Goes
  <2>2. CASE program = "plugin"
    <3>1. alive' = <<"manager", "loader", "network">> BY <2>1, <2>2, StacksGrow
    <3> QED BY <2>1, <2>2, <3>1 DEF Stacks
  <2>3. CASE program # "plugin"
    <3>1. alive' = <<"network">> BY <2>1, <2>3, StacksGrow
    <3> QED BY <2>1, <2>3, <3>1
  <2> QED BY <2>2, <2>3
<1>9. CASE LoadsNothing
  <2>1. /\ plugin = "loader" /\ pc' = "unwinding" /\ pc \in {"start", "load"}
        /\ status' = "exception" \/ (status' = "1" /\ program = "plugin" /\ pc = "load")
        /\ UNCHANGED <<flags, parameters, alive, printed>>
    BY <1>9 DEF LoadsNothing, Fails, Goes
  <2>2. program = "plugin" /\ pc = "start" => FALSE
    BY <1>9 DEF LoadsNothing, Fails, Goes
  <2> QED BY <2>1, <2>2
<1>10. CASE ChecksInvariants BY <1>10 DEF ChecksInvariants, Goes
<1>11. CASE Prints BY <1>11 DEF Prints, Goes
<1>12. CASE Destroys
  <2>1. /\ pc = "unwinding" /\ pc' = pc /\ alive # <<>> /\ alive' = Front(alive)
        /\ UNCHANGED <<flags, parameters, printed, status>>
    BY <1>12 DEF Destroys
  <2>2. program = "plugin" => alive' \in Stacks BY <2>1, StacksShrink
  <2>3. program # "plugin" => alive' \in {<<>>, <<"network">>} BY <2>1, StacksShrink
  <2> QED BY <2>1, <2>2, <2>3
<1>13. CASE Exits BY <1>13 DEF Exits, Goes
<1>14. CASE UNCHANGED vars BY <1>14 DEF vars
<1> QED
  BY <1>1, <1>2, <1>3, <1>4, <1>5, <1>6, <1>7, <1>8, <1>9, <1>10, <1>11, <1>12, <1>13, <1>14
  DEF Next

LEMMA StringHolds == Spec => []StringInvariant
BY StringInit, StringStep, PTL DEF Spec

(***************************************************************************)
(* PluginOutlivesItsObjects: Main() of maliput_to_string_with_plugin.cc    *)
(* declares the manager before the loader and the loader before the road   *)
(* network, so that each return destroys them in the opposite order.       *)
(***************************************************************************)
THEOREM PluginIsLast == Spec => []PluginOutlivesItsObjects
<1>1. StringInvariant => PluginOutlivesItsObjects
  BY StacksArePrefixes DEF StringInvariant, Control, PluginOutlivesItsObjects
<1> QED BY <1>1, StringHolds, PTL

(***************************************************************************)
(* StatusTellsOutput: each return and each throw on the way to the string  *)
(* comes before it is printed, and nothing can fail after (maliput_to_     *)
(* string.cc, maliput_to_string_with_plugin.cc and .py).                   *)
(***************************************************************************)
THEOREM StatusIsOutput == Spec => []StatusTellsOutput
BY StringHolds, PTL DEF StringInvariant

(***************************************************************************)
(* StringTypeOK: the loader of a plugin is told all parameters in C++, and *)
(* those that are given in Python, whatever the set of parameters.         *)
(***************************************************************************)
THEOREM StringTypeCorrect == Spec => []StringTypeOK
<1>1. StringInvariant => StringTypeOK
  <2> SUFFICES ASSUME StringInvariant PROVE StringTypeOK OBVIOUS
  <2>1. alive \in Seq({"manager", "loader", "network"})
    <3>1. alive \in Stacks \cup {<<"network">>} BY DEF StringInvariant, Control, Stacks
    <3>2. CASE alive = <<>> BY <3>2
    <3>3. CASE alive = <<"manager">> BY <3>3
    <3>4. CASE alive = <<"manager", "loader">> BY <3>4
    <3>5. CASE alive = <<"manager", "loader", "network">> BY <3>5
    <3>6. CASE alive = <<"network">> BY <3>6
    <3> QED BY <3>1, <3>2, <3>3, <3>4, <3>5, <3>6 DEF Stacks
  <2> QED BY <2>1 DEF StringInvariant, Control, StringTypeOK
<1> QED BY <1>1, StringHolds, PTL
=============================================================================
