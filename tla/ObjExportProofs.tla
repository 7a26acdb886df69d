--------------------------- MODULE ObjExportProofs --------------------------
(***************************************************************************)
(* Theorems about ObjExport, for any number of exporters, and however      *)
(* often the directory is removed or an exporter killed.                   *)
(***************************************************************************)
EXTENDS ObjExport, SequenceTheorems, TLAPS

Tails(e) == {Files(e), Tail(Files(e)), Tail(Tail(Files(e))), <<>>}

LEMMA FilesAre ==
  \A e : /\ e \in urdf => Files(e) = <<"obj", "mtl", "urdf">>
         /\ e \notin urdf => Files(e) = <<"obj", "mtl">>
BY DEF Files

\* The files are written from the first, which is the .obj, to the last.
LEMMA NextFile ==
  ASSUME NEW e, NEW s \in Tails(e), s # <<>>
  PROVE  /\ Head(s) \in Extensions
         /\ Tail(s) \in Tails(e) /\ Tail(s) # Files(e)
         /\ ToSet(s) = {Head(s)} \cup ToSet(Tail(s)) /\ Head(s) \notin ToSet(Tail(s))
         /\ Head(s) = "obj" <=> s = Files(e)
<1>1. /\ Tail(<<"obj", "mtl", "urdf">>) = <<"mtl", "urdf">> /\ Tail(<<"mtl", "urdf">>) = <<"urdf">>
      /\ Tail(<<"urdf">>) = <<>> /\ Tail(<<"obj", "mtl">>) = <<"mtl">> /\ Tail(<<"mtl">>) = <<>>
  OBVIOUS
<1>2. /\ ToSet(<<"obj", "mtl", "urdf">>) = {"obj", "mtl", "urdf"}
      /\ ToSet(<<"mtl", "urdf">>) = {"mtl", "urdf"} /\ ToSet(<<"urdf">>) = {"urdf"}
      /\ ToSet(<<"obj", "mtl">>) = {"obj", "mtl"} /\ ToSet(<<"mtl">>) = {"mtl"}
      /\ ToSet(<<>>) = {}
  BY DEF ToSet
<1>3. /\ Head(<<"obj", "mtl", "urdf">>) = "obj" /\ Head(<<"mtl", "urdf">>) = "mtl"
      /\ Head(<<"urdf">>) = "urdf" /\ Head(<<"obj", "mtl">>) = "obj" /\ Head(<<"mtl">>) = "mtl"
  OBVIOUS
<1>4. /\ <<"obj", "mtl", "urdf">> # <<"mtl", "urdf">> /\ <<"obj", "mtl", "urdf">> # <<"urdf">>
      /\ <<"obj", "mtl", "urdf">> # <<>> /\ <<"obj", "mtl">> # <<"mtl">> /\ <<"obj", "mtl">> # <<>>
  OBVIOUS
<1>5. CASE e \in urdf
  <2>1. Files(e) = <<"obj", "mtl", "urdf">> BY <1>5, FilesAre
  <2>2. Tails(e) = {<<"obj", "mtl", "urdf">>, <<"mtl", "urdf">>, <<"urdf">>, <<>>}
    BY <1>1, <2>1 DEF Tails
  <2>3. CASE s = <<"obj", "mtl", "urdf">> BY <1>1, <1>2, <1>3, <1>4, <2>1, <2>2, <2>3 DEF Extensions
  <2>4. CASE s = <<"mtl", "urdf">> BY <1>1, <1>2, <1>3, <1>4, <2>1, <2>2, <2>4 DEF Extensions
  <2>5. CASE s = <<"urdf">> BY <1>1, <1>2, <1>3, <1>4, <2>1, <2>2, <2>5 DEF Extensions
  <2> QED BY <2>2, <2>3, <2>4, <2>5
<1>6. CASE e \notin urdf
  <2>1. Files(e) = <<"obj", "mtl">> BY <1>6, FilesAre
  <2>3. Tails(e) = {<<"obj", "mtl">>, <<"mtl">>, <<>>} BY <1>1, <2>1 DEF Tails
  <2>4. CASE s = <<"obj", "mtl">> BY <1>1, <1>2, <1>3, <1>4, <2>1, <2>3, <2>4 DEF Extensions
  <2>5. CASE s = <<"mtl">> BY <1>1, <1>2, <1>3, <1>4, <2>1, <2>3, <2>5 DEF Extensions
  <2> QED BY <2>3, <2>4, <2>5
<1> QED BY <1>5, <1>6
-----------------------------------------------------------------------------
\* What each action leaves alone.
LEMMA FlagsStay == [Next]_vars => UNCHANGED flags /\ \A e : Files(e)' = Files(e)
<1> SUFFICES ASSUME [Next]_vars PROVE UNCHANGED flags BY DEF flags, Files
<1> QED
  BY DEF Next, Removed, Main, Loads, Asks, Creates, Confirms, WritesFile, Finishes, Killed, vars

LEMMA TypesInit == Init => ObjTypeOK
<1>1. \A e : Files(e) \in Seq(Extensions) BY DEF Files, Extensions
<1> QED BY <1>1 DEF Init, ObjTypeOK, Ended

LEMMA TypesStep == ObjTypeOK /\ [Next]_vars => ObjTypeOK'
<1> SUFFICES ASSUME ObjTypeOK, [Next]_vars PROVE ObjTypeOK' OBVIOUS
<1>1. CASE UNCHANGED vars BY <1>1, FlagsStay DEF vars, ObjTypeOK
<1>2. CASE Removed BY <1>2, FlagsStay DEF Removed, ObjTypeOK, Extensions
<1>3. ASSUME NEW e \in Exporters, Main(e) \/ Killed(e) PROVE ObjTypeOK'
  <2>1. CASE Loads(e) BY <2>1, FlagsStay DEF Loads, Goes, ObjTypeOK, Ended
  <2>2. CASE Asks(e) BY <2>2, FlagsStay DEF Asks, Goes, ObjTypeOK, Ended
  <2>3. CASE Creates(e) BY <2>3, FlagsStay DEF Creates, Goes, ObjTypeOK, Ended
  <2>4. CASE Confirms(e) BY <2>4, FlagsStay DEF Confirms, Goes, ObjTypeOK, Ended
  <2>5. CASE WritesFile(e)
    <3>1. Head(left[e]) \in Extensions /\ Tail(left[e]) \in Tails(e)
      BY <2>5, NextFile DEF WritesFile, ObjTypeOK, Tails
    <3>2. left' = [left EXCEPT ![e] = Tail(@)] /\ pc[e] = "write" /\ pc' = [pc EXCEPT ![e] = "write"]
          /\ dir' = dir
      BY <2>5 DEF WritesFile, Goes
    <3>3. disk' \in [Extensions -> Exporters \cup {NoOne, Old}]
      BY <2>5, <3>1 DEF WritesFile, ObjTypeOK
    <3>4. dir' # "dir" => disk' = disk BY <2>5 DEF WritesFile
    <3>5. ASSUME NEW f \in Exporters
          PROVE  /\ left'[f] \in Tails(f)
                 /\ pc'[f] \in {"load", "ask", "create", "confirm", "failed", "threw"} =>
                      left'[f] = Files(f)
                 /\ pc'[f] = "done" => left'[f] = <<>>
      <4>1. CASE f = e BY <3>1, <3>2, <4>1 DEF ObjTypeOK
      <4>2. CASE f # e BY <3>2, <4>2 DEF ObjTypeOK, Tails
      <4> QED BY <4>1, <4>2
    <3>6. left' \in [Exporters -> Seq(Extensions)]
      <4>1. left[e] \in Seq(Extensions) /\ left[e] # <<>>
        BY <2>5 DEF WritesFile, ObjTypeOK
      <4>2. Tail(left[e]) \in Seq(Extensions) BY <4>1, HeadTailProperties
      <4> QED BY <3>2, <4>2 DEF ObjTypeOK
    <3> QED BY <3>6, <3>2, <3>3, <3>4, <3>5, FlagsStay DEF ObjTypeOK, Tails
  <2>6. CASE Finishes(e) BY <2>6, FlagsStay DEF Finishes, Goes, ObjTypeOK, Ended
  <2>7. CASE Killed(e) BY <2>7, FlagsStay DEF Killed, ObjTypeOK, Ended
  <2> QED BY <1>3, <2>1, <2>2, <2>3, <2>4, <2>5, <2>6, <2>7 DEF Main
<1> QED BY <1>1, <1>2, <1>3 DEF Next

(***************************************************************************)
(* ObjTypeOK for every instance: GenerateObjFile() and GenerateUrdfFile()  *)
(* write their files in order, and nothing lies outside of a directory     *)
(* (maliput_to_obj.cc).                                                    *)
(***************************************************************************)
THEOREM ObjTypeCorrect == Spec => []ObjTypeOK
BY TypesInit, TypesStep, PTL DEF Spec
-----------------------------------------------------------------------------
\* Who has been told that the directory exists may rely on it until somebody
\* removes it; who created it can only be disappointed if it could not be.
Relied ==
  /\ removals \in Nat
  /\ \A e \in Exporters :
       /\ pc[e] = "confirm" => dir # "none" \/ ~creatable \/ removals > 0
       /\ pc[e] \in {"write", "done"} => dir # "none" \/ removals > 0

LEMMA ReliedInit == Init => Relied
BY DEF Init, Relied

LEMMA ReliedStep == ObjTypeOK /\ Relied /\ [Next]_vars => Relied'
<1> SUFFICES ASSUME ObjTypeOK, Relied, [Next]_vars PROVE Relied' OBVIOUS
<1>0. creatable' = creatable BY FlagsStay DEF flags
<1>1. CASE UNCHANGED vars BY <1>0, <1>1 DEF vars, Relied
<1>2. CASE Removed BY <1>2 DEF Removed, Relied
<1>3. ASSUME NEW e \in Exporters, Main(e) \/ Killed(e) PROVE Relied'
  <2>1. CASE Loads(e) BY <1>0, <2>1 DEF Loads, Goes, ObjTypeOK, Relied
  <2>2. CASE Asks(e) BY <1>0, <2>2 DEF Asks, Goes, ObjTypeOK, Relied
  <2>3. CASE Creates(e) BY <1>0, <2>3 DEF Creates, Goes, ObjTypeOK, Relied
  <2>4. CASE Confirms(e) BY <1>0, <2>4 DEF Confirms, Goes, ObjTypeOK, Relied
  <2>5. CASE WritesFile(e) BY <1>0, <2>5 DEF WritesFile, Goes, ObjTypeOK, Relied
  <2>6. CASE Finishes(e) BY <1>0, <2>6 DEF Finishes, Goes, ObjTypeOK, Relied
  <2>7. CASE Killed(e) BY <1>0, <2>7 DEF Killed, ObjTypeOK, Relied
  <2> QED BY <1>3, <2>1, <2>2, <2>3, <2>4, <2>5, <2>6, <2>7 DEF Main
<1> QED BY <1>1, <1>2, <1>3 DEF Next

LEMMA FailsStep == ObjTypeOK /\ Relied /\ FailsForAReason /\ [Next]_vars => FailsForAReason'
<1> SUFFICES ASSUME ObjTypeOK, Relied, FailsForAReason, [Next]_vars,
                    creatable', ~(removals' > 0), NEW e \in Exporters
             PROVE  pc'[e] # "threw"
  BY DEF FailsForAReason
<1>1. creatable /\ ~(removals > 0)
  <2>1. removals' = removals \/ removals' = removals + 1
    BY DEF Next, Removed, Main, Loads, Asks, Creates, Confirms, WritesFile, Finishes, Killed, vars
  <2>2. ~(removals > 0) BY <2>1 DEF Relied
  <2>3. creatable' = creatable BY FlagsStay DEF flags
  <2>4. creatable BY ONLY creatable', <2>3, Zenon
  <2> QED BY <2>2, <2>4
<1>2. pc[e] # "threw" BY <1>1 DEF FailsForAReason
<1>3. CASE UNCHANGED vars \/ Removed BY <1>2, <1>3 DEF vars, Removed
<1>4. ASSUME NEW f \in Exporters, Main(f) \/ Killed(f) PROVE pc'[e] # "threw"
  <2>1. CASE Confirms(f) BY <1>1, <1>2, <2>1 DEF Confirms, Goes, ObjTypeOK, Relied
  <2>2. CASE Loads(f) \/ Asks(f) \/ Creates(f) \/ WritesFile(f) \/ Finishes(f) \/ Killed(f)
    BY <1>2, <2>2 DEF Loads, Asks, Creates, WritesFile, Finishes, Killed, Goes, ObjTypeOK
  <2> QED BY <1>4, <2>1, <2>2 DEF Main
<1> QED BY <1>3, <1>4 DEF Next

(***************************************************************************)
(* FailsForAReason for every instance: asking, creating and asking again   *)
(* in separate steps is safe for any number of exporters at once, because  *)
(* who finds the directory created by somebody else does not mind          *)
(* (maliput_to_obj.cc).                                                    *)
(***************************************************************************)
THEOREM FailuresHaveReasons == Spec => []FailsForAReason
<1>1. Init => FailsForAReason BY DEF Init, FailsForAReason
<1> QED BY <1>1, TypesInit, TypesStep, ReliedInit, ReliedStep, FailsStep, PTL DEF Spec
-----------------------------------------------------------------------------
\* What it means to write the next file.
LEMMA WriteChanges ==
  ASSUME ObjTypeOK, NEW e \in Exporters, WritesFile(e)
  PROVE  /\ pc' = pc /\ dir' = dir
         /\ Head(left[e]) \in Extensions /\ ToSet(left[e]) = {Head(left[e])} \cup ToSet(left'[e])
         /\ left'[e] # Files(e)
         /\ Head(left[e]) = "obj" <=> left[e] = Files(e)
         /\ \A f \in Exporters \ {e} : left'[f] = left[f]
         /\ disk' = IF dir = "dir" /\ e \notin astray
                    THEN [disk EXCEPT ![Head(left[e])] = e] ELSE disk
<1>1. left[e] # <<>> /\ left[e] \in Tails(e) BY DEF WritesFile, ObjTypeOK, Tails
<1>2. pc' = pc BY DEF WritesFile, Goes, ObjTypeOK
<1>3. left'[e] = Tail(left[e]) /\ \A f \in Exporters \ {e} : left'[f] = left[f]
  BY DEF WritesFile, ObjTypeOK
<1> QED BY <1>1, <1>2, <1>3, NextFile DEF WritesFile

\* Every other step leaves the files alone, or removes them.
LEMMA DiskStep ==
  ASSUME ObjTypeOK, [Next]_vars
  PROVE  \/ Removed
         \/ \E e \in Exporters : WritesFile(e)
         \/ /\ disk' = disk /\ left' = left /\ overlap' = overlap /\ removals' = removals
            /\ \/ UNCHANGED vars
               \/ \E e \in Exporters :
                    /\ pc' = [pc EXCEPT ![e] = pc'[e]]
                    /\ Loads(e) \/ Asks(e) \/ Creates(e) \/ Confirms(e) \/ Finishes(e) \/ Killed(e)
<1>1. CASE UNCHANGED vars BY <1>1 DEF vars
<1>2. ASSUME NEW e \in Exporters, Main(e) \/ Killed(e), ~WritesFile(e)
      PROVE  /\ disk' = disk /\ left' = left /\ overlap' = overlap /\ removals' = removals
             /\ pc' = [pc EXCEPT ![e] = pc'[e]]
             /\ Loads(e) \/ Asks(e) \/ Creates(e) \/ Confirms(e) \/ Finishes(e) \/ Killed(e)
  BY <1>2 DEF Main, Loads, Asks, Creates, Confirms, Finishes, Killed, Goes, ObjTypeOK
<1> QED BY <1>1, <1>2 DEF Next

\* What an exporter has written is there, until the directory is removed.
Kept ==
  \A e \in Exporters \ astray :
    pc[e] \in {"write", "done"} /\ removals = 0 /\ dir = "dir" =>
      \A ext \in ToSet(Files(e)) : ext \in ToSet(left[e]) \/ disk[ext] \in Exporters

LEMMA KeptStep == ObjTypeOK /\ Relied /\ Kept /\ [Next]_vars => Kept'
<1> SUFFICES ASSUME ObjTypeOK, Relied, Kept, [Next]_vars,
                    NEW e \in Exporters, e \notin astray,
                    pc'[e] \in {"write", "done"}, removals' = 0, dir' = "dir",
                    NEW ext \in ToSet(Files(e))
             PROVE  ext \in ToSet(left'[e]) \/ disk'[ext] \in Exporters
  BY FlagsStay DEF Kept, flags
<1>1. CASE Removed BY <1>1 DEF Removed
<1>2. ASSUME NEW f \in Exporters, WritesFile(f)
      PROVE  ext \in ToSet(left'[e]) \/ disk'[ext] \in Exporters
  <2>0. /\ pc' = pc /\ dir' = dir /\ removals' = removals
        /\ ToSet(left[f]) = {Head(left[f])} \cup ToSet(left'[f]) /\ Head(left[f]) \in Extensions
        /\ \A g \in Exporters \ {f} : left'[g] = left[g]
        /\ disk' = IF dir = "dir" /\ f \notin astray
                   THEN [disk EXCEPT ![Head(left[f])] = f] ELSE disk
    BY <1>2, WriteChanges DEF WritesFile
  <2>1. ext \in ToSet(left[e]) \/ disk[ext] \in Exporters BY <2>0 DEF Kept
  <2>2. disk[ext] \in Exporters => disk'[ext] \in Exporters BY <2>0 DEF ObjTypeOK
  <2>3. CASE f = e BY <2>0, <2>1, <2>2, <2>3 DEF ObjTypeOK
  <2>4. CASE f # e BY <2>0, <2>1, <2>2, <2>4
  <2> QED BY <2>3, <2>4
<1>3. CASE UNCHANGED vars BY <1>3 DEF vars, Kept
<1>4. ASSUME NEW f \in Exporters, disk' = disk, left' = left, removals' = removals,
             pc' = [pc EXCEPT ![f] = pc'[f]],
             Loads(f) \/ Asks(f) \/ Creates(f) \/ Confirms(f) \/ Finishes(f) \/ Killed(f)
      PROVE  ext \in ToSet(left'[e]) \/ disk'[ext] \in Exporters
  <2>1. CASE pc[e] \in {"write", "done"} /\ dir = "dir" BY <1>4, <2>1 DEF Kept
  <2>2. CASE pc[e] \in {"write", "done"} /\ dir # "dir"
    <3>1. dir # "none" BY <1>4, <2>2 DEF Relied
    <3>2. dir' = dir
      BY <1>4, <3>1 DEF Loads, Asks, Creates, Confirms, Finishes, Killed
    <3> QED BY <2>2, <3>2
  <2>3. CASE pc[e] \notin {"write", "done"}
    <3>1. f = e BY <1>4, <2>3 DEF ObjTypeOK
    <3>2. pc[e] = "confirm"
      BY <1>4, <2>3, <3>1
      DEF Loads, Asks, Creates, Confirms, Finishes, Killed, Goes, ObjTypeOK
    <3>3. left[e] = Files(e) BY <3>2 DEF ObjTypeOK
    <3> QED BY <1>4, <3>3
  <2> QED BY <2>1, <2>2, <2>3
<1> QED BY <1>1, <1>2, <1>3, <1>4, DiskStep

(***************************************************************************)
(* ExportIsThere for every instance: an exporter that got as far as        *)
(* writing stands in the directory it asked for, so nobody but who removes *)
(* that can undo what it wrote (maliput_to_obj.cc).                        *)
(***************************************************************************)
THEOREM ExportsAreThere == Spec => []ExportIsThere
<1>1. Init => Kept BY DEF Init, Kept
<1>2. ToSet(<<>>) = {} BY DEF ToSet
<1>3. ObjTypeOK /\ Kept => ExportIsThere BY <1>2 DEF ObjTypeOK, Kept, ExportIsThere
<1> QED BY <1>1, <1>3, TypesInit, TypesStep, ReliedInit, ReliedStep, KeptStep, PTL DEF Spec
-----------------------------------------------------------------------------
\* The files go together with the .obj, which is written first, as long as
\* nobody else writes before the last of them is written.
Together ==
  \A e \in Exporters :
    /\ disk["obj"] = e => e \notin astray /\ left[e] # Files(e)
    /\ disk["obj"] = e /\ ~overlap =>
         \A ext \in ToSet(Files(e)) : ext \in ToSet(left[e]) \/ disk[ext] = e
    /\ HalfDone(e) /\ e \notin astray /\ ~overlap => disk["obj"] \in {e, NoOne}

LEMMA HalfDoneOrNot ==
  ObjTypeOK => \A e \in Exporters :
    HalfDone(e) <=> left[e] # Files(e) /\ left[e] # <<>>
BY DEF ObjTypeOK, HalfDone, Ended

LEMMA FilesBegin == \A e : "obj" \in ToSet(Files(e)) /\ Files(e) # <<>>
BY DEF Files, ToSet

LEMMA WriteTogether ==
  ASSUME ObjTypeOK, Together, NEW f \in Exporters, WritesFile(f), NEW e \in Exporters
  PROVE  /\ disk'["obj"] = e => e \notin astray /\ left'[e] # Files(e)
         /\ disk'["obj"] = e /\ ~overlap' =>
              \A ext \in ToSet(Files(e)) : ext \in ToSet(left'[e]) \/ disk'[ext] = e
         /\ pc'[e] \in {"write", "killed"} /\ left'[e] # Files(e) /\ left'[e] # <<>>
              /\ e \notin astray /\ ~overlap' => disk'["obj"] \in {e, NoOne}
<1>0. /\ Head(left[f]) \in Extensions /\ ToSet(left[f]) = {Head(left[f])} \cup ToSet(left'[f])
      /\ left'[f] # Files(f)
      /\ Head(left[f]) = "obj" <=> left[f] = Files(f)
      /\ \A g \in Exporters \ {f} : left'[g] = left[g]
      /\ disk' = IF dir = "dir" /\ f \notin astray
                 THEN [disk EXCEPT ![Head(left[f])] = f] ELSE disk
  BY WriteChanges
<1>1. overlap' = (overlap \/ \E g \in Exporters \ {f} : HalfDone(g)) BY DEF WritesFile
<1>2. ~overlap' => ~overlap /\ \A g \in Exporters \ {f} : ~HalfDone(g)
  BY <1>1
<1>3. disk \in [Extensions -> Exporters \cup {NoOne, Old}] /\ "obj" \in Extensions
  BY DEF ObjTypeOK, Extensions
<1>4. dir # "dir" => disk["obj"] = NoOne BY <1>0, <1>3 DEF ObjTypeOK
<1>5. CASE e = f
  <2>1. disk'["obj"] = e => e \notin astray BY <1>0, <1>3, <1>5 DEF Together
  <2>2. ASSUME disk'["obj"] = e, ~overlap', NEW ext \in ToSet(Files(e))
        PROVE  ext \in ToSet(left'[e]) \/ disk'[ext] = e
    <3>1. e \notin astray BY <2>1, <2>2
    <3>2. CASE dir = "dir"
      <4>1. disk' = [disk EXCEPT ![Head(left[e])] = e] BY <1>0, <1>5, <3>1, <3>2
      <4>2. CASE left[e] = Files(e)
        BY <1>0, <1>3, <1>5, <4>1, <4>2
      <4>3. CASE left[e] # Files(e)
        <5>1. disk["obj"] = e BY <1>0, <1>3, <1>5, <2>2, <4>1, <4>3
        <5>2. ext \in ToSet(left[e]) \/ disk[ext] = e BY <1>2, <2>2, <5>1 DEF Together
        <5>3. disk'[Head(left[e])] = e BY <1>0, <1>3, <1>5, <4>1
        <5>4. disk[ext] = e => disk'[ext] = e BY <1>0, <1>3, <4>1
        <5> QED BY <1>0, <1>5, <5>2, <5>3, <5>4
      <4> QED BY <4>2, <4>3
    <3>3. CASE dir # "dir" BY <1>0, <1>4, <2>2, <3>3, ExportAssumption
    <3> QED BY <3>2, <3>3
  <2>3. ASSUME left'[e] # <<>>, e \notin astray, ~overlap' PROVE disk'["obj"] \in {e, NoOne}
    <3>1. CASE dir = "dir"
      <4>1. disk' = [disk EXCEPT ![Head(left[e])] = e] BY <1>0, <1>5, <2>3, <3>1
      <4>2. CASE left[e] = Files(e) BY <1>0, <1>3, <1>5, <4>1, <4>2
      <4>3. CASE left[e] # Files(e)
        <5>1. HalfDone(e) BY <1>0, <1>5, <4>3, HalfDoneOrNot DEF WritesFile
        <5>2. disk["obj"] \in {e, NoOne} BY <1>2, <2>3, <5>1 DEF Together
        <5> QED BY <1>0, <1>3, <1>5, <4>1, <4>3, <5>2
      <4> QED BY <4>2, <4>3
    <3>2. CASE dir # "dir" BY <1>0, <1>4, <3>2
    <3> QED BY <3>1, <3>2
  <2> QED BY <1>0, <1>5, <2>1, <2>2, <2>3
<1>6. CASE e # f
  <2>1. left'[e] = left[e] BY <1>0, <1>6
  <2>2. disk'["obj"] = e => disk["obj"] = e BY <1>0, <1>3, <1>6
  <2>3. ASSUME disk'["obj"] = e, ~overlap'
        PROVE  \A ext \in ToSet(Files(e)) : ext \in ToSet(left'[e]) \/ disk'[ext] = e
    <3>1. disk["obj"] = e /\ ~overlap /\ ~HalfDone(e) BY <1>0, <1>2, <1>6, <2>2, <2>3
    <3>2. CASE disk' = disk BY <1>0, <2>1, <3>1, <3>2 DEF Together
    <3>3. CASE disk' # disk
      <4>1. /\ dir = "dir" /\ f \notin astray /\ disk' = [disk EXCEPT ![Head(left[f])] = f]
        BY <1>0, <3>3
      <4>2. left[f] # Files(f) BY <1>0, <1>3, <1>6, <2>3, <4>1
      <4>3. HalfDone(f) BY <4>2, HalfDoneOrNot DEF WritesFile
      <4>4. disk["obj"] \in {f, NoOne} BY <1>0, <3>1, <4>1, <4>3 DEF Together
      <4> QED BY <1>6, <3>1, <4>4, ExportAssumption
    <3> QED BY <3>2, <3>3
  <2>4. ASSUME left'[e] # Files(e), left'[e] # <<>>, e \notin astray, ~overlap' PROVE FALSE
    <3>1. HalfDone(e) BY <2>1, <2>4, HalfDoneOrNot
    <3> QED BY <1>2, <1>6, <2>4, <3>1
  <2> QED BY <2>1, <2>2, <2>3, <2>4 DEF Together
<1> QED BY <1>5, <1>6

LEMMA TogetherStep == ObjTypeOK /\ Together /\ [Next]_vars => Together'
<1> SUFFICES ASSUME ObjTypeOK, Together, [Next]_vars, NEW e \in Exporters
             PROVE  /\ disk'["obj"] = e => e \notin astray /\ left'[e] # Files(e)
                    /\ disk'["obj"] = e /\ ~overlap' =>
                         \A ext \in ToSet(Files(e)) : ext \in ToSet(left'[e]) \/ disk'[ext] = e
                    /\ pc'[e] \in {"write", "killed"} /\ left'[e] # Files(e) /\ left'[e] # <<>>
                         /\ e \notin astray /\ ~overlap' => disk'["obj"] \in {e, NoOne}
  BY FlagsStay DEF Together, HalfDone, flags
<1>1. CASE Removed
  <2>1. disk'["obj"] = NoOne BY <1>1 DEF Removed, Extensions
  <2> QED BY <2>1, ExportAssumption
<1>2. CASE disk' = disk /\ left' = left /\ overlap' = overlap
  <2>1. left'[e] # Files(e) /\ left'[e] # <<>> => HalfDone(e) BY <1>2, HalfDoneOrNot
  <2> QED BY <1>2, <2>1 DEF Together
<1>3. CASE \E f \in Exporters : WritesFile(f) BY <1>3, WriteTogether
<1> QED BY <1>1, <1>2, <1>3, DiskStep

(***************************************************************************)
(* PairsMatch for every instance: the .mtl and the .urdf that lie beside   *)
(* an .obj are of the same exporter, whoever is killed and whatever was    *)
(* removed, unless one wrote while another was half done                   *)
(* (maliput_to_obj.cc).                                                    *)
(***************************************************************************)
THEOREM FilesMatch == Spec => []PairsMatch
<1>1. Init => Together
  BY ExportAssumption, FilesBegin DEF Init, Together, HalfDone, Extensions
<1>2. ToSet(<<>>) = {} BY DEF ToSet
<1>3. ObjTypeOK /\ Together => PairsMatch BY <1>2 DEF ObjTypeOK, Together, PairsMatch
<1> QED BY <1>1, <1>3, TypesInit, TypesStep, TogetherStep, PTL DEF Spec
=============================================================================
