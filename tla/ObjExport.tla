------------------------------ MODULE ObjExport ------------------------------
(***************************************************************************)
(* maliput_to_obj (src/applications/maliput_to_obj.cc), as many of them as *)
(* are started for one --dirpath and one --file_name_root (both have       *)
(* defaults): loads a road network, makes sure that the directory is       *)
(* there and has the utility library write an .obj, an .mtl and, if asked, *)
(* a .urdf file into it.                                                   *)
(*                                                                         *)
(* The directory is asked for, created, asked for again and used in        *)
(* separate steps. Other exporters work in it meanwhile, somebody may      *)
(* remove it, and an exporter may be killed anywhere.                      *)
(***************************************************************************)
EXTENDS Naturals, Sequences, SequencesExt, FiniteSets

CONSTANTS
  Exporters,     \* the processes that export to the same files
  NoOne,         \* the author of a file that is not there
  Old,           \* the author of the files of an earlier time
  MaxRemovals,   \* bound: how often the directory is removed
  MaxKills       \* bound: how many exporters are killed

ASSUME ExportAssumption ==
  /\ NoOne # Old /\ NoOne \notin Exporters /\ Old \notin Exporters
  /\ MaxRemovals \in Nat /\ MaxKills \in Nat

VARIABLES
  pc,         \* where each exporter is
  left,       \* the files each exporter has still to write, in this order
  urdf,       \* who was started with --urdf
  astray,     \* whose --file_name_root names a directory that is not there
  dir,        \* what --dirpath is: "none", a "dir" or a "file"
  creatable,  \* whether the directory can be created
  disk,       \* who wrote each of the files
  removals,   \* history: how often the directory was removed
  kills,      \* history: how many exporters were killed
  overlap     \* history: whether one wrote while another was half done

flags == <<urdf, astray, creatable>>
vars == <<pc, left, flags, dir, disk, removals, kills, overlap>>

Extensions == {"obj", "mtl", "urdf"}
Ended == {"done", "failed", "threw", "killed"}

\* GenerateObjFile() and GenerateUrdfFile(), which goes on where the first ends.
Files(e) == IF e \in urdf THEN <<"obj", "mtl", "urdf">> ELSE <<"obj", "mtl">>

Init ==
  /\ pc = [e \in Exporters |-> "load"]
  /\ urdf \in SUBSET Exporters /\ astray \in SUBSET Exporters
  /\ left = [e \in Exporters |-> Files(e)]
  /\ dir \in {"none", "dir", "file"} /\ creatable \in BOOLEAN
  /\ disk \in [Extensions -> {NoOne, Old}]
  /\ dir # "dir" => disk = [ext \in Extensions |-> NoOne]
  /\ removals = 0 /\ kills = 0 /\ overlap = FALSE
-----------------------------------------------------------------------------
Goes(e, from, to) == pc[e] = from /\ pc' = [pc EXCEPT ![e] = to]

\* LoadRoadNetwork() answers, or ends the program.
Loads(e) ==
  /\ \/ Goes(e, "load", "ask")
     \/ Goes(e, "load", "failed")
  /\ UNCHANGED <<left, flags, dir, disk, removals, kills, overlap>>

\* if (!directory.exists()), which is true of a plain file, too
Asks(e) ==
  /\ Goes(e, "ask", IF dir = "none" THEN "create" ELSE "confirm")
  /\ UNCHANGED <<left, flags, dir, disk, removals, kills, overlap>>

\* Faulty variant: a directory that was not created is an error.
CreatesOrThrows(e) ==
  /\ Goes(e, "create", IF dir = "none" /\ creatable THEN "confirm" ELSE "threw")
  /\ dir' = IF dir = "none" /\ creatable THEN "dir" ELSE dir
  /\ UNCHANGED <<left, flags, disk, removals, kills, overlap>>

\* create_directory_recursive(); its result is not looked at.
Creates(e) ==
  /\ Goes(e, "create", "confirm")
  /\ dir' = IF dir = "none" /\ creatable THEN "dir" ELSE dir
  /\ UNCHANGED <<left, flags, disk, removals, kills, overlap>>

\* MALIPUT_THROW_UNLESS(directory.exists())
Confirms(e) ==
  /\ Goes(e, "confirm", IF dir = "none" THEN "threw" ELSE "write")
  /\ UNCHANGED <<left, flags, dir, disk, removals, kills, overlap>>

HalfDone(e) == pc[e] \in {"write", "killed"} /\ left[e] # Files(e) /\ left[e] # <<>>

\* Faulty variant: a file that is there is left alone.
KeepsFile(e) ==
  /\ Goes(e, "write", "write") /\ left[e] # <<>>
  /\ disk' = IF dir = "dir" /\ e \notin astray /\ disk[Head(left[e])] = NoOne
             THEN [disk EXCEPT ![Head(left[e])] = e] ELSE disk
  /\ left' = [left EXCEPT ![e] = Tail(@)]
  /\ overlap' = (overlap \/ \E f \in Exporters \ {e} : HalfDone(f))
  /\ UNCHANGED <<flags, dir, removals, kills>>

\* The library opens a file and writes to the stream; a stream that could not
\* be opened swallows it all.
WritesFile(e) ==
  /\ Goes(e, "write", "write") /\ left[e] # <<>>
  /\ disk' = IF dir = "dir" /\ e \notin astray
             THEN [disk EXCEPT ![Head(left[e])] = e] ELSE disk
  /\ left' = [left EXCEPT ![e] = Tail(@)]
  /\ overlap' = (overlap \/ \E f \in Exporters \ {e} : HalfDone(f))
  /\ UNCHANGED <<flags, dir, removals, kills>>

\* Faulty variant: the exporter does not wait for the last file.
FinishesEarly(e) ==
  /\ Goes(e, "write", "done")
  /\ UNCHANGED <<left, flags, dir, disk, removals, kills, overlap>>

\* "OBJ creation has finished.", whatever was written
Finishes(e) ==
  /\ Goes(e, "write", "done") /\ left[e] = <<>>
  /\ UNCHANGED <<left, flags, dir, disk, removals, kills, overlap>>

\* Somebody removes the directory with all that is in it.
Removed ==
  /\ dir = "dir" /\ removals < MaxRemovals /\ removals' = removals + 1
  /\ dir' = "none" /\ disk' = [ext \in Extensions |-> NoOne]
  /\ UNCHANGED <<pc, left, flags, kills, overlap>>

Killed(e) ==
  /\ pc[e] \notin Ended /\ kills < MaxKills /\ kills' = kills + 1
  /\ pc' = [pc EXCEPT ![e] = "killed"]
  /\ UNCHANGED <<left, flags, dir, disk, removals, overlap>>

Main(e) ==
  Loads(e) \/ Asks(e) \/ Creates(e) \/ Confirms(e) \/ WritesFile(e) \/ Finishes(e)

Next == Removed \/ \E e \in Exporters : Main(e) \/ Killed(e)

Spec == Init /\ [][Next]_vars
-----------------------------------------------------------------------------
(***************************************************************************)
(* Types of the variables; files are only in a directory, and each         *)
(* exporter writes its files from the first to the last.                   *)
(***************************************************************************)
ObjTypeOK ==
  /\ pc \in [Exporters -> {"load", "ask", "create", "confirm", "write"} \cup Ended]
  /\ left \in [Exporters -> Seq(Extensions)]
  /\ dir \in {"none", "dir", "file"}
  /\ disk \in [Extensions -> Exporters \cup {NoOne, Old}]
  /\ dir # "dir" => \A ext \in Extensions : disk[ext] = NoOne
  /\ \A e \in Exporters :
       /\ left[e] \in {Files(e), Tail(Files(e)), Tail(Tail(Files(e))), <<>>}
       /\ pc[e] \in {"load", "ask", "create", "confirm", "failed", "threw"} => left[e] = Files(e)
       /\ pc[e] = "done" => left[e] = <<>>

(***************************************************************************)
(* An exporter that has its road network gives up only if the directory    *)
(* cannot be created or was taken away: any number of exporters that find  *)
(* it missing and create it at the same time do not get in each other's    *)
(* way.                                                                    *)
(***************************************************************************)
FailsForAReason ==
  (\E e \in Exporters : pc[e] = "threw") => ~creatable \/ removals > 0

(***************************************************************************)
(* An exporter that says it has finished has left its files, or somebody   *)
(* else's of the same name, in the directory, whoever created that and     *)
(* whoever else was killed; unless the directory was taken away, is a      *)
(* plain file, or the name of the files leads astray: then nobody is told. *)
(***************************************************************************)
ExportIsThere ==
  \A e \in Exporters \ astray :
    pc[e] = "done" /\ removals = 0 /\ dir = "dir" =>
      \A ext \in ToSet(Files(e)) : disk[ext] \in Exporters

(***************************************************************************)
(* The files of different exporters get mixed only if one was writing      *)
(* while another was half done, or was killed half done.                   *)
(***************************************************************************)
PairsMatch ==
  \A e \in Exporters :
    pc[e] = "done" /\ disk["obj"] = e /\ ~overlap =>
      \A ext \in ToSet(Files(e)) : disk[ext] = e
=============================================================================
