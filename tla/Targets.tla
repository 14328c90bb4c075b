------------------------------ MODULE Targets ------------------------------
(***************************************************************************)
(* Which file a target or a selector of the command line means, and which  *)
(* directory is its workspace: internal/engine/engine.go, ResolveTarget,   *)
(* ResolveLocalSelector and what they call.                                *)
(*                                                                         *)
(* A path is a sequence of file names, a file name a base (a sequence of   *)
(* characters) and an extension; fs has the files and the directories that *)
(* exist.  An error of Stat other than "does not exist" is left out.       *)
(***************************************************************************)
EXTENDS Integers, Sequences, SequencesExt, FiniteSetsExt

NoExt == ""
FileNames == [base : Seq(STRING), ext : STRING]
InitLua == [base |-> <<"init">>, ext |-> "lua"]
LumnLua == [base |-> <<"lumn">>, ext |-> "lua"]
Shared  == [base |-> <<"_shared">>, ext |-> NoExt]
Markers == {[base |-> <<"lumn">>, ext |-> "lock"],
            [base |-> <<"lumn.config">>, ext |-> "lua"],
            [base |-> <<"lumn.config.dev">>, ext |-> "lua"]}

IsDir(fs, path) == path \in fs.dirs
Exists(fs, path) == path \in fs.dirs \cup fs.files
Parent(path) == IF path = << >> THEN path ELSE Front(path)

(* A tree: a file is in a directory, and no directory is named like one of    *)
(* Lua.                                                                       *)
IsTree(fs) ==
  /\ fs.dirs \cap fs.files = {}
  /\ \A path \in fs.dirs : path # << >> => Last(path).ext # "lua"
  /\ \A path \in fs.files : path # << >> /\ Parent(path) \in fs.dirs

NoTarget == [path |-> << >>, entry |-> << >>, workspace |-> << >>, name |-> << >>]
-----------------------------------------------------------------------------
HasWorkspaceMarker(fs, dir) ==
  \/ \E marker \in Markers : Exists(fs, Append(dir, marker))
  \/ IsDir(fs, Append(dir, Shared))

(* The nearest directory above with a marker, else the parent.                *)
InferWorkspaceDir(fs, dir) ==
  LET marked == {k \in 0..Len(dir) : HasWorkspaceMarker(fs, SubSeq(dir, 1, k))}
  IN IF marked = {} THEN Parent(dir) ELSE SubSeq(dir, 1, Max(marked))

(* Mutant of Entrypoints: the other one first.                                *)
EntrypointsReversed == <<LumnLua, InitLua>>

(* The candidates of resolveDirectoryEntrypoint, in their order.              *)
Entrypoints == <<InitLua, LumnLua>>

ResolveDirectoryTarget(fs, dir) ==
  LET present == {k \in DOMAIN Entrypoints : Exists(fs, Append(dir, Entrypoints[k]))}
  IN IF present = {} THEN NoTarget
     ELSE [path |-> dir, entry |-> Append(dir, Entrypoints[Min(present)]),
           workspace |-> InferWorkspaceDir(fs, dir), name |-> Last(dir).base]

ResolveFileTarget(fs, path) ==
  IF ~Exists(fs, path) THEN NoTarget
  ELSE IF IsDir(fs, path) THEN ResolveDirectoryTarget(fs, path)
  ELSE [path |-> path, entry |-> path,
        workspace |-> InferWorkspaceDir(fs, Parent(path)),
        name |-> Last(path).base]

(* Of a path; without one, ./lumn.lua under the name of the directory.        *)
ResolveTarget(fs, path) == ResolveFileTarget(fs, path)
ResolveDefaultTarget(fs, cwd) ==
  LET target == ResolveFileTarget(fs, Append(cwd, LumnLua))
  IN IF target = NoTarget THEN NoTarget ELSE [target EXCEPT !.name = Last(cwd).base]

(* A directory without an entry point is passed over, not an error.           *)
ResolveLocalSelector(fs, cwd, input) ==
  LET path == Append(cwd, input)
      directory == ResolveDirectoryTarget(fs, path)
  IN IF IsDir(fs, path) /\ directory # NoTarget THEN directory
     ELSE IF Exists(fs, path) /\ ~IsDir(fs, path) THEN ResolveFileTarget(fs, path)
     ELSE IF input.ext = "lua" THEN NoTarget
     ELSE ResolveFileTarget(fs, Append(cwd, [input EXCEPT !.ext = "lua"]))
=============================================================================
