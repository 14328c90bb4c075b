------------------------------- MODULE MCCli -------------------------------
EXTENDS Cli, TLC

CONSTANTS p1, p2, c1, c2
Symmetry == Permutations(Procs) \cup Permutations(Clients)

Cmd(do, arg) == [NoCommand EXCEPT !.do = do, !.arg = arg]
Start(arg, version) == [Cmd("start", arg) EXCEPT !.version = version,
                                                 !.file = {[base |-> arg, ext |-> ""]}]
Ids ==
  (<<<<"a">>, "latest">> :> <<"b", "a">>) @@ (<<<<"a">>, "1">> :> <<"a", "a">>) @@
  (<<<<"a", "b">>, "1">> :> <<"a", "b">>) @@ (<<<<"b">>, "latest">> :> <<"b", "b">>) @@
  (<<<<"x">>, "latest">> :> <<"x", "x">>) @@ (<<<< >>, "">> :> <<"x", "b">>)
Row(name, version, status) ==
  [id |-> Ids[<<name, version>>], name |-> name, version |-> version, status |-> status]
Wd == <<[base |-> <<"home">>, ext |-> ""]>>
Dir(name) == Append(Wd, [base |-> name, ext |-> ""])
Lua(name) == Append(Wd, [base |-> name, ext |-> "lua"])

NoFiles == [dirs |-> {Wd}, files |-> {}]

(* The commands of the daemon, without one and with one. *)
Processes(up) ==
  [up |-> up, given |-> 1, fs |-> NoFiles, rows |-> {Row(<<"a">>, "latest", "active")},
   menu |-> {Cmd(do, << >>) : do \in {"daemonStart", "daemonStop"}}]

(* A daemon with workflows whose names and ids are alike: "a" names two and   *)
(* begins the ids of two, "b" begins one id and names a workflow once it is   *)
(* started.                                                                   *)
Selecting ==
  [up |-> TRUE, given |-> 1, fs |-> [dirs |-> {Wd}, files |-> {Lua(<<"a">>), Lua(<<"b">>)}],
   rows |-> {Row(<<"a">>, "latest", "active"), Row(<<"a">>, "1", "active"),
             Row(<<"a", "b">>, "1", "stopped")},
   menu |-> {Cmd("run", <<"a">>), Cmd("run", <<"b">>), Cmd("stop", <<"a", "b">>),
             Cmd("delete", <<"b">>), Cmd("restart", <<"a", "a">>),
             [Start(<<"b">>, "latest") EXCEPT !.file = {[base |-> <<"b">>, ext |-> "lua"]}]}]

(* No daemon, and some of the files a target can mean. *)
X == <<"x">>
Inside(name) == Append(Dir(X), name)
Layouts ==
  {[dirs |-> {Wd} \cup dirs, files |-> files] :
     dirs \in {{}, {Dir(X)}}, files \in SUBSET {Lua(X), Append(Wd, LumnLua)}}
  \cup {[dirs |-> {Wd}, files |-> {Dir(X)} \cup files] : files \in SUBSET {Lua(X)}}
  \cup {[dirs |-> {Wd, Dir(X)} \cup more, files |-> files] :
          more \in {{}, {Append(Wd, Shared)}},
          files \in SUBSET {Inside(InitLua), Inside(LumnLua), Lua(X)}}
Resolving ==
  {[up |-> FALSE, given |-> 1, fs |-> layout, rows |-> {},
    menu |-> {Cmd("daemonStatus", << >>), Cmd("run", X), Cmd("run", << >>), Start(X, "latest"), Cmd("start", << >>),
              [Cmd("run", << >>) EXCEPT !.file = {[base |-> X, ext |-> ""]}],
              [Cmd("run", << >>) EXCEPT !.file = {[base |-> X, ext |-> "lua"]}]}] :
     layout \in Layouts}

(* A daemon, and a client that can only stop it. *)
Stopping == {[Processes(TRUE) EXCEPT !.menu = {Cmd("daemonStop", << >>)}]}

MCSituations == {Processes(TRUE), Processes(FALSE), Selecting} \cup Resolving
=============================================================================
