------------------------------- MODULE MCFileOps -------------------------------
(* An instance of FileOps: two directories with two names in them, one of them *)
(* a directory as well, and the bridge's own directory beside them.            *)
EXTENDS FileOps, TLC

CONSTANTS t1, t2

MCTempName == "a" :> "a.tmp" @@ "b" :> "b.tmp" @@ ".bridge" :> ".bridge.tmp"

Inside(d) == {d} \cup {Append(d, name) : name \in {"a", "b", "a.tmp", "b.tmp"}}

MCPath == Inside(<<"a">>) \cup Inside(<<"b">>) \cup Inside(<<"b", "a">>)
            \cup {<<"a.tmp">>, <<"b.tmp">>}
            \cup {<<".bridge">>, <<".bridge", "a">>, <<".bridge", "a.tmp">>}

MCDeny == {<<".bridge">>}

MCInitialDirs == {<<"a">>, <<".bridge">>}

MCInitialFiles == <<"a", "a">> :> 11 @@ <<"b">> :> 12 @@ <<".bridge", "a">> :> 13
=============================================================================
