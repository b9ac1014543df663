-------------------------- MODULE MCRetrieveAndBuild --------------------------
(***************************************************************************)
(* A small index for RetrieveAndBuild.  Package `a' depends on `b' twice   *)
(* over, `b' on `a' (a cycle) and on the blacklisted `setuptools'.         *)
(***************************************************************************)
EXTENDS RetrieveAndBuild, TLC

CONSTANTS f1, f2, d1, c1, c2, p1, p2

MCPackage == {"a", "b", "setuptools", "http://b-2.tar.gz"}
MCVersion == {1, 2}
MCRequirement == {"a", "b", "b (1)", "b (2)", "setuptools", "http://b-2.tar.gz"}

MCPkgOf ==
    [r \in MCRequirement |-> IF r \in {"b (1)", "b (2)"} THEN "b" ELSE r]

MCAllows ==
    [r \in MCRequirement |->
        CASE r = "b (1)" -> {1}
          [] r = "b (2)" -> {2}
          [] OTHER -> MCVersion]

F(p, v, f) == [pkg |-> p, ver |-> v, fmt |-> f]

MCLink ==
    [r \in MCRequirement |->
        IF r = "http://b-2.tar.gz" THEN F("b", 2, "tar") ELSE None]

MCRemote == {F("a", 1, "tar"), F("b", 1, "whl"), F("b", 2, "tar")}

MCCached == {F("a", 1, "whl")}

\* Dependencies of the files of each package and version, whoever asks for them.
\* An extra of `a' names `b' once more; `b' and `b (2)' lead to the same file.
NeededBy(r, v, needs) ==
    CASE r = "a" -> needs
      [] r \notin {"a", "setuptools"} /\ v = 2 -> <<"a", "setuptools">>
      [] OTHER -> <<>>

MCRequires ==
    [r \in MCRequirement |-> [v \in MCVersion |->
        NeededBy(r, v, <<"b", "b (2)", "b">>)]]

\* Three requirements that no version meets
MCUnmeetable ==
    [r \in MCRequirement |-> [v \in MCVersion |->
        NeededBy(r, v, <<"b", "b (2)", "b (1)">>)]]

MCCommandLines == {<<"a">>, <<"b", "a">>, <<"http://b-2.tar.gz">>}

\* The command line names a package next to the URL that brings its file
MCNextToURL == {<<"http://b-2.tar.gz", "b (2)", "a">>}

\* Two threads in the services that 16 processors give two threads to
MCServiceOf ==
    [w \in {f1, f2, d1, c1, p1, p2} |->
        CASE w \in {f1, f2} -> "finder"
          [] w = d1 -> "downloader"
          [] w = c1 -> "curdler"
          [] w \in {p1, p2} -> "dependencer"]

MCWorker == DOMAIN MCServiceOf
MCBlacklist == {"setuptools"}

\* The pools of 4 to 7 processors: one finder and one dependencer.  Without a URL
\* the finder alone feeds the downloader.
MCSingle ==
    [w \in {f1, d1, c1, c2, p1} |->
        CASE w = f1 -> "finder"
          [] w = d1 -> "downloader"
          [] w \in {c1, c2} -> "curdler"
          [] w = p1 -> "dependencer"]

MCSingleWorker == DOMAIN MCSingle
MCNames == {<<"a">>, <<"b", "a">>, <<"setuptools">>}

\* The threads of one pool are alike
MCSymmetry ==
    {f @@ p : f \in Permutations({f1, f2}), p \in Permutations({p1, p2})}
=============================================================================
