---------------------------- MODULE MCCacheServer ----------------------------
(***************************************************************************)
(* Two clients, two curdling servers and one index.  The archive of b is   *)
(* only on the home page of a, and the page that names it redirects there; *)
(* the home page of c and the page of d redirect for ever.                 *)
(***************************************************************************)
EXTENDS CacheServer

CONSTANTS c1, c2, f1, f2, f3

MCPackage == {"a", "b", "c", "d"}
MCVersion == {1, 2}
MCAllows == "a (< 2)" :> {1} @@ "a (> 1)" :> {2} @@ "a (> 2)" :> {} @@ [p \in MCPackage |-> MCVersion]
MCRequirement == DOMAIN MCAllows
MCPkgOf == [r \in DOMAIN MCAllows |-> IF r \in MCPackage THEN r ELSE "a"]

\* c1 and c2 have different platforms
Tag == c1 :> "-py2.whl" @@ c2 :> "-py3.whl"
MCWheelOf == [c \in {c1, c2} |-> [x \in MCPackage \X MCVersion |->
                 x[1] \o "-" \o ToString(x[2]) \o Tag[c]]]
MCWheel == UNION {Range(MCWheelOf[c]) : c \in {c1, c2}}
Built == [w \in MCWheel |->
             CHOOSE x \in MCPackage \X MCVersion : \E c \in {c1, c2} : MCWheelOf[c][x] = w]
MCDescribes ==
    Built @@ "a-1.tar.gz" :> <<"a", 1>> @@ "a-2.zip" :> <<"a", 2>>
          @@ "b-1.zip" :> <<"b", 1>> @@ "a-2.win32.zip" :> None
MCArchive == DOMAIN MCDescribes

MCLinks ==
    "a/" :> <<"a-1.tar.gz", "home">>
        @@ "home" :> <<"a-2.zip", "b-1.zip", "a/">>
        @@ "b-x/" :> <<>> @@ "b_x/" :> <<>> @@ "b/" :> <<"a-2.win32.zip", "home">>
        @@ "c/" :> <<"loop">> @@ "loop" :> <<>> @@ "d/" :> <<>>
MCPage == DOMAIN MCLinks
MCLocation == "b_x/" :> "b/" @@ "loop" :> "d/" @@ "d/" :> "loop" @@ [p \in MCPage |-> None]
MCSpellings ==
    "pypi" :> ("a" :> <<"a/">> @@ "b" :> <<"b-x/", "b_x/">> @@ "c" :> <<"c/">>
              @@ "d" :> <<"d/">>)

MCCurds == <<"curds", "team">>
MCIndexes == <<"pypi">>

MCClient == {c1, c2}
MCClientOf == f1 :> c1 @@ f2 :> c1 @@ f3 :> c2
MCThread == DOMAIN MCClientOf
\* What c1 and c2 want, and what c1 has already
Case(w1, w2, have) == [wants |-> c1 :> w1 @@ c2 :> w2, local |-> c1 :> have @@ c2 :> {}]
MCRuns == {Case({"a", "a (< 2)"}, {}, {}),
           Case({"a (< 2)", "b"}, {}, {}),
           Case({"a"}, {"a (< 2)"}, {}),
           Case({"a (< 2)"}, {"a (< 2)"}, {"a-2-py2.whl"}),
           Case({"a (> 1)", "a (< 2)"}, {"d"}, {"a-2-py2.whl"}),
           Case({"a", "c"}, {"a (> 2)", "a (< 2)"}, {"a-2-py2.whl"})}

MCStock == "curds" :> <<"d-1-py2.whl">> @@ "team" :> <<>>

\* A later line overrides an earlier one: the password c2 knows is no longer good
MCUserDB == "curds" :> None @@ "team" :> <<<<"u", "x">>, <<"u", "y">>>>
MCLogin == [s \in Range(MCCurds) |-> c1 :> <<"u", "new">> @@ c2 :> <<"u", "old">>]
MCcrypt == "old" :> "x" @@ "new" :> "y"
MCAdmits == "curds" :> MCClient @@ "team" :> {c1}
=============================================================================
