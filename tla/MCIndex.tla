------------------------------- MODULE MCIndex -------------------------------
(***************************************************************************)
(* An index with two versions of one package, in both formats, and a       *)
(* source archive named after its branch.                                  *)
(***************************************************************************)
EXTENDS Index

CONSTANTS w1, w2, r1

MCPackage == {"a"}
MCVersion == {1, 2}
MCName == {"a-1.whl", "a-1.tar.gz", "a-2.tar.gz", "master.tar.gz"}
MCWheel == {"a-1.whl"}

MCKeyOf ==
    [n \in MCName |->
        CASE n = "master.tar.gz" -> None
          [] n = "a-2.tar.gz" -> <<"a", 2>>
          [] OTHER -> <<"a", 1>>]

Ask(allows, fmt) == [pkg |-> "a", allows |-> allows, fmt |-> fmt]

MCQuery == {Ask({1, 2}, "whl"), Ask({1}, "~whl"), Ask({1, 2}, "")}
MCWriter == {w1, w2}
MCReader == {r1}
=============================================================================
