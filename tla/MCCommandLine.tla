---------------------------- MODULE MCCommandLine ----------------------------
(***************************************************************************)
(* Two versions of a that share a file, a package spelled with _ and one   *)
(* it shares a file with; files that include each other; every command.    *)
(***************************************************************************)
EXTENDS CommandLine, TLC

MCNameOf == "a-1" :> "a" @@ "a-2" :> "a" @@ "my_b-1" :> "my_b" @@ "c-1" :> "c"
MCDist == DOMAIN MCNameOf
MCInstalled == {{}, {"c-1", "my_b-1"}, {"a-1", "a-2", "c-1"}}
MCCode == "a-1" :> <<"a.py">> @@ "a-2" :> <<"a.py">> @@ "my_b-1" :> <<"b.py", "tests.py">>
          @@ "c-1" :> <<"c.py", "tests.py">>
MCMetadata == [d \in MCDist |-> d \o "/METADATA"]
MCRecord == [d \in MCDist |-> d \o "/RECORD"]

MCSpelling == {"a", "my_b", "my-b", "c", "setuptools"}
MCSafe == [n \in MCSpelling |-> IF n = "my_b" THEN "my-b" ELSE n]
MCLines == "main.txt" :> <<"#", "base.txt", "a">> @@ "base.txt" :> <<"my_b">>
           @@ "one.txt" :> <<"c", "two.txt">> @@ "two.txt" :> <<"one.txt">>
           @@ "empty.txt" :> <<>> @@ "broken.txt" :> <<"absent.txt">> @@ "absent.txt" :> None
MCFile == DOMAIN MCLines

MCImports ==
    "." :> ("main.py" :> <<<<"a", "c">>, <<>>, <<"sys">>>> @@ "lib.py" :> <<<<"sys">>, <<"b">>>>)
        @@ "other" :> ("main.py" :> <<<<"c">>>> @@ "extra.py" :> <<>>)
        @@ "copy" :> ("main.py" :> <<<<"a", "c">>, <<>>, <<"sys">>>> @@ "lib.py" :> <<<<"c">>>>)

Install(args, requirements, tarballs, quiet) ==
    [command |-> "install", args |-> args, requirements |-> requirements,
     tarballs |-> tarballs, quiet |-> quiet]
Uninstall(args, requirements) ==
    [command |-> "uninstall", args |-> args, requirements |-> requirements]

MCCommand ==
    {Install(<<"a">>, <<>>, {}, FALSE), Install(<<"a">>, <<"main.txt">>, {}, TRUE),
     Install(<<>>, <<"one.txt">>, {}, FALSE), Install(<<>>, <<"empty.txt", "broken.txt">>, {}, FALSE),
     Install(<<>>, <<"absent.txt">>, {}, FALSE), Install(<<"setuptools">>, <<>>, {}, FALSE),
     Install(<<"c">>, <<"base.txt">>, {}, FALSE), Install(<<>>, <<>>, {"my_b"}, FALSE), Install(<<>>, <<>>, {"c"}, FALSE),
     Uninstall(<<"a">>, <<>>), Uninstall(<<"c", "c">>, <<"empty.txt">>),
     Uninstall(<<"my_b", "c">>, <<>>), Uninstall(<<"a">>, <<"main.txt">>)}
    \cup {[command |-> "freeze", root_path |-> d] : d \in DOMAIN MCImports}
=============================================================================
