------------------------------- MODULE MCDeploy -------------------------------
(***************************************************************************)
(* Instances of Deploy: up to three packages and one server.               *)
(***************************************************************************)
EXTENDS Deploy

CONSTANTS i1, i2, u1, u2

MCPackage == {"a", "b", "c"}
MCServer == {"curds"}
MCNotFound == {<<<<"curds", "a">>, <<"curds", "b">>>>}

\* Two processors: two threads in each of the services
MCServiceOf == [w \in {i1, i2, u1, u2} |-> IF w \in {i1, i2} THEN "installer" ELSE "uploader"]
MCWorker == DOMAIN MCServiceOf

\* One processor
MCSingle == [w \in {i1, u1} |-> IF w = i1 THEN "installer" ELSE "uploader"]
MCSingleWorker == DOMAIN MCSingle

=============================================================================
