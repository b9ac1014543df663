------------------------------ MODULE Lifecycle ------------------------------
(***************************************************************************)
(* What "Retrieve and Build" promises, with no services, queues, counters  *)
(* or threads: every requirement that is filed gets exactly one result, or *)
(* is set aside before it has one, and the phase is over only when all the *)
(* filed requirements have theirs (docs/design-and-implementation.rst:     *)
(* "this initial cycle won't finish until we ensure that all the requested *)
(* requirements were processed").                                          *)
(***************************************************************************)
CONSTANT Requirement

VARIABLES
    filed,      \* requirements on file
    done,       \* those that got a wheel
    failed,     \* those that got an error
    over        \* has the phase ended?

vars == <<filed, done, failed, over>>

Waiting == filed \ (done \cup failed)

Init == filed = {} /\ done = {} /\ failed = {} /\ over = FALSE

File(r) ==
    /\ ~over /\ r \notin filed
    /\ filed' = filed \cup {r}
    /\ UNCHANGED <<done, failed, over>>

SetAside(r) ==
    /\ ~over /\ r \in Waiting
    /\ filed' = filed \ {r}
    /\ UNCHANGED <<done, failed, over>>

Finish(r) ==
    /\ ~over /\ r \in Waiting
    /\ done' = done \cup {r}
    /\ UNCHANGED <<filed, failed, over>>

Fail(r) ==
    /\ ~over /\ r \in Waiting
    /\ failed' = failed \cup {r}
    /\ UNCHANGED <<filed, done, over>>

End ==
    /\ ~over /\ Waiting = {}
    /\ over' = TRUE
    /\ UNCHANGED <<filed, done, failed>>

Next == End \/ \E r \in Requirement : File(r) \/ SetAside(r) \/ Finish(r) \/ Fail(r)

Spec == Init /\ [][Next]_vars
=============================================================================
