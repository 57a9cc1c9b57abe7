------------------------------ MODULE ThreadCopies ------------------------------
(***************************************************************************)
(* What the chat store promises of a tab's copies of threads: a copy never *)
(* goes back to an earlier state of its thread.  A tab may forget a copy   *)
(* (it then holds state 0), and takes a new one of any state reached.      *)
(***************************************************************************)
EXTENDS Naturals

CONSTANTS Readers, Threads

VARIABLES
    version,   \* writes to each thread so far
    held       \* the version each reader holds of each thread

Init ==
    /\ version = [c \in Threads |-> 0]
    /\ held = [t \in Readers |-> [c \in Threads |-> 0]]

Write(c) ==
    /\ version' = [version EXCEPT ![c] = @ + 1]
    /\ UNCHANGED held

Read(t, c) ==
    /\ \E v \in held[t][c]..version[c] : held' = [held EXCEPT ![t][c] = v]
    /\ UNCHANGED version

Forget(t, kept) ==
    /\ held' = [held EXCEPT ![t] = [c \in Threads |-> IF c \in kept THEN held[t][c] ELSE 0]]
    /\ UNCHANGED version

Next ==
    \/ \E c \in Threads : Write(c)
    \/ \E t \in Readers, c \in Threads : Read(t, c)
    \/ \E t \in Readers, kept \in SUBSET Threads : Forget(t, kept)

Spec == Init /\ [][Next]_<<version, held>>
================================================================================
