------------------------------- MODULE MCChatPage -------------------------------
(* ChatPage in one tab or two, with or without a message left by the older release. *)
EXTENDS ChatPage

CONSTANTS t1, t2, old, new

OneMessage == << <<"user", 0>> >>

Bound(tabs, s, p, f, o) == [open |-> tabs, sends |-> s, panels |-> p, faults |-> f, old |-> o]

Small ==
    {Bound({t1}, 1, 1, 1, FALSE), Bound({t1}, 2, 0, 0, FALSE), Bound({t1}, 0, 1, 1, TRUE),
     Bound({t1, t2}, 1, 0, 0, FALSE), Bound({t1, t2}, 0, 1, 0, FALSE), Bound({t1, t2}, 0, 0, 2, TRUE)}
================================================================================
