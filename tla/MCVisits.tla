------------------------------- MODULE MCVisits --------------------------------
EXTENDS Visits

MCCares == {[clicks |-> 2, troubles |-> 0], [clicks |-> 1, troubles |-> 1]}
\* One price has one of the lookup keys, or none has.
MCKeyings == {[monthly |-> m, pro |-> q] : <<m, q>> \in {<<NoPrice, NoPrice>>, <<"b", NoPrice>>, <<NoPrice, "b">>}}
MCWants == [legal |-> {1}, plain |-> {1, 2}]
MCBudgets == {[more |-> 1, acts |-> 1, faults |-> 1]}
\* Two runs, the second a follow-up of the first.
MCFollows == {<<"r2", "r1">>}
\* A folder with a folder in it, and two files beside it.
MCOrder == <<"a", "b", "f", "g">>
MCFirstPlace == [i \in {"a", "b", "f", "g"} |-> IF i = "b" THEN "a" ELSE "root"]
\* A directory that is given out in two portions and holds another, an empty one, and two files
\* of one name, size and time.
MCParts == [d |-> <<{"x", "e"}, {"y"}>>, e |-> <<{"z"}>>, v |-> <<>>]
MCNameOf == [n \in Disk |-> IF n \in {"w", "u"} THEN "x" ELSE n]
MCStamp == [n \in Disk |-> IF n \in {"x", "w", "u"} THEN 1 ELSE 2]
MCDrops == {{"d"}, {"d", "w"}, {"v"}, {"w", "u"}, {"v", "u"}}
MCFolder == <<"here">>
\* An upload, an older file of its name with fewer matches, and a file without a text.
MCDocName == [v \in Docs |-> IF v = "other" THEN "b" ELSE "a"]
MCMatches == [v \in Docs, q \in Queries |->
    (IF q = "wide" THEN 1 ELSE 0) + (IF v = "twin" THEN 0 ELSE 2)]
================================================================================
